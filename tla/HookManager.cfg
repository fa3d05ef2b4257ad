SPECIFICATION Spec
CONSTANTS
    m1 = m1  m2 = m2
    Methods = {m1, m2}
    Threads = {t1, t2}
    Callers = {c1, c2}
    Callbacks = {cb1, cb2, cb3}
    Wrappers = {w1, w2, w3}
    Signature <- DistinctOverloads
    ResizingKeys <- GrowingKeys
    MaxAsked = 1
    NoMethod = NoMethod  NoThread = NoThread  NoWrapper = NoWrapper  NoCallback = NoCallback
INVARIANTS TypeOK NeverWrongCallback OriginalOfCallee CachedIsHooked
PROPERTIES WrapperIsOneMethod
SYMMETRY Symmetry
