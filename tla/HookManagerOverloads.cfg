SPECIFICATION Spec
CONSTANTS
    m1 = m1  m2 = m2
    Methods = {m1, m2}
    Threads = {t1}
    Callers = {c1}
    Callbacks = {cb1, cb2}
    Wrappers = {w1, w2}
    Signature <- CollidingOverloads
    ResizingKeys = {}
    MaxAsked = 1
    NoMethod = NoMethod  NoThread = NoThread  NoWrapper = NoWrapper  NoCallback = NoCallback
INVARIANTS InvocationSeesCurrentCallback
