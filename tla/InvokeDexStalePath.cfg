SPECIFICATION Spec
CONSTANTS
    Dexes = {d1, d2}
    WithMain = {d1, d2}
    Addresses = {a1}
    Junk = Junk
    Classes = {k1, k2}
    Methods = {m1}
    Callers = {c1}
    SIZE = 1
    MayCutShort = FALSE
    NoAddress = NoAddress  NoClass = NoClass  NoMethod = NoMethod
INVARIANT OnInjectCalled
