SPECIFICATION Spec
CONSTANTS
    Dexes = {d1}
    WithMain = {d1}
    Addresses = {a1, a2}
    Junk = Junk
    Classes = {k1, k2}
    Methods = {m1}
    Callers = {c1}
    SIZE = 2
    MayCutShort = FALSE
    NoAddress = NoAddress  NoClass = NoClass  NoMethod = NoMethod
INVARIANT InvocationReachesCallback
