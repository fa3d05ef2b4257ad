SPECIFICATION Spec
CONSTANTS
    Dexes = {d1, d2}
    WithMain = {d1}
    Addresses = {a1, a2, a3}
    Junk = Junk
    Classes = {k1, k2, k3}
    Methods = {m1}
    Callers = {c1}
    SIZE = 2
    MayCutShort = TRUE
    NoAddress = NoAddress  NoClass = NoClass  NoMethod = NoMethod
INVARIANTS TypeOK TableSound NativesInPlace OnInjectOnce ReinjectionHarmless
CONSTRAINT CallersOrOverrun
SYMMETRY Symmetry
CHECK_DEADLOCK FALSE
