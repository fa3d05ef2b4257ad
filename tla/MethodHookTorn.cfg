SPECIFICATION Spec
CONSTANTS
    t1 = t1  t2 = t2  g1 = g1  g2 = g2
    Methods = {m1}
    Installers = {t1, t2}
    Callers = {c1}
    Managers = {g1}
    ManagerOf <- OneManager
    Infos = {i1, i2}
    Bytecode = Bytecode
    NoMethod = NoMethod  NoThread = NoThread  Free = Free
INVARIANTS InvocationsRunCode
