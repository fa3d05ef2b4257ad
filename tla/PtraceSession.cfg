SPECIFICATION Spec
CONSTANTS
    Injectors = {i1, i2}
    MayDie = {i2}
    Signals = {s1, s2}
    StackTops = {196, 200}
    Sizes = {5, 8}
    NoInjector = NoInjector
INVARIANTS
    TypeOK ResumesWhereInterrupted InjectionDoesNotCrash StackSurvives
    HookRuns NotLeftStopped
PROPERTIES InjectorEnds
CHECK_DEADLOCK FALSE
