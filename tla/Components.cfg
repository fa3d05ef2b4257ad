SPECIFICATION ComponentsSpec
CONSTANTS
    WORDS = 4  BYTES = 2  References = {1, 2}  Letters = {"Z", "B", "I", "J", "L"}  MaxArgs = 3
    Threads = {1, 2}  Classes = {1, 2}  Super <- Chain2  NoClass = 0  MaxVersion = 6
    RefObjects = {1, 2}  max_entries = 4  SERIALS = 3  MaxSegments = 1
    MaxStrings = 2  MaxTypes = 2  MaxSets = 2  MaxInsns = 2
    Pids = {1, 2}  Sessions = {s1, s2}  IsSystemServer = FALSE
    MaxTime = 1  MaxInstalls = 1  MaxLife = 1
    d1 = d1  d2 = d2  d3 = d3  d4 = d4  d5 = d5
    Dexes = {d1, d2, d3, d4, d5}  Ships <- Apks  Loaders = {k1, k2, k3}
    NoDex = NoDex  NoLoader = NoLoader
    AddressSpace = 6  Fixed = 1  Functions = {"dlopen", "dlsym"}  Offset <- LinkerOffset
    Segments = 2  NoFunction = NoFunction
SYMMETRY Symmetry
CHECK_DEADLOCK FALSE
INVARIANTS
    ComponentsTypeOK CallSeen LookupIsRight ReferencesResolve DexItemsFound
    PidWasTarget CopyCurrent ChainSound RemoteAddressRight
PROPERTIES TargetNotMissed ChainKept
