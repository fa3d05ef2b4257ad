SPECIFICATION VmSpec
CONSTANTS
    Layout <- MCLayout
    Null = 0
    Idx = 1
    Depth = 1
    CLASS_BITS_PER_WORD = 4
    HB_BITS_PER_WORD = 4
    Young <- MCYoung
    MutableLocs <- MCMutableLocs
    Linking <- MCLinking
    GC_CARD_SIZE = 32
    BoxingPhases = {"idle", "sweep"}
    Methods = {1, 2}  Registers <- TwoRegisters  Ins <- TwoIns  Outs <- TwoOuts
    StackSize = 24  STACK_OVERFLOW_RESERVE = 12  Computed = {0, 1}
    BYTE = 4  Widths = {1, 2, 4, 8}  Characters = {1, 2}  BufLen = 2  MaxFields = 2  MaxText = 3
    FieldType <- InstanceFields  StaticType <- StaticFields  ObjectSize = 40
    Volatile = {28, 32}
CHECK_DEADLOCK FALSE
INVARIANTS
    VmTypeOK VisitsTheReferences CollectionSound StackSound PacketsSound FieldsSound
