SPECIFICATION GCSpec
CONSTANTS
    Layout <- MCLayout
    Null = 0
    Idx = 1
    Depth = 1
    CLASS_BITS_PER_WORD = 4
    HB_BITS_PER_WORD = 4
    Young <- MCYoung
    MutableLocs <- MCMutableLocs
    Linking <- MCLinking
    GC_CARD_SIZE = 8
    BoxingPhases = {"idle", "mark", "sweep"}
INVARIANT TrackedArrayHoldsBoxes
