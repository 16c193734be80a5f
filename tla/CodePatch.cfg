\* Every function of four instructions and a ret.
SPECIFICATION Spec
CONSTANTS
    Length = 4
    Programs <- CoveredPrograms
    Threshold = 2
    HotSlots = 3
    Probes = 2
    PoolBlocks = 2
    MaxRun = 2
INVARIANTS NoMidJump BlocksSound
PROPERTY ImplementsNative
