SPECIFICATION Spec
CONSTANTS
    Fan = 3
    Gibs = 2
    RamBase = 3
    Hhdm = 27
    KernelVbase = 54
    KernelPhys = 6
    DemoVa = 13
    SharedVa = 16
    Ram <- SmallRam
    TableFrames <- SmallTables
    Section <- SmallSection
    Plans <- SmallPlans
INVARIANTS Confined DirectMapWhole FramesConserved
PROPERTIES OnlyTargetChanges
CHECK_DEADLOCK FALSE
