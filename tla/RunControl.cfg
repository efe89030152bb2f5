SPECIFICATION Spec
CONSTANTS
    p = p
    q = q
    PCs = {p, q}
    NoPC = NoPC
    CpuPoints <- MCCpuPoints
    SmpPoints = {p}
    PointBound = 1
    SliceBound = 2
    FrameBound = 1
    SpinCap = 2
INVARIANTS
    TypeOK
    HooksServeCallbacks
    HeldIsResumed
    BreakpointStopsTheCpu
PROPERTIES
    UntilHitIsAtTarget
    StepRunsOneInstruction
    SavesAtSafePoints
    CallsReturn
