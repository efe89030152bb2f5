SPECIFICATION Spec
CONSTANTS
    p1 = p1
    p2 = p2
    a1 = a1
    a2 = a2
    Shapes <- MCShapes
    Started = {p1}
    Accurate <- MCAccurate
    Sram <- MCSram
    Size <- MCSize
    Policy = "fit"
    Capacity = 3
    KeyframeInterval = 2
    InitialSlotBytes = 4
    MaxCatchup = 2
    Strides = {1, 2}
    MaxPushes = 4
    UserBound = 2
INVARIANTS
    TypeOK
    RingDecodes
PROPERTIES
    HoldEnds
    BreakpointHolds
