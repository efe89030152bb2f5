SPECIFICATION Spec
CONSTANTS
    s1 = s1
    s2 = s2
    t1 = t1
    Frames <- MCFrames
    Size <- MCSize
    Capacity = 4
    KeyframeInterval = 3
    InitialSlotBytes = 3
    PackedSizes = {1}
    MaxPushes = 8
INVARIANT NoDanglingDiffs
