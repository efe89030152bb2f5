SPECIFICATION Spec
CONSTANTS
    RingFrames = 2
    Wrap = 4
    Requests = {1, 3}
    PushBound = 7
INVARIANTS
    TypeOK
    NoSharedCell
PROPERTIES
    NoStaleSamples
    ImplementsQueue
    FullDrains
