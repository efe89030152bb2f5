SPECIFICATION Spec
CONSTANTS
    a = a
    b = b
    d = d
    f = f
    g = g
    Tasks = {a, b, d}
    Boot = a
    Targets = {f, g}
    StackBase <- MCStackBase
    StackDepth = 3
    Slack = 1
    CallstackCap = 2
    ParkedCap = 1
    Wrap = 3
    Filters <- MCFilters
    SavedClocks = {1}
    CycleBound = 5
    HostBound = 2
INVARIANTS
    TypeOK
    StackFollowsTask
    ProfileIsOwnTime
    FramesAgree
