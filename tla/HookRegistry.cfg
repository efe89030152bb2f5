SPECIFICATION Spec
CONSTANTS
    Kinds = {"exec", "read", "write", "override", "spc"}
    Addrs = {0, 2}
    PageSize = 2
    Ranges <- MCRanges
    PageCap = 2
    Lines <- MCLines
    RingCap = 3
    HostBound = 3
INVARIANTS
    TypeOK
    Reachable
    TraceKeepsNewest
PROPERTIES
    DispatchIsComplete
