SPECIFICATION Spec
CONSTANTS
    small = small
    large = large
    Roms = {small, large}
    NoRom = NoRom
    RomSize <- MCRomSize
    Addrs = {0, 1}
    Entries = {0}
    Returns = {2}
    Names = {"name", "#name"}
    HashName = "#name"
    Regs = {"vmdata"}
    Flags = {1}
    Intervals = {2}
    Unreadable = {"labels"}
    LoadBound = 2
    EditBound = 2
    FaultBound = 1
INVARIANTS
    TypeOK
    CleanIsOnDisk
PROPERTIES
    UserMarksWin
    AutosaveRepairs
