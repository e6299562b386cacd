CONSTANTS
    User = {u1, u2, u3, u4}
    LIMIT = 4
    Slot = {s1}
    EMPTY = EMPTY
    ALLOCATIONS = 1
    CAPACITY = 1
    Nobody = Nobody
    Unused = Unused
    Tee = {"snp", "tdx", "insecure"}
    PAGE = 2
    Bytes = {0, 1}
    InitFrame = 20
    InitFrames = 4
    InputFrame = 30
    InputFrames = 6
    MaxWrites = 2
    MaxChanges = 1
    Sleeper = {z1, z2}
    MaxTime = 3
    MaxHeap = 4
    BITMAP_SIZE = 4
    BYTE = 2
    MAX = 15
SPECIFICATION PlatformSpec
INVARIANT LockSound
INVARIANTS ReportsTruthful HonestRunsAccepted ProgramsLoaded ServicesSound SlotsAgree
PROPERTY TimeKept
CHECK_DEADLOCK FALSE
