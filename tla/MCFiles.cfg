CONSTANTS
    Thread = {t1, t2}
    Kinds <- MCKinds
    EpollKinds = {"seqpacket", "eventfd"}
    CAPACITY = 3
    PIPE_BUF = 2
    MAX = 3
    Lens <- MCLens
    MaxSent <- MCMaxSent
    Opener = {o1, o2, o3}
    MaxBuffer = 3
    Locker = {k1, k2}
    Opened = {x1, x2}
    CHUNK = 2
    MaxSize = 3
    Offsets = {1, 3}
    MaxDisturb = 1
    Names = {"a", "b", "c"}
    Room = {1, 3}
    MaxListed = 4
    Nobody = Nobody
    Nums <- MCNums
    Limits = {2, 3}
SPECIFICATION FilesSpec
SYMMETRY Symmetry
INVARIANTS StreamsAwake StreamsIntact FifoConnects LocksExclude EachOnce NumbersLowest
CHECK_DEADLOCK FALSE
