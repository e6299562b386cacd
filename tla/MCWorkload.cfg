CONSTANTS
    Thread = {t0, t1, t2}
    Member = {t1, t2}
    Dirs = {root, d1, d2, d3}
    d1 = d1
    d2 = d2
    d3 = d3
    f = f
    sym = sym
    Root = root
    Others = {f}
    Links = {sym}
    Mounts <- MCMounts
    Pids = {"1"}
    Self = "1"
    Fds = {"0"}
    ExePath <- MCExePath
    Targets <- MCTargets
    Names = {"a", "b"}
    RECURSION_LIMIT = 2
    Process = {p1, p2}
    Pid1 = p1
    First = t0
    Nobody = Nobody
    MaxExec = 1
    Sender = {x}
    Sig = {"KILL", "STOP", "CONT", "USR1", "ALRM", "SEGV"}
    Sent = {"KILL", "STOP", "CONT", "USR1"}
    Handled = {"USR1"}
    Masks <- MCMasks
    Actions <- MCActions
    None = None
    Unused = Unused
    MaxDepth = 2
    MaxEvents = 4
    Value = {0, 1}
    Bitset <- MCBitset
    MaxList = 2
    Uid = {0, 1, 2}
    Gid = {0, 1}
    Modes <- MCModes
    UNCHANGED_ID = 9
    MaxCalls = 3
    MaxGroups = 2
SPECIFICATION WorkloadSpec
SYMMETRY Symmetry
INVARIANTS TreeAgrees ProcessesSound SignalsDelivered WaitersWoken IdsKept
CHECK_DEADLOCK FALSE
