CONSTANTS
    Cpus = {c1, c2}
    GROUPS = 1
    GROUP_SIZE = 2
    CHUNK_SIZE = 2
    Slots = {0, 1}
    Spaces = {s1, s2, s3}
    PCIDS = 3
    Pages <- MCPages
    Static <- MCStatic
    Vms = {a1, a2}
    PAGES = 3
    FRAMES = 2
    FILE_PAGES = 1
    MaxCalls = 2
    PAGE = 2
    Bytes = {1}
    MaxLen = 4
    Unused = Unused
SPECIFICATION MemorySpec
SYMMETRY Symmetry
INVARIANTS FramesSound TablesSound PcidsSound MappingsSound
PROPERTY BufferIsFile
CHECK_DEADLOCK FALSE
