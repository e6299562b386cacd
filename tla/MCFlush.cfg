CONSTANTS
  VCPU = {0, 1}
  Flusher = {0, 1}
  Watched = 0
  Cpus = 2
  Collectors = 2
  PROFILER_ENTRIES = 4
  CALL_STACK_CAPACITY = 1
  Functions = {"f"}
SPECIFICATION FlushSpec
INVARIANTS ShootdownSound ProfilerSound
PROPERTY SpinsEnd
CHECK_DEADLOCK FALSE
