SPECIFICATION FairSpec
CONSTANTS
  s1 = s1
  Slot = {s1}
  VCPU <- MCVcpu
  EMPTY = EMPTY
  Nobody = Nobody
  ALLOCATIONS = 1
  CAPACITY = 1
  Workloads <- MCMemory
PROPERTY WaitEnds
CHECK_DEADLOCK FALSE
