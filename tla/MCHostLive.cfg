SPECIFICATION FairSpec
CONSTANTS
  s1 = s1
  Slot = {s1}
  VCPU <- MCVcpu
  EMPTY = EMPTY
  ALLOCATIONS = 1
  CAPACITY = 1
  Workloads <- MCSeparate
  FinishReturns = FALSE
PROPERTIES WaitEnds PickedRuns VerdictReached
CHECK_DEADLOCK FALSE
