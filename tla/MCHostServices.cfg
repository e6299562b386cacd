SPECIFICATION Spec
CONSTANTS
  s1 = s1
  Slot = {s1}
  VCPU <- MCVcpu
  EMPTY = EMPTY
  ALLOCATIONS = 1
  CAPACITY = 1
  Workloads <- MCEverything
  FinishReturns = TRUE
INVARIANTS ServicesSound NothingStranded FirstVerdictStands
