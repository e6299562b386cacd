\* Two vCPUs and two tasks, of which the first spawns the other: every vCPU can
\* be the one that runs, halts, is launched or is woken.  The system may stop:
\* with every task waiting and no timeout, the kernel panics.
CONSTANTS
  MAX_APS_COUNT = 2
  Task = {t1, t2}
  InitTask = t1
SPECIFICATION FairSpec
INVARIANTS TasksHeld VcpusServe TimeSkipsOnlyWhenIdle NoLostWake
PROPERTY WokenTaskPolled
CHECK_DEADLOCK FALSE
