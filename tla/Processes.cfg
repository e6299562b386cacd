\* Processes on its own, under the fairness of the executor: does a group whose
\* exit status is set terminate?
CONSTANTS
    Process = {p1, p2}
    Pid1 = p1
    Thread = {t1, t2, t3}
    First = t1
    Nobody = Nobody
    MaxExec = 0
SPECIFICATION FairSpec
PROPERTY GroupTerminates
CHECK_DEADLOCK FALSE
