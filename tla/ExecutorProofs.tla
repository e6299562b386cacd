--------------------------- MODULE ExecutorProofs ---------------------------
(***************************************************************************)
(* Proofs about the executor for any number of vCPUs and tasks.  The       *)
(* inductive invariant is the conjunction of                               *)
(*   TypeOK, HeldOnce, OnePoller   where every scheduled or running task is *)
(*   NoLostWake                    what a wake leaves behind                *)
(*   Launching                     which vCPUs are up, and the next one     *)
(*   BitsHonoured, RunningHasBit   what the scheduler's bits stand for      *)
(*   NeverStranded, OnlyOneLeft    who is left when a vCPU goes idle        *)
(***************************************************************************)
EXTENDS Executor, TLAPS

(* c is inside Task::wake or schedule_vcpu. *)
Scheduling(c) == pc[c] \in {"push", "pick", "arm", "start"}

(* The first vCPU before it has finished launching. *)
Booting(c) == pc[c] = "boot" \/ (Scheduling(c) /\ ret[c] = "launch")

(* vCPUs 0 .. launched - 1 are up; vCPU launched is down, about to be       *)
(* started or coming up, and at most one request to start it is under way.  *)
StartUnderWay == is_launching /\ launched \in VCPU /\ pc[launched] = "off"
Launching ==
  /\ \A c \in VCPU : pc[c] = "launch" => is_launching /\ launched = c
  /\ \A c \in VCPU : Booting(c) => is_launching /\ launched = c /\ c = 0
  /\ \A c \in VCPU : pc[c] \notin {"off", "launch"} /\ ~Booting(c) => c < launched
  /\ \A c \in VCPU : pc[c] = "off" => launched <= c
  /\ starting => StartUnderWay
  /\ \A c \in VCPU : pc[c] = "start" => StartUnderWay /\ ~starting
  /\ \A c, d \in VCPU : pc[c] = "start" /\ pc[d] = "start" => c = d
  /\ \A c \in bits : c < launched \/ (is_launching /\ c = launched)
  /\ is_launching => launched \in bits

(* Only a vCPU that is down or halted may lack its bit. *)
RunningHasBit == \A c \in VCPU : pc[c] \notin {"off", "halted", "resume"} => c \in bits

(* While a vCPU skips time, every other one is down, halted, or about to    *)
(* find the queue empty.                                                    *)
OnlyOneLeft ==
  \A c \in VCPU : pc[c] \in {"advance", "panic"} =>
    /\ queue = <<>> /\ ~is_launching
    /\ \A d \in VCPU \ {c} : pc[d] \in {"off", "halted", "resume", "poll", "halt"}

Held == HeldOnce /\ OnePoller
IInv == /\ TypeOK /\ Held /\ NoLostWake /\ Launching
        /\ BitsHonoured /\ RunningHasBit /\ NeverStranded /\ OnlyOneLeft

-----------------------------------------------------------------------------
(* What is in the queue after a push ... *)
LEMMA PushQueue ==
  ASSUME NEW q \in Seq(Task), NEW t \in Task
  PROVE  LET r == Append(q, t) IN
         /\ r \in Seq(Task) /\ r # <<>>
         /\ \A u : (\E i \in 1 .. Len(r) : r[i] = u) <=> u = t \/ \E i \in 1 .. Len(q) : q[i] = u
         /\ (\A i, j \in 1 .. Len(q) : q[i] = q[j] => i = j) /\ ~(\E i \in 1 .. Len(q) : q[i] = t)
              => \A i, j \in 1 .. Len(r) : r[i] = r[j] => i = j
OBVIOUS

(* ... and after a pop. *)
LEMMA PopQueue ==
  ASSUME NEW q \in Seq(Task), q # <<>>
  PROVE  /\ Head(q) \in Task /\ Tail(q) \in Seq(Task)
         /\ \E i \in 1 .. Len(q) : q[i] = Head(q)
         /\ \A u : (\E i \in 1 .. Len(q) : q[i] = u)
                     <=> u = Head(q) \/ \E i \in 1 .. Len(Tail(q)) : Tail(q)[i] = u
         /\ (\A i, j \in 1 .. Len(q) : q[i] = q[j] => i = j)
              => /\ \A i, j \in 1 .. Len(Tail(q)) : Tail(q)[i] = Tail(q)[j] => i = j
                 /\ ~ \E i \in 1 .. Len(Tail(q)) : Tail(q)[i] = Head(q)
  <1>1. PICK n \in Nat \ {0} : n = Len(q)
    OBVIOUS
  <1>2. Head(q) = q[1] /\ Head(q) \in Task /\ Tail(q) \in Seq(Task)
    OBVIOUS
  <1>3. Len(Tail(q)) = n - 1 /\ \A i \in 1 .. n - 1 : Tail(q)[i] = q[i + 1]
    BY <1>1
  <1>4. \A i \in 1 .. n : i = 1 \/ i - 1 \in 1 .. n - 1
    OBVIOUS
  <1>5. \A i \in 1 .. n - 1 : i + 1 \in 1 .. n /\ i + 1 # 1
    OBVIOUS
  <1>6. \A i \in 1 .. n : q[i] = Head(q) \/ \E j \in 1 .. n - 1 : Tail(q)[j] = q[i]
    <2> SUFFICES ASSUME NEW i \in 1 .. n, i # 1
                 PROVE  i - 1 \in 1 .. n - 1 /\ Tail(q)[i - 1] = q[i]
      BY <1>2
    <2> QED BY <1>3, <1>4
  <1>7. 1 \in 1 .. n
    OBVIOUS
  <1> QED BY <1>1, <1>2, <1>3, <1>5, <1>6, <1>7

-----------------------------------------------------------------------------
(* Task::wake keeps the types of what it changes. *)
LEMMA WakeTypes ==
  ASSUME TypeOK, NEW c \in VCPU, NEW t \in Task, NEW back \in {"launch", "run", "firing"},
         Wake(c, t, back)
  PROVE  /\ state' \in [Task -> TaskState] /\ woken' \in SUBSET Task
         /\ pc' \in [VCPU -> PC] /\ waking' \in [VCPU -> Task]
         /\ ret' \in [VCPU -> {"launch", "poll", "run", "firing"}]
  <1>1. state' \in [Task -> TaskState]
    BY DEF Wake, WakeTo, TypeOK, TaskState
  <1>2. woken' \in SUBSET Task
    BY DEF Wake, TypeOK
  <1>3. pc' \in [VCPU -> PC]
    <2>1. back \in PC /\ "push" \in PC
      BY DEF PC
    <2> QED BY <2>1 DEF Wake, Goto, TypeOK
  <1>4. waking' \in [VCPU -> Task] /\ ret' \in [VCPU -> {"launch", "poll", "run", "firing"}]
    BY DEF Wake, TypeOK
  <1> QED BY <1>1, <1>2, <1>3, <1>4

(* Every step keeps the types; launched stays within the vCPUs because only  *)
(* the vCPU with that index counts itself.                                  *)
LEMMA TypeStep ==
  ASSUME TypeOK, Launching, Next
  PROVE  TypeOK'
  <1>1. PICK c \in VCPU : VcpuStep(c) \/ RunStep(c) \/ EndPoll(c) \/ ApUp(c) \/ SpuriousReturn(c)
    BY DEF Next
  <1>2. CASE Boot(c)
    <2>1. Wake(c, InitTask, "launch")
      BY <1>2 DEF Boot
    <2> QED BY <1>2, <2>1, WakeTypes, ExecutorAssumption DEF Boot, TypeOK, sched
  <1>3. CASE FinishLaunch(c)
    <2>1. launched' \in 0 .. MAX_APS_COUNT
      BY <1>3, ExecutorAssumption DEF FinishLaunch, Launching, VCPU, TypeOK
    <2>2. pc' \in [VCPU -> PC]
      BY <1>3 DEF FinishLaunch, Goto, TypeOK, PC
    <2> QED BY <1>3, <2>1, <2>2 DEF FinishLaunch, TypeOK, local
  <1>4. CASE Push(c)
    BY <1>4, ExecutorAssumption, PushQueue DEF TypeOK, VCPU, PC, TaskState, Push, Goto, sched
  <1>5. ASSUME NEW idx \in 0 .. MAX_APS_COUNT, PickAny(c, idx) PROVE TypeOK'
    <2>1. idx < launched \/ Launchable(idx) => idx \in VCPU
      BY <1>5, ExecutorAssumption DEF Launchable, VCPU, TypeOK
    <2>2. pc' \in [VCPU -> PC] /\ ret' \in [VCPU -> {"launch", "poll", "run", "firing"}]
      BY <1>5 DEF PickAny, Goto, Back, TypeOK, PC
    <2>3. bits' \in SUBSET VCPU /\ target' \in [VCPU -> VCPU]
      BY <1>5, <2>1 DEF PickAny, TypeOK
    <2>4. is_launching' \in BOOLEAN
      BY <1>5 DEF PickAny, TypeOK
    <2> QED BY <1>5, <2>2, <2>3, <2>4 DEF PickAny, TypeOK
  <1>6. CASE Arm(c)
    <2>1. 0 \in VCPU
      BY ExecutorAssumption DEF VCPU
    <2>2. pc' \in [VCPU -> PC] /\ ret' \in [VCPU -> {"launch", "poll", "run", "firing"}]
      BY <1>6 DEF Arm, Goto, Back, TypeOK, PC
    <2> QED BY <1>6, <2>1, <2>2 DEF Arm, TypeOK, sched
  <1>7. CASE StartNextAp(c)
    BY <1>7, ExecutorAssumption DEF TypeOK, VCPU, PC, TaskState, StartNextAp, Goto, Back, sched
  <1>8. CASE Pop(c)
    <2>1. pc' \in [VCPU -> PC]
      <3>1. "halt" \in PC /\ "store" \in PC
        BY DEF PC
      <3> QED BY <1>8, <3>1 DEF Pop, Goto, TypeOK
    <2>h. queue # <<>> => Head(queue) \in Task /\ Tail(queue) \in Seq(Task)
      BY PopQueue DEF TypeOK
    <2>2. queue' \in Seq(Task) /\ cur' \in [VCPU -> Task]
      BY <1>8, <2>h DEF Pop, TypeOK
    <2> QED BY <1>8, <2>1, <2>2 DEF Pop, TypeOK, sched
  <1>9. CASE StoreRunning(c)
    BY <1>9, ExecutorAssumption DEF TypeOK, VCPU, PC, TaskState, StoreRunning, Goto, sched
  <1>10. CASE Halt(c)
    BY <1>10, ExecutorAssumption DEF TypeOK, VCPU, PC, TaskState, Halt, Goto, OthersRun
  <1>11. CASE Return(c)
    BY <1>11, ExecutorAssumption DEF TypeOK, VCPU, PC, TaskState, Return, Goto, sched
  <1>12. CASE Resume(c)
    BY <1>12, ExecutorAssumption DEF TypeOK, VCPU, PC, TaskState, Resume, Goto
  <1>13. ASSUME NEW t \in Task, AdvanceTime(c, t) PROVE TypeOK'
    <2>1. Wake(c, t, "firing")
      BY <1>13 DEF AdvanceTime
    <2> QED BY <1>13, <2>1, WakeTypes, ExecutorAssumption DEF AdvanceTime, TypeOK, sched
  <1>14. CASE AdvanceDone(c)
    BY <1>14, ExecutorAssumption DEF TypeOK, VCPU, PC, TaskState, AdvanceDone, Goto, sched
  <1>15. CASE NoFutureReady(c)
    BY <1>15, ExecutorAssumption DEF TypeOK, VCPU, PC, TaskState, NoFutureReady, Goto, sched
  <1>16. CASE RunSleep(c)
    BY <1>16, ExecutorAssumption DEF TypeOK, VCPU, PC, TaskState, RunSleep, sched, local
  <1>17. ASSUME NEW t \in Task, RunWake(c, t) PROVE TypeOK'
    <2>1. Wake(c, t, "run")
      BY <1>17 DEF RunWake
    <2> QED BY <1>17, <2>1, WakeTypes, ExecutorAssumption DEF RunWake, TypeOK, sched
  <1>18. CASE PollReady(c)
    BY <1>18, ExecutorAssumption DEF TypeOK, VCPU, PC, TaskState, PollReady, Goto, Leave, sched
  <1>19. CASE PollPending(c)
    <2>1. state' \in [Task -> TaskState]
      BY <1>19 DEF PollPending, PendingTo, TypeOK, TaskState
    <2>2. pc' \in [VCPU -> PC] /\ cur' \in [VCPU -> Task] /\ woken' \in SUBSET Task
      BY <1>19, ExecutorAssumption DEF PollPending, Leave, Goto, TypeOK, PC
    <2> QED BY <1>19, <2>1, <2>2 DEF PollPending, TypeOK, sched
  <1>20. CASE ApUp(c)
    BY <1>20, ExecutorAssumption DEF TypeOK, VCPU, PC, TaskState, ApUp, Goto, sched
  <1>21. CASE SpuriousReturn(c)
    BY <1>21, ExecutorAssumption DEF TypeOK, VCPU, PC, TaskState, SpuriousReturn, Goto, sched
  <1> QED
    BY <1>1, <1>2, <1>3, <1>4, <1>5, <1>6, <1>7, <1>8, <1>9, <1>10, <1>11,
       <1>12, <1>13, <1>14, <1>15, <1>16, <1>17, <1>18, <1>19, <1>20, <1>21
    DEF VcpuStep, RunStep, EndPoll

-----------------------------------------------------------------------------
(* Where the scheduled and the running tasks are does not change. *)
SameHolders ==
  \A d \in VCPU, u \in Task : (Holds(d, u)' <=> Holds(d, u)) /\ (Polls(d, u)' <=> Polls(d, u))

LEMMA HeldFrame ==
  ASSUME Held, UNCHANGED <<state, queue>>, SameHolders
  PROVE  Held'
  <1>1. NoDuplicates' = NoDuplicates /\ \A u \in Task : InQueue(u)' = InQueue(u)
    BY DEF NoDuplicates, InQueue
  <1>2. HeldOnce'
    BY <1>1 DEF Held, HeldOnce, SameHolders
  <1>3. OnePoller'
    BY DEF Held, OnePoller, SameHolders
  <1> QED BY <1>2, <1>3 DEF Held

(* Task::wake by a vCPU that is not about to push or to run a task: a       *)
(* waiting task is now held by the vCPU, which is left inside Task::poll if *)
(* it was there.                                                            *)
LEMMA HeldWake ==
  ASSUME TypeOK, Held, NEW c \in VCPU, NEW t \in Task, NEW back \in {"launch", "run", "firing"},
         pc[c] \in {"boot", "run", "advance", "firing"}, pc[c] = "run" <=> back = "run",
         Wake(c, t, back), UNCHANGED <<queue, cur>>
  PROVE  Held'
  <1>t. pc \in [VCPU -> PC] /\ state \in [Task -> TaskState] /\ waking \in [VCPU -> Task]
        /\ ret \in [VCPU -> {"launch", "poll", "run", "firing"}]
    BY DEF TypeOK
  <1>1. NoDuplicates' = NoDuplicates /\ \A u \in Task : InQueue(u)' = InQueue(u)
    BY DEF NoDuplicates, InQueue
  <1>2. \A d \in VCPU, u \in Task : Polls(d, u)' <=> Polls(d, u)
    BY <1>t DEF Polls, Wake, Goto
  <1>3. \A u \in Task : ~Holds(c, u)
    BY DEF Holds
  <1>4. \A d \in VCPU, u \in Task : Holds(d, u)' <=> Holds(d, u) \/ (d = c /\ u = t /\ state[t] = "Waiting")
    BY <1>t, <1>3 DEF Holds, Wake, Goto, WakeSchedules
  <1>5. \A u \in Task : state'[u] = IF u = t THEN WakeTo(state[t]) ELSE state[u]
    BY <1>t DEF Wake
  <1>6. WakeTo(state[t]) = "Scheduled" <=> state[t] \in {"Scheduled", "Waiting"}
    BY DEF WakeTo
  <1>7. WakeTo(state[t]) \in {"Running", "Rescheduled"} <=> state[t] \in {"Running", "Rescheduled"}
    BY DEF WakeTo
  <1>8. HeldOnce'
    BY <1>1, <1>4, <1>5, <1>6 DEF Held, HeldOnce
  <1>9. OnePoller'
    BY <1>2, <1>5, <1>7 DEF Held, OnePoller
  <1> QED BY <1>8, <1>9 DEF Held

(* Every step keeps the scheduled and the running tasks where their states  *)
(* say they are.                                                            *)
LEMMA HeldStep ==
  ASSUME TypeOK, Held, Next
  PROVE  Held'
  <1>1. PICK c \in VCPU : VcpuStep(c) \/ RunStep(c) \/ EndPoll(c) \/ ApUp(c) \/ SpuriousReturn(c)
    BY DEF Next
  <1>t. /\ pc \in [VCPU -> PC]
        /\ ret \in [VCPU -> {"launch", "poll", "run", "firing"}]
        /\ state \in [Task -> TaskState]
        /\ cur \in [VCPU -> Task]
        /\ waking \in [VCPU -> Task]
        /\ queue \in Seq(Task)
    BY DEF TypeOK
  <1>2. CASE Boot(c)
    BY <1>2, HeldWake, ExecutorAssumption DEF Boot
  <1>3. CASE FinishLaunch(c)
    <2>1. SameHolders
      BY <1>3, <1>t DEF SameHolders, Holds, Polls, FinishLaunch, Goto, sched, local
    <2> QED BY <1>3, <2>1, HeldFrame DEF FinishLaunch
  <1>4. CASE Push(c)
    <2>1. Holds(c, waking[c]) /\ waking[c] \in Task
      BY <1>4, <1>t DEF Holds, Push
    <2>2. \A u \in Task : InQueue(u)' <=> InQueue(u) \/ u = waking[c]
      BY <1>4, <1>t, <2>1, PushQueue DEF InQueue, Push
    <2>3. NoDuplicates'
      BY <1>4, <1>t, <2>1, PushQueue DEF Held, HeldOnce, NoDuplicates, InQueue, Push
    <2>4. \A d \in VCPU, u \in Task : Holds(d, u)' <=> Holds(d, u) /\ d # c
      BY <1>4, <1>t DEF Holds, Push, Goto
    <2>5. \A u \in Task : Holds(c, u) => u = waking[c]
      BY <1>4 DEF Holds, Push
    <2>6. \A d \in VCPU, u \in Task : Polls(d, u)' <=> Polls(d, u)
      BY <1>4, <1>t DEF Polls, Push, Goto
    <2>7. HeldOnce'
      BY <1>4, <2>1, <2>2, <2>3, <2>4, <2>5 DEF Held, HeldOnce, Push
    <2>8. OnePoller'
      BY <1>4, <2>6 DEF Held, OnePoller, Push
    <2> QED BY <2>7, <2>8 DEF Held
  <1>5. ASSUME NEW idx \in 0 .. MAX_APS_COUNT, PickAny(c, idx) PROVE Held'
    <2>1. SameHolders
      BY <1>5, <1>t DEF SameHolders, Holds, Polls, PickAny, Goto, Back, Launchable
    <2> QED BY <1>5, <2>1, HeldFrame DEF PickAny
  <1>6. CASE Arm(c)
    <2>1. SameHolders
      BY <1>6, <1>t DEF SameHolders, Holds, Polls, Arm, Goto, Back, sched
    <2> QED BY <1>6, <2>1, HeldFrame DEF Arm
  <1>7. CASE StartNextAp(c)
    <2>1. SameHolders
      BY <1>7, <1>t DEF SameHolders, Holds, Polls, StartNextAp, Goto, Back, sched
    <2> QED BY <1>7, <2>1, HeldFrame DEF StartNextAp
  <1>8. CASE Pop(c)
    <2>1. CASE queue = <<>>
      <3>1. SameHolders
        BY <1>8, <1>t, <2>1 DEF SameHolders, Holds, Polls, Pop, Goto
      <3> QED BY <1>8, <2>1, <3>1, HeldFrame DEF Pop
    <2>2. CASE queue # <<>>
      <3> PICK h \in Task : h = Head(queue)
        BY <1>t, <2>2, PopQueue
      <3>0. queue' = Tail(queue)
        BY <1>8, <2>2 DEF Pop
      <3>1. InQueue(h)
        BY <1>t, <2>2, PopQueue DEF InQueue
      <3>2. NoDuplicates' /\ ~InQueue(h)'
        <4>1. NoDuplicates
          BY DEF Held, HeldOnce
        <4> QED BY <1>t, <2>2, <3>0, <4>1, PopQueue DEF NoDuplicates, InQueue
      <3>3. \A u \in Task : InQueue(u) <=> u = h \/ InQueue(u)'
        <4>1. \A u : (\E i \in 1 .. Len(queue) : queue[i] = u)
                      <=> u = h \/ \E i \in 1 .. Len(Tail(queue)) : Tail(queue)[i] = u
          BY <1>t, <2>2, PopQueue, Zenon
        <4> QED BY <3>0, <4>1, Zenon DEF InQueue
      <3>4. \A d \in VCPU, u \in Task : Holds(d, u)' <=> Holds(d, u) \/ (d = c /\ u = h)
        BY <1>8, <1>t, <2>2 DEF Holds, Pop, Goto
      <3>5. \A d \in VCPU, u \in Task : Polls(d, u)' <=> Polls(d, u)
        BY <1>8, <1>t, <2>2 DEF Polls, Pop, Goto
      <3>6. HeldOnce'
        <4>1. \A u \in Task, d \in VCPU : InQueue(u)' => ~Holds(d, u)'
          BY <3>1, <3>2, <3>3, <3>4 DEF Held, HeldOnce
        <4>2. state' = state
          BY <1>8 DEF Pop
        <4>3. \A u \in Task : state'[u] = "Scheduled" <=> InQueue(u)' \/ \E d \in VCPU : Holds(d, u)'
          BY <3>1, <3>3, <3>4, <4>2 DEF Held, HeldOnce
        <4>4. \A u \in Task, d, e \in VCPU : Holds(d, u)' /\ Holds(e, u)' => d = e
          BY <3>1, <3>4 DEF Held, HeldOnce
        <4> QED BY <3>2, <4>1, <4>3, <4>4 DEF HeldOnce
      <3>7. OnePoller'
        BY <1>8, <3>5 DEF Held, OnePoller, Pop
      <3> QED BY <3>6, <3>7 DEF Held
    <2> QED BY <2>1, <2>2
  <1>9. CASE StoreRunning(c)
    <2>q. NoDuplicates' = NoDuplicates /\ \A u \in Task : InQueue(u)' = InQueue(u)
      BY <1>9 DEF NoDuplicates, InQueue, StoreRunning
    <2>1. Holds(c, cur[c]) /\ cur[c] \in Task
      BY <1>9, <1>t DEF Holds, StoreRunning
    <2>2. \A d \in VCPU, u \in Task : Holds(d, u)' <=> Holds(d, u) /\ d # c
      BY <1>9, <1>t DEF Holds, StoreRunning, Goto
    <2>3. \A u \in Task : Holds(c, u) => u = cur[c]
      BY <1>9 DEF Holds, StoreRunning
    <2>4. \A d \in VCPU, u \in Task : Polls(d, u)' <=> Polls(d, u) \/ (d = c /\ u = cur[c])
      BY <1>9, <1>t DEF Polls, StoreRunning, Goto
    <2>5. \A u \in Task : state'[u] = IF u = cur[c] THEN "Running" ELSE state[u]
      BY <1>9, <1>t DEF StoreRunning
    <2>6. state[cur[c]] = "Scheduled"
      BY <2>1 DEF Held, HeldOnce
    <2>7. HeldOnce'
      <3>1. \A u \in Task : state'[u] = "Scheduled" <=> InQueue(u)' \/ \E d \in VCPU : Holds(d, u)'
        BY <2>q, <2>1, <2>2, <2>3, <2>5, <2>6 DEF Held, HeldOnce
      <3>2. \A u \in Task, d \in VCPU : InQueue(u)' => ~Holds(d, u)'
        BY <2>q, <2>1, <2>2, <2>3, <2>5, <2>6 DEF Held, HeldOnce
      <3>3. \A u \in Task, d, e \in VCPU : Holds(d, u)' /\ Holds(e, u)' => d = e
        BY <2>q, <2>1, <2>2, <2>3, <2>5, <2>6 DEF Held, HeldOnce
      <3>4. NoDuplicates'
        BY <2>q DEF Held, HeldOnce
      <3> QED BY <3>1, <3>2, <3>3, <3>4 DEF HeldOnce
    <2>8. OnePoller'
      <3>1. \A u \in Task : state'[u] \in {"Running", "Rescheduled"} <=> \E d \in VCPU : Polls(d, u)'
        <4> SUFFICES ASSUME NEW u \in Task
                     PROVE  state'[u] \in {"Running", "Rescheduled"} <=> \E d \in VCPU : Polls(d, u)'
          OBVIOUS
        <4>1. CASE u = cur[c]
          BY <4>1, <2>1, <2>4, <2>5, <2>6 DEF Held, OnePoller
        <4>2. CASE u # cur[c]
          BY <4>2, <2>1, <2>4, <2>5, <2>6 DEF Held, OnePoller
        <4> QED BY <4>1, <4>2
      <3>2. \A u \in Task, d, e \in VCPU : Polls(d, u)' /\ Polls(e, u)' => d = e
        BY <2>1, <2>4, <2>5, <2>6 DEF Held, OnePoller
      <3> QED BY <3>1, <3>2 DEF OnePoller
    <2> QED BY <2>7, <2>8 DEF Held
  <1>10. CASE Halt(c)
    <2>1. SameHolders
      BY <1>10, <1>t DEF SameHolders, Holds, Polls, Halt, Goto, OthersRun
    <2> QED BY <1>10, <2>1, HeldFrame DEF Halt
  <1>11. CASE Return(c)
    <2>1. SameHolders
      BY <1>11, <1>t DEF SameHolders, Holds, Polls, Return, Goto, sched
    <2> QED BY <1>11, <2>1, HeldFrame DEF Return
  <1>12. CASE Resume(c)
    <2>1. SameHolders
      BY <1>12, <1>t DEF SameHolders, Holds, Polls, Resume, Goto
    <2> QED BY <1>12, <2>1, HeldFrame DEF Resume
  <1>13. ASSUME NEW t \in Task, AdvanceTime(c, t) PROVE Held'
    BY <1>13, HeldWake, ExecutorAssumption DEF AdvanceTime
  <1>14. CASE AdvanceDone(c)
    <2>1. SameHolders
      BY <1>14, <1>t DEF SameHolders, Holds, Polls, AdvanceDone, Goto, sched
    <2> QED BY <1>14, <2>1, HeldFrame DEF AdvanceDone
  <1>15. CASE NoFutureReady(c)
    <2>1. SameHolders
      BY <1>15, <1>t DEF SameHolders, Holds, Polls, NoFutureReady, Goto, sched
    <2> QED BY <1>15, <2>1, HeldFrame DEF NoFutureReady
  <1>16. CASE RunSleep(c)
    <2>1. SameHolders
      BY <1>16, <1>t DEF SameHolders, Holds, Polls, RunSleep, sched, local
    <2> QED BY <1>16, <2>1, HeldFrame DEF RunSleep, local
  <1>17. ASSUME NEW t \in Task, RunWake(c, t) PROVE Held'
    BY <1>17, HeldWake, ExecutorAssumption DEF RunWake
  <1>18. CASE PollReady(c)
    <2>q. NoDuplicates' = NoDuplicates /\ \A u \in Task : InQueue(u)' = InQueue(u)
      BY <1>18 DEF NoDuplicates, InQueue, PollReady
    <2>1. Polls(c, cur[c]) /\ cur[c] \in Task
      BY <1>18, <1>t DEF Polls, PollReady
    <2>2. \A d \in VCPU, u \in Task : Holds(d, u)' <=> Holds(d, u)
      BY <1>18, <1>t DEF Holds, PollReady, Leave, Goto
    <2>3. \A d \in VCPU, u \in Task : Polls(d, u)' <=> Polls(d, u) /\ d # c
      BY <1>18, <1>t DEF Polls, PollReady, Leave, Goto
    <2>4. \A u \in Task : Polls(c, u) => u = cur[c]
      BY DEF Polls
    <2>5. \A u \in Task : state'[u] = IF u = cur[c] THEN "Done" ELSE state[u]
      BY <1>18, <1>t DEF PollReady
    <2>6. state[cur[c]] # "Scheduled"
      BY <2>1 DEF Held, OnePoller
    <2>7. HeldOnce'
      <3>1. \A u \in Task : state'[u] = "Scheduled" <=> InQueue(u)' \/ \E d \in VCPU : Holds(d, u)'
        <4>1. \A u \in Task : state'[u] = "Scheduled" <=> state[u] = "Scheduled"
          BY <2>1, <2>5, <2>6
        <4> QED BY <2>q, <2>2, <4>1 DEF Held, HeldOnce
      <3>2. \A u \in Task, d \in VCPU : InQueue(u)' => ~Holds(d, u)'
        BY <2>q, <2>1, <2>2, <2>5, <2>6 DEF Held, HeldOnce
      <3>3. \A u \in Task, d, e \in VCPU : Holds(d, u)' /\ Holds(e, u)' => d = e
        BY <2>q, <2>1, <2>2, <2>5, <2>6 DEF Held, HeldOnce
      <3>4. NoDuplicates'
        BY <2>q DEF Held, HeldOnce
      <3> QED BY <3>1, <3>2, <3>3, <3>4 DEF HeldOnce
    <2>8. OnePoller'
      <3>1. \A u \in Task : state'[u] \in {"Running", "Rescheduled"} <=> \E d \in VCPU : Polls(d, u)'
        <4> SUFFICES ASSUME NEW u \in Task
                     PROVE  state'[u] \in {"Running", "Rescheduled"} <=> \E d \in VCPU : Polls(d, u)'
          OBVIOUS
        <4>1. CASE u = cur[c]
          BY <4>1, <2>1, <2>3, <2>4, <2>5 DEF Held, OnePoller
        <4>2. CASE u # cur[c]
          <5>1. \A d \in VCPU : Polls(d, u)' <=> Polls(d, u)
            BY <4>2, <2>3, <2>4
          <5>2. state'[u] = state[u]
            BY <4>2, <2>5
          <5> QED BY <5>1, <5>2 DEF Held, OnePoller
        <4> QED BY <4>1, <4>2
      <3>2. \A u \in Task, d, e \in VCPU : Polls(d, u)' /\ Polls(e, u)' => d = e
        BY <2>1, <2>3, <2>4, <2>5 DEF Held, OnePoller
      <3> QED BY <3>1, <3>2 DEF OnePoller
    <2> QED BY <2>7, <2>8 DEF Held
  <1>19. CASE PollPending(c)
    <2>q. NoDuplicates' = NoDuplicates /\ \A u \in Task : InQueue(u)' = InQueue(u)
      BY <1>19 DEF NoDuplicates, InQueue, PollPending
    <2>0. Polls(c, cur[c]) /\ cur[c] \in Task
      BY <1>19, <1>t DEF Polls, PollPending
    <2>1. Polls(c, cur[c]) /\ cur[c] \in Task /\ state[cur[c]] \in {"Running", "Rescheduled"}
      BY <2>0 DEF Held, OnePoller
    <2>2. \A d \in VCPU, u \in Task : Holds(d, u)' <=> Holds(d, u)
      BY <1>19, <1>t DEF Holds, PollPending, Leave, Goto
    <2>3. \A d \in VCPU, u \in Task :
            Polls(d, u)' <=> Polls(d, u) /\ (d # c \/ state[cur[c]] = "Rescheduled")
      BY <1>19, <1>t DEF Polls, PollPending, Leave, Goto
    <2>4. \A u \in Task : Polls(c, u) => u = cur[c]
      BY DEF Polls
    <2>5. \A u \in Task : state'[u] = IF u = cur[c] THEN PendingTo(state[cur[c]]) ELSE state[u]
      BY <1>19, <1>t DEF PollPending
    <2>6. PendingTo(state[cur[c]]) = IF state[cur[c]] = "Rescheduled" THEN "Running" ELSE "Waiting"
      BY <2>1 DEF PendingTo
    <2>7. HeldOnce'
      <3>1. \A u \in Task : state'[u] = "Scheduled" <=> InQueue(u)' \/ \E d \in VCPU : Holds(d, u)'
        <4>1. \A u \in Task : state'[u] = "Scheduled" <=> state[u] = "Scheduled"
          BY <2>1, <2>5, <2>6
        <4> QED BY <2>q, <2>2, <4>1 DEF Held, HeldOnce
      <3>2. \A u \in Task, d \in VCPU : InQueue(u)' => ~Holds(d, u)'
        BY <2>q, <2>1, <2>2, <2>5, <2>6 DEF Held, HeldOnce
      <3>3. \A u \in Task, d, e \in VCPU : Holds(d, u)' /\ Holds(e, u)' => d = e
        BY <2>q, <2>1, <2>2, <2>5, <2>6 DEF Held, HeldOnce
      <3>4. NoDuplicates'
        BY <2>q DEF Held, HeldOnce
      <3> QED BY <3>1, <3>2, <3>3, <3>4 DEF HeldOnce
    <2>8. OnePoller'
      <3>1. \A u \in Task : state'[u] \in {"Running", "Rescheduled"} <=> \E d \in VCPU : Polls(d, u)'
        <4> SUFFICES ASSUME NEW u \in Task
                     PROVE  state'[u] \in {"Running", "Rescheduled"} <=> \E d \in VCPU : Polls(d, u)'
          OBVIOUS
        <4>1. CASE u = cur[c]
          BY <4>1, <2>1, <2>3, <2>4, <2>5, <2>6 DEF Held, OnePoller
        <4>2. CASE u # cur[c]
          <5>1. \A d \in VCPU : Polls(d, u)' <=> Polls(d, u)
            BY <4>2, <2>3, <2>4
          <5>2. state'[u] = state[u]
            BY <4>2, <2>5
          <5> QED BY <5>1, <5>2 DEF Held, OnePoller
        <4> QED BY <4>1, <4>2
      <3>2. \A u \in Task, d, e \in VCPU : Polls(d, u)' /\ Polls(e, u)' => d = e
        BY <2>1, <2>3, <2>4, <2>5, <2>6 DEF Held, OnePoller
      <3> QED BY <3>1, <3>2 DEF OnePoller
    <2> QED BY <2>7, <2>8 DEF Held
  <1>20. CASE ApUp(c)
    <2>1. SameHolders
      BY <1>20, <1>t DEF SameHolders, Holds, Polls, ApUp, Goto, sched
    <2> QED BY <1>20, <2>1, HeldFrame DEF ApUp
  <1>21. CASE SpuriousReturn(c)
    <2>1. SameHolders
      BY <1>21, <1>t DEF SameHolders, Holds, Polls, SpuriousReturn, Goto, sched
    <2> QED BY <1>21, <2>1, HeldFrame DEF SpuriousReturn
  <1> QED
    BY <1>1, <1>2, <1>3, <1>4, <1>5, <1>6, <1>7, <1>8, <1>9, <1>10, <1>11,
       <1>12, <1>13, <1>14, <1>15, <1>16, <1>17, <1>18, <1>19, <1>20, <1>21
    DEF VcpuStep, RunStep, EndPoll

-----------------------------------------------------------------------------
(* Task::wake leaves the task on its way to be polled, unless it is done. *)
LEMMA WakeKept ==
  ASSUME TypeOK, NoLostWake, NEW c, NEW t \in Task, NEW back, Wake(c, t, back)
  PROVE  NoLostWake'
  <1>1. state[t] \in TaskState
    BY DEF TypeOK
  <1>2. state[t] # "Done" => WakeTo(state[t]) \in {"Scheduled", "Rescheduled"}
    BY <1>1 DEF TaskState, WakeTo
  <1>3. \A u \in Task : state'[u] = IF u = t THEN WakeTo(state[t]) ELSE state[u]
    BY DEF Wake, TypeOK
  <1>4. woken \subseteq Task /\ woken' = IF state[t] = "Done" THEN woken ELSE woken \cup {t}
    BY DEF Wake, TypeOK
  <1> QED BY <1>2, <1>3, <1>4 DEF NoLostWake

(* Every step keeps what a wake has left behind. *)
LEMMA WakeStep ==
  ASSUME TypeOK, NoLostWake, Next
  PROVE  NoLostWake'
  <1>1. PICK c \in VCPU : VcpuStep(c) \/ RunStep(c) \/ EndPoll(c) \/ ApUp(c) \/ SpuriousReturn(c)
    BY DEF Next
  <1>t. /\ woken \subseteq Task
        /\ state \in [Task -> TaskState]
        /\ cur \in [VCPU -> Task]
        /\ InitTask \in Task
    BY ExecutorAssumption DEF TypeOK
  <1>2. CASE Boot(c)
    BY <1>2, <1>t, WakeKept DEF Boot
  <1>3. CASE FinishLaunch(c)
    BY <1>3, <1>t DEF NoLostWake, FinishLaunch, Goto, sched, local
  <1>4. CASE Push(c)
    BY <1>4, <1>t DEF NoLostWake, Push, Goto, sched
  <1>5. ASSUME NEW idx \in 0 .. MAX_APS_COUNT, PickAny(c, idx) PROVE NoLostWake'
    BY <1>5, <1>t DEF NoLostWake, PickAny, Goto, Back, Launchable
  <1>6. CASE Arm(c)
    BY <1>6, <1>t DEF NoLostWake, Arm, Goto, Back, sched
  <1>7. CASE StartNextAp(c)
    BY <1>7, <1>t DEF NoLostWake, StartNextAp, Goto, Back, sched
  <1>8. CASE Pop(c)
    BY <1>8, <1>t DEF NoLostWake, Pop, Goto, sched
  <1>9. CASE StoreRunning(c)
    BY <1>9, <1>t DEF NoLostWake, StoreRunning, Goto, sched
  <1>10. CASE Halt(c)
    BY <1>10, <1>t DEF NoLostWake, Halt, Goto, OthersRun
  <1>11. CASE Return(c)
    BY <1>11, <1>t DEF NoLostWake, Return, Goto, sched
  <1>12. CASE Resume(c)
    BY <1>12, <1>t DEF NoLostWake, Resume, Goto
  <1>13. ASSUME NEW t \in Task, AdvanceTime(c, t) PROVE NoLostWake'
    BY <1>13, <1>t, WakeKept DEF AdvanceTime
  <1>14. CASE AdvanceDone(c)
    BY <1>14, <1>t DEF NoLostWake, AdvanceDone, Goto, sched
  <1>15. CASE NoFutureReady(c)
    BY <1>15, <1>t DEF NoLostWake, NoFutureReady, Goto, sched
  <1>16. CASE RunSleep(c)
    BY <1>16, <1>t DEF NoLostWake, RunSleep, sched, local
  <1>17. ASSUME NEW t \in Task, RunWake(c, t) PROVE NoLostWake'
    BY <1>17, <1>t, WakeKept DEF RunWake
  <1>18. CASE PollReady(c)
    BY <1>18, <1>t DEF NoLostWake, PollReady, Goto, Leave, sched
  <1>19. CASE PollPending(c)
    BY <1>19, <1>t DEF NoLostWake, PollPending, Goto, Leave, PendingTo, sched
  <1>20. CASE ApUp(c)
    BY <1>20, <1>t DEF NoLostWake, ApUp, Goto, sched
  <1>21. CASE SpuriousReturn(c)
    BY <1>21, <1>t DEF NoLostWake, SpuriousReturn, Goto, sched
  <1> QED
    BY <1>1, <1>2, <1>3, <1>4, <1>5, <1>6, <1>7, <1>8, <1>9, <1>10, <1>11,
       <1>12, <1>13, <1>14, <1>15, <1>16, <1>17, <1>18, <1>19, <1>20, <1>21
    DEF VcpuStep, RunStep, EndPoll

-----------------------------------------------------------------------------
(* No vCPU comes up, finishes launching, or starts another one. *)
SamePhase ==
  \A d \in VCPU : /\ Booting(d)' <=> Booting(d)
                  /\ pc'[d] = "off" <=> pc[d] = "off"
                  /\ pc'[d] = "launch" <=> pc[d] = "launch"
                  /\ pc'[d] = "start" <=> pc[d] = "start"
NewBitsUp == \A d \in bits' : d \in bits \/ d < launched

LEMMA LaunchFrame ==
  ASSUME Launching, SamePhase, NewBitsUp, UNCHANGED <<launched, is_launching, starting>>,
         is_launching => launched \in bits'
  PROVE  Launching'
  <1>1. StartUnderWay' <=> StartUnderWay
    BY DEF StartUnderWay, SamePhase
  <1> QED BY <1>1 DEF Launching, SamePhase, NewBitsUp

(* The three outcomes of pick_any: a launched vCPU that has halted ... *)
LEMMA PickHalted ==
  ASSUME TypeOK, NEW c \in VCPU, NEW idx \in 0 .. MAX_APS_COUNT, PickAny(c, idx), idx < launched
  PROVE  /\ idx \in VCPU /\ pc[c] = "pick"
         /\ bits' = bits \cup {idx} /\ pc' = [pc EXCEPT ![c] = "arm"]
         /\ target' = [target EXCEPT ![c] = idx]
         /\ UNCHANGED <<launched, is_launching, starting, notified, ret>>
  <1>1. idx \in Nat /\ launched \in Nat /\ launched <= MAX_APS_COUNT
    BY ExecutorAssumption DEF TypeOK
  <1>2. idx \in VCPU /\ ~(idx >= launched)
    BY <1>1, ExecutorAssumption DEF VCPU
  <1> QED BY <1>2 DEF PickAny, Goto

(* ... the one that is next to be launched, which is down ... *)
LEMMA NextToLaunch ==
  ASSUME TypeOK, Launching, NEW c \in VCPU, NEW idx \in 0 .. MAX_APS_COUNT, PickAny(c, idx),
         idx >= launched, Launchable(idx)
  PROVE  /\ idx = launched /\ launched \in VCPU /\ pc[launched] = "off" /\ ~starting /\ ~is_launching
         /\ pc[c] = "pick" /\ bits' = bits \cup {launched} /\ pc' = [pc EXCEPT ![c] = "start"]
         /\ is_launching' /\ UNCHANGED <<launched, starting, notified, ret, target>>
  <1>1. launched \in Nat /\ ~is_launching /\ idx \in VCPU
    BY ExecutorAssumption DEF TypeOK, Launchable, VCPU
  <1>2. launched \notin bits
    BY <1>1 DEF Launching
  <1>3. idx = launched
    <2> SUFFICES ASSUME launched < idx PROVE FALSE
      BY <1>1 DEF VCPU
    <2>1. launched \in 0 .. idx - 1
      BY <1>1
    <2> QED BY <2>1, <1>2 DEF PickAny
  <1>4. pc[launched] = "off"
    BY <1>1, <1>3 DEF Launching
  <1>5. ~starting
    BY <1>1 DEF Launching, StartUnderWay
  <1>6. ~(idx < launched)
    BY <1>1, <1>3
  <1>7. /\ pc[c] = "pick" /\ bits' = bits \cup {launched} /\ pc' = [pc EXCEPT ![c] = "start"]
        /\ is_launching' /\ UNCHANGED <<launched, starting, notified, ret, target>>
    BY <1>3, <1>6 DEF PickAny, Goto
  <1> QED BY <1>1, <1>3, <1>4, <1>5, <1>7

(* ... or none. *)
LEMMA PickNone ==
  ASSUME TypeOK, NEW c \in VCPU, NEW idx \in 0 .. MAX_APS_COUNT, PickAny(c, idx),
         idx >= launched, ~Launchable(idx)
  PROVE  /\ pc[c] = "pick" /\ pc' = [pc EXCEPT ![c] = ret[c]] /\ ret' = [ret EXCEPT ![c] = "poll"]
         /\ UNCHANGED <<bits, launched, is_launching, starting, notified, target>>
  <1>1. ~(idx < launched)
    BY DEF TypeOK
  <1> QED BY <1>1 DEF PickAny, Back, Goto

(* Every step keeps the order in which vCPUs come up. *)
LEMMA LaunchStep ==
  ASSUME TypeOK, Launching, Next
  PROVE  Launching'
  <1>1. PICK c \in VCPU : VcpuStep(c) \/ RunStep(c) \/ EndPoll(c) \/ ApUp(c) \/ SpuriousReturn(c)
    BY DEF Next
  <1>t. /\ pc \in [VCPU -> PC]
        /\ ret \in [VCPU -> {"launch", "poll", "run", "firing"}]
        /\ bits \subseteq VCPU
        /\ launched \in 0 .. MAX_APS_COUNT
    BY DEF TypeOK
  <1>2. CASE Boot(c)
    BY <1>2, <1>t DEF Launching, StartUnderWay, Booting, Scheduling, Boot, Wake, Goto, WakeTo, WakeSchedules, sched
  <1>3. CASE FinishLaunch(c)
    <2>1. is_launching /\ launched = c
      BY <1>3 DEF FinishLaunch, Launching
    <2>2. ~starting /\ \A d \in VCPU : pc[d] # "start" /\ ~Booting(d) /\ (d # c => pc[d] # "launch")
      BY <1>3, <2>1 DEF FinishLaunch, Launching, StartUnderWay, Booting, Scheduling
    <2>3. launched' = c + 1 /\ ~is_launching' /\ starting' = starting /\ bits' = bits /\ ret' = ret
          /\ \A d \in VCPU : pc'[d] = IF d = c THEN "poll" ELSE pc[d]
      BY <1>3, <1>t, <2>1 DEF FinishLaunch, Goto
    <2>4. \A d \in VCPU : ~Booting(d)' /\ pc'[d] # "start" /\ pc'[d] # "launch"
      BY <2>2, <2>3 DEF Booting, Scheduling
    <2>5. \A d \in VCPU : pc'[d] # "off" => d < launched'
      <3> SUFFICES ASSUME NEW d \in VCPU, pc'[d] # "off" PROVE d < c + 1
        BY <2>3
      <3>1. d = c \/ d < c
        BY <2>1, <2>2, <2>3 DEF Launching
      <3> QED BY <3>1 DEF VCPU
    <2>6. \A d \in VCPU : pc'[d] = "off" => launched' <= d
      <3> SUFFICES ASSUME NEW d \in VCPU, pc'[d] = "off" PROVE c + 1 <= d
        BY <2>3
      <3>1. d # c /\ c <= d
        BY <2>1, <2>3 DEF Launching
      <3> QED BY <3>1 DEF VCPU
    <2>7. \A d \in bits' : d < launched'
      <3> SUFFICES ASSUME NEW d \in bits PROVE d < c + 1
        BY <2>3
      <3>1. d \in VCPU /\ (d < c \/ d = c)
        BY <1>t, <2>1 DEF Launching
      <3> QED BY <3>1 DEF VCPU
    <2> QED BY <2>2, <2>3, <2>4, <2>5, <2>6, <2>7 DEF Launching
  <1>4. CASE Push(c)
    <2>1. SamePhase
      BY <1>4, <1>t DEF SamePhase, Booting, Scheduling, Push, Goto, sched
    <2> QED BY <1>4, <2>1, LaunchFrame DEF NewBitsUp, Launching, Push, sched
  <1>5. ASSUME NEW idx \in 0 .. MAX_APS_COUNT, PickAny(c, idx) PROVE Launching'
    <2>1. CASE idx < launched
      <3>1. /\ pc[c] = "pick" /\ pc' = [pc EXCEPT ![c] = "arm"] /\ bits' = bits \cup {idx}
            /\ UNCHANGED <<launched, is_launching, starting, ret>>
        BY <1>5, <2>1, PickHalted
      <3>2. SamePhase
        BY <1>t, <3>1 DEF SamePhase, Booting, Scheduling
      <3>3. NewBitsUp /\ (is_launching => launched \in bits')
        BY <2>1, <3>1 DEF NewBitsUp, Launching
      <3> QED BY <3>1, <3>2, <3>3, LaunchFrame
    <2>2. CASE idx >= launched /\ Launchable(idx)
      <3>1. /\ launched \in VCPU /\ pc[launched] = "off" /\ ~starting /\ ~is_launching
            /\ pc[c] = "pick" /\ bits' = bits \cup {launched} /\ pc' = [pc EXCEPT ![c] = "start"]
            /\ is_launching' /\ UNCHANGED <<launched, starting, ret>>
        BY <1>5, <2>2, NextToLaunch
      <3>2. \A d \in VCPU : pc'[d] = IF d = c THEN "start" ELSE pc[d]
        BY <1>t, <3>1
      <3>3. \A d \in VCPU : ~Booting(d) /\ pc[d] # "launch" /\ pc[d] # "start"
        BY <3>1 DEF Launching, StartUnderWay
      <3>4. StartUnderWay'
        BY <3>1, <3>2 DEF StartUnderWay
      <3>5. \A d \in VCPU : ~Booting(d)'
        BY <3>1, <3>2, <3>3 DEF Booting, Scheduling
      <3> QED BY <3>1, <3>2, <3>3, <3>4, <3>5 DEF Launching
    <2>3. CASE idx >= launched /\ ~Launchable(idx)
      <3>1. /\ pc[c] = "pick" /\ pc' = [pc EXCEPT ![c] = ret[c]] /\ ret' = [ret EXCEPT ![c] = "poll"]
            /\ UNCHANGED <<bits, launched, is_launching, starting>>
        BY <1>5, <2>3, PickNone
      <3>2. /\ \A d \in VCPU : d # c => pc'[d] = pc[d] /\ ret'[d] = ret[d]
            /\ pc'[c] = ret[c] /\ ret[c] \in {"launch", "poll", "run", "firing"}
        BY <1>t, <3>1
      <3>3. StartUnderWay' <=> StartUnderWay
        BY <3>1, <3>2 DEF StartUnderWay
      <3>4. \A d \in VCPU : /\ d # c => (Booting(d)' <=> Booting(d))
                            /\ ~Booting(c)' /\ (Booting(c) <=> ret[c] = "launch")
        BY <3>1, <3>2 DEF Booting, Scheduling
      <3>5. IF ret[c] = "launch" THEN is_launching /\ launched = c /\ c = 0 ELSE c < launched
        BY <3>1, <3>4 DEF Launching
      <3>6. \A d \in VCPU :
              /\ pc'[d] = "launch" => is_launching /\ launched = d
              /\ Booting(d)' => is_launching /\ launched = d /\ d = 0
              /\ pc'[d] \notin {"off", "launch"} /\ ~Booting(d)' => d < launched
              /\ pc'[d] = "off" => launched <= d
        <4> SUFFICES ASSUME NEW d \in VCPU
                     PROVE  /\ pc'[d] = "launch" => is_launching /\ launched = d
                            /\ Booting(d)' => is_launching /\ launched = d /\ d = 0
                            /\ pc'[d] \notin {"off", "launch"} /\ ~Booting(d)' => d < launched
                            /\ pc'[d] = "off" => launched <= d
          OBVIOUS
        <4>1. CASE d = c
          BY <3>2, <3>4, <3>5, <4>1
        <4>2. CASE d # c
          BY <3>2, <3>4, <4>2 DEF Launching
        <4> QED BY <4>1, <4>2
      <3>7. \A d \in VCPU : pc'[d] = "start" => pc[d] = "start"
        BY <3>2
      <3> QED BY <3>1, <3>3, <3>6, <3>7 DEF Launching
    <2> QED
      <3>1. idx < launched \/ idx >= launched
        BY <1>t
      <3> QED BY <2>1, <2>2, <2>3, <3>1
  <1>6. CASE Arm(c)
    BY <1>6, <1>t DEF Launching, StartUnderWay, Booting, Scheduling, Arm, Goto, Back, sched
  <1>7. CASE StartNextAp(c)
    BY <1>7, <1>t DEF Launching, StartUnderWay, Booting, Scheduling, StartNextAp, Goto, Back, sched
  <1>8. CASE Pop(c)
    <2>1. SamePhase
      BY <1>8, <1>t DEF SamePhase, Booting, Scheduling, Pop, Goto, sched
    <2> QED BY <1>8, <2>1, LaunchFrame DEF NewBitsUp, Launching, Pop, sched
  <1>9. CASE StoreRunning(c)
    <2>1. SamePhase
      BY <1>9, <1>t DEF SamePhase, Booting, Scheduling, StoreRunning, Goto, sched
    <2> QED BY <1>9, <2>1, LaunchFrame DEF NewBitsUp, Launching, StoreRunning, sched
  <1>10. CASE Halt(c)
    <2>1. SamePhase
      BY <1>10, <1>t DEF SamePhase, Booting, Scheduling, Halt, Goto
    <2>2. c < launched
      BY <1>10 DEF Halt, Launching, Booting, Scheduling
    <2>3. launched # c
      BY <1>t, <2>2 DEF VCPU
    <2>4. NewBitsUp /\ (is_launching => launched \in bits')
      BY <1>10, <2>3 DEF Halt, NewBitsUp, Launching
    <2> QED BY <1>10, <2>1, <2>4, LaunchFrame DEF Halt
  <1>11. CASE Return(c)
    <2>1. SamePhase
      BY <1>11, <1>t DEF SamePhase, Booting, Scheduling, Return, Goto, sched
    <2> QED BY <1>11, <2>1, LaunchFrame DEF NewBitsUp, Launching, Return, sched
  <1>12. CASE Resume(c)
    <2>1. SamePhase
      BY <1>12, <1>t DEF SamePhase, Booting, Scheduling, Resume, Goto
    <2>2. c < launched
      BY <1>12 DEF Resume, Launching, Booting, Scheduling
    <2> QED BY <1>12, <2>1, <2>2, LaunchFrame DEF NewBitsUp, Launching, Resume
  <1>13. ASSUME NEW t \in Task, AdvanceTime(c, t) PROVE Launching'
    <2>1. SamePhase
      BY <1>13, <1>t DEF SamePhase, Booting, Scheduling, AdvanceTime, Wake, Goto, WakeTo, WakeSchedules, sched
    <2> QED BY <1>13, <2>1, LaunchFrame DEF NewBitsUp, Launching, AdvanceTime, sched
  <1>14. CASE AdvanceDone(c)
    <2>1. SamePhase
      BY <1>14, <1>t DEF SamePhase, Booting, Scheduling, AdvanceDone, Goto, sched
    <2> QED BY <1>14, <2>1, LaunchFrame DEF NewBitsUp, Launching, AdvanceDone, sched
  <1>15. CASE NoFutureReady(c)
    <2>1. SamePhase
      BY <1>15, <1>t DEF SamePhase, Booting, Scheduling, NoFutureReady, Goto, sched
    <2> QED BY <1>15, <2>1, LaunchFrame DEF NewBitsUp, Launching, NoFutureReady, sched
  <1>16. CASE RunSleep(c)
    <2>1. SamePhase
      BY <1>16, <1>t DEF SamePhase, Booting, Scheduling, RunSleep, sched, local
    <2> QED BY <1>16, <2>1, LaunchFrame DEF NewBitsUp, Launching, RunSleep, sched, local
  <1>17. ASSUME NEW t \in Task, RunWake(c, t) PROVE Launching'
    <2>1. SamePhase
      BY <1>17, <1>t DEF SamePhase, Booting, Scheduling, RunWake, Wake, Goto, WakeTo, WakeSchedules, sched
    <2> QED BY <1>17, <2>1, LaunchFrame DEF NewBitsUp, Launching, RunWake, sched
  <1>18. CASE PollReady(c)
    <2>1. SamePhase
      BY <1>18, <1>t DEF SamePhase, Booting, Scheduling, PollReady, Goto, Leave, sched
    <2> QED BY <1>18, <2>1, LaunchFrame DEF NewBitsUp, Launching, PollReady, sched
  <1>19. CASE PollPending(c)
    <2>1. SamePhase
      BY <1>19, <1>t DEF SamePhase, Booting, Scheduling, PollPending, Goto, Leave, PendingTo, sched
    <2> QED BY <1>19, <2>1, LaunchFrame DEF NewBitsUp, Launching, PollPending, sched
  <1>20. CASE ApUp(c)
    <2>1. is_launching /\ launched \in VCPU /\ pc[launched] = "off" /\ pc[c] = "off"
      BY <1>20 DEF ApUp, Launching, StartUnderWay
    <2>2. c = launched
      <3>1. launched <= c /\ ~(launched < c)
        BY <1>20, <2>1 DEF ApUp, Launching
      <3> QED BY <2>1, <3>1 DEF VCPU
    <2>3. /\ launched' = launched /\ is_launching' = is_launching /\ ~starting'
          /\ bits' = bits /\ ret' = ret
          /\ \A d \in VCPU : pc'[d] = IF d = c THEN "launch" ELSE pc[d]
      BY <1>20, <1>t DEF ApUp, Goto, sched
    <2>4. \A d \in VCPU : pc[d] # "start" /\ pc[d] # "launch" /\ ~Booting(d)
      BY <1>20, <2>1, <2>2 DEF ApUp, Launching, Booting, Scheduling
    <2>5. \A d \in VCPU : ~Booting(d)'
      BY <2>3, <2>4 DEF Booting, Scheduling
    <2> QED BY <2>1, <2>2, <2>3, <2>4, <2>5 DEF Launching
  <1>21. CASE SpuriousReturn(c)
    <2>1. SamePhase
      BY <1>21, <1>t DEF SamePhase, Booting, Scheduling, SpuriousReturn, Goto, sched
    <2> QED BY <1>21, <2>1, LaunchFrame DEF NewBitsUp, Launching, SpuriousReturn, sched
  <1> QED
    BY <1>1, <1>2, <1>3, <1>4, <1>5, <1>6, <1>7, <1>8, <1>9, <1>10, <1>11,
       <1>12, <1>13, <1>14, <1>15, <1>16, <1>17, <1>18, <1>19, <1>20, <1>21
    DEF VcpuStep, RunStep, EndPoll

-----------------------------------------------------------------------------
(* A vCPU moves on, and neither owes a notification nor comes to a halt. *)
MovesOn(c) ==
  /\ pc[c] \notin {"arm", "start"} /\ pc'[c] \notin {"off", "halted"}
  /\ \A d \in VCPU \ {c} : pc'[d] = pc[d]

LEMMA HonourFrame ==
  ASSUME BitsHonoured, bits \subseteq VCPU, NEW c \in VCPU, MovesOn(c), bits' \subseteq bits \cup {c},
         UNCHANGED <<notified, starting, target>>
  PROVE  BitsHonoured'
  <1> SUFFICES ASSUME NEW b \in bits', b # c
               PROVE  \/ pc'[b] \notin {"off", "halted"}
                      \/ pc'[b] = "halted" /\ (b \in notified' \/ \E d \in VCPU : pc'[d] = "arm" /\ target'[d] = b)
                      \/ pc'[b] = "off" /\ (starting' \/ \E d \in VCPU : pc'[d] = "start")
    BY DEF BitsHonoured, MovesOn
  <1>1. b \in bits /\ pc'[b] = pc[b]
    BY DEF MovesOn
  <1>2. \A d \in VCPU : pc[d] \in {"arm", "start"} => pc'[d] = pc[d]
    BY DEF MovesOn
  <1> QED BY <1>1, <1>2 DEF BitsHonoured

(* Every step keeps a vCPU whose bit is set on its way. *)
LEMMA HonourStep ==
  ASSUME TypeOK, Launching, BitsHonoured, Next
  PROVE  BitsHonoured'
  <1>1. PICK c \in VCPU : VcpuStep(c) \/ RunStep(c) \/ EndPoll(c) \/ ApUp(c) \/ SpuriousReturn(c)
    BY DEF Next
  <1>t. /\ pc \in [VCPU -> PC]
        /\ ret \in [VCPU -> {"launch", "poll", "run", "firing"}]
        /\ bits \subseteq VCPU
        /\ target \in [VCPU -> VCPU]
        /\ launched \in 0 .. MAX_APS_COUNT
    BY DEF TypeOK
  <1>2. CASE Boot(c)
    <2>1. MovesOn(c)
      BY <1>2, <1>t DEF MovesOn, Boot, Wake, Goto, WakeTo, WakeSchedules, sched
    <2> QED BY <1>2, <1>t, <2>1, HonourFrame DEF Boot, sched
  <1>3. CASE FinishLaunch(c)
    <2>1. MovesOn(c)
      BY <1>3, <1>t DEF MovesOn, FinishLaunch, Goto, sched, local
    <2> QED BY <1>3, <1>t, <2>1, HonourFrame DEF FinishLaunch, sched
  <1>4. CASE Push(c)
    <2>1. MovesOn(c)
      BY <1>4, <1>t DEF MovesOn, Push, Goto, sched
    <2> QED BY <1>4, <1>t, <2>1, HonourFrame DEF Push, sched
  <1>5. ASSUME NEW idx \in 0 .. MAX_APS_COUNT, PickAny(c, idx) PROVE BitsHonoured'
    <2>1. CASE idx < launched
      <3>1. /\ idx \in VCPU /\ pc[c] = "pick" /\ bits' = bits \cup {idx}
            /\ pc' = [pc EXCEPT ![c] = "arm"] /\ target' = [target EXCEPT ![c] = idx]
            /\ UNCHANGED <<starting, notified>>
        BY <1>5, <2>1, PickHalted
      <3>2. pc[idx] # "off"
        <4>1. ~(launched <= idx)
          BY <1>t, <2>1
        <4> QED BY <3>1, <4>1 DEF Launching
      <3> QED BY <1>t, <3>1, <3>2 DEF BitsHonoured
    <2>2. CASE idx >= launched /\ Launchable(idx)
      <3>1. /\ launched \in VCPU /\ pc[launched] = "off" /\ pc[c] = "pick"
            /\ bits' = bits \cup {launched} /\ pc' = [pc EXCEPT ![c] = "start"]
            /\ UNCHANGED <<starting, notified, target>>
        BY <1>5, <2>2, NextToLaunch
      <3> QED BY <1>t, <3>1 DEF BitsHonoured
    <2>3. CASE idx >= launched /\ ~Launchable(idx)
      <3>1. /\ pc[c] = "pick" /\ pc' = [pc EXCEPT ![c] = ret[c]]
            /\ UNCHANGED <<bits, starting, notified, target>>
        BY <1>5, <2>3, PickNone
      <3>2. MovesOn(c)
        BY <1>t, <3>1 DEF MovesOn
      <3> QED BY <1>t, <3>1, <3>2, HonourFrame
    <2> QED
      <3>1. idx < launched \/ idx >= launched
        BY <1>t
      <3> QED BY <2>1, <2>2, <2>3, <3>1
  <1>6. CASE Arm(c)
    BY <1>6, <1>t DEF BitsHonoured, Arm, Goto, Back, sched
  <1>7. CASE StartNextAp(c)
    BY <1>7, <1>t DEF BitsHonoured, StartNextAp, Goto, Back, sched
  <1>8. CASE Pop(c)
    <2>1. MovesOn(c)
      BY <1>8, <1>t DEF MovesOn, Pop, Goto, sched
    <2> QED BY <1>8, <1>t, <2>1, HonourFrame DEF Pop, sched
  <1>9. CASE StoreRunning(c)
    <2>1. MovesOn(c)
      BY <1>9, <1>t DEF MovesOn, StoreRunning, Goto, sched
    <2> QED BY <1>9, <1>t, <2>1, HonourFrame DEF StoreRunning, sched
  <1>10. CASE Halt(c)
    <2>1. CASE OthersRun(c)
      <3>1. /\ bits' = bits \ {c} /\ \A d \in VCPU \ {c} : pc'[d] = pc[d]
            /\ pc[c] = "halt" /\ UNCHANGED <<notified, starting, target>>
        BY <1>10, <1>t, <2>1 DEF Halt, Goto
      <3> QED BY <1>t, <3>1 DEF BitsHonoured
    <2>2. CASE ~OthersRun(c)
      <3>1. MovesOn(c)
        BY <1>10, <1>t, <2>2 DEF MovesOn, Halt, Goto
      <3> QED BY <1>10, <1>t, <2>2, <3>1, HonourFrame DEF Halt
    <2> QED BY <2>1, <2>2
  <1>11. CASE Return(c)
    BY <1>11, <1>t DEF BitsHonoured, Return, Goto, sched
  <1>12. CASE Resume(c)
    <2>1. MovesOn(c)
      BY <1>12, <1>t DEF MovesOn, Resume, Goto
    <2> QED BY <1>12, <1>t, <2>1, HonourFrame DEF Resume, sched
  <1>13. ASSUME NEW t \in Task, AdvanceTime(c, t) PROVE BitsHonoured'
    <2>1. MovesOn(c)
      BY <1>13, <1>t DEF MovesOn, AdvanceTime, Wake, Goto, WakeTo, WakeSchedules, sched
    <2> QED BY <1>13, <1>t, <2>1, HonourFrame DEF AdvanceTime, sched
  <1>14. CASE AdvanceDone(c)
    <2>1. MovesOn(c)
      BY <1>14, <1>t DEF MovesOn, AdvanceDone, Goto, sched
    <2> QED BY <1>14, <1>t, <2>1, HonourFrame DEF AdvanceDone, sched
  <1>15. CASE NoFutureReady(c)
    <2>1. MovesOn(c)
      BY <1>15, <1>t DEF MovesOn, NoFutureReady, Goto, sched
    <2> QED BY <1>15, <1>t, <2>1, HonourFrame DEF NoFutureReady, sched
  <1>16. CASE RunSleep(c)
    <2>1. MovesOn(c)
      BY <1>16, <1>t DEF MovesOn, RunSleep, sched, local
    <2> QED BY <1>16, <1>t, <2>1, HonourFrame DEF RunSleep, sched, local
  <1>17. ASSUME NEW t \in Task, RunWake(c, t) PROVE BitsHonoured'
    <2>1. MovesOn(c)
      BY <1>17, <1>t DEF MovesOn, RunWake, Wake, Goto, WakeTo, WakeSchedules, sched
    <2> QED BY <1>17, <1>t, <2>1, HonourFrame DEF RunWake, sched
  <1>18. CASE PollReady(c)
    <2>1. MovesOn(c)
      BY <1>18, <1>t DEF MovesOn, PollReady, Goto, Leave, sched
    <2> QED BY <1>18, <1>t, <2>1, HonourFrame DEF PollReady, sched
  <1>19. CASE PollPending(c)
    <2>1. MovesOn(c)
      BY <1>19, <1>t DEF MovesOn, PollPending, Goto, Leave, PendingTo, sched
    <2> QED BY <1>19, <1>t, <2>1, HonourFrame DEF PollPending, sched
  <1>20. CASE ApUp(c)
    <2>1. is_launching /\ launched \in VCPU /\ pc[launched] = "off" /\ pc[c] = "off"
      BY <1>20 DEF ApUp, Launching, StartUnderWay
    <2>2. c = launched
      <3>1. launched <= c /\ ~(launched < c)
        BY <1>20, <2>1 DEF ApUp, Launching
      <3> QED BY <2>1, <3>1 DEF VCPU
    <2>3. \A d \in bits : d # c => pc[d] # "off"
      <3> SUFFICES ASSUME NEW d \in bits, pc[d] = "off" PROVE d = launched
        BY <2>2
      <3>1. d \in VCPU /\ launched <= d /\ (d < launched \/ d = launched)
        BY <1>t DEF Launching
      <3> QED BY <2>1, <3>1 DEF VCPU
    <2> QED BY <1>20, <1>t, <2>3 DEF BitsHonoured, ApUp, Goto, sched
  <1>21. CASE SpuriousReturn(c)
    <2>1. MovesOn(c)
      BY <1>21, <1>t DEF MovesOn, SpuriousReturn, Goto, sched
    <2> QED BY <1>21, <1>t, <2>1, HonourFrame DEF SpuriousReturn, sched
  <1> QED
    BY <1>1, <1>2, <1>3, <1>4, <1>5, <1>6, <1>7, <1>8, <1>9, <1>10, <1>11,
       <1>12, <1>13, <1>14, <1>15, <1>16, <1>17, <1>18, <1>19, <1>20, <1>21
    DEF VcpuStep, RunStep, EndPoll

(* A vCPU runs with its bit set. *)
LEMMA BitStep ==
  ASSUME TypeOK, Launching, RunningHasBit, Next
  PROVE  RunningHasBit'
  <1>1. PICK c \in VCPU : VcpuStep(c) \/ RunStep(c) \/ EndPoll(c) \/ ApUp(c) \/ SpuriousReturn(c)
    BY DEF Next
  <1>t. /\ pc \in [VCPU -> PC]
        /\ ret \in [VCPU -> {"launch", "poll", "run", "firing"}]
        /\ bits \subseteq VCPU
        /\ launched \in 0 .. MAX_APS_COUNT
    BY DEF TypeOK
  <1>2. CASE Boot(c)
    BY <1>2, <1>t DEF RunningHasBit, Boot, Wake, Goto, WakeTo, WakeSchedules, sched
  <1>3. CASE FinishLaunch(c)
    BY <1>3, <1>t DEF RunningHasBit, FinishLaunch, Goto, sched, local
  <1>4. CASE Push(c)
    BY <1>4, <1>t DEF RunningHasBit, Push, Goto, sched
  <1>5. ASSUME NEW idx \in 0 .. MAX_APS_COUNT, PickAny(c, idx) PROVE RunningHasBit'
    BY <1>5, <1>t DEF RunningHasBit, PickAny, Goto, Back, Launchable
  <1>6. CASE Arm(c)
    BY <1>6, <1>t DEF RunningHasBit, Arm, Goto, Back, sched
  <1>7. CASE StartNextAp(c)
    BY <1>7, <1>t DEF RunningHasBit, StartNextAp, Goto, Back, sched
  <1>8. CASE Pop(c)
    BY <1>8, <1>t DEF RunningHasBit, Pop, Goto, sched
  <1>9. CASE StoreRunning(c)
    BY <1>9, <1>t DEF RunningHasBit, StoreRunning, Goto, sched
  <1>10. CASE Halt(c)
    BY <1>10, <1>t DEF RunningHasBit, Halt, Goto, OthersRun
  <1>11. CASE Return(c)
    BY <1>11, <1>t DEF RunningHasBit, Return, Goto, sched
  <1>12. CASE Resume(c)
    BY <1>12, <1>t DEF RunningHasBit, Resume, Goto
  <1>13. ASSUME NEW t \in Task, AdvanceTime(c, t) PROVE RunningHasBit'
    BY <1>13, <1>t DEF RunningHasBit, AdvanceTime, Wake, Goto, WakeTo, WakeSchedules, sched
  <1>14. CASE AdvanceDone(c)
    BY <1>14, <1>t DEF RunningHasBit, AdvanceDone, Goto, sched
  <1>15. CASE NoFutureReady(c)
    BY <1>15, <1>t DEF RunningHasBit, NoFutureReady, Goto, sched
  <1>16. CASE RunSleep(c)
    BY <1>16, <1>t DEF RunningHasBit, RunSleep, sched, local
  <1>17. ASSUME NEW t \in Task, RunWake(c, t) PROVE RunningHasBit'
    BY <1>17, <1>t DEF RunningHasBit, RunWake, Wake, Goto, WakeTo, WakeSchedules, sched
  <1>18. CASE PollReady(c)
    BY <1>18, <1>t DEF RunningHasBit, PollReady, Goto, Leave, sched
  <1>19. CASE PollPending(c)
    BY <1>19, <1>t DEF RunningHasBit, PollPending, Goto, Leave, PendingTo, sched
  <1>20. CASE ApUp(c)
    <2>1. is_launching /\ launched \in VCPU /\ pc[launched] = "off" /\ pc[c] = "off"
      BY <1>20 DEF ApUp, Launching, StartUnderWay
    <2>2. c = launched
      <3>1. launched <= c /\ ~(launched < c)
        BY <1>20, <2>1 DEF ApUp, Launching
      <3> QED BY <2>1, <3>1 DEF VCPU
    <2>3. c \in bits
      BY <2>1, <2>2 DEF Launching
    <2> QED BY <1>20, <1>t, <2>3 DEF RunningHasBit, ApUp, Goto, sched
  <1>21. CASE SpuriousReturn(c)
    BY <1>21, <1>t DEF RunningHasBit, SpuriousReturn, Goto, sched
  <1> QED
    BY <1>1, <1>2, <1>3, <1>4, <1>5, <1>6, <1>7, <1>8, <1>9, <1>10, <1>11,
       <1>12, <1>13, <1>14, <1>15, <1>16, <1>17, <1>18, <1>19, <1>20, <1>21
    DEF VcpuStep, RunStep, EndPoll

(* A vCPU that goes idle leaves no task in the queue for nobody. *)
LEMMA StrandStep ==
  ASSUME TypeOK, RunningHasBit, NeverStranded, Next
  PROVE  NeverStranded'
  <1>1. PICK c \in VCPU : VcpuStep(c) \/ RunStep(c) \/ EndPoll(c) \/ ApUp(c) \/ SpuriousReturn(c)
    BY DEF Next
  <1>t. /\ pc \in [VCPU -> PC]
        /\ ret \in [VCPU -> {"launch", "poll", "run", "firing"}]
        /\ bits \subseteq VCPU
    BY DEF TypeOK
  <1>2. CASE Boot(c)
    BY <1>2, <1>t DEF RunningHasBit, NeverStranded, WillPoll, Boot, Wake, Goto, WakeTo, WakeSchedules, sched
  <1>3. CASE FinishLaunch(c)
    BY <1>3, <1>t DEF RunningHasBit, NeverStranded, WillPoll, FinishLaunch, Goto, sched, local
  <1>4. CASE Push(c)
    BY <1>4, <1>t DEF RunningHasBit, NeverStranded, WillPoll, Push, Goto, sched
  <1>5. ASSUME NEW idx \in 0 .. MAX_APS_COUNT, PickAny(c, idx) PROVE NeverStranded'
    BY <1>5, <1>t DEF RunningHasBit, NeverStranded, WillPoll, PickAny, Goto, Back, Launchable
  <1>6. CASE Arm(c)
    BY <1>6, <1>t DEF RunningHasBit, NeverStranded, WillPoll, Arm, Goto, Back, sched
  <1>7. CASE StartNextAp(c)
    BY <1>7, <1>t DEF RunningHasBit, NeverStranded, WillPoll, StartNextAp, Goto, Back, sched
  <1>8. CASE Pop(c)
    BY <1>8, <1>t DEF RunningHasBit, NeverStranded, WillPoll, Pop, Goto, sched
  <1>9. CASE StoreRunning(c)
    BY <1>9, <1>t DEF RunningHasBit, NeverStranded, WillPoll, StoreRunning, Goto, sched
  <1>10. CASE Halt(c)
    BY <1>10, <1>t DEF RunningHasBit, NeverStranded, WillPoll, Halt, Goto, OthersRun
  <1>11. CASE Return(c)
    BY <1>11, <1>t DEF RunningHasBit, NeverStranded, WillPoll, Return, Goto, sched
  <1>12. CASE Resume(c)
    BY <1>12, <1>t DEF RunningHasBit, NeverStranded, WillPoll, Resume, Goto
  <1>13. ASSUME NEW t \in Task, AdvanceTime(c, t) PROVE NeverStranded'
    BY <1>13, <1>t DEF RunningHasBit, NeverStranded, WillPoll, AdvanceTime, Wake, Goto, WakeTo, WakeSchedules, sched
  <1>14. CASE AdvanceDone(c)
    BY <1>14, <1>t DEF RunningHasBit, NeverStranded, WillPoll, AdvanceDone, Goto, sched
  <1>15. CASE NoFutureReady(c)
    BY <1>15, <1>t DEF RunningHasBit, NeverStranded, WillPoll, NoFutureReady, Goto, sched
  <1>16. CASE RunSleep(c)
    BY <1>16, <1>t DEF RunningHasBit, NeverStranded, WillPoll, RunSleep, sched, local
  <1>17. ASSUME NEW t \in Task, RunWake(c, t) PROVE NeverStranded'
    BY <1>17, <1>t DEF RunningHasBit, NeverStranded, WillPoll, RunWake, Wake, Goto, WakeTo, WakeSchedules, sched
  <1>18. CASE PollReady(c)
    BY <1>18, <1>t DEF RunningHasBit, NeverStranded, WillPoll, PollReady, Goto, Leave, sched
  <1>19. CASE PollPending(c)
    BY <1>19, <1>t DEF RunningHasBit, NeverStranded, WillPoll, PollPending, Goto, Leave, PendingTo, sched
  <1>20. CASE ApUp(c)
    BY <1>20, <1>t DEF RunningHasBit, NeverStranded, WillPoll, ApUp, Goto, sched
  <1>21. CASE SpuriousReturn(c)
    BY <1>21, <1>t DEF RunningHasBit, NeverStranded, WillPoll, SpuriousReturn, Goto, sched
  <1> QED
    BY <1>1, <1>2, <1>3, <1>4, <1>5, <1>6, <1>7, <1>8, <1>9, <1>10, <1>11,
       <1>12, <1>13, <1>14, <1>15, <1>16, <1>17, <1>18, <1>19, <1>20, <1>21
    DEF VcpuStep, RunStep, EndPoll

(* Who is left when a vCPU finds itself to be the last one. *)
LEMMA LeftStep ==
  ASSUME TypeOK, Launching, RunningHasBit, NeverStranded, OnlyOneLeft, Next
  PROVE  OnlyOneLeft'
  <1>1. PICK c \in VCPU : VcpuStep(c) \/ RunStep(c) \/ EndPoll(c) \/ ApUp(c) \/ SpuriousReturn(c)
    BY DEF Next
  <1>t. /\ pc \in [VCPU -> PC]
        /\ ret \in [VCPU -> {"launch", "poll", "run", "firing"}]
        /\ InitTask \in Task
        /\ bits \subseteq VCPU
    BY ExecutorAssumption DEF TypeOK
  <1>2. CASE Boot(c)
    BY <1>2, <1>t DEF OnlyOneLeft, Boot, Wake, Goto, WakeTo, WakeSchedules, sched
  <1>3. CASE FinishLaunch(c)
    BY <1>3, <1>t DEF OnlyOneLeft, FinishLaunch, Goto, sched, local
  <1>4. CASE Push(c)
    BY <1>4, <1>t DEF OnlyOneLeft, Push, Goto, sched
  <1>5. ASSUME NEW idx \in 0 .. MAX_APS_COUNT, PickAny(c, idx) PROVE OnlyOneLeft'
    <2>1. \A e \in VCPU : pc[e] \notin {"advance", "panic"}
      BY <1>5 DEF OnlyOneLeft, PickAny
    <2>2. \A e \in VCPU : pc'[e] \notin {"advance", "panic"}
      BY <1>5, <1>t, <2>1 DEF PickAny, Goto, Back
    <2> QED BY <2>2 DEF OnlyOneLeft
  <1>6. CASE Arm(c)
    BY <1>6, <1>t DEF OnlyOneLeft, Arm, Goto, Back, sched
  <1>7. CASE StartNextAp(c)
    BY <1>7, <1>t DEF OnlyOneLeft, StartNextAp, Goto, Back, sched
  <1>8. CASE Pop(c)
    <2>1. CASE queue = <<>>
      <3>1. /\ pc[c] = "poll" /\ queue' = queue /\ is_launching' = is_launching
            /\ \A d \in VCPU : pc'[d] = IF d = c THEN "halt" ELSE pc[d]
        BY <1>8, <1>t, <2>1 DEF Pop, Goto, sched
      <3> QED BY <3>1 DEF OnlyOneLeft
    <2>2. CASE queue # <<>>
      <3>1. \A e \in VCPU : pc[e] \notin {"advance", "panic"}
        BY <2>2 DEF OnlyOneLeft
      <3>2. \A e \in VCPU : pc'[e] \notin {"advance", "panic"}
        BY <1>8, <1>t, <2>2, <3>1 DEF Pop, Goto
      <3> QED BY <3>2 DEF OnlyOneLeft
    <2> QED BY <2>1, <2>2
  <1>9. CASE StoreRunning(c)
    BY <1>9, <1>t DEF OnlyOneLeft, StoreRunning, Goto, sched
  <1>10. CASE Halt(c)
    <2>1. CASE OthersRun(c)
      BY <1>10, <1>t, <2>1 DEF Halt, Goto, OnlyOneLeft
    <2>2. CASE ~OthersRun(c)
      <3>1. \A d \in VCPU \ {c} : pc[d] \in {"off", "halted", "resume"}
        BY <2>2 DEF OthersRun, RunningHasBit
      <3>2. queue = <<>>
        BY <1>10, <2>2 DEF Halt, OthersRun, NeverStranded, WillPoll
      <3>3. ~is_launching
        <4>1. c < launched /\ (is_launching => launched \in bits)
          BY <1>10 DEF Halt, Launching, Booting, Scheduling
        <4>2. launched # c
          BY <4>1 DEF VCPU
        <4> QED BY <2>2, <4>1, <4>2 DEF OthersRun
      <3>4. /\ queue' = queue /\ is_launching' = is_launching
            /\ \A d \in VCPU : pc'[d] = IF d = c THEN "advance" ELSE pc[d]
        BY <1>10, <1>t, <2>2 DEF Halt, Goto
      <3> QED BY <3>1, <3>2, <3>3, <3>4 DEF OnlyOneLeft
    <2> QED BY <2>1, <2>2
  <1>11. CASE Return(c)
    BY <1>11, <1>t DEF OnlyOneLeft, Return, Goto, sched
  <1>12. CASE Resume(c)
    BY <1>12, <1>t DEF OnlyOneLeft, Resume, Goto
  <1>13. ASSUME NEW t \in Task, AdvanceTime(c, t) PROVE OnlyOneLeft'
    BY <1>13, <1>t DEF OnlyOneLeft, AdvanceTime, Wake, Goto, WakeTo, WakeSchedules, sched
  <1>14. CASE AdvanceDone(c)
    BY <1>14, <1>t DEF OnlyOneLeft, AdvanceDone, Goto, sched
  <1>15. CASE NoFutureReady(c)
    BY <1>15, <1>t DEF OnlyOneLeft, NoFutureReady, Goto, sched
  <1>16. CASE RunSleep(c)
    BY <1>16, <1>t DEF OnlyOneLeft, RunSleep, sched, local
  <1>17. ASSUME NEW t \in Task, RunWake(c, t) PROVE OnlyOneLeft'
    BY <1>17, <1>t DEF OnlyOneLeft, RunWake, Wake, Goto, WakeTo, WakeSchedules, sched
  <1>18. CASE PollReady(c)
    BY <1>18, <1>t DEF OnlyOneLeft, PollReady, Goto, Leave, sched
  <1>19. CASE PollPending(c)
    BY <1>19, <1>t DEF OnlyOneLeft, PollPending, Goto, Leave, PendingTo, sched
  <1>20. CASE ApUp(c)
    <2>1. is_launching
      BY <1>20 DEF ApUp, Launching, StartUnderWay
    <2> QED BY <1>20, <1>t, <2>1 DEF OnlyOneLeft, ApUp, Goto, sched
  <1>21. CASE SpuriousReturn(c)
    BY <1>21, <1>t DEF OnlyOneLeft, SpuriousReturn, Goto, sched
  <1> QED
    BY <1>1, <1>2, <1>3, <1>4, <1>5, <1>6, <1>7, <1>8, <1>9, <1>10, <1>11,
       <1>12, <1>13, <1>14, <1>15, <1>16, <1>17, <1>18, <1>19, <1>20, <1>21
    DEF VcpuStep, RunStep, EndPoll

-----------------------------------------------------------------------------
(* The inductive invariant holds in every state the executor can reach, for *)
(* any number of vCPUs and tasks.                                           *)
THEOREM Inductive == Spec => []IInv
  <1>1. Init => IInv
    <2> SUFFICES ASSUME Init PROVE IInv
      OBVIOUS
    <2>1. 0 \in VCPU /\ InitTask \in Task
      BY ExecutorAssumption DEF VCPU
    <2>2. TypeOK
      <3>1. pc \in [VCPU -> PC]
        BY DEF Init, PC
      <3>2. state \in [Task -> TaskState] /\ queue \in Seq(Task)
        BY DEF Init, TaskState
      <3>3. launched \in 0 .. MAX_APS_COUNT
        BY ExecutorAssumption DEF Init
      <3> QED BY <2>1, <3>1, <3>2, <3>3 DEF Init, TypeOK
    <2>3. \A c \in VCPU : pc[c] \in {"boot", "off"} /\ (pc[c] = "boot" <=> c = 0)
      BY DEF Init
    <2>4. Held
      <3>1. \A c \in VCPU, t \in Task : ~Holds(c, t) /\ ~Polls(c, t)
        BY <2>3 DEF Holds, Polls
      <3>2. NoDuplicates /\ \A t \in Task : ~InQueue(t) /\ state[t] = "Waiting"
        BY DEF NoDuplicates, InQueue, Init
      <3> QED BY <3>1, <3>2 DEF Held, HeldOnce, OnePoller
    <2>5. Launching
      <3>1. launched = 0 /\ is_launching /\ ~starting /\ bits = {0}
        BY DEF Init
      <3>2. \A c \in VCPU : Booting(c) <=> c = 0
        BY <2>3 DEF Booting, Scheduling
      <3>3. \A c \in VCPU : 0 <= c
        BY ExecutorAssumption DEF VCPU
      <3> QED BY <2>1, <2>3, <3>1, <3>2, <3>3 DEF Launching
    <2>6. NoLostWake /\ NeverStranded
      BY DEF Init, NoLostWake, NeverStranded
    <2>7. BitsHonoured /\ RunningHasBit /\ OnlyOneLeft
      BY <2>1, <2>3 DEF Init, BitsHonoured, RunningHasBit, OnlyOneLeft
    <2> QED BY <2>2, <2>4, <2>5, <2>6, <2>7 DEF IInv
  <1>2. IInv /\ [Next]_vars => IInv'
    <2> SUFFICES ASSUME IInv, [Next]_vars PROVE IInv'
      OBVIOUS
    <2>1. CASE Next
      BY <2>1, TypeStep, HeldStep, WakeStep, LaunchStep, HonourStep, BitStep, StrandStep, LeftStep
      DEF IInv
    <2>2. CASE UNCHANGED vars
      <3>1. TypeOK' /\ NoLostWake'
        BY <2>2 DEF vars, IInv, TypeOK, NoLostWake
      <3>2. Held'
        <4>1. SameHolders
          BY <2>2 DEF vars, SameHolders, Holds, Polls
        <4> QED BY <2>2, <4>1, HeldFrame DEF vars, IInv
      <3>3. Launching'
        <4>1. SamePhase
          BY <2>2 DEF vars, SamePhase, Booting, Scheduling
        <4> QED BY <2>2, <4>1, LaunchFrame DEF vars, IInv, NewBitsUp, Launching
      <3>4. BitsHonoured' /\ RunningHasBit'
        BY <2>2 DEF vars, IInv, BitsHonoured, RunningHasBit
      <3>5. NeverStranded' /\ OnlyOneLeft'
        BY <2>2 DEF vars, IInv, NeverStranded, WillPoll, OnlyOneLeft
      <3> QED BY <3>1, <3>2, <3>3, <3>4, <3>5 DEF IInv
    <2> QED BY <2>1, <2>2
  <1> QED BY <1>1, <1>2, PTL DEF Spec

(* The variables keep their types: no vCPU index leaves the table, in       *)
(* particular (Scheduler::pick_any, finish_launch).                         *)
THEOREM TypeCorrect == Spec => []TypeOK
  <1>1. IInv => TypeOK
    BY DEF IInv
  <1> QED BY <1>1, Inductive, PTL

(* Task::poll never runs on two vCPUs for one task. *)
THEOREM PolledByOne == Spec => []OnePoller
  <1>1. IInv => OnePoller
    BY DEF IInv, Held
  <1> QED BY <1>1, Inductive, PTL

(* A scheduled task is in the queue, or in the hands of one vCPU, once. *)
THEOREM ScheduledOnce == Spec => []HeldOnce
  <1>1. IInv => HeldOnce
    BY DEF IInv, Held
  <1> QED BY <1>1, Inductive, PTL

(* No wake is lost, whatever the wakers and the pollers interleave to. *)
THEOREM WakesAreKept == Spec => []NoLostWake
  <1>1. IInv => NoLostWake
    BY DEF IInv
  <1> QED BY <1>1, Inductive, PTL

(* A task in the queue always has a vCPU that will look at the queue, on    *)
(* its way even if it is halted or not up yet.                              *)
THEOREM QueueIsServed == Spec => [](NeverStranded /\ BitsHonoured)
  <1>1. IInv => NeverStranded /\ BitsHonoured
    BY DEF IInv
  <1> QED BY <1>1, Inductive, PTL

(* vCPUs come up one at a time, in the order of their indices. *)
THEOREM LaunchesInOrder == Spec => []LaunchOrder
  <1>1. IInv => LaunchOrder
    BY DEF IInv, Launching, LaunchOrder, Booting, Scheduling, TypeOK
  <1> QED BY <1>1, Inductive, PTL

(* Simulated time skips, and the kernel gives up, only when no task is      *)
(* scheduled or running on any vCPU.                                        *)
THEOREM SkipsWhenIdle == Spec => []TimeSkipsOnlyWhenIdle
  <1>1. IInv => TimeSkipsOnlyWhenIdle
    <2> SUFFICES ASSUME IInv, NEW c \in VCPU, pc[c] \in {"advance", "panic"}, NEW t \in Task
                 PROVE  queue = <<>> /\ state[t] \in {"Waiting", "Done"}
      BY ExecutorAssumption DEF TimeSkipsOnlyWhenIdle
    <2>1. queue = <<>>
          /\ \A d \in VCPU : pc[d] \in {"off", "halted", "resume", "poll", "halt", "advance", "panic"}
      BY DEF IInv, OnlyOneLeft
    <2>2. ~InQueue(t) /\ \A d \in VCPU : ~Holds(d, t) /\ ~Polls(d, t)
      <3>1. ~InQueue(t)
        BY <2>1 DEF InQueue
      <3>2. \A d \in VCPU : ~Holds(d, t)
        BY <2>1 DEF Holds
      <3>3. \A d \in VCPU : ~Polls(d, t)
        BY <2>1 DEF Polls
      <3> QED BY <3>1, <3>2, <3>3
    <2>3. state[t] \in TaskState
      BY DEF IInv, TypeOK
    <2>4. state[t] \notin {"Scheduled", "Running", "Rescheduled"}
      BY <2>2 DEF IInv, Held, HeldOnce, OnePoller
    <2> QED BY <2>1, <2>3, <2>4 DEF TaskState
  <1> QED BY <1>1, Inductive, PTL

(* The task's state, the queue and the vCPUs agree on who holds a task, so   *)
(* that Task::poll never meets itself.                                       *)
THEOREM TasksAreHeld == Spec => []TasksHeld
  BY TypeCorrect, PolledByOne, ScheduledOnce, PTL DEF TasksHeld

(* schedule_vcpu, halt and the start of the APs keep a vCPU on its way to    *)
(* every task in the queue.                                                  *)
THEOREM VcpusAreServing == Spec => []VcpusServe
  BY QueueIsServed, LaunchesInOrder, PTL DEF VcpusServe
=============================================================================
