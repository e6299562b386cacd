------------------------------ MODULE Executor ------------------------------
(***************************************************************************)
(* The async executor of the workload kernel and its vCPU scheduler        *)
(* (tee/kernel/src/rt.rs, supervisor.rs, user.rs, main.rs): every vCPU     *)
(* takes tasks from one queue, wakes tasks while it polls, halts when the  *)
(* queue is empty, and the last one to go idle advances the simulated time *)
(* instead.  Each atomic operation and each critical section is a step.    *)
(*                                                                         *)
(* Waking a halted vCPU (arming its notification and kicking the           *)
(* supervisor) is abstracted to the set notified; the protocols that       *)
(* deliver it are modelled in HostServices and TdxServices.                 *)
(***************************************************************************)
EXTENDS Integers, Sequences

CONSTANTS MAX_APS_COUNT,   \* number of vCPUs
          Task,            \* tasks, spawned or not
          InitTask         \* the task of the init process

ASSUME ExecutorAssumption ==
  /\ MAX_APS_COUNT \in Nat \ {0}
  /\ InitTask \in Task

VCPU == 0 .. MAX_APS_COUNT - 1
TaskState == {"Waiting", "Scheduled", "Running", "Rescheduled", "Done"}
PC == {"off", "boot", "launch", "poll", "store", "run", "push", "pick", "arm", "start",
       "halt", "halted", "resume", "advance", "firing", "panic"}

VARIABLES
  state,         \* Task::state
  queue,         \* SCHEDULED_THREADS
  bits,          \* SchedulerState: the vCPUs that run or were told to run
  launched,      \* SchedulerState: number of vCPUs that finished launching
  is_launching,  \* SchedulerState: a vCPU is being launched
  starting,      \* StartNextAp was sent and the next vCPU is not up yet
  notified,      \* vCPUs that will return from hlt
  sleeping,      \* tasks with a valid timeout in time::STATE
  woken,         \* history: tasks woken since their future was last entered
  pc, cur, waking, ret, target   \* local state of every vCPU

sched == <<bits, launched, is_launching>>
local == <<pc, cur, waking, ret, target>>
vars == <<state, queue, bits, launched, is_launching, starting, notified, sleeping,
          woken, pc, cur, waking, ret, target>>

Init ==
  /\ state = [t \in Task |-> "Waiting"]
  /\ queue = <<>>
  /\ bits = {0} /\ launched = 0 /\ is_launching = TRUE
  /\ starting = FALSE
  /\ notified = {}
  /\ sleeping = {}
  /\ woken = {}
  /\ pc = [c \in VCPU |-> IF c = 0 THEN "boot" ELSE "off"]
  /\ cur = [c \in VCPU |-> InitTask]
  /\ waking = [c \in VCPU |-> InitTask]
  /\ ret = [c \in VCPU |-> "poll"]
  /\ target = [c \in VCPU |-> 0]

Goto(c, l) == pc' = [pc EXCEPT ![c] = l]
Back(c) == Goto(c, ret[c]) /\ ret' = [ret EXCEPT ![c] = "poll"]
(* Task::poll returns and drops its reference to the task. *)
Leave(c) == Goto(c, "poll") /\ cur' = [cur EXCEPT ![c] = InitTask]

-----------------------------------------------------------------------------
(* Task::wake: what it makes of the state, and whether it schedules the task *)
WakeToForgets(s) == IF s = "Waiting" THEN "Scheduled" ELSE s
WakeTo(s) == CASE s = "Waiting" -> "Scheduled" [] s = "Running" -> "Rescheduled" [] OTHER -> s
WakeSchedulesTwice(s) == s \in {"Waiting", "Running"}
WakeSchedules(s) == s = "Waiting"

Wake(c, t, back) ==
  /\ state' = [state EXCEPT ![t] = WakeTo(@)]
  /\ woken' = IF state[t] = "Done" THEN woken ELSE woken \cup {t}
  /\ IF WakeSchedules(state[t])
     THEN Goto(c, "push") /\ waking' = [waking EXCEPT ![c] = t] /\ ret' = [ret EXCEPT ![c] = back]
     ELSE Goto(c, back) /\ UNCHANGED <<waking, ret>>

Push(c) ==
  /\ pc[c] = "push"
  /\ queue' = Append(queue, waking[c])
  /\ waking' = [waking EXCEPT ![c] = InitTask]
  /\ Goto(c, "pick")
  /\ UNCHANGED <<state, sched, starting, notified, sleeping, woken, cur, ret, target>>

(* Scheduler::pick_any; idx is bits.trailing_ones() *)
Launchable(idx) == ~is_launching /\ idx < MAX_APS_COUNT
PickAny(c, idx) ==
  /\ pc[c] = "pick"
  /\ idx \notin bits /\ \A j \in 0 .. idx - 1 : j \in bits
  /\ \/ /\ idx < launched
        /\ bits' = bits \cup {idx}
        /\ target' = [target EXCEPT ![c] = idx]
        /\ Goto(c, "arm")
        /\ UNCHANGED <<is_launching, ret>>
     \/ /\ idx >= launched /\ Launchable(idx)
        /\ is_launching' = TRUE
        /\ bits' = bits \cup {idx}
        /\ Goto(c, "start")
        /\ UNCHANGED <<target, ret>>
     \/ /\ idx >= launched /\ ~Launchable(idx)
        /\ Back(c)
        /\ UNCHANGED <<bits, is_launching, target>>
  /\ UNCHANGED <<state, queue, launched, starting, notified, sleeping, woken, cur, waking>>

(* schedule_vcpu: notification_buffer.arm(cpu); kick_supervisor(true) *)
Arm(c) ==
  /\ pc[c] = "arm"
  /\ notified' = notified \cup {target[c]}
  /\ target' = [target EXCEPT ![c] = 0]
  /\ Back(c)
  /\ UNCHANGED <<state, queue, sched, starting, sleeping, woken, cur, waking>>

(* schedule_vcpu: start_next_ap() *)
StartNextAp(c) ==
  /\ pc[c] = "start"
  /\ starting' = TRUE
  /\ Back(c)
  /\ UNCHANGED <<state, queue, sched, notified, sleeping, woken, cur, waking, target>>

-----------------------------------------------------------------------------
(* main::init on the first vCPU: start_init_process spawns the init task. *)
Boot(c) ==
  /\ pc[c] = "boot"
  /\ Wake(c, InitTask, "launch")
  /\ UNCHANGED <<queue, sched, starting, notified, sleeping, cur, target>>

(* The supervisor starts the next vCPU, which takes the next index. *)
ApUp(c) ==
  /\ starting /\ pc[c] = "off" /\ \A d \in VCPU : d < c => pc[d] # "off"
  /\ starting' = FALSE
  /\ Goto(c, "launch")
  /\ UNCHANGED <<state, queue, sched, notified, sleeping, woken, cur, waking, ret, target>>

(* Scheduler::finish_launch *)
FinishLaunch(c) ==
  /\ pc[c] = "launch"
  /\ is_launching' = FALSE
  /\ launched' = launched + 1
  /\ Goto(c, "poll")
  /\ UNCHANGED <<state, queue, bits, starting, notified, sleeping, woken, cur, waking, ret, target>>

(* rt::poll: SCHEDULED_THREADS.pop() *)
Pop(c) ==
  /\ pc[c] = "poll"
  /\ IF queue = <<>>
     THEN Goto(c, "halt") /\ UNCHANGED <<queue, cur>>
     ELSE /\ cur' = [cur EXCEPT ![c] = Head(queue)]
          /\ queue' = Tail(queue)
          /\ Goto(c, "store")
  /\ UNCHANGED <<state, sched, starting, notified, sleeping, woken, waking, ret, target>>

(* Task::poll: Scheduled -> Running *)
StoreRunning(c) ==
  /\ pc[c] = "store"
  /\ state' = [state EXCEPT ![cur[c]] = "Running"]
  /\ Goto(c, "run")
  /\ woken' = woken \ {cur[c]}
  /\ UNCHANGED <<queue, sched, starting, notified, sleeping, cur, waking, ret, target>>

(* The future polled by c wakes (or spawns) a task; reading the clock may  *)
(* also fire the task's timeout.                                           *)
RunWake(c, t) ==
  /\ pc[c] = "run"
  /\ Wake(c, t, "run")
  /\ sleeping' \in {sleeping, sleeping \ {t}}
  /\ UNCHANGED <<queue, sched, starting, notified, cur, target>>

(* The future registers or drops a timeout. *)
RunSleep(c) ==
  /\ pc[c] = "run"
  /\ sleeping' = IF cur[c] \in sleeping THEN sleeping \ {cur[c]} ELSE sleeping \cup {cur[c]}
  /\ UNCHANGED <<state, queue, sched, starting, notified, woken, local>>

(* Task::poll: the future is ready. *)
PollReady(c) ==
  /\ pc[c] = "run"
  /\ state' = [state EXCEPT ![cur[c]] = "Done"]
  /\ sleeping' = sleeping \ {cur[c]}
  /\ Leave(c)
  /\ woken' = woken \ {cur[c]}
  /\ UNCHANGED <<queue, sched, starting, notified, waking, ret, target>>

(* Task::poll: the future is pending; run again if it was rescheduled. *)
PendingTo(s) == CASE s = "Running" -> "Waiting" [] s = "Rescheduled" -> "Running" [] OTHER -> s
PollPending(c) ==
  /\ pc[c] = "run"
  /\ state' = [state EXCEPT ![cur[c]] = PendingTo(@)]
  /\ IF state[cur[c]] = "Rescheduled"
     THEN woken' = woken \ {cur[c]} /\ UNCHANGED <<pc, cur>>
     ELSE Leave(c) /\ UNCHANGED woken
  /\ UNCHANGED <<queue, sched, starting, notified, sleeping, waking, ret, target>>

-----------------------------------------------------------------------------
(* Scheduler::halt: "Ensure that this vCPU isn't the last one running." *)
OthersRunUnlocked(c) == \E d \in VCPU \ {c} : pc[d] \in {"poll", "store", "run"}
OthersRun(c) == bits \ {c} # {}
Halt(c) ==
  /\ pc[c] = "halt"
  /\ \/ OthersRun(c) /\ bits' = bits \ {c} /\ Goto(c, "halted")
     \/ ~OthersRun(c) /\ Goto(c, "advance") /\ UNCHANGED bits   \* LastRunningVcpuError
  /\ UNCHANGED <<state, queue, launched, is_launching, starting, notified, sleeping, woken,
                 cur, waking, ret, target>>

(* kick_supervisor(false) returns: the vCPU was notified. *)
Return(c) ==
  /\ pc[c] = "halted" /\ c \in notified
  /\ notified' = notified \ {c}
  /\ Goto(c, "resume")
  /\ UNCHANGED <<state, queue, sched, starting, sleeping, woken, cur, waking, ret, target>>

(* "spurios wake ups are possible" *)
SpuriousReturn(c) ==
  /\ pc[c] = "halted"
  /\ Goto(c, "resume")
  /\ UNCHANGED <<state, queue, sched, starting, notified, sleeping, woken, cur, waking, ret, target>>

ResumeForgetsBit(c) ==
  /\ pc[c] = "resume"
  /\ Goto(c, "poll")
  /\ UNCHANGED <<state, queue, sched, starting, notified, sleeping, woken, cur, waking, ret, target>>

(* Scheduler::resume *)
Resume(c) ==
  /\ pc[c] = "resume"
  /\ bits' = bits \cup {c}
  /\ Goto(c, "poll")
  /\ UNCHANGED <<state, queue, launched, is_launching, starting, notified, sleeping, woken,
                 cur, waking, ret, target>>

(* advance_time: skip to a timeout and fire it ... *)
AdvanceTime(c, t) ==
  /\ pc[c] \in {"advance", "firing"} /\ t \in sleeping
  /\ sleeping' = sleeping \ {t}
  /\ Wake(c, t, "firing")
  /\ UNCHANGED <<queue, sched, starting, notified, cur, target>>

(* ... and every other timeout that has expired as well. *)
AdvanceDone(c) ==
  /\ pc[c] = "firing"
  /\ Goto(c, "poll")
  /\ UNCHANGED <<state, queue, sched, starting, notified, sleeping, woken, cur, waking, ret, target>>

(* panic!("no future is ready") *)
NoFutureReady(c) ==
  /\ pc[c] = "advance" /\ sleeping = {}
  /\ Goto(c, "panic")
  /\ UNCHANGED <<state, queue, sched, starting, notified, sleeping, woken, cur, waking, ret, target>>

-----------------------------------------------------------------------------
EndPoll(c) == PollReady(c) \/ PollPending(c)
VcpuStep(c) ==
  \/ Boot(c) \/ FinishLaunch(c) \/ Push(c) \/ (\E idx \in 0 .. MAX_APS_COUNT : PickAny(c, idx))
  \/ Arm(c) \/ StartNextAp(c) \/ Pop(c) \/ StoreRunning(c) \/ Halt(c) \/ Return(c) \/ Resume(c)
  \/ (\E t \in Task : AdvanceTime(c, t)) \/ AdvanceDone(c) \/ NoFutureReady(c)
RunStep(c) == RunSleep(c) \/ \E t \in Task : RunWake(c, t)

Next == \E c \in VCPU : VcpuStep(c) \/ RunStep(c) \/ EndPoll(c) \/ ApUp(c) \/ SpuriousReturn(c)

Spec == Init /\ [][Next]_vars

(* Every vCPU keeps executing, a started AP comes up and firing the expired *)
(* timeouts ends.  Every stay in Task::poll ends as well: each call of      *)
(* Future::poll returns, and no task is woken during every one of its polls *)
(* (Task::poll would run such a task again and again).                      *)
LeavePoll(c) == EndPoll(c) /\ pc'[c] = "poll"
Fairness ==
  \A c \in VCPU : /\ WF_vars(VcpuStep(c)) /\ WF_vars(ApUp(c))
                  /\ SF_vars(AdvanceDone(c)) /\ SF_vars(LeavePoll(c))
FairSpec == Spec /\ Fairness

-----------------------------------------------------------------------------
TypeOK ==
  /\ state \in [Task -> TaskState]
  /\ queue \in Seq(Task)
  /\ bits \in SUBSET VCPU /\ launched \in 0 .. MAX_APS_COUNT /\ is_launching \in BOOLEAN
  /\ starting \in BOOLEAN /\ notified \in SUBSET VCPU /\ sleeping \in SUBSET Task
  /\ woken \in SUBSET Task
  /\ pc \in [VCPU -> PC]
  /\ cur \in [VCPU -> Task] /\ waking \in [VCPU -> Task]
  /\ ret \in [VCPU -> {"launch", "poll", "run", "firing"}] /\ target \in [VCPU -> VCPU]

(* c is inside Task::poll of t, wherever the future's calls have led. *)
Polls(c, t) ==
  /\ cur[c] = t
  /\ pc[c] = "run" \/ (pc[c] \in {"push", "pick", "arm", "start"} /\ ret[c] = "run")

(* A task is never polled by two vCPUs (the second would spin on the        *)
(* future's mutex), and its state says so exactly.                          *)
OnePoller ==
  /\ \A t \in Task : state[t] \in {"Running", "Rescheduled"} <=> \E c \in VCPU : Polls(c, t)
  /\ \A t \in Task, c, d \in VCPU : Polls(c, t) /\ Polls(d, t) => c = d

(* A scheduled task is held exactly once: in the queue, by the vCPU about   *)
(* to push it, or by the vCPU that popped it and is about to run it.        *)
InQueue(t) == \E i \in 1 .. Len(queue) : queue[i] = t
NoDuplicates == \A i, j \in 1 .. Len(queue) : queue[i] = queue[j] => i = j
Holds(c, t) == (pc[c] = "push" /\ waking[c] = t) \/ (pc[c] = "store" /\ cur[c] = t)
HeldOnce ==
  /\ \A t \in Task : state[t] = "Scheduled" <=> InQueue(t) \/ \E c \in VCPU : Holds(c, t)
  /\ NoDuplicates
  /\ \A t \in Task, c \in VCPU : InQueue(t) => ~Holds(c, t)
  /\ \A t \in Task, c, d \in VCPU : Holds(c, t) /\ Holds(d, t) => c = d

(* Task::poll and schedule: every task has one place and one poller. *)
TasksHeld == TypeOK /\ OnePoller /\ HeldOnce

(* The simulated time only skips ahead, and "no future is ready" only       *)
(* panics, when no task is running or can run.                              *)
TimeSkipsOnlyWhenIdle ==
  (\E c \in VCPU : pc[c] \in {"advance", "panic"}) =>
    queue = <<>> /\ \A t \in Task : state[t] \in {"Waiting", "Done"}

(* A queued task is never stranded: some vCPU that counts as running has    *)
(* yet to look at the queue.                                                *)
WillPoll(c) == c \in bits /\ pc[c] \notin {"halt", "advance", "panic"}
NeverStranded == queue # <<>> => \E c \in VCPU : WillPoll(c)

(* A vCPU told to run is really on its way: it runs, is being launched, or  *)
(* its notification is pending or about to be sent.                         *)
BitsHonoured ==
  \A c \in bits :
    \/ pc[c] \notin {"off", "halted"}
    \/ pc[c] = "halted" /\ (c \in notified \/ \E d \in VCPU : pc[d] = "arm" /\ target[d] = c)
    \/ pc[c] = "off" /\ (starting \/ \E d \in VCPU : pc[d] = "start")

(* At most one vCPU is launched at a time and it is the one whose bit       *)
(* pick_any set; finish_launch's assertion holds.                           *)
LaunchOrder ==
  /\ \A c \in VCPU : pc[c] = "launch" => is_launching /\ launched = c
  /\ \A c \in VCPU : pc[c] \notin {"off", "boot", "launch", "push", "pick", "arm", "start"}
                       => c < launched
  /\ \A c \in bits : c < launched \/ (is_launching /\ c = launched)

(* schedule_vcpu and the vCPUs' loop: work that is queued has a vCPU that   *)
(* comes for it.                                                            *)
VcpusServe == NeverStranded /\ BitsHonoured /\ LaunchOrder

(* No wake is lost: a task that was woken after its future was last entered *)
(* is on its way to be entered again.                                       *)
NoLostWake == \A t \in woken : state[t] \in {"Scheduled", "Rescheduled"}

(* Every wake is followed by a poll of the task. *)
WokenTaskPolled == \A t \in Task : t \in woken ~> t \notin woken
=============================================================================
