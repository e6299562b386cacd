----------------------------- MODULE Processes -----------------------------
(***************************************************************************)
(* Processes and their threads: clone, exit, exit_group, execve, wait4.    *)
(*                                                                         *)
(* A thread is a task of the executor.  Every poll of it first looks at    *)
(* its running state and at the exit status of the process (watch) and     *)
(* then goes on with user space and system calls until something makes it  *)
(* wait; between two polls other threads may have terminated it.  The      *)
(* three spin locks that the life cycle is built on are modelled: the      *)
(* thread's own state (lockL), its running state (lockR) and the           *)
(* process's list of threads (lockT).  No step acquires a second lock.     *)
(***************************************************************************)
EXTENDS Naturals, FiniteSets, SequencesExt

CONSTANTS Process,     \* the process ids
          Pid1,        \* init, whose exit ends the virtual machine
          Thread,      \* the thread ids
          First,       \* the thread init starts with
          Nobody,      \* no thread, no process, a free lock
          MaxExec      \* bound: the number of execve calls

VARIABLES proc,      \* thread -> its process
          leader,    \* process -> the thread whose id is the process's id
          pc,        \* thread -> where its task is
          run,       \* thread -> its State (running_state.rs)
          why,       \* thread -> the call that is terminating other threads
          todo,      \* thread -> the threads it is still going to terminate
          want,      \* thread -> the child it waits for (Nobody: any)
          lockL, lockR, lockT,   \* the holders of the locks
          vfork,     \* thread -> the thread that waits for it (vfork_done)
          threads,   \* process -> its list of threads
          running,   \* process -> the number of running threads
          exited,    \* process -> its exit status has been set
          children,  \* process -> the processes it may wait for
          usage,     \* process -> the threads whose usage it has accounted
          execs,     \* the number of execve calls made so far
          panicked   \* an unreachable!(), an unwrap() or an index failed

calls == <<why, todo, want, execs>>
locks == <<lockL, lockR, lockT>>
family == <<proc, leader, children>>
group == <<threads, running>>
ends == <<exited, usage, panicked>>
vars == <<calls, locks, family, group, ends, pc, run, vfork>>

Goto(t, label) == pc' = [pc EXCEPT ![t] = label]

Release(lock, x) == lock' = [lock EXCEPT ![x] = Nobody]
Acquire(lock, x, t) == lock[x] = Nobody /\ lock' = [lock EXCEPT ![x] = t]

is_thread_group_leader(t) == leader[proc[t]] = t

(* The task of t has not returned yet, so a Weak<Thread> still upgrades. *)
Alive(t) == pc[t] \notin {"new", "dropped", "gone"}

Init ==
  /\ proc = [t \in Thread |-> IF t = First THEN Pid1 ELSE Nobody]
  /\ leader = [p \in Process |-> IF p = Pid1 THEN First ELSE Nobody]
  /\ pc = [t \in Thread |-> IF t = First THEN "spawned" ELSE "new"]
  /\ run = [t \in Thread |-> "Running"]
  /\ why = [t \in Thread |-> "none"]
  /\ todo = [t \in Thread |-> <<>>]
  /\ want = [t \in Thread |-> Nobody]
  /\ lockL = [t \in Thread |-> Nobody]
  /\ lockR = [t \in Thread |-> Nobody]
  /\ lockT = [p \in Process |-> Nobody]
  /\ vfork = [t \in Thread |-> Nobody]
  /\ threads = [p \in Process |-> <<>>]
  /\ running = [p \in Process |-> 0]
  /\ exited = [p \in Process |-> FALSE]
  /\ children = [p \in Process |-> {}]
  /\ usage = [p \in Process |-> {}]
  /\ execs = 0
  /\ panicked = FALSE

--------------------------------------------------------------------------
(* Starting threads and processes. *)

(* The first poll of a thread: run() adds it to the process. *)
add_thread(t) ==
  /\ pc[t] = "spawned" /\ lockT[proc[t]] = Nobody
  /\ threads' = [threads EXCEPT ![proc[t]] = Append(@, t)]
  /\ running' = [running EXCEPT ![proc[t]] = @ + 1]
  /\ Goto(t, "user")
  /\ UNCHANGED <<calls, locks, family, ends, run, vfork>>

(* The sender of vfork_done is used or dropped: its receiver returns. *)
DropSender(t) == vfork' = [vfork EXCEPT ![t] = Nobody]

(* ThreadGuard::clone *)
NewThread(u, p) == proc' = [proc EXCEPT ![u] = p]

(* clone.  The caller holds its own lock; with CLONE_VFORK it keeps it     *)
(* while it waits for vfork_done.                                          *)
Spawn(t, u, vforked) ==
  IF vforked
  THEN /\ pc' = [pc EXCEPT ![u] = "spawned", ![t] = "vfork"]
       /\ vfork' = [vfork EXCEPT ![u] = t]
       /\ lockL' = [lockL EXCEPT ![t] = t]
  ELSE Goto(u, "spawned") /\ UNCHANGED <<vfork, lockL>>

(* The memory cannot be copied, or a thread id cannot be written to user   *)
(* space: the new thread is dropped before it is spawned.                  *)
NotSpawned(u) == Goto(u, "dropped") /\ UNCHANGED <<vfork, lockL>>

(* With CLONE_THREAD u belongs to the process of t.                        *)
CloneThread(t, u, vforked) ==
  /\ pc[t] = "user" /\ lockL[t] = Nobody /\ pc[u] = "new"
  /\ NewThread(u, proc[t])
  /\ Spawn(t, u, vforked) \/ NotSpawned(u)
  /\ UNCHANGED <<calls, lockR, lockT, leader, children, group, ends, run>>

(* Without it u leads the new process q.  Process::new makes q a child     *)
(* before anything can fail, and a failure leaves it one, without threads. *)
Fork(t, u, q, vforked) ==
  /\ pc[t] = "user" /\ lockL[t] = Nobody /\ pc[u] = "new" /\ leader[q] = Nobody
  /\ NewThread(u, q)
  /\ leader' = [leader EXCEPT ![q] = u]
  /\ children' = [children EXCEPT ![proc[t]] = @ \cup {q}]
  /\ Spawn(t, u, vforked) \/ NotSpawned(u)
  /\ UNCHANGED <<calls, lockR, lockT, group, ends, run>>

VforkReturns(t) ==
  /\ pc[t] = "vfork" /\ \A u \in Thread : vfork[u] # t
  /\ Release(lockL, t)
  /\ Goto(t, "user")
  /\ UNCHANGED <<calls, lockR, lockT, family, group, ends, run, vfork>>

--------------------------------------------------------------------------
(* Polling a thread. *)

Awaiting == {"user", "parked", "vfork", "wait4", "waiting"}

(* What the poll of a thread that got as far as an await finds.  Leaving   *)
(* run_future drops it, with the lock a vfork in it holds; a task that     *)
(* returns drops its sender of vfork_done.                                 *)
watch(t) ==
  /\ pc[t] \in Awaiting /\ lockR[t] = Nobody
  /\ \/ /\ run[t] \in {"Paused", "Restart"}
        /\ Goto(t, "get")
        /\ UNCHANGED vfork
     \/ /\ run[t] = "Terminated" \/ (run[t] = "Running" /\ exited[proc[t]])
        /\ Goto(t, "gone")
        /\ DropSender(t)
  /\ lockL' = [lockL EXCEPT ![t] = IF @ = t THEN Nobody ELSE @]
  /\ UNCHANGED <<calls, lockR, lockT, family, group, ends, run>>

(* PendingRestartValues::get first looks at the other threads of the list. *)
get_others(t) ==
  LET list == threads[proc[t]]
      others == {list[i] : i \in 2..Len(list)}
  IN /\ pc[t] = "get" /\ lockT[proc[t]] = Nobody
     /\ \A u \in others : lockR[u] = Nobody
     /\ \/ /\ list = <<>>
           /\ panicked' = TRUE
           /\ UNCHANGED pc
        \/ /\ list # <<>>
           /\ Goto(t, IF \E u \in others : Alive(u) /\ run[u] = "Running"
                      THEN "getWait" ELSE "getState")
           /\ UNCHANGED panicked
     /\ UNCHANGED <<calls, locks, family, group, exited, usage, run, vfork>>

(* ... then at its own state.  A restarted thread drops its old program    *)
(* (ThreadGuard::execve) and is polled again.                              *)
get_state(t) ==
  /\ pc[t] = "getState" /\ lockR[t] = Nobody
  /\ \/ run[t] = "Terminated" /\ Goto(t, "gone") /\ UNCHANGED <<run, panicked>>
     \/ run[t] = "Paused" /\ Goto(t, "getWait") /\ UNCHANGED <<run, panicked>>
     \/ run[t] = "Running" /\ panicked' = TRUE /\ UNCHANGED <<pc, run>>
     \/ /\ run[t] = "Restart" /\ lockL[t] = Nobody
        /\ run' = [run EXCEPT ![t] = "Running"]
        /\ Goto(t, "user")
        /\ UNCHANGED panicked
  /\ UNCHANGED <<calls, locks, family, group, exited, usage, vfork>>

(* The exit status ends the wait; Thread::execve and the exit of the       *)
(* thread itself are the only ones to notify it otherwise.                 *)
get_exit(t) ==
  /\ pc[t] = "getWait" /\ exited[proc[t]]
  /\ Goto(t, "gone")
  /\ DropSender(t)
  /\ UNCHANGED <<calls, locks, family, group, ends, run>>

--------------------------------------------------------------------------
(* exit: the thread's lock, then its running state. *)

exit(t) ==
  /\ pc[t] = "user" /\ Acquire(lockL, t, t)
  /\ Goto(t, "exit")
  /\ UNCHANGED <<calls, lockR, lockT, family, group, ends, run, vfork>>

exit_state(t) ==
  /\ pc[t] = "exit" /\ lockR[t] = Nobody
  /\ \/ /\ run[t] = "Running"
        /\ run' = [run EXCEPT ![t] = IF is_thread_group_leader(t)
                                     THEN "Paused" ELSE "Terminated"]
        /\ Goto(t, "exited")
        /\ UNCHANGED <<lockL, panicked>>
     \/ /\ run[t] \in {"Paused", "Terminated"}
        /\ Release(lockL, t)
        /\ Goto(t, "parked")
        /\ UNCHANGED <<run, panicked>>
     \/ /\ run[t] = "Restart"
        /\ panicked' = TRUE
        /\ UNCHANGED <<pc, run, lockL>>
  /\ UNCHANGED <<calls, lockR, lockT, family, group, exited, usage, vfork>>

(* do_exit wakes the parent of a vfork. *)
do_exit(u) == DropSender(u)

(* Process::exit by t for u: account the usage, and the last thread ends   *)
(* the process.                                                            *)
Accounted(u) == usage' = [usage EXCEPT ![proc[u]] = @ \cup {u}]
Counted(u) == running' = [running EXCEPT ![proc[u]] = @ - 1]
LastOf(u) == running[proc[u]] = 1

exit_process(t) ==
  /\ pc[t] = "exited"
  /\ do_exit(t) /\ Accounted(t) /\ Counted(t)
  /\ IF LastOf(t) THEN Goto(t, "group") /\ UNCHANGED lockL
                  ELSE Goto(t, "parked") /\ Release(lockL, t)
  /\ UNCHANGED <<calls, lockR, lockT, family, threads, exited, panicked, run>>

--------------------------------------------------------------------------
(* exit_group, of the system call, of a fatal signal or fault, and of the  *)
(* last exit.                                                              *)

exit_group(t) ==
  /\ pc[t] = "user"
  /\ Goto(t, "group")
  /\ UNCHANGED <<calls, locks, family, group, ends, run, vfork>>

(* init hands its verdict to the supervisor and never returns.  Otherwise  *)
(* only the first to set the exit status goes on; setting it wakes the     *)
(* threads that wait for it.                                               *)
group_set(t) ==
  /\ pc[t] = "group"
  /\ \/ /\ proc[t] = Pid1
        /\ Goto(t, "halted")
        /\ UNCHANGED <<exited, lockL>>
     \/ /\ proc[t] # Pid1 /\ exited[proc[t]]
        /\ Goto(t, "parked")
        /\ lockL' = [lockL EXCEPT ![t] = IF @ = t THEN Nobody ELSE @]
        /\ UNCHANGED exited
     \/ /\ proc[t] # Pid1 /\ ~exited[proc[t]]
        /\ exited' = [exited EXCEPT ![proc[t]] = TRUE]
        /\ Goto(t, "take")
        /\ UNCHANGED lockL
  /\ UNCHANGED <<calls, lockR, lockT, family, group, usage, panicked, run, vfork>>

group_take(t) ==
  /\ pc[t] = "take" /\ Acquire(lockT, proc[t], t)
  /\ todo' = [todo EXCEPT ![t] = threads[proc[t]]]
  /\ why' = [why EXCEPT ![t] = "exit_group"]
  /\ threads' = [threads EXCEPT ![proc[t]] = <<>>]
  /\ Goto(t, "kill")
  /\ UNCHANGED <<want, execs, lockL, lockR, family, running, ends, run, vfork>>

--------------------------------------------------------------------------
(* Thread::terminate, for every thread of todo[t] that is still there. *)

Victim(t) == Head(todo[t])
NextVictim(t) == todo' = [todo EXCEPT ![t] = Tail(@)]

terminate_state(t) ==
  /\ pc[t] = "kill" /\ todo[t] # <<>>
  /\ \/ /\ ~Alive(Victim(t))
        /\ NextVictim(t) /\ UNCHANGED <<pc, run, lockR>>
     \/ /\ Alive(Victim(t)) /\ lockR[Victim(t)] = Nobody
        /\ run' = [run EXCEPT ![Victim(t)] = "Terminated"]
        /\ IF run[Victim(t)] = "Running"
           THEN /\ Acquire(lockR, Victim(t), t)
                /\ Goto(t, "account")
                /\ UNCHANGED todo
           ELSE NextVictim(t) /\ UNCHANGED <<pc, lockR>>
  /\ UNCHANGED <<why, want, execs, lockL, lockT, family, group, ends, vfork>>

(* process.exit under the running state's lock and the thread's.  The last *)
(* thread's nested exit_group finds the status set; under execve it would  *)
(* wait for the list of threads that its caller holds.                     *)
terminate_account(t) ==
  LET u == Victim(t)
  IN /\ pc[t] = "account" /\ lockL[u] = Nobody
     /\ Accounted(u) /\ Counted(u)
     /\ Release(lockR, u)
     /\ Goto(t, IF LastOf(u) /\ ~exited[proc[u]] THEN "stuck" ELSE "release")
     /\ UNCHANGED <<calls, lockL, lockT, family, threads, exited, panicked, run, vfork>>

terminate_exit(t) ==
  /\ pc[t] = "release" /\ lockL[Victim(t)] = Nobody
  /\ do_exit(Victim(t)) /\ NextVictim(t)
  /\ Goto(t, "kill")
  /\ UNCHANGED <<why, want, execs, locks, family, group, ends, run>>

(* child_death_notify: every wait4 of the parent looks again. *)
Notified(p, s) ==
  [u \in Thread |-> IF s[u] = "waiting" /\ p \in children[proc[u]]
                    THEN "wait4" ELSE s[u]]

(* All threads are terminated: the termination signal (Signals.tla) and    *)
(* the notification of the parent, then the caller waits for ever.         *)
group_done(t) ==
  /\ pc[t] = "kill" /\ todo[t] = <<>> /\ why[t] = "exit_group"
  /\ Release(lockT, proc[t])
  /\ Goto(t, "announce")
  /\ UNCHANGED <<calls, lockL, lockR, family, group, ends, run, vfork>>

group_announce(t) ==
  /\ pc[t] = "announce"
  /\ pc' = Notified(proc[t], [pc EXCEPT ![t] = "parked"])
  /\ why' = [why EXCEPT ![t] = "none"]
  /\ lockL' = [lockL EXCEPT ![t] = IF @ = t THEN Nobody ELSE @]
  /\ UNCHANGED <<todo, want, execs, lockR, lockT, family, group, ends, run, vfork>>

--------------------------------------------------------------------------
(* execve, from where no error may occur any more. *)

execve(t) ==
  /\ pc[t] = "user" /\ execs < MaxExec
  /\ Acquire(lockT, proc[t], t)
  /\ execs' = execs + 1
  /\ Goto(t, "exec")
  /\ UNCHANGED <<why, todo, want, lockL, lockR, family, group, ends, run, vfork>>

(* Mutant: execve does not count the leader it restarts. *)
NotCounted(p, s) == running[p]

(* A leader that exited counts as running again (restart_thread). *)
Restarted(p, s) == IF s = "Paused" THEN running[p] + 1 ELSE running[p]

(* Restart the leader, which is notified, and drain the others. *)
execve_leader(t) ==
  LET p == proc[t]
      l == Head(threads[p])
  IN /\ pc[t] = "exec"
     /\ \/ /\ threads[p] = <<>> \/ (threads[p] # <<>> /\ ~Alive(l))
           /\ panicked' = TRUE
           /\ UNCHANGED <<todo, why, group, run, pc>>
        \/ /\ threads[p] # <<>> /\ Alive(l) /\ lockR[l] = Nobody
           /\ run[l] = "Restart"
           /\ panicked' = TRUE
           /\ UNCHANGED <<todo, why, group, run, pc>>
        \/ /\ threads[p] # <<>> /\ Alive(l) /\ lockR[l] = Nobody
           /\ run[l] # "Restart"
           /\ run' = [run EXCEPT ![l] = IF @ = "Terminated" THEN @ ELSE "Restart"]
           /\ running' = [running EXCEPT ![p] = Restarted(p, run[l])]
           /\ threads' = [threads EXCEPT ![p] = <<l>>]
           /\ todo' = [todo EXCEPT ![t] = Tail(threads[p])]
           /\ why' = [why EXCEPT ![t] = "execve"]
           /\ pc' = [pc EXCEPT ![t] = "kill",
                               ![l] = IF @ = "getWait" THEN "get" ELSE @]
           /\ UNCHANGED panicked
     /\ UNCHANGED <<want, execs, locks, family, exited, usage, vfork>>

execve_done(t) ==
  /\ pc[t] = "kill" /\ todo[t] = <<>> /\ why[t] = "execve"
  /\ Release(lockT, proc[t])
  /\ why' = [why EXCEPT ![t] = "none"]
  /\ Goto(t, "vforkDone")
  /\ UNCHANGED <<todo, want, execs, lockL, lockR, family, group, ends, run, vfork>>

(* The new program no longer needs the memory of a vfork's parent. *)
execve_vfork(t) ==
  /\ pc[t] = "vforkDone" /\ lockL[t] = Nobody
  /\ DropSender(t)
  /\ Goto(t, "parked")
  /\ UNCHANGED <<calls, locks, family, group, ends, run>>

--------------------------------------------------------------------------
(* wait4 *)

wait4(t, child) ==
  /\ pc[t] = "user"
  /\ want' = [want EXCEPT ![t] = child]
  /\ Goto(t, "wait4")
  /\ UNCHANGED <<why, todo, execs, locks, family, group, ends, run, vfork>>

(* One evaluation of the closure of wait_for_child_death. *)
wait_for_child_death(t) ==
  LET p == proc[t]
      dead == {c \in children[p] : exited[c] /\ want[t] \in {Nobody, c}}
      Return == Goto(t, "user") /\ want' = [want EXCEPT ![t] = Nobody]
  IN /\ pc[t] = "wait4"
     /\ \/ /\ children[p] = {} \/ dead = {}      \* ECHILD, WNOHANG
           /\ Return /\ UNCHANGED <<children, usage>>
        \/ /\ children[p] # {} /\ dead = {}
           /\ Goto(t, "waiting") /\ UNCHANGED <<want, children, usage>>
        \/ \E c \in dead :
             /\ children' = [children EXCEPT ![p] = @ \ {c}]
             /\ usage' = [usage EXCEPT ![p] = @ \cup usage[c]]
             /\ Return
     /\ UNCHANGED <<why, todo, execs, locks, proc, leader, group, exited, panicked, run, vfork>>

(* A signal interrupts the wait. *)
interruptable(t) ==
  /\ pc[t] = "waiting"
  /\ Goto(t, "user")
  /\ want' = [want EXCEPT ![t] = Nobody]
  /\ UNCHANGED <<why, todo, execs, locks, family, group, ends, run, vfork>>

--------------------------------------------------------------------------
(* The steps a thread takes by itself, and those user space asks for. *)
Step(t) ==
  /\ ~panicked
  /\ \/ add_thread(t) \/ VforkReturns(t) \/ watch(t)
     \/ get_others(t) \/ get_state(t) \/ get_exit(t)
     \/ exit_state(t) \/ exit_process(t)
     \/ group_set(t) \/ group_take(t) \/ group_done(t) \/ group_announce(t)
     \/ terminate_state(t) \/ terminate_account(t) \/ terminate_exit(t)
     \/ execve_leader(t) \/ execve_done(t) \/ execve_vfork(t)
     \/ wait_for_child_death(t)

Call(t) ==
  /\ ~panicked /\ pc[t] \in {"user", "waiting"}
  /\ \/ exit(t) \/ exit_group(t) \/ execve(t) \/ interruptable(t)
     \/ \E c \in children[proc[t]] \cup {Nobody} : wait4(t, c)
     \/ \E u \in Thread, v \in BOOLEAN :
          CloneThread(t, u, v) \/ \E q \in Process : Fork(t, u, q, v)

Next == \E t \in Thread : Step(t) \/ Call(t)

Spec == Init /\ [][Next]_vars

(* A vCPU that runs a thread goes on with it, and its task yields at last. *)
FairSpec ==
  /\ Spec
  /\ \A t \in Thread : WF_vars(Step(t)) /\ WF_vars(~panicked /\ watch(t))

--------------------------------------------------------------------------
(* Type correctness. *)
TypeOK ==
  /\ proc \in [Thread -> Process \cup {Nobody}]
  /\ leader \in [Process -> Thread \cup {Nobody}]
  /\ run \in [Thread -> {"Running", "Paused", "Terminated", "Restart"}]
  /\ todo \in [Thread -> Seq(Thread)]
  /\ lockL \in [Thread -> Thread \cup {Nobody}]
  /\ lockR \in [Thread -> Thread \cup {Nobody}]
  /\ lockT \in [Process -> Thread \cup {Nobody}]
  /\ threads \in [Process -> Seq(Thread)]
  /\ running \in [Process -> 0..2 * Cardinality(Thread)]

(* The counter that decides which exit is the last one is the number of    *)
(* threads that run or are about to restart, and of those that have given  *)
(* up their state but have not been accounted yet, for as long as the      *)
(* process lives: no order of exit, terminate, execve and the restart of   *)
(* an exited leader counts a thread twice or not at all.                   *)
RunningCounted ==
  \A p \in Process : ~exited[p] =>
    LET started == {t \in Thread : /\ proc[t] = p
                                   /\ pc[t] \notin {"new", "dropped", "spawned"}}
        leaving == {t \in started : pc[t] = "exited"} \cup
                   {t \in started : lockR[t] # Nobody}
    IN running[p] = Cardinality({t \in started : run[t] \in {"Running", "Restart"}})
                    + Cardinality(leaving)

(* The list of a living process starts with its leader, which is where     *)
(* execve looks for it and why guard[1..] are the other threads.           *)
LeaderFirst ==
  \A p \in Process : ~exited[p] /\ threads[p] # <<>> => Head(threads[p]) = leader[p]

(* A parent that sleeps in wait4 for a child that has exited is about to   *)
(* be told: the thread that set the exit status still has to notify it.    *)
DeathNoticed ==
  \A t \in Thread : pc[t] = "waiting" =>
    \A c \in children[proc[t]] : exited[c] /\ want[t] \in {Nobody, c} =>
      \E u \in Thread : /\ proc[u] = c
                        /\ pc[u] \in {"take", "announce"} \/ why[u] = "exit_group"

(* Whoever sets the exit status of a process terminates all its threads:   *)
(* their tasks return, unless init has ended the virtual machine.          *)
GroupTerminates ==
  \A p \in Process :
    exited[p] ~> \/ panicked \/ \E t \in Thread : pc[t] = "halted"
                \/ \A t \in Thread : proc[t] = p => ~Alive(t)
=============================================================================
