------------------------------ MODULE Signals ------------------------------
(***************************************************************************)
(* Signals of one process: who may queue them, which thread takes them,    *)
(* how they interrupt a system call, and what the program finds when the   *)
(* handler returns.  Alarms and the stopped state belong to it.            *)
(*                                                                         *)
(* A signal is queued for the process (kill, an exiting child, an alarm)   *)
(* or for one thread (tgkill, a fault).  A thread looks for signals before *)
(* it enters user space (try_deliver_signal) and while it waits in an      *)
(* interruptable system call (wait_for_signal), after it has armed both    *)
(* notifications.                                                          *)
(***************************************************************************)
EXTENDS Naturals, FiniteSets, SequencesExt

CONSTANTS Thread,     \* the threads of the process
          Sender,     \* other processes that call Process::queue_signal
          Sig,        \* the signals
          Sent,       \* the signals that kill and tgkill send
          Masks,      \* the sets user space gives to rt_sigprocmask
          Handled,    \* the signals user space has rt_sigaction act on
          Actions,    \* the actions it gives to them
          None,       \* no signal, no mask
          MaxDepth,   \* bound: nested signal handlers of a thread
          MaxEvents   \* bound: signals sent and system calls made

VARIABLES where,     \* thread -> where its task is
          sigmask,   \* thread -> its signal mask
          info,      \* thread -> pending_signal_info
          queue,     \* thread -> its pending_signals
          rax,       \* thread -> the register a system call's result is in
          frames,    \* thread -> the contexts saved on its signal stack
          call,      \* thread -> the interruptable system call it is in
          suspended, \* thread -> the mask rt_sigsuspend restores
          shared,    \* the process's pending_signals
          handlers,  \* signal -> its action
          stopped,   \* stop_state.stopped
          sending,   \* sender -> the signal it is queueing and how far it is
          alarm,     \* the alarm that alarm() would replace, 0 if none
          ticking,   \* the alarms whose tasks still wait
          replaced,  \* thread -> the alarm it has yet to cancel
          alarms,    \* the number of alarms scheduled so far
          events,    \* the number of signals sent and system calls made so far
          context,   \* thread -> what its program believes its contexts are
          panicked   \* a todo!() was reached, or an unwrap() failed

program == <<sigmask, rax, frames, context>>
calls == <<call, suspended>>
pending == <<info, queue, shared>>
senders == <<stopped, sending>>
timers == <<alarm, ticking, replaced, alarms>>
vars == <<program, calls, pending, senders, timers, where, handlers, events, panicked>>

(* An action: the default one, to ignore the signal, or a handler with the *)
(* flags that matter here and the mask it runs with.                       *)
DFL == [kind |-> "DFL", restart |-> FALSE, nodefer |-> FALSE, mask |-> {}]
IGN == [kind |-> "IGN", restart |-> FALSE, nodefer |-> FALSE, mask |-> {}]

Update(f, t, v) == f' = [f EXCEPT ![t] = v]

Init ==
  /\ where = [t \in Thread |-> "enter"]
  /\ sigmask = [t \in Thread |-> {}]
  /\ info = [t \in Thread |-> None]
  /\ queue = [t \in Thread |-> <<>>]
  /\ rax = [t \in Thread |-> "done"]
  /\ frames = [t \in Thread |-> <<>>]
  /\ call = [t \in Thread |-> "none"]
  /\ suspended = [t \in Thread |-> {}]
  /\ context = [t \in Thread |-> <<[mask |-> {}, rax |-> "done"]>>]
  /\ shared = <<>>
  /\ handlers = [s \in Sig |-> DFL]
  /\ stopped = FALSE
  /\ sending = [x \in Sender |-> [sig |-> None, at |-> "idle"]]
  /\ alarm = 0 /\ ticking = {} /\ alarms = 0
  /\ replaced = [t \in Thread |-> 0]
  /\ events = 0
  /\ panicked = FALSE

--------------------------------------------------------------------------
(* Queues of pending signals. *)

Mem(q, s) == s \in ToSet(q)

(* PendingSignals::add *)
add(q, s) == IF Mem(q, s) THEN q
             ELSE IF s = "KILL" THEN <<s>> \o q ELSE Append(q, s)

(* What the default action does: some are not implemented. *)
Ignores(s) == s \in {"CHLD", "CONT"}
Terminates(s) == s \in {"HUP", "INT", "ABRT", "USR1", "SEGV", "USR2", "PIPE", "TERM"}
Unimplemented(s) == /\ handlers[s] = DFL
                    /\ ~Ignores(s) /\ ~Terminates(s) /\ s \notin {"KILL", "STOP"}

ignored(s) == \/ s = "STOP"
              \/ s # "KILL" /\ handlers[s].kind = "IGN"
              \/ handlers[s].kind = "DFL" /\ Ignores(s)

Unmasked(t, q) == SelectSeq(q, LAMBDA s : s \notin sigmask[t] \ {"KILL", "STOP"})

(* The order in which get_pending_signal looks at the signals for t. *)
Candidates(t) ==
  (IF info[t] = None THEN <<>> ELSE <<info[t]>>)
  \o Unmasked(t, queue[t]) \o Unmasked(t, shared)

(* It consumes the ignored ones and stops at the first other one. *)
Chosen(t) == LET k == SelectInSeq(Candidates(t), LAMBDA s : ~ignored(s))
             IN IF k = 0 THEN None ELSE Candidates(t)[k]

(* The number of candidates it consumes, and what remains of each queue. *)
Consumed(t) == LET k == SelectInSeq(Candidates(t), LAMBDA s : ~ignored(s))
               IN IF k = 0 THEN Len(Candidates(t)) ELSE k

(* q without the first n of its unmasked signals. *)
Without(t, q, n) ==
  SelectSeq(q, LAMBDA s : \A i \in 1..n : i \in DOMAIN Unmasked(t, q) => Unmasked(t, q)[i] # s)

get_pending_signal(t) ==
  \E held \in {IF info[t] = None THEN 0 ELSE 1}, own \in {Len(Unmasked(t, queue[t]))},
     consumed \in {Consumed(t)} :
  LET n == IF consumed > held THEN consumed - held ELSE 0
  IN /\ queue' = [queue EXCEPT ![t] = Without(t, @, n)]
     /\ shared' = Without(t, shared, IF n > own THEN n - own ELSE 0)

--------------------------------------------------------------------------
(* Queueing signals. *)

(* signal_notify and signals_notify: threads that armed them look again. *)
Woken(w, ts) == [t \in Thread |-> IF t \in ts /\ w[t] = "armed" THEN "look" ELSE w[t]]
(* StopState::cont *)
Continued(w) == [t \in Thread |-> IF w[t] = "stopWait" THEN "enter" ELSE w[t]]

(* Process::queue_signal, for any sender: the stopped state first, then    *)
(* the queue, then the notification.                                       *)
queue_signal(x, s) ==
  /\ sending[x].at = "idle"
  /\ stopped' = CASE s \in {"CONT", "KILL"} -> FALSE [] s = "STOP" -> TRUE
                  [] OTHER -> stopped
  /\ Update(sending, x, [sig |-> s, at |-> IF s \in {"CONT", "KILL"} THEN "cont" ELSE "add"])
  /\ UNCHANGED <<program, calls, pending, timers, where, handlers, panicked>>

queue_cont(x) ==
  /\ sending[x].at = "cont"
  /\ where' = Continued(where)
  /\ sending' = [sending EXCEPT ![x].at = "add"]
  /\ UNCHANGED <<program, calls, pending, timers, stopped, handlers, panicked>>

queue_add(x) ==
  /\ sending[x].at = "add"
  /\ shared' = add(shared, sending[x].sig)
  /\ sending' = [sending EXCEPT ![x].at = "notify"]
  /\ UNCHANGED <<program, calls, info, queue, timers, stopped, where,
                 handlers, panicked>>

queue_notify(x) ==
  /\ sending[x].at = "notify"
  /\ where' = Woken(where, Thread)
  /\ Update(sending, x, [sig |-> None, at |-> "idle"])
  /\ UNCHANGED <<program, calls, pending, timers, stopped, handlers, panicked>>

(* Thread::queue_signal, of tgkill and of faults: one notification, sent   *)
(* under the thread's lock.                                                *)
tgkill(t, s) ==
  /\ where[t] # "dead"
  /\ Update(queue, t, add(queue[t], s))
  /\ where' = Woken(where, {t})
  /\ UNCHANGED <<program, calls, info, shared, timers, stopped, sending, handlers, panicked>>

--------------------------------------------------------------------------
(* Delivering them. *)

(* What the program may assume of its innermost context. *)
Believes(t, m, r) == [context EXCEPT ![t] = Append(Front(@), [mask |-> m, rax |-> r])]

(* wait_until_not_stopped *)
stop_wait(t) ==
  /\ where[t] = "enter" /\ stopped
  /\ Update(where, t, "stopWait")
  /\ UNCHANGED <<program, calls, pending, senders, timers, handlers, panicked>>

(* The mask the handler runs with. *)
HandlerMask(t, s) == sigmask[t] \cup handlers[s].mask
                       \cup (IF handlers[s].nodefer THEN {} ELSE {s})

(* What the handler's return restores. *)
SavedContext(t) == [mask |-> sigmask[t], rax |-> rax[t]]

(* The registers and the mask go to the signal stack.  When it cannot be   *)
(* written, the unwrap() in Thread::run fails.                             *)
start_signal_handler(t, s) ==
  \/ /\ panicked' = TRUE
     /\ UNCHANGED <<where, sigmask, rax, frames, context>>
  \/ /\ Len(frames[t]) < MaxDepth
     /\ Update(frames, t, Append(frames[t], SavedContext(t)))
     /\ Update(sigmask, t, HandlerMask(t, s))
     /\ Update(rax, t, "done")
     /\ context' = [context EXCEPT ![t] =
                      Append(@, [mask |-> HandlerMask(t, s), rax |-> "done"])]
     /\ Update(where, t, "user")
     /\ UNCHANGED panicked

(* Nothing to deliver, a fatal signal, or a handler. *)
try_deliver_signal(t) ==
  /\ where[t] = "enter" /\ ~stopped
  /\ \E s \in {Chosen(t)} :
     /\ get_pending_signal(t)
     /\ info' = [info EXCEPT ![t] = None]
     /\ \/ /\ s = None
           /\ Update(where, t, "user")
           /\ UNCHANGED <<sigmask, rax, frames, context, panicked>>
        \/ /\ s # None /\ (s = "KILL" \/ (handlers[s] = DFL /\ Terminates(s)))
           /\ where' = [u \in Thread |-> "dead"]
           /\ UNCHANGED <<sigmask, rax, frames, context, panicked>>
        \/ /\ s # None /\ Unimplemented(s)
           /\ panicked' = TRUE
           /\ UNCHANGED <<where, sigmask, rax, frames, context>>
        \/ /\ s \notin {None, "KILL"} /\ handlers[s].kind = "handler"
           /\ start_signal_handler(t, s)
     /\ UNCHANGED <<calls, senders, timers, handlers>>

--------------------------------------------------------------------------
(* Interruptable system calls. *)

interruptable(t, kind) ==
  /\ where[t] = "user"
  /\ Update(where, t, "look")
  /\ Update(call, t, kind)
  /\ UNCHANGED <<program, suspended, pending, senders, timers, handlers, panicked>>

(* rt_sigsuspend waits with another mask. *)
rt_sigsuspend(t, m) ==
  /\ where[t] = "user"
  /\ Update(where, t, "look")
  /\ Update(call, t, "suspend")
  /\ Update(suspended, t, sigmask[t])
  /\ Update(sigmask, t, m)
  /\ UNCHANGED <<rax, frames, context, pending, senders, timers, handlers, panicked>>

(* The mask after the call. *)
RestoredMask(t) == IF call[t] = "suspend" THEN suspended[t] ELSE sigmask[t]

(* The call returns r to the program. *)
Return(t, r) ==
  /\ Update(where, t, "enter")
  /\ Update(call, t, "none")
  /\ Update(suspended, t, {})
  /\ Update(sigmask, t, RestoredMask(t))
  /\ Update(rax, t, r)
  /\ context' = Believes(t, IF call[t] = "suspend" THEN suspended[t] ELSE sigmask[t], r)

(* wait_for_signal: the signal is kept for try_deliver_signal, and a call  *)
(* that may be restarted is if the handler allows it.                      *)
wait_for_signal(t) ==
  /\ where[t] = "look"
  /\ \E s \in {Chosen(t)} :
     /\ get_pending_signal(t)
     /\ Update(info, t, s)
     /\ \/ /\ s = None
           /\ Update(where, t, "armed")
           /\ UNCHANGED <<sigmask, rax, context, calls, panicked>>
        \/ /\ s # None /\ Unimplemented(s)
           /\ panicked' = TRUE
           /\ UNCHANGED <<where, sigmask, rax, context, calls>>
        \/ /\ s # None /\ ~Unimplemented(s)
           /\ Return(t, IF handlers[s].restart /\ call[t] = "restartable"
                        THEN "again" ELSE "intr")
           /\ UNCHANGED panicked
     /\ UNCHANGED <<frames, senders, timers, handlers>>

(* What the call waits for happens first. *)
completes(t) ==
  /\ where[t] = "armed" /\ call[t] # "suspend"
  /\ Return(t, "done")
  /\ UNCHANGED <<frames, pending, senders, timers, handlers, panicked>>

--------------------------------------------------------------------------
(* The other system calls of a thread, and its faults. *)

Returns(t, m, r) ==
  /\ where[t] = "user"
  /\ Update(where, t, "enter")
  /\ Update(sigmask, t, m)
  /\ Update(rax, t, r)

rt_sigprocmask(t, m) ==
  /\ Returns(t, m, "done") /\ context' = Believes(t, m, "done")
  /\ UNCHANGED <<frames, calls, pending, senders, timers, handlers, panicked>>

rt_sigaction(t, s, a) ==
  /\ Returns(t, sigmask[t], "done") /\ context' = Believes(t, sigmask[t], "done")
  /\ handlers' = [handlers EXCEPT ![s] = a]
  /\ UNCHANGED <<frames, calls, pending, senders, timers, panicked>>

(* Mutant: the result of rt_sigreturn overwrites the restored register. *)
Overwritten(frame) == "done"

(* load_sig_context has the result of rt_sigreturn ignored. *)
Reloaded(frame) == frame.rax

rt_sigreturn(t) ==
  /\ frames[t] # <<>>
  /\ Returns(t, Last(frames[t]).mask, Reloaded(Last(frames[t])))
  /\ Update(frames, t, Front(frames[t]))
  /\ Update(context, t, Front(context[t]))
  /\ UNCHANGED <<calls, pending, senders, timers, handlers, panicked>>

(* The saved context, or the floating point state it points to, cannot be  *)
(* read.  In the first case the handler goes on with an error; in the      *)
(* second the registers are back and the mask is still the handler's.      *)
rt_sigreturn_fails(t) ==
  /\ frames[t] # <<>>
  /\ \/ /\ Returns(t, sigmask[t], "fault") /\ context' = Believes(t, sigmask[t], "fault")
        /\ UNCHANGED frames
     \/ /\ Returns(t, sigmask[t], Reloaded(Last(frames[t])))
        /\ Update(frames, t, Front(frames[t]))
        /\ Update(context, t, Append(Front(Front(context[t])),
                                     [mask |-> sigmask[t], rax |-> Last(frames[t]).rax]))
  /\ UNCHANGED <<calls, pending, senders, timers, handlers, panicked>>

(* A fault is queued for the thread itself.  One that is pending already   *)
(* ends the process if it is a page fault, and fails an assertion if not.  *)
fault(t, pageFault) ==
  /\ where[t] = "user"
  /\ Update(queue, t, add(queue[t], "SEGV"))
  /\ IF Mem(queue[t], "SEGV")
     THEN IF pageFault THEN where' = [u \in Thread |-> "dead"] /\ UNCHANGED panicked
                       ELSE panicked' = TRUE /\ UNCHANGED where
     ELSE Update(where, t, "enter") /\ UNCHANGED panicked
  /\ UNCHANGED <<program, calls, info, shared, timers, stopped, sending, handlers>>

--------------------------------------------------------------------------
(* Alarms. *)

(* schedule_alarm and cancel_alarm replace the state of the alarm and      *)
(* cancel the one they found there when they have let go of the lock.      *)
set_alarm(t, seconds) ==
  /\ where[t] = "user" 
  /\ IF seconds > 0
     THEN /\ alarms' = alarms + 1
          /\ alarm' = alarms + 1
          /\ ticking' = ticking \cup {alarms + 1}
     ELSE alarm' = 0 /\ UNCHANGED <<alarms, ticking>>
  /\ Update(replaced, t, alarm)
  /\ Update(where, t, "cancel")
  /\ UNCHANGED <<program, calls, pending, senders, handlers, panicked>>

(* Sending on cancel_tx ends the task of the alarm. *)
Cancelled(t) == ticking \ {replaced[t]}

remaining_seconds(t) ==
  /\ where[t] = "cancel"
  /\ ticking' = Cancelled(t)
  /\ Update(replaced, t, 0)
  /\ Update(where, t, "enter")
  /\ Update(rax, t, "done") /\ context' = Believes(t, sigmask[t], "done")
  /\ UNCHANGED <<sigmask, frames, calls, pending, senders, alarm, alarms, handlers, panicked>>

(* The deadline passes: the alarm's task queues SIGALRM. *)
alarm_fires(x, a) ==
  /\ a \in ticking /\ sending[x].at = "idle"
  /\ ticking' = ticking \ {a}
  /\ Update(sending, x, [sig |-> "ALRM", at |-> "add"])
  /\ UNCHANGED <<program, calls, pending, stopped, alarm, replaced, alarms,
                 where, handlers, panicked>>

--------------------------------------------------------------------------
(* What user space and other processes ask for ... *)
Ask ==
  /\ events < MaxEvents /\ events' = events + 1
  /\ \/ \E t \in Thread :
          \/ \E kind \in {"restartable", "plain"} : interruptable(t, kind)
          \/ \E m \in Masks : rt_sigsuspend(t, m) \/ rt_sigprocmask(t, m)
          \/ \E s \in Handled, a \in Actions : rt_sigaction(t, s, a)
          \/ \E s \in Sent : tgkill(t, s)
          \/ \E pageFault \in BOOLEAN : fault(t, pageFault)
          \/ \E seconds \in {0, 1} : set_alarm(t, seconds)
     \/ \E x \in Sender, s \in Sent : queue_signal(x, s)

(* ... and what follows from it. *)
Step ==
  /\ UNCHANGED events
  /\ \/ \E t \in Thread :
          \/ stop_wait(t) \/ try_deliver_signal(t)
          \/ wait_for_signal(t) \/ completes(t)
          \/ rt_sigreturn(t) \/ rt_sigreturn_fails(t)
          \/ remaining_seconds(t)
     \/ \E x \in Sender :
          \/ queue_cont(x) \/ queue_add(x) \/ queue_notify(x)
          \/ \E a \in ticking : alarm_fires(x, a)

Next == ~panicked /\ (Ask \/ Step)

Spec == Init /\ [][Next]_vars

--------------------------------------------------------------------------
(* Type correctness. *)
TypeOK ==
  /\ where \in [Thread -> {"enter", "stopWait", "user", "look", "armed",
                           "cancel", "dead"}]
  /\ sigmask \in [Thread -> SUBSET Sig]
  /\ info \in [Thread -> Sig \cup {None}]
  /\ \A t \in Thread : IsInjective(queue[t])
  /\ IsInjective(shared)
  /\ handlers \in [Sig -> {DFL, IGN} \cup Actions]

(* A thread does not sleep in an interruptable call while a signal it      *)
(* would take is pending, unless the one who queued it is about to notify. *)
NoSleepOnSignal ==
  \A t \in Thread : where[t] = "armed" =>
    /\ Unmasked(t, queue[t]) = <<>>
    /\ Unmasked(t, shared) # <<>> => \E x \in Sender : sending[x].at = "notify"

(* A thread is only kept out of user space while the process is stopped,   *)
(* or until the one who continues it has notified it.                      *)
NoSleepWhenContinued ==
  \A t \in Thread : where[t] = "stopWait" =>
    stopped \/ \E x \in Sender : sending[x].at = "cont"

(* In user space the mask is the one the program set in this context and   *)
(* the register holds the outcome of its last call: handlers, nested or    *)
(* not, and the mask of rt_sigsuspend leave no trace when they return.  An *)
(* rt_sigreturn that fails half-way leaves the handler's mask.             *)
ContextKept ==
  \A t \in Thread :
    /\ frames[t] = Front(context[t])
    /\ where[t] = "user" => Last(context[t]) = [mask |-> sigmask[t], rax |-> rax[t]]

(* At most one alarm can still go off, apart from those that a call that   *)
(* has not returned yet is cancelling.                                     *)
OneAlarm == ticking \subseteq {alarm} \cup {replaced[t] : t \in Thread}

SignalsSound == NoSleepOnSignal /\ NoSleepWhenContinued /\ ContextKept /\ OneAlarm
=============================================================================
