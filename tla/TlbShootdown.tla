---------------------------- MODULE TlbShootdown ----------------------------
(***************************************************************************)
(* The TLB shootdown of the TDX supervisor                                 *)
(* (tee/supervisor-tdx/src/tlb.rs, vcpu.rs): a vCPU that has changed a     *)
(* mapping leaves the guest to flush the TLBs of all vCPUs and goes on     *)
(* when every vCPU has either flushed or will flush before it runs guest   *)
(* code again.  Each atomic operation is a step; interrupts arrive at any  *)
(* time after they were sent.                                              *)
(***************************************************************************)
EXTENDS Integers

CONSTANTS VCPU,      \* indices of the vCPUs
          Flusher,   \* those whose guests ask for flushes
          Watched    \* the one whose flushes the history is about

ASSUME TlbAssumption == VCPU \subseteq Nat /\ Flusher \subseteq VCPU /\ Watched \in Flusher

VARIABLES
  GUARD,             \* holder of the lock, NoVcpu if it is free
  COUNTER, RAN,      \* the two bit masks
  pending_flushes,   \* PerCpu::pending_flushes
  ipi,               \* vCPUs a FLUSH_VECTOR interrupt is on its way to
  handling,          \* vCPUs inside flush_handler
  pc, mask, invd,    \* local state of every vCPU
  cached,            \* history: vCPUs whose TLB may hold translations
  stale              \* history: whose TLBs may hold what the last flush of Watched is about

vars == <<GUARD, COUNTER, RAN, pending_flushes, ipi, handling, pc, mask, invd, cached, stale>>
NoVcpu == -1
PC == {"loop", "take", "enter", "guest", "exited", "lock", "swap", "or", "send", "spin"}

Init ==
  /\ GUARD = NoVcpu
  /\ COUNTER = {} /\ RAN = {}
  /\ pending_flushes = {} /\ ipi = {} /\ handling = {}
  /\ pc = [c \in VCPU |-> "loop"]
  /\ mask = [c \in VCPU |-> {}]
  /\ invd = [c \in VCPU |-> FALSE]
  /\ cached = {}
  /\ stale = {}

(* A vCPU steps unless it is inside the interrupt handler. *)
Step(c, from, to) ==
  /\ pc[c] = from /\ c \notin handling
  /\ pc' = [pc EXCEPT ![c] = to]

-----------------------------------------------------------------------------
(* run_vcpu, with interrupts disabled: pre_enter ... *)
PreEnter(c) ==
  /\ Step(c, "loop", "take")
  /\ RAN' = RAN \cup {c}
  /\ UNCHANGED <<GUARD, COUNTER, pending_flushes, ipi, handling, mask, invd, cached, stale>>

(* ... pending_flushes.take() ... *)
Take(c) ==
  /\ Step(c, "take", "enter")
  /\ invd' = [invd EXCEPT ![c] = c \in pending_flushes]
  /\ pending_flushes' = pending_flushes \ {c}
  /\ UNCHANGED <<GUARD, COUNTER, RAN, ipi, handling, mask, cached, stale>>

(* ... and vp_enter, which drops the translations if asked to. *)
Enter(c) ==
  /\ Step(c, "enter", "guest")
  /\ stale' = IF invd[c] THEN stale \ {c} ELSE stale
  /\ invd' = [invd EXCEPT ![c] = FALSE]
  /\ cached' = cached \cup {c}
  /\ UNCHANGED <<GUARD, COUNTER, RAN, pending_flushes, ipi, handling, mask>>

(* TDX_PENDING_INTERRUPT: vp_enter returns at once.  That it has dropped    *)
(* the translations by then is assumed of the TDX module: the request is    *)
(* not made again.                                                          *)
EnterPending(c) ==
  /\ Step(c, "enter", "exited")
  /\ stale' = IF invd[c] THEN stale \ {c} ELSE stale
  /\ invd' = [invd EXCEPT ![c] = FALSE]
  /\ UNCHANGED <<GUARD, COUNTER, RAN, pending_flushes, ipi, handling, mask, cached>>

(* The guest exits for an interrupt or another reason; interrupts are       *)
(* enabled until the loop starts again.                                     *)
Exit(c) ==
  /\ Step(c, "guest", "exited")
  /\ UNCHANGED <<GUARD, COUNTER, RAN, pending_flushes, ipi, handling, mask, invd, cached, stale>>

Loop(c) ==
  /\ Step(c, "exited", "loop")
  /\ UNCHANGED <<GUARD, COUNTER, RAN, pending_flushes, ipi, handling, mask, invd, cached, stale>>

-----------------------------------------------------------------------------
(* The guest has changed a mapping and asks for a flush. *)
CallFlush(c) ==
  /\ Step(c, "guest", "lock")
  /\ c \in Flusher
  /\ stale' = IF c = Watched THEN cached ELSE stale
  /\ UNCHANGED <<GUARD, COUNTER, RAN, pending_flushes, ipi, handling, mask, invd, cached>>

LockUnguarded(c) ==
  /\ Step(c, "lock", "swap")
  /\ UNCHANGED <<GUARD, COUNTER, RAN, pending_flushes, ipi, handling, mask, invd, cached, stale>>

(* flush: GUARD.lock() *)
Lock(c) ==
  /\ GUARD = NoVcpu
  /\ Step(c, "lock", "swap")
  /\ GUARD' = c
  /\ UNCHANGED <<COUNTER, RAN, pending_flushes, ipi, handling, mask, invd, cached, stale>>

(* RAN.swap(0) *)
Swap(c) ==
  /\ Step(c, "swap", "or")
  /\ mask' = [mask EXCEPT ![c] = RAN]
  /\ RAN' = {}
  /\ UNCHANGED <<GUARD, COUNTER, pending_flushes, ipi, handling, invd, cached, stale>>

(* COUNTER.fetch_or(mask); drop(_guard) *)
Or(c) ==
  /\ Step(c, "or", "send")
  /\ COUNTER' = COUNTER \cup mask[c]
  /\ GUARD' = NoVcpu
  /\ UNCHANGED <<RAN, pending_flushes, ipi, handling, mask, invd, cached, stale>>

(* send_ipi to the vCPUs of the mask, one after the other *)
RemainingSkipsSelf(c) == mask[c] \ {c}
Remaining(c) == mask[c]
Send(c) ==
  \/ /\ Remaining(c) # {} /\ Step(c, "send", "send")
     /\ \E i \in Remaining(c) : /\ \A j \in Remaining(c) : i <= j
                                /\ ipi' = ipi \cup {i}
                                /\ mask' = [mask EXCEPT ![c] = @ \ {i}]
     /\ UNCHANGED <<GUARD, COUNTER, RAN, pending_flushes, handling, invd, cached, stale>>
  \/ /\ Remaining(c) = {} /\ Step(c, "send", "spin")
     /\ mask' = [mask EXCEPT ![c] = {}]
     /\ UNCHANGED <<GUARD, COUNTER, RAN, pending_flushes, ipi, handling, invd, cached, stale>>

(* while COUNTER.load() != 0 {} *)
Spin(c) ==
  /\ COUNTER = {}
  /\ Step(c, "spin", "exited")
  /\ UNCHANGED <<GUARD, COUNTER, RAN, pending_flushes, ipi, handling, mask, invd, cached, stale>>

-----------------------------------------------------------------------------
InterruptsEnabled(c) == pc[c] \in {"exited", "lock", "swap", "or", "send", "spin"}

(* flush_handler: pending_flushes.set(true) ... *)
Handle(c) ==
  /\ c \in ipi /\ c \notin handling /\ InterruptsEnabled(c)
  /\ ipi' = ipi \ {c}
  /\ handling' = handling \cup {c}
  /\ pending_flushes' = pending_flushes \cup {c}
  /\ UNCHANGED <<GUARD, COUNTER, RAN, pc, mask, invd, cached, stale>>

(* ... COUNTER.fetch_and(!(1 << vcpu_index)); eoi() *)
Acknowledge(c) ==
  /\ c \in handling
  /\ COUNTER' = COUNTER \ {c}
  /\ handling' = handling \ {c}
  /\ UNCHANGED <<GUARD, RAN, pending_flushes, ipi, pc, mask, invd, cached, stale>>

Run(c) == PreEnter(c) \/ Take(c) \/ Enter(c) \/ Loop(c) \/ Swap(c) \/ Or(c) \/ Send(c) \/ Acknowledge(c)
Next == \E c \in VCPU : Run(c) \/ EnterPending(c) \/ Exit(c) \/ CallFlush(c) \/ Lock(c) \/ Spin(c) \/ Handle(c)

Spec == Init /\ [][Next]_vars

(* The vCPUs run, the guest is left again (at the latest when the host      *)
(* interrupts it), interrupts arrive, the lock is fair enough, and the      *)
(* other vCPUs do not flush so often that COUNTER is never seen to be zero. *)
Fairness == \A c \in VCPU : /\ WF_vars(Run(c)) /\ WF_vars(Exit(c))
                            /\ SF_vars(Handle(c)) /\ SF_vars(Lock(c)) /\ SF_vars(Spin(c))
FairSpec == Spec /\ Fairness

-----------------------------------------------------------------------------
TypeOK ==
  /\ GUARD \in VCPU \cup {NoVcpu}
  /\ COUNTER \subseteq VCPU /\ RAN \subseteq VCPU /\ pending_flushes \subseteq VCPU
  /\ ipi \subseteq VCPU /\ handling \subseteq VCPU /\ cached \subseteq VCPU
  /\ pc \in [VCPU -> PC] /\ mask \in [VCPU -> SUBSET VCPU] /\ invd \in [VCPU -> BOOLEAN]
  /\ stale \subseteq VCPU

(* c is between its request for a flush and the end of flush(). *)
Flushing(c) == pc[c] \in {"lock", "swap", "or", "send", "spin"}

(* "Flush the entire TLB on all vCPUs.": once flush() has returned on a     *)
(* vCPU, no vCPU runs guest code with translations from before the call,    *)
(* whichever flushes of other vCPUs and late interrupts got mixed up.       *)
NoStaleGuest ==
  ~Flushing(Watched) => \A d \in stale : pc[d] # "guest"

(* Every bit in COUNTER is going to be cleared: its interrupt is on its way *)
(* or yet to be sent, or the handler is running.                            *)
BitsAnswered ==
  \A d \in COUNTER : d \in ipi \/ d \in handling \/ \E c \in VCPU : pc[c] = "send" /\ d \in mask[c]

(* flush() waits for whom it must and for nobody else. *)
ShootdownSound == TypeOK /\ NoStaleGuest /\ BitsAnswered
=============================================================================
