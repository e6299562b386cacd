----------------------------- MODULE VcpuProofs -----------------------------
(***************************************************************************)
(* What the vCPUs share, for any number of them: the TLB shootdown, the    *)
(* PCIDs, the slots of memory the host lends, and the read-write lock.     *)
(*                                                                         *)
(* Shootdown. A vCPU that may hold translations is accounted for: its bit  *)
(* is in RAN, in the mask of a flush on its way to COUNTER, or in COUNTER  *)
(* (Counted), or it drops its translations before it runs guest code again *)
(* (WillDrop). While interrupts are off, only the first three will do.     *)
(* Once the watched flush has taken RAN, the bits it is about can only be  *)
(* in its own mask or in COUNTER (Awaited), so when it sees COUNTER empty  *)
(* every one of those vCPUs is going to drop its translations.             *)
(*                                                                         *)
(* PCIDs. A PCID that is given back and allocated again brings no          *)
(* translation of its former user: what a CPU still refers to, in CR3 or   *)
(* in a translation, is live (CachedLive), and live page tables have PCIDs *)
(* of their own (PcidsDistinct).                                           *)
(*                                                                         *)
(* Slots. What the run checks is inductive as it is; the arithmetic is     *)
(* that of the byte and the bit of a slot.                                 *)
(*                                                                         *)
(* Lock. Exclusion alone is not inductive: it needs that a held write lock *)
(* is still far below zero when a reader adds to it. What bounds the drift *)
(* is that whoever added one stays in reload until the state was set back: *)
(* a write-locked state is at most MIN plus the number of users that have  *)
(* yet to do so (Late).                                                    *)
(***************************************************************************)
EXTENDS TlbShootdown, RwLock, Pcid, HostAllocator, FiniteSetTheorems,
        WellFoundedInduction, NaturalsInduction, TLAPS

Counted(d) == d \in RAN \/ d \in COUNTER \/ \E c \in VCPU : pc[c] = "or" /\ d \in mask[c]

WillDrop(d) ==
  /\ pc[d] # "guest"
  /\ pc[d] = "enter" => invd[d]
  /\ pc[d] # "enter" => d \in pending_flushes

Awaited(d) == (pc[Watched] = "or" /\ d \in mask[Watched]) \/ d \in COUNTER

GuardHeld == \A c \in VCPU : pc[c] \in {"swap", "or"} => GUARD = c
Interrupted == \A d \in handling : InterruptsEnabled(d) /\ d \in pending_flushes
RunsCounted == \A d \in VCPU : pc[d] \in {"take", "enter", "guest"} => Counted(d)
CachedTracked == \A d \in cached : Counted(d) \/ WillDrop(d)
StaleTracked ==
  /\ stale \subseteq cached
  /\ pc[Watched] \in {"or", "send", "spin"} => \A d \in stale : Awaited(d) \/ WillDrop(d)
  /\ ~Flushing(Watched) => \A d \in stale : WillDrop(d)

IInv ==
  /\ TypeOK /\ BitsAnswered /\ GuardHeld /\ Interrupted
  /\ RunsCounted /\ CachedTracked /\ StaleTracked

VcpuStep(c) ==
  \/ PreEnter(c) \/ Take(c) \/ Enter(c) \/ EnterPending(c) \/ Exit(c) \/ Loop(c) \/ CallFlush(c) \/ Lock(c)
  \/ Swap(c) \/ Or(c) \/ Send(c) \/ Spin(c) \/ Handle(c) \/ Acknowledge(c)

-----------------------------------------------------------------------------
(* Every step keeps the types.                                              *)
LEMMA TypeStep ==
  ASSUME TypeOK, NEW c \in VCPU, VcpuStep(c)
  PROVE  TypeOK'
<1>1. CASE PreEnter(c)
  BY <1>1 DEF PreEnter, Step, TypeOK, PC
<1>2. CASE Take(c)
  BY <1>2 DEF Take, Step, TypeOK, PC
<1>3. CASE Enter(c)
  BY <1>3 DEF Enter, Step, TypeOK, PC
<1>4. CASE Exit(c)
  BY <1>4 DEF Exit, Step, TypeOK, PC
<1>5. CASE Loop(c)
  BY <1>5 DEF Loop, Step, TypeOK, PC
<1>6. CASE CallFlush(c)
  BY <1>6 DEF CallFlush, Step, TypeOK, PC
<1>7. CASE Lock(c)
  BY <1>7 DEF Lock, Step, TypeOK, PC
<1>8. CASE Swap(c)
  BY <1>8 DEF Swap, Step, TypeOK, PC
<1>9. CASE Or(c)
  BY <1>9 DEF Or, Step, TypeOK, PC
<1>10. CASE Send(c)
  BY <1>10 DEF Send, Remaining, Step, TypeOK, PC
<1>11. CASE Spin(c)
  BY <1>11 DEF Spin, Step, TypeOK, PC
<1>12. CASE Handle(c)
  BY <1>12 DEF Handle, Step, TypeOK, PC
<1>13. CASE Acknowledge(c)
  BY <1>13 DEF Acknowledge, Step, TypeOK, PC
<1>14. CASE EnterPending(c)
  BY <1>14 DEF EnterPending, Step, TypeOK, PC
<1> QED BY <1>1, <1>2, <1>3, <1>4, <1>5, <1>6, <1>7, <1>8, <1>9, <1>10, <1>11, <1>12, <1>13, <1>14 DEF
       VcpuStep

(* Every step keeps every bit of COUNTER answered.                          *)
LEMMA AnsweredStep ==
  ASSUME TypeOK, BitsAnswered, NEW c \in VCPU, VcpuStep(c)
  PROVE  BitsAnswered'
<1>1. CASE PreEnter(c)
  BY <1>1 DEF PreEnter, Step, TypeOK, BitsAnswered
<1>2. CASE Take(c)
  BY <1>2 DEF Take, Step, TypeOK, BitsAnswered
<1>3. CASE Enter(c)
  BY <1>3 DEF Enter, Step, TypeOK, BitsAnswered
<1>4. CASE Exit(c)
  BY <1>4 DEF Exit, Step, TypeOK, BitsAnswered
<1>5. CASE Loop(c)
  BY <1>5 DEF Loop, Step, TypeOK, BitsAnswered
<1>6. CASE CallFlush(c)
  BY <1>6 DEF CallFlush, Step, TypeOK, BitsAnswered
<1>7. CASE Lock(c)
  BY <1>7 DEF Lock, Step, TypeOK, BitsAnswered
<1>8. CASE Swap(c)
  BY <1>8 DEF Swap, Step, TypeOK, BitsAnswered
<1>9. CASE Or(c)
  BY <1>9 DEF Or, Step, TypeOK, BitsAnswered
<1>10. CASE Send(c)
  BY <1>10 DEF Send, Remaining, Step, TypeOK, BitsAnswered
<1>11. CASE Spin(c)
  BY <1>11 DEF Spin, Step, TypeOK, BitsAnswered
<1>12. CASE Handle(c)
  BY <1>12 DEF Handle, Step, TypeOK, BitsAnswered
<1>13. CASE Acknowledge(c)
  BY <1>13 DEF Acknowledge, Step, TypeOK, BitsAnswered
<1>14. CASE EnterPending(c)
  BY <1>14 DEF EnterPending, Step, TypeOK, BitsAnswered
<1> QED BY <1>1, <1>2, <1>3, <1>4, <1>5, <1>6, <1>7, <1>8, <1>9, <1>10, <1>11, <1>12, <1>13, <1>14 DEF
       VcpuStep

(* Only the holder of GUARD is between the swap and the end of the lock.    *)
LEMMA GuardStep ==
  ASSUME TypeOK, GuardHeld, NEW c \in VCPU, VcpuStep(c)
  PROVE  GuardHeld'
<1>1. CASE PreEnter(c)
  BY <1>1 DEF PreEnter, Step, TypeOK, GuardHeld, NoVcpu
<1>2. CASE Take(c)
  BY <1>2 DEF Take, Step, TypeOK, GuardHeld, NoVcpu
<1>3. CASE Enter(c)
  BY <1>3 DEF Enter, Step, TypeOK, GuardHeld, NoVcpu
<1>4. CASE Exit(c)
  BY <1>4 DEF Exit, Step, TypeOK, GuardHeld, NoVcpu
<1>5. CASE Loop(c)
  BY <1>5 DEF Loop, Step, TypeOK, GuardHeld, NoVcpu
<1>6. CASE CallFlush(c)
  BY <1>6 DEF CallFlush, Step, TypeOK, GuardHeld, NoVcpu
<1>7. CASE Lock(c)
  BY <1>7, TlbAssumption DEF Lock, Step, TypeOK, GuardHeld, NoVcpu
<1>8. CASE Swap(c)
  BY <1>8 DEF Swap, Step, TypeOK, GuardHeld, NoVcpu
<1>9. CASE Or(c)
  BY <1>9 DEF Or, Step, TypeOK, GuardHeld, NoVcpu
<1>10. CASE Send(c)
  BY <1>10 DEF Send, Step, TypeOK, GuardHeld, NoVcpu
<1>11. CASE Spin(c)
  BY <1>11 DEF Spin, Step, TypeOK, GuardHeld, NoVcpu
<1>12. CASE Handle(c)
  BY <1>12 DEF Handle, Step, TypeOK, GuardHeld, NoVcpu
<1>13. CASE Acknowledge(c)
  BY <1>13 DEF Acknowledge, Step, TypeOK, GuardHeld, NoVcpu
<1>14. CASE EnterPending(c)
  BY <1>14 DEF EnterPending, Step, TypeOK, GuardHeld, NoVcpu
<1> QED BY <1>1, <1>2, <1>3, <1>4, <1>5, <1>6, <1>7, <1>8, <1>9, <1>10, <1>11, <1>12, <1>13, <1>14 DEF
       VcpuStep

(* The handler runs with interrupts enabled, and has set pending_flushes.   *)
LEMMA InterruptStep ==
  ASSUME TypeOK, Interrupted, NEW c \in VCPU, VcpuStep(c)
  PROVE  Interrupted'
<1>1. CASE PreEnter(c)
  BY <1>1 DEF PreEnter, Step, TypeOK, Interrupted, InterruptsEnabled
<1>2. CASE Take(c)
  BY <1>2 DEF Take, Step, TypeOK, Interrupted, InterruptsEnabled
<1>3. CASE Enter(c)
  BY <1>3 DEF Enter, Step, TypeOK, Interrupted, InterruptsEnabled
<1>4. CASE Exit(c)
  BY <1>4 DEF Exit, Step, TypeOK, Interrupted, InterruptsEnabled
<1>5. CASE Loop(c)
  BY <1>5 DEF Loop, Step, TypeOK, Interrupted, InterruptsEnabled
<1>6. CASE CallFlush(c)
  BY <1>6 DEF CallFlush, Step, TypeOK, Interrupted, InterruptsEnabled
<1>7. CASE Lock(c)
  BY <1>7 DEF Lock, Step, TypeOK, Interrupted, InterruptsEnabled
<1>8. CASE Swap(c)
  BY <1>8 DEF Swap, Step, TypeOK, Interrupted, InterruptsEnabled
<1>9. CASE Or(c)
  BY <1>9 DEF Or, Step, TypeOK, Interrupted, InterruptsEnabled
<1>10. CASE Send(c)
  BY <1>10 DEF Send, Step, TypeOK, Interrupted, InterruptsEnabled
<1>11. CASE Spin(c)
  BY <1>11 DEF Spin, Step, TypeOK, Interrupted, InterruptsEnabled
<1>12. CASE Handle(c)
  BY <1>12 DEF Handle, Step, TypeOK, Interrupted, InterruptsEnabled
<1>13. CASE Acknowledge(c)
  BY <1>13 DEF Acknowledge, Step, TypeOK, Interrupted, InterruptsEnabled
<1>14. CASE EnterPending(c)
  BY <1>14 DEF EnterPending, Step, TypeOK, Interrupted, InterruptsEnabled
<1> QED BY <1>1, <1>2, <1>3, <1>4, <1>5, <1>6, <1>7, <1>8, <1>9, <1>10, <1>11, <1>12, <1>13, <1>14 DEF
       VcpuStep

(* A vCPU that has interrupts off is counted.                               *)
LEMMA RunsStep ==
  ASSUME TypeOK, Interrupted, RunsCounted, NEW c \in VCPU, VcpuStep(c)
  PROVE  RunsCounted'
<1>1. CASE PreEnter(c)
  BY <1>1 DEF PreEnter, Step, TypeOK, RunsCounted, Counted, Interrupted, InterruptsEnabled
<1>2. CASE Take(c)
  BY <1>2 DEF Take, Step, TypeOK, RunsCounted, Counted, Interrupted, InterruptsEnabled
<1>3. CASE Enter(c)
  BY <1>3 DEF Enter, Step, TypeOK, RunsCounted, Counted, Interrupted, InterruptsEnabled
<1>4. CASE Exit(c)
  BY <1>4 DEF Exit, Step, TypeOK, RunsCounted, Counted, Interrupted, InterruptsEnabled
<1>5. CASE Loop(c)
  BY <1>5 DEF Loop, Step, TypeOK, RunsCounted, Counted, Interrupted, InterruptsEnabled
<1>6. CASE CallFlush(c)
  BY <1>6 DEF CallFlush, Step, TypeOK, RunsCounted, Counted, Interrupted, InterruptsEnabled
<1>7. CASE Lock(c)
  BY <1>7 DEF Lock, Step, TypeOK, RunsCounted, Counted, Interrupted, InterruptsEnabled
<1>8. CASE Swap(c)
  BY <1>8 DEF Swap, Step, TypeOK, RunsCounted, Counted, Interrupted, InterruptsEnabled
<1>9. CASE Or(c)
  BY <1>9 DEF Or, Step, TypeOK, RunsCounted, Counted, Interrupted, InterruptsEnabled
<1>10. CASE Send(c)
  BY <1>10 DEF Send, Step, TypeOK, RunsCounted, Counted, Interrupted, InterruptsEnabled
<1>11. CASE Spin(c)
  BY <1>11 DEF Spin, Step, TypeOK, RunsCounted, Counted, Interrupted, InterruptsEnabled
<1>12. CASE Handle(c)
  BY <1>12 DEF Handle, Step, TypeOK, RunsCounted, Counted, Interrupted, InterruptsEnabled
<1>13. CASE Acknowledge(c)
  BY <1>13 DEF Acknowledge, Step, TypeOK, RunsCounted, Counted, Interrupted, InterruptsEnabled
<1>14. CASE EnterPending(c)
  BY <1>14 DEF EnterPending, Step, TypeOK, RunsCounted, Counted, Interrupted, InterruptsEnabled
<1> QED BY <1>1, <1>2, <1>3, <1>4, <1>5, <1>6, <1>7, <1>8, <1>9, <1>10, <1>11, <1>12, <1>13, <1>14 DEF
       VcpuStep

(* A vCPU that may hold translations is counted or is going to drop them.   *)
LEMMA CachedStep ==
  ASSUME TypeOK, Interrupted, RunsCounted, CachedTracked, NEW c \in VCPU, VcpuStep(c)
  PROVE  CachedTracked'
<1>1. CASE PreEnter(c)
  BY <1>1 DEF PreEnter, Step, TypeOK, RunsCounted, CachedTracked, Counted, WillDrop, Interrupted,
     InterruptsEnabled
<1>2. CASE Take(c)
  BY <1>2 DEF Take, Step, TypeOK, RunsCounted, CachedTracked, Counted, WillDrop, Interrupted,
     InterruptsEnabled
<1>3. CASE Enter(c)
  BY <1>3 DEF Enter, Step, TypeOK, RunsCounted, CachedTracked, Counted, WillDrop, Interrupted,
     InterruptsEnabled
<1>4. CASE Exit(c)
  BY <1>4 DEF Exit, Step, TypeOK, RunsCounted, CachedTracked, Counted, WillDrop, Interrupted,
     InterruptsEnabled
<1>5. CASE Loop(c)
  BY <1>5 DEF Loop, Step, TypeOK, RunsCounted, CachedTracked, Counted, WillDrop, Interrupted,
     InterruptsEnabled
<1>6. CASE CallFlush(c)
  BY <1>6 DEF CallFlush, Step, TypeOK, RunsCounted, CachedTracked, Counted, WillDrop, Interrupted,
     InterruptsEnabled
<1>7. CASE Lock(c)
  BY <1>7 DEF Lock, Step, TypeOK, RunsCounted, CachedTracked, Counted, WillDrop, Interrupted,
     InterruptsEnabled
<1>8. CASE Swap(c)
  BY <1>8 DEF Swap, Step, TypeOK, RunsCounted, CachedTracked, Counted, WillDrop, Interrupted,
     InterruptsEnabled
<1>9. CASE Or(c)
  BY <1>9 DEF Or, Step, TypeOK, RunsCounted, CachedTracked, Counted, WillDrop, Interrupted,
     InterruptsEnabled
<1>10. CASE Send(c)
  BY <1>10 DEF Send, Step, TypeOK, RunsCounted, CachedTracked, Counted, WillDrop, Interrupted,
     InterruptsEnabled
<1>11. CASE Spin(c)
  BY <1>11 DEF Spin, Step, TypeOK, RunsCounted, CachedTracked, Counted, WillDrop, Interrupted,
     InterruptsEnabled
<1>12. CASE Handle(c)
  BY <1>12 DEF Handle, Step, TypeOK, RunsCounted, CachedTracked, Counted, WillDrop, Interrupted,
     InterruptsEnabled
<1>13. CASE Acknowledge(c)
  BY <1>13 DEF Acknowledge, Step, TypeOK, RunsCounted, CachedTracked, Counted, WillDrop,
     Interrupted, InterruptsEnabled
<1>14. CASE EnterPending(c)
  BY <1>14 DEF EnterPending, Step, TypeOK, RunsCounted, CachedTracked, Counted, WillDrop, Interrupted,
     InterruptsEnabled
<1> QED BY <1>1, <1>2, <1>3, <1>4, <1>5, <1>6, <1>7, <1>8, <1>9, <1>10, <1>11, <1>12, <1>13, <1>14 DEF
       VcpuStep

(* What the watched flush is about is awaited, and then going to be dropped. *)
LEMMA StaleStep ==
  ASSUME IInv, NEW c \in VCPU, VcpuStep(c)
  PROVE  StaleTracked'
<1>1. CASE PreEnter(c)
  BY <1>1, TlbAssumption DEF PreEnter, Step, IInv, TypeOK, StaleTracked, Awaited, WillDrop, Flushing
<1>2. CASE Take(c)
  <2>1. /\ pc[c] = "take" /\ pc' = [pc EXCEPT ![c] = "enter"]
        /\ invd' = [invd EXCEPT ![c] = c \in pending_flushes]
        /\ pending_flushes' = pending_flushes \ {c}
        /\ UNCHANGED <<COUNTER, mask, cached, stale>>
    BY <1>2 DEF Take, Step
  <2>2. pc \in [VCPU -> PC] /\ invd \in [VCPU -> BOOLEAN] /\ Watched \in VCPU /\ stale \subseteq VCPU
    BY TlbAssumption DEF IInv, TypeOK
  <2>3. \A d \in VCPU : WillDrop(d) => WillDrop(d)'
    BY <2>1, <2>2 DEF WillDrop
  <2>4. \A d \in VCPU : Awaited(d)' = Awaited(d)
    BY <2>1, <2>2 DEF Awaited
  <2>5. /\ Flushing(Watched) <=> Flushing(Watched)'
        /\ pc'[Watched] \in {"or", "send", "spin"} => pc[Watched] \in {"or", "send", "spin"}
    BY <2>1, <2>2 DEF Flushing
  <2> QED BY <2>1, <2>2, <2>3, <2>4, <2>5 DEF IInv, StaleTracked
<1>3. CASE Enter(c)
  BY <1>3, TlbAssumption DEF Enter, Step, IInv, TypeOK, StaleTracked, Awaited, WillDrop, Flushing
<1>4. CASE Exit(c)
  BY <1>4, TlbAssumption DEF Exit, Step, IInv, TypeOK, StaleTracked, Awaited, WillDrop, Flushing
<1>5. CASE Loop(c)
  BY <1>5, TlbAssumption DEF Loop, Step, IInv, TypeOK, StaleTracked, Awaited, WillDrop, Flushing
<1>6. CASE CallFlush(c)
  BY <1>6, TlbAssumption DEF CallFlush, Step, IInv, TypeOK, StaleTracked, Awaited, WillDrop,
     Flushing, CachedTracked, Counted
<1>7. CASE Lock(c)
  BY <1>7, TlbAssumption DEF Lock, Step, IInv, TypeOK, StaleTracked, Awaited, WillDrop, Flushing
<1>8. CASE Swap(c)
  BY <1>8, TlbAssumption DEF Swap, Step, IInv, TypeOK, StaleTracked, Awaited, WillDrop, Flushing,
     GuardHeld, CachedTracked, Counted
<1>9. CASE Or(c)
  BY <1>9, TlbAssumption DEF Or, Step, IInv, TypeOK, StaleTracked, Awaited, WillDrop, Flushing
<1>10. CASE Send(c)
  <2>1. /\ pc[c] = "send" /\ (pc' = [pc EXCEPT ![c] = "send"] \/ pc' = [pc EXCEPT ![c] = "spin"])
        /\ UNCHANGED <<COUNTER, pending_flushes, invd, cached, stale>>
        /\ \A d \in VCPU : d # c => mask'[d] = mask[d]
    BY <1>10 DEF Send, Step, IInv, TypeOK
  <2>2. pc \in [VCPU -> PC] /\ Watched \in VCPU /\ stale \subseteq VCPU
    BY TlbAssumption DEF IInv, TypeOK
  <2>3. \A d \in VCPU : WillDrop(d) => WillDrop(d)'
    BY <2>1, <2>2 DEF WillDrop
  <2>4. \A d \in VCPU : Awaited(d) => Awaited(d)'
    BY <2>1, <2>2 DEF Awaited
  <2>5. /\ Flushing(Watched) <=> Flushing(Watched)'
        /\ pc'[Watched] \in {"or", "send", "spin"} => pc[Watched] \in {"or", "send", "spin"}
    BY <2>1, <2>2 DEF Flushing
  <2> QED BY <2>1, <2>2, <2>3, <2>4, <2>5 DEF IInv, StaleTracked
<1>11. CASE Spin(c)
  BY <1>11, TlbAssumption DEF Spin, Step, IInv, TypeOK, StaleTracked, Awaited, WillDrop, Flushing
<1>12. CASE Handle(c)
  BY <1>12, TlbAssumption DEF Handle, Step, IInv, TypeOK, StaleTracked, Awaited, WillDrop,
     Flushing, InterruptsEnabled
<1>13. CASE Acknowledge(c)
  BY <1>13, TlbAssumption DEF Acknowledge, Step, IInv, TypeOK, StaleTracked, Awaited, WillDrop,
     Flushing, Interrupted, InterruptsEnabled
<1>14. CASE EnterPending(c)
  BY <1>14, TlbAssumption DEF EnterPending, Step, IInv, TypeOK, StaleTracked, Awaited, WillDrop, Flushing
<1> QED BY <1>1, <1>2, <1>3, <1>4, <1>5, <1>6, <1>7, <1>8, <1>9, <1>10, <1>11, <1>12, <1>13, <1>14 DEF
       VcpuStep

-----------------------------------------------------------------------------
(* The invariant holds in every state of the shootdown.                     *)
THEOREM Inductive == Spec => []IInv
<1>1. Init => IInv
  BY TlbAssumption DEF Init, IInv, TypeOK, BitsAnswered, GuardHeld, Interrupted, RunsCounted,
     CachedTracked, StaleTracked, PC, NoVcpu
<1>2. IInv /\ [Next]_vars => IInv'
  <2>1. SUFFICES ASSUME IInv, [Next]_vars PROVE IInv'
    OBVIOUS
  <2>2. ASSUME NEW c \in VCPU, VcpuStep(c) PROVE IInv'
    BY <2>1, <2>2, TypeStep, AnsweredStep, GuardStep, InterruptStep, RunsStep, CachedStep, StaleStep
       DEF IInv
  <2>3. CASE UNCHANGED vars
    BY <2>1, <2>3 DEF vars, IInv, TypeOK, BitsAnswered, GuardHeld, Interrupted, InterruptsEnabled,
       RunsCounted, CachedTracked, StaleTracked, Counted, WillDrop, Awaited, Flushing
  <2> QED BY <2>1, <2>2, <2>3 DEF Next, Run, VcpuStep
<1> QED BY <1>1, <1>2, PTL DEF Spec

(* Every variable of the shootdown keeps its type.                          *)
THEOREM TypeCorrect == Spec => []TypeOK
BY Inductive, PTL DEF IInv

(* flush() flushes the TLBs of all vCPUs: when it has returned, no vCPU     *)
(* runs guest code with translations from before the call.                  *)
THEOREM FlushIsComplete == Spec => []NoStaleGuest
<1>1. IInv => NoStaleGuest
  BY DEF IInv, StaleTracked, NoStaleGuest, WillDrop
<1> QED BY <1>1, Inductive, PTL

(* Every bit flush() waits for is going to be cleared by flush_handler.     *)
THEOREM BitsAreAnswered == Spec => []BitsAnswered
BY Inductive, PTL DEF IInv

(* flush() waits for whom it must, and for nobody who cannot answer.        *)
THEOREM ShootdownIsSound == Spec => []ShootdownSound
BY TypeCorrect, FlushIsComplete, BitsAreAnswered, PTL DEF ShootdownSound

-----------------------------------------------------------------------------

(* Page tables that still have a PCID. *)
Live(s) == space[s].pcid # None

(* Live page tables have a PCID of their own, and it is allocated. *)
PcidsDistinct ==
  /\ \A s \in Spaces : (space[s].owned => Live(s)) /\ (Live(s) => space[s].pcid \in in_use)
  /\ \A s, t \in Spaces : s # t /\ Live(s) => space[s].pcid # space[t].pcid

(* What a CPU still refers to is live: the page tables in CR3 and those of *)
(* every translation, also of page tables it does not run any more.        *)
CachedLive ==
  \A c \in Cpus :
    /\ last[c] # Boot => Live(last[c])
    /\ \A t \in tlb[c] : space[t[2]].pcid = t[1]

PcidInv == PcidTypeOK /\ PcidsDistinct /\ CachedLive

-----------------------------------------------------------------------------
Free == (0 .. PCIDS - 1) \ in_use

(* PcidAllocations::allocate finds a free PCID whenever there is one. *)
LEMMA NextFreeIsFree ==
  ASSUME PcidAssumption, PcidTypeOK, in_use # 0 .. PCIDS - 1
  PROVE  NextFree \in Free
  <1> DEFINE D == {Distance(i) : i \in Free}
  <1>1. PICK i \in Free : TRUE
    BY DEF Free, PcidTypeOK
  <1>2. \A j \in Free : Distance(j) \in Nat
    BY DEF PcidAssumption, PcidTypeOK, Free, Distance
  <1>3. D \subseteq Nat /\ D # {}
    BY <1>1, <1>2
  <1>4. \E d \in D : \A e \in D : <<e, d>> \notin OpToRel(<, Nat)
    <2> HIDE DEF D
    <2> QED
      BY <1>3, WFMin, NatLessThanWellFounded
  <1>5. PICK d \in D : \A e \in D : ~ (e < d)
    BY <1>3, <1>4 DEF OpToRel
  <1>6. PICK j \in Free : d = Distance(j)
    BY <1>5
  <1>7. ASSUME NEW k \in Free PROVE Distance(j) <= Distance(k)
    <2>1. Distance(k) \in D /\ Distance(k) \in Nat /\ Distance(j) \in Nat
      BY <1>2
    <2>2. ~ (Distance(k) < d)
      <3> HIDE DEF D
      <3> QED
        BY <2>1, <1>5
    <2> QED
      BY <2>1, <2>2, <1>6
  <1> QED
    BY <1>6, <1>7 DEF NextFree, Free

(* Init => IInv *)
LEMMA PcidInitHolds ==
  ASSUME PcidAssumption
  PROVE  PcidInit => PcidInv
  BY DEF PcidAssumption, PcidInit, PcidInv, PcidTypeOK, PcidsDistinct, CachedLive, Live, NoSpace, None

(* A new PCID belongs to no page tables and to no translation. *)
LEMMA NewKeeps ==
  ASSUME PcidAssumption, PcidInv, NEW s \in Spaces, New(s)
  PROVE  PcidInv'
  <1>1. PICK i \in Free : i = NextFree
    BY NextFreeIsFree DEF New, PcidInv
  <1>2. /\ space[s] = NoSpace
        /\ in_use' = in_use \cup {i}
        /\ last_idx' = (i + 1) % PCIDS
        /\ space' = [space EXCEPT ![s] = [owned |-> TRUE, pcid |-> i]]
        /\ last' = last /\ tlb' = tlb
    BY <1>1 DEF New
  <1>3. i \in 0 .. PCIDS - 1 /\ i \notin in_use /\ i # None
    BY <1>1 DEF Free, None, PcidAssumption
  <1>4. (i + 1) % PCIDS \in 0 .. PCIDS - 1
    BY <1>3 DEF PcidAssumption
  <1>5. PcidTypeOK'
    BY <1>2, <1>3, <1>4 DEF PcidInv, PcidTypeOK
  <1>6. PcidsDistinct'
    BY <1>2, <1>3 DEF PcidInv, PcidTypeOK, PcidsDistinct, Live
  <1>7. CachedLive'
    BY SMTT(20), <1>2, <1>3 DEF PcidInv, PcidTypeOK, CachedLive, Live, NoSpace, None, PcidAssumption
  <1> QED
    BY <1>5, <1>6, <1>7 DEF PcidInv

(* Page tables that no CPU runs are freed with their translations. *)
LEMMA FreedKeeps ==
  ASSUME PcidAssumption, PcidInv, NEW s \in Spaces, Live(s), Deallocate(s),
         space' = [space EXCEPT ![s] = NoSpace], last_idx' = last_idx,
         last' \in [Cpus -> Spaces \cup {Boot}],
         \A c \in Cpus : last'[c] # s /\ (last'[c] # Boot => Live(last'[c]))
  PROVE  PcidInv'
  <1>1. /\ tlb' = [c \in Cpus |-> {t \in tlb[c] : t[1] # space[s].pcid}]
        /\ in_use' = in_use \ {space[s].pcid}
    BY DEF Deallocate, FlushPcid
  <1>2. PcidTypeOK'
    BY <1>1 DEF PcidInv, PcidTypeOK, NoSpace
  <1>3. PcidsDistinct'
    BY <1>1 DEF PcidInv, PcidTypeOK, PcidsDistinct, Live, NoSpace
  <1>4. ASSUME NEW c \in Cpus PROVE last'[c] # Boot => space'[last'[c]].pcid # None
    BY DEF PcidInv, PcidTypeOK, Live, NoSpace
  <1>5. ASSUME NEW c \in Cpus, NEW t \in tlb'[c] PROVE space'[t[2]].pcid = t[1]
    BY <1>1 DEF PcidInv, PcidTypeOK, CachedLive, NoSpace
  <1> QED
    BY <1>2, <1>3, <1>4, <1>5 DEF PcidInv, CachedLive, Live

(* One step per action. *)
LEMMA PcidStep ==
  ASSUME PcidAssumption, PcidInv, [PcidNext]_pcidVars
  PROVE  PcidInv'
  <1>1. ASSUME NEW s \in Spaces, New(s) PROVE PcidInv'
    BY <1>1, NewKeeps
  <1>2. ASSUME NEW s \in Spaces, DropPagetables(s) PROVE PcidInv'
    <2>1. Live(s)
      BY <1>2 DEF DropPagetables, PcidInv, PcidsDistinct
    <2>2. CASE Running(last, s) = {}
      BY <1>2, <2>1, <2>2, FreedKeeps DEF DropPagetables, Running, PcidInv, PcidTypeOK, CachedLive
    <2>3. CASE Running(last, s) # {}
      <3>1. space' = [space EXCEPT ![s].owned = FALSE] /\ UNCHANGED <<in_use, last_idx, last, tlb>>
        BY <1>2, <2>3 DEF DropPagetables, Keep
      <3>2. PcidTypeOK' /\ \A t \in Spaces : space'[t].pcid = space[t].pcid /\ (space'[t].owned => space[t].owned)
        BY <3>1 DEF PcidInv, PcidTypeOK
      <3>3. PcidsDistinct'
        BY <3>1, <3>2 DEF PcidInv, PcidsDistinct, Live
      <3>4. CachedLive'
        BY <3>1, <3>2 DEF PcidInv, PcidTypeOK, CachedLive, Live
      <3> QED
        BY <3>2, <3>3, <3>4 DEF PcidInv
    <2> QED
      BY <2>2, <2>3
  <1>3. ASSUME NEW s \in Spaces, NEW c \in Cpus, Activate(c, s) PROVE PcidInv'
    <2> DEFINE old == last[c]
               unused == old # Boot /\ ~space[old].owned /\ Running([last EXCEPT ![c] = s], old) = {}
    <2>1. /\ space[s].owned /\ old # s /\ Live(s)
          /\ last' = [last EXCEPT ![c] = s] /\ last_idx' = last_idx
      BY <1>3 DEF Activate, PcidInv, PcidsDistinct
    <2>2. CASE unused
      <3>1. old \in Spaces /\ Live(old)
        BY <2>2 DEF PcidInv, PcidTypeOK, CachedLive
      <3>2. Deallocate(old) /\ space' = [space EXCEPT ![old] = NoSpace]
        BY <1>3, <2>2 DEF Activate
      <3>3. /\ last' \in [Cpus -> Spaces \cup {Boot}]
            /\ \A d \in Cpus : last'[d] # old /\ (last'[d] # Boot => Live(last'[d]))
        BY <2>1, <2>2 DEF PcidInv, PcidTypeOK, CachedLive, Running
      <3> QED
        BY <2>1, <3>1, <3>2, <3>3, FreedKeeps
    <2>3. CASE ~unused
      <3>1. UNCHANGED <<tlb, in_use, space>>
        BY <1>3, <2>3 DEF Activate, Keep
      <3> QED
        BY <2>1, <3>1 DEF PcidInv, PcidTypeOK, PcidsDistinct, CachedLive, Live
    <2> QED
      BY <2>2, <2>3
  <1>4. ASSUME NEW c \in Cpus, FillTlb(c) PROVE PcidInv'
    <2>1. /\ last[c] \in Spaces /\ Live(last[c])
          /\ tlb' = [tlb EXCEPT ![c] = @ \cup {<<space[last[c]].pcid, last[c]>>}]
          /\ UNCHANGED <<in_use, last_idx, space, last>>
      BY <1>4 DEF FillTlb, PcidInv, PcidTypeOK, CachedLive
    <2>2. PcidTypeOK'
      BY <2>1 DEF PcidInv, PcidTypeOK, PcidsDistinct, Live
    <2> QED
      BY SMTT(20), <2>1, <2>2 DEF PcidInv, PcidTypeOK, PcidsDistinct, CachedLive, Live
  <1>5. ASSUME UNCHANGED pcidVars PROVE PcidInv'
    BY <1>5 DEF pcidVars, PcidInv, PcidTypeOK, PcidsDistinct, CachedLive, Live
  <1> QED
    BY <1>1, <1>2, <1>3, <1>4, <1>5 DEF PcidNext

(* Two live page tables never share a PCID, so what CR3 selects is theirs. *)
LEMMA PcidSound ==
  ASSUME PcidInv
  PROVE  PcidsSound
  <1>1. ASSUME NEW c \in Cpus, last[c] # Boot
        PROVE  /\ space[last[c]].pcid \in in_use
               /\ \A t \in tlb[c] : t[1] = space[last[c]].pcid => t[2] = last[c]
    BY <1>1 DEF PcidInv, PcidTypeOK, PcidsDistinct, CachedLive, Live
  <1> QED
    BY <1>1 DEF PcidsSound, TranslationsOwn, PcidInv

(* Pagetables and PcidAllocations: however page tables are created,        *)
(* activated, dropped and their PCIDs reused, CR3 never points to freed    *)
(* page tables and no CPU uses a translation of other page tables.         *)
THEOREM PcidsAreSound == PcidSpec => []PcidsSound
  <1>0. PcidAssumption
    BY PcidConstants
  <1>1. PcidInit => PcidInv
    BY <1>0, PcidInitHolds
  <1>2. PcidInv /\ [PcidNext]_pcidVars => PcidInv'
    BY <1>0, PcidStep
  <1>3. PcidInv => PcidsSound
    BY <1>0, PcidSound
  <1> QED
    BY <1>1, <1>2, <1>3, PTL DEF PcidSpec

-----------------------------------------------------------------------------

(* The invariant of the slots.                                             *)
SlotInv == SlotTypeOK /\ HostAgrees

(* The least element of a set of naturals is in the set.                   *)
LEMMA MinIn ==
  ASSUME NEW T \in SUBSET Nat, T # {}
  PROVE  Min(T) \in T
<1>1. PICK x \in T : \A y \in T : ~ (<<y, x>> \in OpToRel(<, Nat))
  BY WFMin, NatLessThanWellFounded
<1>2. ASSUME NEW y \in T
      PROVE  x =< y
  <2>1. x \in Nat /\ y \in Nat
    OBVIOUS
  <2>2. ~ (y < x)
    BY <1>1, <2>1 DEF OpToRel
  <2> QED BY <2>1, <2>2
<1> QED BY <1>2 DEF Min

(* The slots of the byte at i lie in the bitmap. *)
LEMMA SlotOfByte ==
  ASSUME SlotAssumption, NEW i \in 0 .. BITMAP_SIZE - 1, NEW bit \in 0 .. BYTE - 1
  PROVE  i * BYTE + bit \in 0 .. SLOTS - 1
<1>1. i \in Nat /\ bit \in Nat /\ BYTE \in Nat /\ BITMAP_SIZE \in Nat /\ i + 1 <= BITMAP_SIZE /\ bit + 1 <= BYTE
  BY DEF SlotAssumption
<1>2. (i + 1) * BYTE <= BITMAP_SIZE * BYTE
  BY <1>1
<1>3. i * BYTE + bit + 1 <= (i + 1) * BYTE
  BY <1>1
<1>4. i * BYTE \in Nat /\ BITMAP_SIZE * BYTE \in Nat /\ (i + 1) * BYTE \in Nat
  BY <1>1
<1> QED BY <1>1, <1>2, <1>3, <1>4 DEF SLOTS

(* The byte and the bit of a slot give the slot back. *)
LEMMA BitOfSlot ==
  ASSUME SlotAssumption, NEW slot \in Nat
  PROVE  (slot \div BYTE) * BYTE + (slot % BYTE) = slot
BY DEF SlotAssumption

(* allocate_frame keeps the invariant: the bit it finds is clear, so the   *)
(* host has not enabled the slot.                                          *)
LEMMA SlotAllocates ==
  ASSUME SlotAssumption, SlotInv, AllocateFrame
  PROVE  SlotInv'
<1> DEFINE found == {k \in 0 .. BITMAP_SIZE - 1 : ClearBits(NthByte(k)) # {}}
           i == NthByte(Min(found))
           slot == Min(ClearBits(i))
<1>1. CASE found = {}
  BY <1>1 DEF AllocateFrame, slotVars, SlotInv, SlotTypeOK, HostAgrees
<1>2. CASE found # {}
  <2>0. BITMAP_SIZE \in Nat \ {0} /\ start_offset \in 0 .. BITMAP_SIZE - 1
    BY DEF SlotAssumption, SlotInv, SlotTypeOK
  <2>1. found \in SUBSET Nat /\ BITMAP_SIZE \in Nat \ {0} /\ start_offset \in Nat
    BY <2>0
  <2>2. Min(found) \in found
    BY <1>2, <2>1, MinIn
  <2>3. i \in 0 .. BITMAP_SIZE - 1 /\ ClearBits(i) # {}
    <3>1. Min(found) \in Nat /\ ClearBits(i) # {}
      BY <2>1, <2>2
    <3>2. \A k \in Nat : NthByte(k) \in 0 .. BITMAP_SIZE - 1
      BY <2>1 DEF NthByte
    <3> QED BY <3>1, <3>2
  <2> HIDE DEF i
  <2>4. ClearBits(i) \in SUBSET (0 .. SLOTS - 1) /\ SLOTS - 1 \in Int
    BY <2>3, SlotOfByte DEF ClearBits, SLOTS, SlotAssumption
  <2>5. ClearBits(i) \in SUBSET Nat
    BY <2>4
  <2>6. slot \in ClearBits(i)
    BY <2>3, <2>5, MinIn
  <2>7. slot \in 0 .. SLOTS - 1 /\ slot \notin bitmap
    BY <2>4, <2>6 DEF ClearBits
  <2> HIDE DEF slot
  <2>8. /\ failed = "none" /\ bitmap' = bitmap \cup {slot}
        /\ start_offset' = i
        /\ failed' = IF ValidSlotIndex(slot) THEN EnableFails(slot) ELSE "SlotIndex::new"
        /\ IF failed' = "none"
           THEN memory_slots' = memory_slots \cup {slot} /\ granted' = granted \cup {slot}
           ELSE UNCHANGED <<memory_slots, granted>>
    BY <1>2 DEF AllocateFrame, slot, i
  <2>9. EnableFails(slot) = "none" /\ bitmap = memory_slots /\ granted = memory_slots
    BY <2>7, <2>8 DEF EnableFails, SlotInv, HostAgrees
  <2> QED BY <2>3, <2>7, <2>8, <2>9 DEF SlotInv, SlotTypeOK, HostAgrees
<1> QED BY <1>1, <1>2

(* deallocate_frame keeps the invariant: it clears the bit of just this    *)
(* slot.                                                                   *)
LEMMA SlotDeallocates ==
  ASSUME SlotAssumption, SlotInv, NEW slot \in granted, DeallocateFrame(slot)
  PROVE  SlotInv'
<1>1. failed = "none" /\ bitmap = memory_slots /\ granted = memory_slots /\ slot \in bitmap
  BY DEF DeallocateFrame, SlotInv, HostAgrees
<1>2. DisableFails(slot) = "none"
  BY <1>1 DEF DisableFails
<1>3. slot \in Nat
  <2>1. slot \in 0 .. SLOTS - 1
    BY DEF SlotInv, SlotTypeOK
  <2> QED BY <2>1
<1>4. Cleared(slot) = bitmap \ {slot}
  BY <1>3, BitOfSlot DEF Cleared
<1> QED BY <1>1, <1>2, <1>4 DEF DeallocateFrame, SlotInv, SlotTypeOK, HostAgrees

(* HostAllocator (supervisor-snp dynamic.rs) and the host's table          *)
(* (snp.rs): for any size of the bitmap, its bits, the slots that the host *)
(* enabled and those that the kernel holds agree, and neither side's       *)
(* assertion about a slot's status fails.                                  *)
THEOREM SlotsAreAgreed == SlotSpec => []SlotsAgree
<1>0. SlotAssumption
  BY SlotConstants
<1>1. SlotInit => SlotInv
  BY <1>0 DEF SlotInit, SlotInv, SlotTypeOK, HostAgrees, SlotAssumption
<1>2. SlotInv /\ [SlotNext]_slotVars => SlotInv'
  <2>1. SlotInv /\ UNCHANGED slotVars => SlotInv'
    BY DEF slotVars, SlotInv, SlotTypeOK, HostAgrees
  <2> QED BY <1>0, <2>1, SlotAllocates, SlotDeallocates DEF SlotNext
<1>3. SlotInv => SlotsAgree
  BY DEF SlotInv, SlotsAgree
<1> QED BY <1>1, <1>2, <1>3, PTL DEF SlotSpec

-----------------------------------------------------------------------------

(* The users that added one to a write-locked state and have yet to set it *)
(* back, and the bound they give.                                          *)
Late == {c \in User : at[c] = "reload" \/ (at[c] = "exchange" /\ value[c] <= RELOAD_LIMIT)}
Drift == Writers # {} => state <= MIN + Cardinality(Late)
RwInv == RwTypeOK /\ Exclusion /\ ReadersCounted /\ Drift

-----------------------------------------------------------------------------
(* The sets the invariant counts are finite, and a writer is none of the    *)
(* vCPUs in reload.                                                         *)
LEMMA Counts ==
  /\ IsFiniteSet(Readers) /\ IsFiniteSet(Late)
  /\ Cardinality(User) \in Nat /\ Cardinality(Readers) \in Nat /\ Cardinality(Late) \in Nat
  /\ Cardinality(Readers) <= Cardinality(User)
  /\ Writers # {} => Cardinality(Late) + 1 <= Cardinality(User)
<1>1. IsFiniteSet(User) /\ Cardinality(User) \in Nat
  BY RwLockAssumption, FS_CardinalityType
<1>2. Readers \subseteq User /\ Late \subseteq User
  BY DEF Readers, Late
<1>3. IsFiniteSet(Readers) /\ Cardinality(Readers) <= Cardinality(User)
  BY <1>1, <1>2, FS_Subset
<1>4. IsFiniteSet(Late) /\ Cardinality(Late) \in Nat /\ Cardinality(Readers) \in Nat
  BY <1>1, <1>2, <1>3, FS_Subset, FS_CardinalityType
<1>5. ASSUME NEW w \in Writers PROVE Cardinality(Late) + 1 <= Cardinality(User)
  <2>1. w \in User /\ w \notin Late
    BY DEF Writers, Late
  <2>2. Cardinality(Late \cup {w}) = Cardinality(Late) + 1
    BY <1>4, <2>1, FS_AddElement
  <2>3. Late \cup {w} \subseteq User
    BY <1>2, <2>1
  <2> QED BY <1>1, <2>2, <2>3, FS_Subset
<1> QED BY <1>1, <1>3, <1>4, <1>5

(* A write-locked state is at or below the limit, a free one is not         *)
(* negative.                                                                *)
LEMMA Locked ==
  ASSUME RwInv
  PROVE  /\ LIMIT \in Nat \ {0} /\ state \in Int /\ MIN <= state
         /\ Writers # {} => state <= RELOAD_LIMIT /\ state < 0
         /\ Writers = {} => state >= 0 /\ state > RELOAD_LIMIT
<1>1. LIMIT \in Nat \ {0} /\ Cardinality(User) <= LIMIT
  BY RwLockAssumption
<1>2. MIN \in Int /\ MIN = -2 * LIMIT /\ RELOAD_LIMIT = -LIMIT
  BY <1>1 DEF MIN, RELOAD_LIMIT
<1>3. state \in Int /\ MIN <= state
  BY Counts, <1>2 DEF RwInv, RwTypeOK
<1>4. Writers # {} => state <= RELOAD_LIMIT /\ state < 0
  BY <1>1, <1>2, <1>3, Counts DEF RwInv, Drift
<1>5. Writers = {} => state >= 0 /\ state > RELOAD_LIMIT
  BY <1>1, <1>2, <1>3, Counts DEF RwInv, ReadersCounted
<1> QED BY <1>1, <1>3, <1>4, <1>5

-----------------------------------------------------------------------------
(* A failed or successful attempt to read (try_read) keeps the invariant.   *)
LEMMA TryReadStep ==
  ASSUME RwInv, NEW c \in User, TryRead(c)
  PROVE  RwInv'
<1>t. /\ LIMIT \in Nat \ {0} /\ MIN \in Int /\ RELOAD_LIMIT \in Int /\ state \in Int
      /\ MIN <= state /\ at \in [User -> RwPC] /\ value' = value
      /\ value \in [User -> MIN .. Cardinality(User)] /\ MIN < 0
  BY Locked, RwLockAssumption DEF RwInv, RwTypeOK, MIN, RELOAD_LIMIT, TryRead
<1>1. CASE Writers = {}
  <2>1. state >= 0 /\ AfterTry(state) = "reading"
    BY <1>1, Locked DEF AfterTry
  <2>2. at[c] = "idle" /\ state' = state + 1 /\ at' = [at EXCEPT ![c] = "reading"]
    BY <2>1 DEF TryRead
  <2>3. Readers' = Readers \cup {c} /\ c \notin Readers /\ Writers' = {}
    BY <1>t, <1>1, <2>2 DEF Readers, Writers
  <2>4. Cardinality(Readers') = Cardinality(Readers) + 1
    BY <2>3, Counts, FS_AddElement
  <2>5. state' = Cardinality(Readers')
    BY <1>1, <2>2, <2>4 DEF RwInv, ReadersCounted
  <2>6. Cardinality(Readers') \in Nat /\ Cardinality(Readers') <= Cardinality(User)
    <3>1. Readers' \subseteq User
      BY DEF Readers
    <3> QED BY <3>1, RwLockAssumption, FS_Subset, FS_CardinalityType
  <2>7. RwTypeOK'
    <3>1. state' \in MIN .. Cardinality(User)
      BY <1>t, <2>1, <2>2, <2>5, <2>6, Counts
    <3>2. at' \in [User -> RwPC]
      BY <1>t, <2>2 DEF RwPC
    <3> QED BY <1>t, <3>1, <3>2 DEF RwTypeOK
  <2>8. Exclusion'
    BY <2>3 DEF Exclusion, Writers
  <2> QED BY <2>3, <2>5, <2>7, <2>8 DEF RwInv, ReadersCounted, Drift
<1>2. CASE Writers # {}
  <2>1. state <= RELOAD_LIMIT /\ state < 0 /\ AfterTry(state) = "reload"
    BY <1>2, <1>t, Locked DEF AfterTry
  <2>2. at[c] = "idle" /\ state' = state + 1 /\ at' = [at EXCEPT ![c] = "reload"]
    BY <2>1 DEF TryRead
  <2>3. Late' = Late \cup {c} /\ c \notin Late /\ Writers' = Writers
    BY <1>t, <2>2 DEF Late, Writers
  <2>4. Cardinality(Late') = Cardinality(Late) + 1
    BY <2>3, Counts, FS_AddElement
  <2>5. state' <= MIN + Cardinality(Late')
    BY <1>t, <1>2, <2>2, <2>4, Counts DEF RwInv, Drift
  <2>6. RwTypeOK'
    <3>1. state' \in MIN .. Cardinality(User)
      BY <1>t, <2>1, <2>2, Counts
    <3>2. at' \in [User -> RwPC]
      BY <1>t, <2>2 DEF RwPC
    <3> QED BY <1>t, <3>1, <3>2 DEF RwTypeOK
  <2>7. Exclusion'
    BY <1>t, <2>2 DEF Exclusion, RwInv
  <2> QED BY <1>2, <2>3, <2>5, <2>6, <2>7 DEF RwInv, ReadersCounted, Drift
<1> QED BY <1>1, <1>2

-----------------------------------------------------------------------------
(* Loading the state in reload keeps the invariant: what it sees of a held  *)
(* lock is below the limit, so the vCPU remains late.                       *)
LEMMA ReloadStep ==
  ASSUME RwInv, NEW c \in User, ReloadLoad(c)
  PROVE  RwInv'
<1>t. /\ LIMIT \in Nat \ {0} /\ MIN \in Int /\ RELOAD_LIMIT \in Int /\ state' = state
      /\ state \in MIN .. Cardinality(User) /\ at \in [User -> RwPC]
      /\ value \in [User -> MIN .. Cardinality(User)]
  BY RwLockAssumption DEF RwInv, RwTypeOK, MIN, RELOAD_LIMIT, ReloadLoad
<1>1. /\ at[c] = "reload" /\ at' = [at EXCEPT ![c] = "exchange"]
      /\ value' = [value EXCEPT ![c] = state]
  BY DEF ReloadLoad
<1>2. RwTypeOK'
  BY <1>t, <1>1 DEF RwTypeOK, RwPC
<1>3. Exclusion'
  BY <1>t, <1>1 DEF Exclusion, RwInv
<1>4. Readers' = Readers /\ Writers' = Writers
  BY <1>t, <1>1 DEF Readers, Writers
<1>5. Writers # {} => Late' = Late
  <2>1. SUFFICES ASSUME Writers # {} PROVE Late' = Late
    OBVIOUS
  <2>2. state <= RELOAD_LIMIT
    BY <2>1, Locked
  <2> QED BY <1>t, <1>1, <2>2 DEF Late
<1> QED BY <1>t, <1>2, <1>3, <1>4, <1>5 DEF RwInv, ReadersCounted, Drift

(* The compare-exchange of reload keeps the invariant: it only succeeds on  *)
(* a state at or below the limit, which no free lock has.                   *)
LEMMA ExchangeStep ==
  ASSUME RwInv, NEW c \in User, Exchange(c)
  PROVE  RwInv'
<1>t. /\ LIMIT \in Nat \ {0} /\ MIN \in Int /\ RELOAD_LIMIT \in Int /\ MIN < 0
      /\ state \in MIN .. Cardinality(User) /\ at \in [User -> RwPC]
      /\ value \in [User -> MIN .. Cardinality(User)] /\ at[c] = "exchange"
      /\ 0 \in MIN .. Cardinality(User) /\ MIN \in MIN .. Cardinality(User)
      /\ value[c] \in Int
  BY SMTT(20), RwLockAssumption, Counts DEF RwInv, RwTypeOK, MIN, RELOAD_LIMIT, Exchange
<1>1. CASE at' = [at EXCEPT ![c] = "idle"] /\ value' = [value EXCEPT ![c] = 0]
  <2>1. RwTypeOK'
    <3>1. state' = state \/ state' = MIN
      BY DEF Exchange, Exchanged
    <3> QED BY <1>t, <1>1, <3>1 DEF RwTypeOK, RwPC
  <2>2. Exclusion'
    BY <1>t, <1>1 DEF Exclusion, RwInv
  <2>3. Readers' = Readers /\ Writers' = Writers
    BY <1>t, <1>1 DEF Readers, Writers
  <2>4. CASE value[c] > RELOAD_LIMIT
    <3>1. state' = state
      BY <1>t, <2>4 DEF Exchange
    <3>2. Late' = Late
      BY <1>t, <1>1, <2>4 DEF Late
    <3> QED BY <2>1, <2>2, <2>3, <3>1, <3>2 DEF RwInv, ReadersCounted, Drift
  <2>5. CASE ~(value[c] > RELOAD_LIMIT)
    <3>1. value[c] <= RELOAD_LIMIT /\ state' = Exchanged(value[c])
      BY <1>t, <2>5 DEF Exchange
    <3>2. state = value[c]
      <4>1. SUFFICES ASSUME state # value[c] PROVE FALSE
        OBVIOUS
      <4>2. at' = at
        BY <1>t, <2>5, <4>1 DEF Exchange
      <4> QED BY <1>t, <1>1, <4>2
    <3>3. state' = MIN /\ Writers # {}
      BY <1>t, <3>1, <3>2, Locked DEF Exchanged
    <3>4. Late' \subseteq User /\ Cardinality(Late') \in Nat
      <4>1. Late' \subseteq User
        BY DEF Late
      <4> QED BY <4>1, RwLockAssumption, FS_Subset, FS_CardinalityType
    <3>5. state' <= MIN + Cardinality(Late')
      BY <1>t, <3>3, <3>4
    <3> QED BY <2>1, <2>2, <2>3, <3>3, <3>5 DEF RwInv, ReadersCounted, Drift
  <2> QED BY <2>4, <2>5
<1>2. CASE at' = at /\ value' = [value EXCEPT ![c] = state]
  <2>1. value[c] <= RELOAD_LIMIT /\ state' = state
    <3>1. at # [at EXCEPT ![c] = "idle"]
      BY <1>t
    <3> QED BY <1>t, <1>2, <3>1 DEF Exchange, Exchanged
  <2>2. RwTypeOK'
    BY <1>t, <1>2, <2>1 DEF RwTypeOK
  <2>3. Exclusion' /\ Readers' = Readers /\ Writers' = Writers
    BY <1>2 DEF Exclusion, RwInv, Readers, Writers
  <2>4. Writers # {} => Late' = Late
    <3>1. SUFFICES ASSUME Writers # {} PROVE Late' = Late
      OBVIOUS
    <3>2. state <= RELOAD_LIMIT
      BY <3>1, Locked
    <3> QED BY <1>t, <1>2, <2>1, <3>2 DEF Late
  <2> QED BY <2>1, <2>2, <2>3, <2>4 DEF RwInv, ReadersCounted, Drift
<1> QED BY <1>t, <1>1, <1>2 DEF Exchange

(* Taking the write lock keeps the invariant: a state of 0 counts no        *)
(* readers.                                                                 *)
LEMMA TryWriteStep ==
  ASSUME RwInv, NEW c \in User, TryWrite(c)
  PROVE  RwInv'
<1>t. /\ MIN \in Int /\ at \in [User -> RwPC] /\ value' = value /\ MIN < 0
      /\ value \in [User -> MIN .. Cardinality(User)] /\ MIN \in MIN .. Cardinality(User)
  BY RwLockAssumption, Counts DEF RwInv, RwTypeOK, MIN, TryWrite
<1>1. at[c] = "idle" /\ state = 0 /\ state' = MIN /\ at' = [at EXCEPT ![c] = "writing"]
  BY DEF TryWrite
<1>2. Writers = {} /\ Cardinality(Readers) = 0
  BY <1>1, Locked DEF RwInv, ReadersCounted
<1>3. Readers = {}
  BY <1>2, Counts, FS_EmptySet
<1>4. RwTypeOK'
  BY <1>t, <1>1 DEF RwTypeOK, RwPC
<1>5. Exclusion'
  BY <1>t, <1>1, <1>2, <1>3 DEF Exclusion, Writers, Readers
<1>6. Writers' # {}
  BY <1>t, <1>1 DEF Writers
<1>7. Late' = Late
  BY <1>t, <1>1 DEF Late
<1>8. state' <= MIN + Cardinality(Late')
  BY <1>t, <1>1, <1>7, Counts
<1> QED BY <1>4, <1>5, <1>6, <1>8 DEF RwInv, ReadersCounted, Drift

(* Dropping a read guard keeps the invariant.                               *)
LEMMA DropReadStep ==
  ASSUME RwInv, NEW c \in User, DropRead(c)
  PROVE  RwInv'
<1>t. /\ MIN \in Int /\ MIN < 0 /\ state \in Int /\ at \in [User -> RwPC] /\ value' = value
      /\ value \in [User -> MIN .. Cardinality(User)] /\ state <= Cardinality(User)
  BY SMTT(20), RwLockAssumption, Counts DEF RwInv, RwTypeOK, MIN, DropRead
<1>1. at[c] = "reading" /\ state' = state - 1 /\ at' = [at EXCEPT ![c] = "idle"]
  BY DEF DropRead
<1>2. Writers = {} /\ Writers' = {}
  BY <1>t, <1>1 DEF RwInv, Exclusion, Writers
<1>3. Readers' = Readers \ {c} /\ c \in Readers
  BY <1>t, <1>1 DEF Readers
<1>4. Cardinality(Readers') = Cardinality(Readers) - 1
  BY <1>3, Counts, FS_RemoveElement
<1>5. Cardinality(Readers') \in Nat
  BY <1>3, Counts, FS_RemoveElement, FS_CardinalityType
<1>6. state' = Cardinality(Readers')
  BY <1>1, <1>2, <1>4 DEF RwInv, ReadersCounted
<1>7. RwTypeOK'
  <2>1. state' \in MIN .. Cardinality(User)
    BY <1>t, <1>1, <1>5, <1>6, Counts
  <2> QED BY <1>t, <1>1, <2>1 DEF RwTypeOK, RwPC
<1>8. Exclusion'
  BY <1>2 DEF Exclusion, Writers
<1> QED BY <1>2, <1>6, <1>7, <1>8 DEF RwInv, ReadersCounted, Drift

(* Dropping the write guard keeps the invariant: it forgets every increment *)
(* made meanwhile, and there is no reader.                                  *)
LEMMA DropWriteStep ==
  ASSUME RwInv, NEW c \in User, DropWrite(c)
  PROVE  RwInv'
<1>t. /\ MIN \in Int /\ MIN < 0 /\ at \in [User -> RwPC] /\ value' = value
      /\ value \in [User -> MIN .. Cardinality(User)] /\ 0 \in MIN .. Cardinality(User)
  BY RwLockAssumption, Counts DEF RwInv, RwTypeOK, MIN, DropWrite
<1>1. at[c] = "writing" /\ state' = 0 /\ at' = [at EXCEPT ![c] = "idle"]
  BY DEF DropWrite, Unlocked
<1>2. Writers' = {} /\ Readers' = {}
  BY <1>t, <1>1 DEF RwInv, Exclusion, Writers, Readers
<1>3. state' = Cardinality(Readers')
  BY <1>1, <1>2, FS_EmptySet
<1>4. RwTypeOK'
  BY <1>t, <1>1 DEF RwTypeOK, RwPC
<1>5. Exclusion'
  BY <1>2 DEF Exclusion, Writers
<1> QED BY <1>2, <1>3, <1>4, <1>5 DEF RwInv, ReadersCounted, Drift

-----------------------------------------------------------------------------
(* The invariant holds in every state of the lock.                          *)
THEOREM RwInductive == RwSpec => []RwInv
<1>1. RwInit => RwInv
  <2>1. SUFFICES ASSUME RwInit PROVE RwInv
    OBVIOUS
  <2>2. Readers = {} /\ Writers = {}
    BY <2>1 DEF RwInit, Readers, Writers
  <2>3. 0 \in MIN .. Cardinality(User)
    BY Counts, RwLockAssumption DEF MIN
  <2>4. RwTypeOK
    BY <2>1, <2>3 DEF RwInit, RwTypeOK, RwPC
  <2>5. Exclusion
    BY <2>2 DEF Exclusion, Writers
  <2>6. state = Cardinality(Readers)
    BY <2>1, <2>2, FS_EmptySet DEF RwInit
  <2> QED BY <2>2, <2>4, <2>5, <2>6 DEF RwInv, ReadersCounted, Drift
<1>2. RwInv /\ [RwNext]_rwVars => RwInv'
  <2>1. SUFFICES ASSUME RwInv, [RwNext]_rwVars PROVE RwInv'
    OBVIOUS
  <2>2. CASE RwNext
    BY <2>1, <2>2, TryReadStep, ReloadStep, ExchangeStep, TryWriteStep, DropReadStep,
       DropWriteStep DEF RwNext
  <2>3. CASE UNCHANGED rwVars
    BY <2>1, <2>3 DEF rwVars, RwInv, RwTypeOK, Exclusion, ReadersCounted, Drift, Readers, Writers, Late
  <2> QED BY <2>1, <2>2, <2>3
<1> QED BY <1>1, <1>2, PTL DEF RwSpec

(* The state stays between i64::MIN and the number of users.                *)
THEOREM RwTypeCorrect == RwSpec => []RwTypeOK
BY RwInductive, PTL DEF RwInv

(* A writer excludes readers and other writers (try_read, try_write), for   *)
(* every number of users up to LIMIT.                                       *)
THEOREM WriterExcludes == RwSpec => []Exclusion
BY RwInductive, PTL DEF RwInv

(* A free or read-locked state is the number of read guards (try_read, drop *)
(* and the failed attempts of others).                                      *)
THEOREM CountsReaders == RwSpec => []ReadersCounted
BY RwInductive, PTL DEF RwInv

(* The state is in its range, writers exclude, and readers are counted.     *)
THEOREM LockIsSound == RwSpec => []LockSound
BY RwInductive, PTL DEF RwInv, LockSound
=============================================================================
