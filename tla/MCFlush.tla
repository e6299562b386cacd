-------------------------------- MODULE MCFlush -------------------------------
(***************************************************************************)
(* The two places where a vCPU spins until others have answered: the TLB   *)
(* shootdown and the profiler's flush.  subject says which of the two a    *)
(* behaviour is about.                                                     *)
(***************************************************************************)
EXTENDS TlbShootdown, Sequences

CONSTANTS Cpus, Collectors, PROFILER_ENTRIES, CALL_STACK_CAPACITY, Functions

VARIABLES subject,
          stack, deeper, local, buffer, headers, notify_flags, cpu, states, available, poll,
          notify, collector, file, chunk, published, events

\* The first vCPU fills both halves of its buffer, the other one half.
MCMaxEvents == [c \in 0 .. Cpus - 1 |-> IF c = 0 THEN 5 ELSE 2]
Profile == INSTANCE Profiler WITH MaxEvents <- MCMaxEvents

profileVars == <<stack, deeper, local, buffer, headers, notify_flags, cpu, states, available,
                 poll, notify, collector, file, chunk, published, events>>

FlushInit == subject \in {"shootdown", "profiler"} /\ Init /\ Profile!Init

FlushNext ==
    /\ UNCHANGED subject
    /\ \/ subject = "shootdown" /\ Next /\ UNCHANGED profileVars
       \/ subject = "profiler" /\ Profile!Next /\ UNCHANGED vars

\* Fairness and FairSpec of the two modules
FlushFairness ==
    /\ \A c \in VCPU :
         /\ WF_vars(subject = "shootdown" /\ Run(c))
         /\ WF_vars(subject = "shootdown" /\ Exit(c))
         /\ SF_vars(subject = "shootdown" /\ Handle(c))
         /\ SF_vars(subject = "shootdown" /\ Lock(c))
         /\ SF_vars(subject = "shootdown" /\ Spin(c))
    /\ \A c \in 0 .. Cpus - 1 : WF_profileVars(subject = "profiler" /\ Profile!Publish(c))
    /\ WF_profileVars(subject = "profiler" /\ Profile!Poll)
    /\ \A k \in 0 .. Collectors - 1 : WF_profileVars(subject = "profiler" /\ Profile!Collect(k))

FlushSpec == FlushInit /\ [][FlushNext]_<<subject, vars, profileVars>> /\ FlushFairness

-----------------------------------------------------------------------------
\* The profiler (kernel and host profiler.rs): the trace file is what the vCPUs
\* published, and kernel and host work on different halves of a buffer.
ProfilerSound == Profile!ProfilerSound

\* A vCPU that waits in flush, the supervisor's (tlb.rs) or the profiler's
\* (profiler.rs), gets out of it.
Waits(c) == Flushing(c) \/ cpu[c].pc = "flush"
SpinsEnd == \A c \in VCPU : Waits(c) ~> ~Waits(c)
===============================================================================
