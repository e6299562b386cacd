---------------------------- MODULE HostServices ----------------------------
(***************************************************************************)
(* The SNP and the insecure supervisor: one thread that drains the command *)
(* buffer, notifies the armed vCPUs and parks until a vCPU kicks it        *)
(* (tee/supervisor-snp/src/services.rs; the loop of                        *)
(* host/mushroom/src/insecure.rs), and the host threads that run the       *)
(* vCPUs, which wait with the park tokens of std::thread (run_kernel_vcpu  *)
(* of host/mushroom/src/snp.rs and insecure.rs).                           *)
(***************************************************************************)
EXTENDS KernelServices

CONSTANT FinishReturns  \* insecure: finish_output returns; SNP: it does not

VARIABLES
  sup,      \* where the supervisor is, and the entry find_free_entry looks at
  stoken,   \* the park token of the supervisor's thread
  token,    \* vCPU threads whose park token is set
  tokick,   \* vCPUs notification_buffer.reset() yielded, still to be kicked
  free,     \* slots HostAllocator or DynamicMemory has not handed out
  started,  \* APIC_COUNTER, or the vCPUs taken out of pending_aps
  result,   \* what the supervisor did with the output
  asked     \* history: the verdict that came into the command buffer first

hvars == <<sup, stoken, token, tokick, free, started, result>>
vars == <<kvars, hvars>>

TypeOK ==
  /\ KernelTypeOK({"parked"})
  /\ sup \in [pc : {"drain", "fill", "reset", "kick", "park", "done"}, at : 1 .. ALLOCATIONS + 1]
  /\ stoken \in BOOLEAN /\ token \subseteq VCPU /\ tokick \subseteq VCPU
  /\ free \subseteq Slot /\ started \in Nat /\ 0 .. started - 1 \subseteq VCPU
  /\ result \in {"running", "finished", "failed"}

Sup(l) == [pc |-> l, at |-> 1]

(* The supervisor starts the first AP before it serves commands. *)
Init ==
  /\ KernelInit
  /\ sup = Sup("drain") /\ stoken = FALSE /\ token = {} /\ tokick = {}
  /\ free = Slot /\ started = 1 /\ result = "running" /\ asked = "running"

-----------------------------------------------------------------------------
(* The vCPU threads: run_kernel_vcpu *)

(* KvmExit::Hlt: unpark the supervisor; resume unless CR8 says to wait. *)
Hlt(c) ==
  /\ pc(c) \in {"kick", "wait"}
  /\ stoken' = TRUE
  /\ Set(c, IF pc(c) = "kick" THEN Returned(c) ELSE [kernel[c] EXCEPT !.pc = "parked"])
  /\ UNCHANGED <<shared, scheduler, memory, sup, token, tokick, free, started, result>>

(* park returns, in the loop or before the first run of the vCPU. *)
ParkReturns(c) ==
  /\ pc(c) \in {"parked", "off"} /\ c \in token
  /\ token' = token \ {c}
  /\ Set(c, IF pc(c) = "off" THEN At("launch") ELSE Returned(c))
  /\ UNCHANGED <<shared, scheduler, memory, sup, stoken, tokick, free, started, result>>

-----------------------------------------------------------------------------
(* The supervisor *)

(* completed_index moves past a command after it was dispatched. *)
Complete == cmds' = Tail(cmds)

(* start_next_ap *)
StartAp ==
  /\ IF started \in VCPU
     THEN started' = started + 1 /\ token' = token \cup {started}
     ELSE UNCHANGED <<started, token>>
  /\ Complete
  /\ UNCHANGED <<sup, free, result>>

(* deallocate_memory *)
Dealloc(s) ==
  /\ free' = free \cup {s}
  /\ Complete
  /\ UNCHANGED <<sup, token, started, result>>

ConcludeLast(r) ==
  /\ result' = r
  /\ sup' = IF FinishReturns THEN sup ELSE Sup("done")
  /\ Complete
  /\ UNCHANGED <<token, free, started>>

(* finish_output and fail_output *)
Conclude(r) ==
  /\ result' = IF result = "running" THEN r ELSE result
  /\ sup' = IF FinishReturns THEN sup ELSE Sup("done")
  /\ Complete
  /\ UNCHANGED <<token, free, started>>

(* CommandBufferReader::handle *)
Handle ==
  /\ sup.pc = "drain" /\ cmds # <<>>
  /\ \/ Head(cmds).kind = "StartNextAp" /\ StartAp
     \/ /\ Head(cmds).kind = "AllocateMemory"
        /\ sup' = Sup("fill")
        /\ UNCHANGED <<cmds, token, free, started, result>>
     \/ Head(cmds).kind = "DeallocateMemory" /\ Dealloc(Head(cmds).slot)
     \/ Head(cmds).kind = "UpdateOutput" /\ Complete /\ UNCHANGED <<sup, token, free, started, result>>
     \/ Head(cmds).kind = "FinishOutput" /\ Conclude("finished")
     \/ Head(cmds).kind = "FailOutput" /\ Conclude("failed")
  /\ UNCHANGED <<entries, armed, scheduler, memory, kernel, stoken, tokick>>

(* allocate_memory: a free entry gets a slot, and the search starts again. *)
Fill ==
  /\ sup.pc = "fill" /\ sup.at \in Entry /\ entries[sup.at] = EMPTY
  /\ \E s \in free : /\ entries' = [entries EXCEPT ![sup.at] = s]
                     /\ free' = free \ {s}
  /\ sup' = Sup("fill")
  /\ UNCHANGED <<cmds, armed, scheduler, memory, kernel, stoken, token, tokick, started, result>>

(* find_free_entry passes an entry in use. *)
FillNext ==
  /\ sup.pc = "fill" /\ sup.at \in Entry /\ entries[sup.at] # EMPTY
  /\ sup' = [sup EXCEPT !.at = @ + 1]
  /\ UNCHANGED <<kvars, stoken, token, tokick, free, started, result>>

(* No entry or no slot is left. *)
FillDone ==
  /\ sup.pc = "fill"
  /\ sup.at \in Entry => entries[sup.at] = EMPTY /\ free = {}
  /\ sup' = Sup("drain")
  /\ Complete
  /\ UNCHANGED <<entries, armed, scheduler, memory, kernel, stoken, token, tokick, free, started, result>>

(* handle found pending_index = completed_index. *)
Drained ==
  /\ sup.pc = "drain" /\ cmds = <<>>
  /\ sup' = Sup("reset")
  /\ UNCHANGED <<kvars, stoken, token, tokick, free, started, result>>

(* notification_buffer.reset() *)
Reset ==
  /\ sup.pc = "reset"
  /\ tokick' = armed /\ armed' = {}
  /\ sup' = Sup("kick")
  /\ UNCHANGED <<cmds, entries, scheduler, memory, kernel, stoken, token, free, started, result>>

(* kick: unpark the vCPUs in the order of their indices. *)
Kick ==
  /\ sup.pc = "kick"
  /\ \E d \in tokick : /\ \A e \in tokick : d <= e
                       /\ tokick' = tokick \ {d}
                       /\ token' = token \cup {d}
  /\ UNCHANGED <<kvars, sup, stoken, free, started, result>>

KickedDropsToken ==
  /\ sup.pc = "kick" /\ tokick = {}
  /\ sup' = Sup(IF result = "running" THEN "park" ELSE "done")
  /\ stoken' = FALSE
  /\ UNCHANGED <<kvars, token, tokick, free, started, result>>

(* The loop ends when the output was finished, or else waits for a command. *)
Kicked ==
  /\ sup.pc = "kick" /\ tokick = {}
  /\ sup' = Sup(IF result = "running" THEN "park" ELSE "done")
  /\ UNCHANGED <<kvars, stoken, token, tokick, free, started, result>>

(* wait_for_command: hlt on SNP, which parks the supervisor's thread. *)
Park ==
  /\ sup.pc = "park" /\ stoken
  /\ sup' = Sup("drain") /\ stoken' = FALSE
  /\ UNCHANGED <<kvars, token, tokick, free, started, result>>

SupervisorStep == Handle \/ Fill \/ FillNext \/ FillDone \/ Drained \/ Reset \/ Kick \/ Kicked \/ Park

VcpuStep(c) == (KernelStep(c) /\ UNCHANGED hvars) \/ Hlt(c) \/ ParkReturns(c)
(* The supervisor is done; the vCPUs run until the host tears the VM down. *)
Finished == sup.pc = "done" /\ UNCHANGED vars

(* asked is set by the push of the first FinishOutput or FailOutput. *)
Verdict(cmd) ==
  IF cmd.kind = "FinishOutput" THEN "finished" ELSE IF cmd.kind = "FailOutput" THEN "failed" ELSE "running"
Recorded ==
  asked' = IF asked = "running" /\ Len(cmds') > Len(cmds) THEN Verdict(cmds'[Len(cmds')]) ELSE asked

Next ==
  /\ \/ SupervisorStep
     \/ \E c \in VCPU : VcpuStep(c)
     \/ Finished
  /\ Recorded

Spec == Init /\ [][Next]_<<vars, asked>>

(* The host schedules its threads, and a running vCPU gets through          *)
(* supervisor.rs; which operation it calls next, if any, is not assumed.    *)
(* The supervisor notifies nobody while commands keep coming: Drained is    *)
(* strongly fair, that is, the vCPUs do not for ever refill the empty       *)
(* buffer just before the supervisor looks at it.                           *)
FairSpec ==
  /\ Spec
  /\ WF_vars(SupervisorStep) /\ SF_vars(Drained)
  /\ \A c \in VCPU : WF_vars((KernelProgress(c) /\ UNCHANGED hvars) \/ Hlt(c) \/ ParkReturns(c))
-----------------------------------------------------------------------------
Owners(s) == KernelOwners(s) \cup {<<"free", t>> : t \in free \cap {s}}

(* Every slot has exactly one owner: the supervisor's allocator, an entry   *)
(* of the allocation buffer, the kernel's cache, a user of the kernel's     *)
(* allocator, or a DeallocateMemory command on its way.  A slot is never    *)
(* handed out twice, however pop_allocation and allocate_memory interleave, *)
(* and none is lost.                                                        *)
SlotsOwnedOnce == \A s \in Slot : \E o \in Owners(s) : Owners(s) = {o}

Kicking == \E c \in VCPU : pc(c) \in {"kick", "wait"}

(* A supervisor that saw an empty command buffer does not sleep over a      *)
(* command: when a command other than a background UpdateOutput is pending, *)
(* the supervisor is still draining, its park token is set, or a vCPU is    *)
(* about to kick it.                                                        *)
NoStrandedCommand ==
  (\E i \in DOMAIN cmds : cmds[i].kind # "UpdateOutput")
    => sup.pc \in {"drain", "fill", "done"} \/ stoken \/ Kicking

WakeupPending(c) ==
  \/ c \in token \cup tokick
  \/ \E d \in VCPU : pc(d) = "notify" /\ kernel[d].at = c
  \/ c \in armed /\ (sup.pc \in {"drain", "fill", "reset"} \/ stoken \/ Kicking)

(* A vCPU parked in push_background_command or allocate, and a halted vCPU  *)
(* that schedule_vcpu picked, is going to be unparked: arm, the kick, the   *)
(* reset of the notification buffer and park never lose a wake-up.          *)
NoLostWakeup ==
  \A c \in VCPU :
    pc(c) = "parked" /\ sup.pc # "done"
      /\ (kernel[c].then \in {"arm", "parm"} \/ (kernel[c].then = "resume" /\ c \in bits))
    => WakeupPending(c)

(* The vCPU the supervisor starts is the one whose scheduler bit pick_any   *)
(* set when it asked for a new vCPU, though the command does not name it.   *)
StartsTheScheduled ==
  \A c \in VCPU : pc(c) = "launch" \/ (pc(c) = "off" /\ c \in token) => c \in bits /\ starting

(* The supervisor's services and the kernel agree on slots and vCPUs. *)
ServicesSound == TypeOK /\ SlotsOwnedOnce /\ StartsTheScheduled

(* Neither the supervisor nor a vCPU sleeps through what it waits for. *)
NothingStranded == NoStrandedCommand /\ NoLostWakeup

(* What the host gets is the verdict of the vCPU that pushed one first, as  *)
(* commit_output and fail mean it: vCPUs that want to finish and to fail    *)
(* the output wait for room in the buffer and push in any order, and the    *)
(* insecure supervisor goes on handling commands after the first verdict    *)
(* (finish_status.get_or_insert).                                           *)
FirstVerdictStands == result # "running" => result = asked

(* A vCPU that waits for room in the command buffer or for memory is woken. *)
WaitEnds ==
  \A c \in VCPU : pc(c) = "parked" /\ kernel[c].then \in {"arm", "parm"}
                   ~> pc(c) # "parked" \/ sup.pc = "done"

(* A halted vCPU that schedule_vcpu picked resumes. *)
ScheduledResumes ==
  \A c \in VCPU : pc(c) = "parked" /\ kernel[c].then = "resume" /\ c \in bits
                   ~> pc(c) # "parked" \/ sup.pc = "done"

(* A vCPU that schedule_vcpu asked for comes up. *)
LaunchFinishes == starting ~> ~starting \/ sup.pc = "done"

(* A vCPU that schedule_vcpu picked gets to run, halted or not started yet. *)
PickedRuns == ScheduledResumes /\ LaunchFinishes

(* A FinishOutput or FailOutput in the command buffer is acted upon.        *)
VerdictReached ==
  (\E i \in DOMAIN cmds : cmds[i].kind \in {"FinishOutput", "FailOutput"}) ~> result # "running"
=============================================================================
