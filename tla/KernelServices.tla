--------------------------- MODULE KernelServices ---------------------------
(***************************************************************************)
(* The workload kernel's side of the supervisor services                   *)
(* (tee/kernel/src/supervisor.rs) over the shared memory of                *)
(* common/supervisor-services: the command buffer (the queue CommandBuffer *)
(* implements), the allocation buffer and the notification buffer.  What   *)
(* kick_supervisor does depends on the supervisor: HostServices (SNP,      *)
(* insecure) and TdxServices (TDX) extend this module.                     *)
(***************************************************************************)
EXTENDS Integers, Sequences, FiniteSets

CONSTANTS VCPU,          \* the indices of the vCPUs, 0 .. MAX_APS_COUNT - 1
          Slot,          \* 2 MiB slots the supervisor can hand out
          ALLOCATIONS,   \* entries of the allocation buffer
          CAPACITY,      \* commands the command buffer holds
          Workloads,     \* operations a workload makes the kernel call, with the size of its cache
          EMPTY          \* SlotIndex::EMPTY

ASSUME ServicesAssumption ==
  /\ VCPU \subseteq Nat /\ 0 \in VCPU /\ \A c \in VCPU : 0 .. c \subseteq VCPU
  /\ ALLOCATIONS \in Nat \ {0} /\ CAPACITY \in Nat \ {0}
  /\ EMPTY \notin Slot
  /\ Workloads \subseteq [calls : SUBSET {"output", "memory", "halt", "commit"}, cache : Nat]

Entry == 1 .. ALLOCATIONS
Cmd(k) == [kind |-> k, slot |-> EMPTY]
DeallocateMemory(s) == [kind |-> "DeallocateMemory", slot |-> s]
Command == {Cmd(k) : k \in {"StartNextAp", "AllocateMemory", "UpdateOutput", "FinishOutput", "FailOutput"}}
             \cup {DeallocateMemory(s) : s \in Slot}

VARIABLES
  cmds,      \* the command buffer
  entries,   \* AllocationBuffer::allocations
  armed,     \* NotificationBuffer::bits
  bits,      \* SchedulerState::bits
  starting,  \* SchedulerState::is_launching
  cached,    \* AllocatorState::cached
  held,      \* slots the rest of the kernel owns
  load,      \* the workload; it does not change
  kernel     \* every vCPU's place in supervisor.rs and its local variables

shared == <<cmds, entries, armed>>
scheduler == <<bits, starting>>
memory == <<cached, held, load>>
kvars == <<shared, scheduler, memory, kernel>>

(* pc, the command being pushed, the vCPU or the entry it has got to, and  *)
(* where it continues when kick_supervisor(false) returns                  *)
PCs == {"off", "launch", "idle", "push", "arm", "retry", "pop", "parm", "repop", "ask", "notify",
        "kick", "wait", "resume", "halted"}
Idle == [pc |-> "idle", cmd |-> Cmd("UpdateOutput"), at |-> 0, then |-> "idle"]
At(l) == [Idle EXCEPT !.pc = l]
Waits(then) == [Idle EXCEPT !.pc = "wait", !.then = then]
pc(c) == kernel[c].pc
Set(c, l) == kernel' = [kernel EXCEPT ![c] = l]

KernelTypeOK(place) ==
  /\ cmds \in Seq(Command) /\ Len(cmds) <= CAPACITY
  /\ entries \in [Entry -> Slot \cup {EMPTY}]
  /\ armed \subseteq VCPU /\ bits \subseteq VCPU /\ starting \in BOOLEAN
  /\ cached \in Seq(Slot) /\ Len(cached) <= load.cache /\ held \subseteq Slot
  /\ load \in Workloads
  /\ kernel \in [VCPU -> [pc : PCs \cup place, cmd : Command, at : Nat,
                         then : {"idle", "arm", "parm", "resume", "halted"}]]

(* The bootstrap vCPU runs the kernel and has not finished launching. *)
KernelInit ==
  /\ cmds = <<>>
  /\ entries = [i \in Entry |-> EMPTY]
  /\ armed = {}
  /\ bits = {0} /\ starting = TRUE
  /\ cached = <<>> /\ held = {} /\ load \in Workloads
  /\ kernel = [c \in VCPU |-> IF c = 0 THEN At("launch") ELSE At("off")]

-----------------------------------------------------------------------------
(* The operations the rest of the kernel calls. *)

Push(c, cmd) == Set(c, [At("push") EXCEPT !.cmd = cmd])

(* output: push_background_command(UpdateOutput) *)
Output(c) ==
  /\ "output" \in load.calls /\ pc(c) = "idle"
  /\ Push(c, Cmd("UpdateOutput"))
  /\ UNCHANGED <<shared, scheduler, memory>>

(* Allocator::allocate_frame: a cached frame, or else allocate() *)
AllocateFrame(c) ==
  /\ "memory" \in load.calls /\ pc(c) = "idle"
  /\ \/ /\ cached # <<>>
        /\ held' = held \cup {cached[Len(cached)]}
        /\ cached' = SubSeq(cached, 1, Len(cached) - 1)
        /\ UNCHANGED <<kernel, load>>
     \/ /\ cached = <<>>
        /\ Set(c, [At("pop") EXCEPT !.at = 1])
        /\ UNCHANGED memory
  /\ UNCHANGED <<shared, scheduler>>

(* Allocator::deallocate_frame: into the cache, or else deallocate(), which *)
(* is push_async_command(DeallocateMemory)                                  *)
DeallocateFrame(c, s) ==
  /\ pc(c) = "idle" /\ s \in held
  /\ held' = held \ {s}
  /\ \/ /\ Len(cached) < load.cache
        /\ cached' = Append(cached, s)
        /\ UNCHANGED kernel
     \/ /\ Len(cached) >= load.cache
        /\ Push(c, DeallocateMemory(s))
        /\ UNCHANGED cached
  /\ UNCHANGED <<shared, scheduler, load>>

(* idx < launched: vCPUs finish launching in the order of their indices *)
Launched(d) == pc(d) \notin {"off", "launch"}

(* pick_any: the first vCPU whose bit is clear *)
Picked(d) == d \notin bits /\ \A e \in VCPU : e < d => e \in bits

(* schedule_vcpu, ScheduledCpu::New: start_next_ap *)
StartNextAp(c, d) ==
  /\ pc(c) = "idle" /\ Picked(d) /\ ~Launched(d) /\ ~starting
  /\ starting' = TRUE /\ bits' = bits \cup {d}
  /\ Push(c, Cmd("StartNextAp"))
  /\ UNCHANGED <<shared, memory>>

(* schedule_vcpu, ScheduledCpu::Existing: arm it, then kick_supervisor(true) *)
Schedule(c, d) ==
  /\ pc(c) = "idle" /\ Picked(d) /\ Launched(d)
  /\ bits' = bits \cup {d}
  /\ Set(c, [At("notify") EXCEPT !.at = d])
  /\ UNCHANGED <<shared, starting, memory>>

NotifyForgets(c) ==
  /\ pc(c) = "notify"
  /\ Set(c, At("kick"))
  /\ UNCHANGED <<shared, scheduler, memory>>

Notify(c) ==
  /\ pc(c) = "notify"
  /\ armed' = armed \cup {kernel[c].at}
  /\ Set(c, At("kick"))
  /\ UNCHANGED <<cmds, entries, scheduler, memory>>

(* halt: Scheduler::halt, then kick_supervisor(false) *)
Halt(c) ==
  /\ "halt" \in load.calls /\ pc(c) = "idle" /\ bits \ {c} # {}
  /\ bits' = bits \ {c}
  /\ Set(c, Waits("resume"))
  /\ UNCHANGED <<shared, starting, memory>>

(* halt: Scheduler::resume *)
Resume(c) ==
  /\ pc(c) = "resume"
  /\ bits' = bits \cup {c}
  /\ Set(c, Idle)
  /\ UNCHANGED <<shared, starting, memory>>

(* Scheduler::finish_launch *)
FinishLaunch(c) ==
  /\ pc(c) = "launch"
  /\ starting' = FALSE
  /\ Set(c, Idle)
  /\ UNCHANGED <<shared, bits, memory>>

(* commit_output and fail: push_async_command, then halt forever *)
CommitOutput(c) ==
  /\ "commit" \in load.calls /\ pc(c) = "idle"
  /\ \E k \in {"FinishOutput", "FailOutput"} : Push(c, Cmd(k))
  /\ UNCHANGED <<shared, scheduler, memory>>

HaltForever(c) ==
  /\ pc(c) = "halted"
  /\ Set(c, Waits("halted"))
  /\ UNCHANGED <<shared, scheduler, memory>>

-----------------------------------------------------------------------------
(* push_background_command and push_async_command.  Only UpdateOutput is    *)
(* pushed in the background; the others kick the supervisor once pushed.    *)

(* The capacity check of CommandBufferWriter::push *)
HasRoom == Len(cmds) < CAPACITY

Pushed(c) ==
  IF kernel[c].cmd.kind = "UpdateOutput" THEN Idle ELSE [kernel[c] EXCEPT !.pc = "kick"]

TryPush(c) ==
  /\ pc(c) \in {"push", "retry"}
  /\ \/ /\ HasRoom
        /\ cmds' = Append(cmds, kernel[c].cmd)
        /\ Set(c, Pushed(c))
     \/ /\ ~HasRoom
        /\ Set(c, IF pc(c) = "push" THEN [kernel[c] EXCEPT !.pc = "arm"]
                  ELSE [kernel[c] EXCEPT !.pc = "wait", !.then = "arm"])
        /\ UNCHANGED cmds
  /\ UNCHANGED <<entries, armed, scheduler, memory>>

ArmForgets(c) ==
  /\ pc(c) \in {"arm", "parm"}
  /\ Set(c, IF pc(c) = "arm" THEN [kernel[c] EXCEPT !.pc = "retry", !.then = "idle"]
            ELSE [At("repop") EXCEPT !.at = 1])
  /\ UNCHANGED <<shared, scheduler, memory>>

(* arm, in push_background_command and in allocate *)
Arm(c) ==
  /\ pc(c) \in {"arm", "parm"}
  /\ armed' = armed \cup {c}
  /\ Set(c, IF pc(c) = "arm" THEN [kernel[c] EXCEPT !.pc = "retry", !.then = "idle"]
            ELSE [At("repop") EXCEPT !.at = 1])
  /\ UNCHANGED <<cmds, entries, scheduler, memory>>

PopLeaves(c) ==
  /\ pc(c) \in {"pop", "repop"} /\ kernel[c].at \in Entry
  /\ \/ /\ entries[kernel[c].at] # EMPTY
        /\ held' = held \cup {entries[kernel[c].at]}
        /\ Set(c, Idle)
     \/ /\ entries[kernel[c].at] = EMPTY
        /\ Set(c, [kernel[c] EXCEPT !.at = @ + 1])
        /\ UNCHANGED held
  /\ UNCHANGED <<shared, scheduler, cached, load>>

(* pop_allocation: swap the entries for EMPTY one by one until one is not. *)
PopEntry(c) ==
  /\ pc(c) \in {"pop", "repop"} /\ kernel[c].at \in Entry
  /\ entries' = [entries EXCEPT ![kernel[c].at] = EMPTY]
  /\ \/ /\ entries[kernel[c].at] # EMPTY
        /\ held' = held \cup {entries[kernel[c].at]}
        /\ Set(c, Idle)
     \/ /\ entries[kernel[c].at] = EMPTY
        /\ Set(c, [kernel[c] EXCEPT !.at = @ + 1])
        /\ UNCHANGED held
  /\ UNCHANGED <<cmds, armed, scheduler, cached, load>>

PopNone(c) ==
  /\ pc(c) \in {"pop", "repop"} /\ kernel[c].at \notin Entry
  /\ Set(c, At(IF pc(c) = "pop" THEN "parm" ELSE "ask"))
  /\ UNCHANGED <<shared, scheduler, memory>>

(* allocate: let _ = try_push_command(&AllocateMemory) *)
AskMemory(c) ==
  /\ pc(c) = "ask"
  /\ cmds' = IF HasRoom THEN Append(cmds, Cmd("AllocateMemory")) ELSE cmds
  /\ Set(c, Waits("parm"))
  /\ UNCHANGED <<entries, armed, scheduler, memory>>

(* Where a vCPU continues when kick_supervisor returns. *)
Returned(c) ==
  IF pc(c) # "kick" THEN [kernel[c] EXCEPT !.pc = kernel[c].then, !.then = "idle"]
  ELSE At(IF kernel[c].cmd.kind \in {"FinishOutput", "FailOutput"} THEN "halted" ELSE "idle")

KernelStep(c) ==
  \/ Output(c) \/ AllocateFrame(c) \/ (\E s \in Slot : DeallocateFrame(c, s))
  \/ (\E d \in VCPU : StartNextAp(c, d) \/ Schedule(c, d)) \/ Notify(c)
  \/ Halt(c) \/ Resume(c) \/ FinishLaunch(c) \/ CommitOutput(c) \/ HaltForever(c)
  \/ TryPush(c) \/ Arm(c) \/ PopEntry(c) \/ PopNone(c) \/ AskMemory(c)

(* The steps inside an operation; calling one is the workload's choice. *)
KernelProgress(c) == pc(c) # "idle" /\ KernelStep(c)

(* c pushes a command that is not in the buffer yet. *)
Pushing(c) ==
  \/ pc(c) \in {"push", "arm", "retry"}
  \/ pc(c) \in {"wait", "parked"} /\ kernel[c].then = "arm"

(* Where the shared memory and the kernel hold slot s: in an entry of the   *)
(* allocation buffer, in the cache, in a DeallocateMemory command that is   *)
(* in the buffer or being pushed, or with a user of the allocator.          *)
KernelOwners(s) ==
  {<<"entry", i>> : i \in {i \in Entry : entries[i] = s}}
    \cup {<<"cache", i>> : i \in {i \in DOMAIN cached : cached[i] = s}}
    \cup {<<"command", i>> : i \in {i \in DOMAIN cmds : cmds[i].slot = s}}
    \cup {<<"push", c>> : c \in {c \in VCPU : Pushing(c) /\ kernel[c].cmd.slot = s}}
    \cup {<<"user", t>> : t \in held \cap {s}}
=============================================================================
