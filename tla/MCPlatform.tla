------------------------------ MODULE MCPlatform ------------------------------
(***************************************************************************)
(* What the workload kernel rests on: launch and attestation, the TDX      *)
(* supervisor's services, slots, clocks and locks.  subject says which     *)
(* part a behaviour is about; the parts other than the lock and the slots  *)
(* take their variables from one pool, v1, v2, ..., and leave what they do *)
(* not need Unused.  The properties of the lock and of the slots are       *)
(* RwLock's and HostAllocator's own.                                       *)
(***************************************************************************)
EXTENDS RwLock, HostAllocator, Sequences, TLC

CONSTANTS Slot, EMPTY, ALLOCATIONS, CAPACITY, Nobody, Unused,
          Tee, PAGE, Bytes, InitFrame, InitFrames, InputFrame, InputFrames, MaxWrites, MaxChanges,
          Sleeper, MaxTime, MaxHeap

VARIABLES subject, v1, v2, v3, v4, v5, v6, v7, v8, v9, v10, v11, v12, v13, v14, v15, v16,
          v17, v18, v19, v20, v21

\* Segments that end and start within a page, shared and unloaded ones among
\* them; programs that differ in a byte of either kernel or of init; an init and
\* inputs that just fill their files, and inputs that are a page too long.
Ph(type, noload, paddr, file, memsz, flags) ==
    [type |-> type, noload |-> noload, paddr |-> paddr, file |-> file, memsz |-> memsz,
     flags |-> flags]
Supervisor(b) ==
    << Ph("normal", FALSE, 2, <<1, b>>, 4, {"r", "x"}), Ph("secrets", FALSE, 6, <<0>>, 2, {"r"}),
       Ph("shared", FALSE, 8, <<b>>, 2, {}), Ph("cpuid", FALSE, 10, <<0>>, 2, {"r"}) >>
Kernel(b) ==
    << Ph("normal", FALSE, 13, <<1, b>>, 5, {"r", "w"}), Ph("normal", FALSE, 18, <<b>>, 1, {"r", "x"}),
       Ph("normal", TRUE, 40, <<0>>, 1, {"r"}), Ph("normal", TRUE, 60, <<0>>, 1, {"r"}),
       Ph("shared", FALSE, 20, <<0>>, 2, {"w"}) >>
Programs ==
    {[supervisor |-> Supervisor(1), kernel |-> Kernel(0), init |-> <<1>>],
     [supervisor |-> Supervisor(1), kernel |-> Kernel(1), init |-> <<1, 0, 1>>],
     [supervisor |-> Supervisor(0), kernel |-> Kernel(1), init |-> <<1, 0>>]}
In(bytes, type) == [bytes |-> bytes, hash_type |-> type]
InputLists ==
    {<<>>, <<In(<<1>>, "Sha256")>>, <<In(<<1, 0>>, "Sha256")>>,
     <<In(<<>>, "Sha256"), In(<<1, 0, 1>>, "Sha384")>>,
     <<In(<<1, 0, 1>>, "Sha256"), In(<<1>>, "Sha256")>>,
     <<In(<<1, 0, 1>>, "Sha256"), In(<<0, 1, 1>>, "Sha384")>>}
Outputs == {<<>>, <<1>>, <<1, 0>>, <<1, 0, 1>>}
Tcbs == {<<1, 2>>, <<2, 1>>}
Policies == {"smt", "nosmt"}
\* Genuine platforms of either version and policy, and one for each field that is off.
Reported == {"signature_algo", "tee_type", "qe_vendor_id", "mr_signer_seam", "seam_attributes", "xfam"}
Platform(tcb, policy, off) ==
    [tcb |-> tcb, policy |-> policy]
    @@ [f \in Reported |-> IF f \in off THEN "other" ELSE "expected"]
Platforms ==
    {Platform(tcb, policy, {}) : tcb \in Tcbs, policy \in Policies}
    \cup {Platform(<<2, 1>>, "smt", {f}) : f \in Reported}

\* Everything at once without a cache of slots, and memory alone with one.
Workloads ==
    {[calls |-> {"output", "memory", "halt", "commit"}, cache |-> 0],
     [calls |-> {"memory"}, cache |-> 1]}

Launch == INSTANCE Attestation WITH
    tee <- v1, program <- v2, inputs <- v3, platform <- v4, pc <- v5, commands <- v6,
    memory <- v7, access <- v8, digest <- v9, page_index <- v10, next_hash <- v11,
    header <- v12, hasher <- v13, output <- v14, pending <- v15, recorded <- v16,
    written <- v17, report <- v18, changes <- v19, stage <- v20, content <- v21
Services == INSTANCE TdxServices WITH
    VCPU <- {0, 1}, cmds <- v1, entries <- v2, armed <- v3, bits <- v4, starting <- v5, cached <- v6,
    held <- v7, load <- v8, kernel <- v9, tdx <- v10, handler <- v11, ipi <- v12,
    free <- v13, ready <- v14, result <- v15
Clock == INSTANCE Time WITH
    backend_offset <- v1, skip_offset <- v2, realtime_offset <- v3, timeouts <- v4,
    deadline <- v5, late <- v6

\* The variables that parts of 6 and 15 variables leave alone.
past15 == <<v16, v17, v18, v19, v20, v21>>
past6 == <<v7, v8, v9, v10, v11, v12, v13, v14, v15, past15>>
pool == <<v1, v2, v3, v4, v5, v6, past6>>

Unused15 == /\ v16 = Unused /\ v17 = Unused /\ v18 = Unused /\ v19 = Unused /\ v20 = Unused
            /\ v21 = Unused
Unused6 == /\ v7 = Unused /\ v8 = Unused /\ v9 = Unused /\ v10 = Unused /\ v11 = Unused
           /\ v12 = Unused /\ v13 = Unused /\ v14 = Unused /\ v15 = Unused /\ Unused15
UnusedPool == /\ v1 = Unused /\ v2 = Unused /\ v3 = Unused /\ v4 = Unused /\ v5 = Unused
              /\ v6 = Unused /\ Unused6

PlatformInit ==
    /\ RwInit /\ SlotInit
    /\ \/ subject \in {"lock", "slots"} /\ UnusedPool
       \/ subject = "launch" /\ Launch!Init
       \/ subject = "services" /\ Services!Init /\ Unused15
       \/ subject = "clock" /\ Clock!Init /\ Unused6

PlatformNext ==
    /\ UNCHANGED subject
    /\ \/ subject = "lock" /\ RwNext /\ UNCHANGED <<slotVars, pool>>
       \/ subject = "slots" /\ SlotNext /\ UNCHANGED <<rwVars, pool>>
       \/ subject = "launch" /\ Launch!Next /\ UNCHANGED <<rwVars, slotVars>>
       \/ subject = "services" /\ Services!Next /\ UNCHANGED <<rwVars, slotVars, past15>>
       \/ subject = "clock" /\ Clock!Next /\ UNCHANGED <<rwVars, slotVars, past6>>

PlatformSpec == PlatformInit /\ [][PlatformNext]_<<subject, rwVars, slotVars, pool>>

-----------------------------------------------------------------------------
\* mushroom-verify (verify/src) accepts a report only for what ran.
ReportsTruthful == subject = "launch" => Launch!VerifiedMeansRun

\* An undisturbed launch (loader, vmm, supervisors) is not refused by its
\* supervisor, and the report it ends with is accepted by exactly those whose
\* demands on platform and policy are met.
HonestRunsAccepted == subject = "launch" => Launch!HonestRunVerifies

\* Every segment is where it was linked when the workload starts, with the
\* permissions of its program header if it is private (loader/src,
\* supervisor-*/src).
ProgramsLoaded == subject = "launch" => Launch!LoadedAsLinked

\* The TDX supervisor's services (supervisor-services, supervisor-tdx): each slot
\* has one owner, and the vCPU that starts is the one that was scheduled.
ServicesSound ==
    subject = "services" =>
        Services!TypeOK /\ Services!SlotsOwnedOnce /\ Services!StartsTheScheduled

\* Simulated time (time.rs): no sleeper wakes before its deadline or sleeps on
\* once an operation has taken the clock past it, and the clock never goes back,
\* whatever is cancelled, refreshed and skipped.  (A skip may take the clock
\* further than the deadline: SkipsToEarliest is violated in run time_skip.)
TimeKept ==
    /\ [](subject = "clock" => Clock!DeadlinesKept)
    /\ [][subject = "clock" => Clock!NotBack]_<<subject, rwVars, slotVars, pool>>
===============================================================================
