------------------------------ MODULE MCWorkload ------------------------------
(***************************************************************************)
(* What the kernel keeps for the workload's processes, one part at a time: *)
(* subject says which part a behaviour is about.  The parts share no state *)
(* here, so those other than futexes and ids take their variables from one *)
(* pool, v1, v2, ...; what a part does not need is Unused.  The properties *)
(* of futexes and ids are Futex's and Credentials' own.                    *)
(***************************************************************************)
EXTENDS Futex, Credentials, Integers, TLC

CONSTANTS Member, First, Nobody, Unused,
          Dirs, Root, Others, Links, Mounts, Pids, Self, Fds, ExePath, Names, Targets,
          RECURSION_LIMIT, d1, d2, d3, f, sym,
          MaxExec,
          Sender, Sig, Sent, Handled, Masks, Actions, MaxDepth, MaxEvents

VARIABLES subject, v1, v2, v3, v4, v5, v6, v7, v8, v9, v10, v11, v12, v13, v14, v15, v16,
          v17, v18, v19

MCMounts == {<<"proc">>, <<"dev">>}
MCExePath == <<"/", "b">>
MCTargets == {<<"/", "b">>}
\* Trees to start from: three directories, so that renames between two pairs of
\* directories may overlap; an empty one, with a file; a link to a file; and
\* mounts.
Scene(tree, nodes, paths, n) ==
    [tree |-> tree, nodes |-> nodes, paths |-> paths, calls |-> n, target |-> <<"/", "a", "b">>]
MCScenes == {
    Scene(Root :> ("a" :> d1 @@ "b" :> d2) @@ d2 :> ("a" :> d3), {},
          {<<"a">>, <<"a", "b">>, <<"b", "a">>, <<"b", "a", "b">>}, 2),
    Scene(Root :> ("a" :> d1) @@ d1 :> ("b" :> d2) @@ d2 :> ("a" :> d3), {},
          {<<"a">>, <<"b">>, <<"a", "b">>, <<"a", "b", "a">>}, 1),
    Scene(Root :> ("a" :> d1), {f}, {<<"a">>, <<"b">>, <<"a", "b">>, <<"..", "a">>}, 2),
    Scene(Root :> ("a" :> d1 @@ "b" :> sym) @@ d1 :> ("b" :> f), {f, sym},
          {<<"a">>, <<"b">>, <<"b", "a">>}, 2),
    Scene(Root :> ("a" :> d1), MCMounts, {<<"a">>, <<"b">>, <<"a", "self", "exe">>}, 2)}
Handler == [kind |-> "handler", restart |-> TRUE, nodefer |-> FALSE, mask |-> {}]
Ignored == [kind |-> "IGN", restart |-> FALSE, nodefer |-> FALSE, mask |-> {}]
MCActions == {Handler, Ignored}
MCMasks == {{}, {"USR1"}}
MCBitset == {None, {1}, {2}}
MCModes == {{<<"g", "s">>}, {<<"o", "r">>}}

Tree == INSTANCE Tree WITH
    Thread <- Member, items <- v1, loc <- v2, fs <- v3, links <- v4, target <- v5, thread <- v6, stale <- v7,
    overlapped <- v8, scene <- v9, Scenes <- MCScenes
Processes == INSTANCE Processes WITH
    proc <- v1, leader <- v2, pc <- v3, run <- v4, why <- v5, todo <- v6,
    want <- v7, lockL <- v8, lockR <- v9, lockT <- v10, vfork <- v11, threads <- v12,
    running <- v13, exited <- v14, children <- v15, usage <- v16, execs <- v17,
    panicked <- v18
Signals == INSTANCE Signals WITH
    Thread <- Member, where <- v1, sigmask <- v2, info <- v3, queue <- v4, rax <- v5, frames <- v6, call <- v7,
    suspended <- v8, shared <- v9, handlers <- v10, stopped <- v11, sending <- v12,
    alarm <- v13, ticking <- v14, replaced <- v15, alarms <- v16, events <- v17,
    context <- v18, panicked <- v19
\* Members are threads other than the first.
Symmetry == Permutations(Member)

\* The variables that parts of 9 and 18 variables leave alone.
past18 == <<v19>>
past9 == <<v10, v11, v12, v13, v14, v15, v16, v17, v18, past18>>
pool == <<v1, v2, v3, v4, v5, v6, v7, v8, v9, past9>>
allVars == <<subject, futexVars, idsVars, pool>>

Unused18 == v19 = Unused
Unused9 == /\ v10 = Unused /\ v11 = Unused /\ v12 = Unused /\ v13 = Unused /\ v14 = Unused
           /\ v15 = Unused /\ v16 = Unused /\ v17 = Unused /\ v18 = Unused /\ Unused18
UnusedPool == /\ v1 = Unused /\ v2 = Unused /\ v3 = Unused /\ v4 = Unused /\ v5 = Unused
              /\ v6 = Unused /\ v7 = Unused /\ v8 = Unused /\ v9 = Unused /\ Unused9

WorkloadInit ==
    /\ \/ subject \in {"futexes", "ids"} /\ UnusedPool
       \/ subject = "tree" /\ Tree!Init /\ Unused9
       \/ subject = "processes" /\ Processes!Init /\ Unused18
       \/ subject = "signals" /\ Signals!Init
    /\ FutexInit /\ (subject # "futexes" => word = 0)
    /\ IdsInit

WorkloadNext ==
    /\ UNCHANGED subject
    /\ \/ subject = "futexes" /\ FutexNext /\ UNCHANGED <<idsVars, pool>>
       \/ subject = "ids" /\ IdsNext /\ UNCHANGED <<futexVars, pool>>
       \/ subject = "tree" /\ Tree!Next /\ UNCHANGED <<futexVars, idsVars, past9>>
       \/ subject = "processes" /\ Processes!Next /\ UNCHANGED <<futexVars, idsVars, past18>>
       \/ subject = "signals" /\ Signals!Next /\ UNCHANGED <<futexVars, idsVars>>

WorkloadSpec == WorkloadInit /\ [][WorkloadNext]_allVars

-----------------------------------------------------------------------------
\* The directory tree (tmpfs.rs, directory.rs, node.rs): entries and the
\* locations that directories keep agree, whatever calls of two threads overlap.
TreeAgrees == subject = "tree" => Tree!TreeSound

\* Threads and processes (process.rs, running_state.rs): running counts the
\* threads that run, a leader stays first, and no death goes unnoticed.
ProcessesSound ==
    subject = "processes" =>
        /\ Processes!TypeOK
        /\ Processes!RunningCounted /\ Processes!LeaderFirst /\ Processes!DeathNoticed

\* Signals (thread.rs, process.rs): nobody sleeps on a deliverable signal or
\* after a continue, handlers give back the mask and the registers they found,
\* and one alarm is live.
SignalsDelivered == subject = "signals" => Signals!SignalsSound
=============================================================================
