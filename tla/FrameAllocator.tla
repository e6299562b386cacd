---------------------------- MODULE FrameAllocator ----------------------------
(***************************************************************************)
(* The workload kernel's 4 KiB frame allocator (memory/frame.rs).  Memory  *)
(* is groups of chunks of frames.  Three levels of metadata describe it:   *)
(* L0 has a bit per frame, L1 the number of free frames of a chunk, L2 the *)
(* number of free frames of a group, its owner bit and the chunks that     *)
(* have memory plugged in.  A CPU owns at most one group; only the owner   *)
(* allocates from it, out of a private copy of the counters, while every   *)
(* CPU frees into it.  Each atomic access of the code is one step.         *)
(***************************************************************************)
EXTENDS Integers, FiniteSets, FiniteSetsExt

CONSTANTS
    Cpus,        \* CPUs running the kernel
    GROUPS,      \* number of groups (SUPER_GROUP_SIZE)
    GROUP_SIZE,  \* chunks per group
    CHUNK_SIZE,  \* frames per chunk
    Slots        \* 2 MiB slots the supervisor can plug in

VARIABLES
    L0,       \* frames of a chunk whose bit is set (in use)
    L1,       \* free frames of a chunk not in a private copy
    L2,       \* per group: free count, owner bit, plugged chunks
    physical, \* PHYSICAL_ADDRESSES: slot of a chunk
    reverse,  \* REVERSE_MAP: chunk of a slot
    plugged,  \* slots the supervisor has handed out
    private,  \* per CPU: private_allocator_state, and the local one of deallocate_frame
    pc,       \* per CPU: the operation in progress
    held      \* frames owned by the callers of allocate_frame

vars == <<L0, L1, L2, physical, reverse, plugged, private, pc, held>>

Group == 0 .. GROUPS - 1
ChunkIndex == 0 .. GROUP_SIZE - 1
FrameIndex == 0 .. CHUNK_SIZE - 1
TOTAL == CHUNK_SIZE * GROUP_SIZE

NoState == [group |-> -1, bitmask |-> {}, free |-> 0,
            l1 |-> [c \in ChunkIndex |-> 0], slots |-> [c \in ChunkIndex |-> Min(Slots)]]
Idle == [at |-> "idle", pass |-> 0, idx |-> 0, any |-> FALSE, then |-> "idle", frame |-> <<>>, who |-> "own"]

Go(cpu, state) == pc' = [pc EXCEPT ![cpu] = state]
At(cpu, label) == pc[cpu].at = label

\* The private state the operation in progress works on.
S(cpu) == <<cpu, pc[cpu].who>>

Init ==
    /\ L0 = [k \in Group \X ChunkIndex |-> {}]
    /\ L1 = [k \in Group \X ChunkIndex |-> 0]
    /\ L2 = [g \in Group |-> [free |-> 0, owned |-> FALSE, allocated |-> {}]]
    /\ physical = [k \in Group \X ChunkIndex |-> Min(Slots)]
    /\ reverse = [s \in Slots |-> <<0, 0>>]
    /\ plugged = {}
    /\ private = [s \in Cpus \X {"own", "local"} |-> NoState]
    /\ pc = [cpu \in Cpus |-> Idle]
    /\ held = {}

(***************************************************************************)
(* Claiming a group.                                                       *)
(***************************************************************************)
Available(g) == L2[g].free + (GROUP_SIZE - Cardinality(L2[g].allocated)) * CHUNK_SIZE

is_free(available) == available > (TOTAL * 7) \div 8
is_allocated(available) == available < TOTAL \div 8
is_partial(available) == ~is_free(available) /\ ~is_allocated(available)
is_not_completly_used(available) == available # 0

\* The three passes of L2SuperGroup::claim; the last one repeats.
check_fn(pass, available) ==
    \/ pass = 1 /\ is_partial(available)
    \/ pass = 2 /\ is_free(available)
    \/ pass = 3 /\ is_not_completly_used(available)

\* The owner bit test, which makes ownership exclusive.
MayClaimOwned(g) == TRUE
MayClaim(g) == ~L2[g].owned

\* Taking a group: the free count moves to the private copy with one
\* compare-and-exchange, so retries of the loop are not steps of their own.
TakeGroup(s, g) ==
    /\ L2' = [L2 EXCEPT ![g].free = 0, ![g].owned = TRUE]
    /\ private' = [private EXCEPT ![s] =
            [NoState EXCEPT !.group = g, !.bitmask = L2[g].allocated, !.free = L2[g].free]]

\* One iteration of L2SuperGroup::claim's loops.
Claim(cpu) ==
    LET here == pc[cpu] g == here.idx
    IN  /\ At(cpu, "claim")
        /\ IF MayClaim(g) /\ check_fn(here.pass, Available(g))
           THEN TakeGroup(S(cpu), g) /\ Go(cpu, [here EXCEPT !.at = "new", !.idx = 0])
           ELSE /\ Go(cpu, IF g + 1 < GROUPS THEN [here EXCEPT !.idx = g + 1]
                           ELSE [here EXCEPT !.idx = 0, !.pass = Min({3, here.pass + 1})])
                /\ UNCHANGED <<L2, private>>
        /\ UNCHANGED <<L0, L1, physical, reverse, plugged, held>>

\* PrivateState::new, one chunk per step: swap the L1 counter to zero.  The
\* addresses only change under ownership, so they are read with it.
New(cpu) ==
    LET here == pc[cpu] g == private[S(cpu)].group c == here.idx
    IN  /\ At(cpu, "new")
        /\ private' = [private EXCEPT ![S(cpu)].l1[c] = L1[<<g, c>>],
                                      ![S(cpu)].slots[c] = physical[<<g, c>>]]
        /\ L1' = [L1 EXCEPT ![<<g, c>>] = 0]
        /\ Go(cpu, IF c + 1 < GROUP_SIZE THEN [here EXCEPT !.idx = c + 1]
                   ELSE [here EXCEPT !.idx = 0, !.at = IF here.then = "find" THEN "find" ELSE "drop"])
        /\ UNCHANGED <<L0, L2, physical, reverse, plugged, held>>

(***************************************************************************)
(* allocate_frame                                                          *)
(***************************************************************************)
AllocateFrame(cpu) ==
    /\ pc[cpu] = Idle
    /\ Go(cpu, IF private[S(cpu)] = NoState THEN [Idle EXCEPT !.at = "claim", !.pass = 1, !.then = "find"]
               ELSE [Idle EXCEPT !.at = "find", !.then = "find"])
    /\ UNCHANGED <<L0, L1, L2, physical, reverse, plugged, private, held>>

\* Chunks the private counters say have a free frame.
Candidates(state) == {c \in ChunkIndex : state.free > 0 /\ state.l1[c] > 0}
ZeroBits(k) == FrameIndex \ L0[k]

\* L0Chunk::find_free of the first candidate.  Its load and its fetch_or are
\* one step: between them other CPUs can only clear bits.  Without a zero bit
\* the code runs into unreachable_unchecked; FreeFramesCounted excludes it.
FindFree(cpu) ==
    LET state == private[S(cpu)] c == Min(Candidates(state)) k == <<state.group, c>>
        frame == Min(ZeroBits(k))
    IN  /\ At(cpu, "find") /\ Candidates(state) # {} /\ ZeroBits(k) # {}
        /\ L0' = [L0 EXCEPT ![k] = @ \cup {frame}]
        /\ private' = [private EXCEPT ![S(cpu)].l1[c] = @ - 1, ![S(cpu)].free = @ - 1]
        /\ held' = held \cup {<<state.slots[c], frame>>}
        /\ Go(cpu, Idle)
        /\ UNCHANGED <<L1, L2, physical, reverse, plugged>>

FindNone(cpu) ==
    /\ At(cpu, "find") /\ Candidates(private[S(cpu)]) = {}
    /\ Go(cpu, [pc[cpu] EXCEPT !.at = "refresh", !.any = FALSE])
    /\ UNCHANGED <<L0, L1, L2, physical, reverse, plugged, private, held>>

(***************************************************************************)
(* PrivateState::refresh, for allocate_frame and for drop.                 *)
(***************************************************************************)
Refresh(cpu) ==
    LET here == pc[cpu] g == private[S(cpu)].group c == here.idx
    IN  /\ here.at \in {"refresh", "drop"} /\ c < GROUP_SIZE
        /\ private' = [private EXCEPT ![S(cpu)].l1[c] = @ + L1[<<g, c>>]]
        /\ L1' = [L1 EXCEPT ![<<g, c>>] = 0]
        /\ Go(cpu, [here EXCEPT !.idx = c + 1, !.any = @ \/ L1[<<g, c>>] # 0])
        /\ UNCHANGED <<L0, L2, physical, reverse, plugged, held>>

\* The fetch_and of the L2 free count and what the caller does next.
RefreshL2(cpu) ==
    LET here == pc[cpu] g == private[S(cpu)].group any == here.any \/ L2[g].free # 0
    IN  /\ here.at \in {"refresh", "drop"} /\ here.idx = GROUP_SIZE
        /\ private' = [private EXCEPT ![S(cpu)].free = @ + L2[g].free]
        /\ L2' = [L2 EXCEPT ![g].free = 0]
        /\ Go(cpu, [here EXCEPT !.idx = 0, !.any = FALSE,
                                !.at = IF @ = "drop" THEN "unplug" ELSE IF any THEN "find" ELSE "plug"])
        /\ UNCHANGED <<L0, L1, physical, reverse, plugged, held>>

\* Hot-plug a slot into the first chunk without memory, or give up the group.
Plug(cpu) ==
    LET state == private[S(cpu)] zero == ChunkIndex \ state.bitmask c == Min(zero)
        s == Min(Slots \ plugged)
    IN  /\ At(cpu, "plug") /\ zero # {}
        /\ plugged' = plugged \cup {s}
        /\ private' = [private EXCEPT ![S(cpu)] = [state EXCEPT
                !.slots[c] = s, !.bitmask = @ \cup {c}, !.l1[c] = CHUNK_SIZE, !.free = @ + CHUNK_SIZE]]
        /\ reverse' = [reverse EXCEPT ![s] = <<state.group, c>>]
        /\ Go(cpu, [pc[cpu] EXCEPT !.at = "find"])
        /\ UNCHANGED <<L0, L1, L2, physical, held>>

GiveUp(cpu) ==
    /\ At(cpu, "plug") /\ ChunkIndex \subseteq private[S(cpu)].bitmask
    /\ Go(cpu, [pc[cpu] EXCEPT !.at = "drop", !.then = "claim"])
    /\ UNCHANGED <<L0, L1, L2, physical, reverse, plugged, private, held>>

(***************************************************************************)
(* Dropping the private state.                                             *)
(***************************************************************************)
\* The condition under which drop unplugs a chunk.
Unplugs(free, l1) == free < CHUNK_SIZE /\ l1 = CHUNK_SIZE

\* Hot-unplug, one chunk per step.  The chunk is given back first; then, by the
\* condition, the subtraction from free underflows, and the kernel, which is
\* built with overflow checks, panics.
Unplug(cpu) ==
    LET here == pc[cpu] state == private[S(cpu)] c == here.idx
    IN  /\ At(cpu, "unplug") /\ c < GROUP_SIZE
        /\ IF Unplugs(state.free, state.l1[c])
           THEN /\ private' = [private EXCEPT ![S(cpu)].l1[c] = 0, ![S(cpu)].bitmask = @ \ {c}]
                /\ plugged' = plugged \ {state.slots[c]}
                /\ Go(cpu, [here EXCEPT !.at = "panic"])
           ELSE /\ Go(cpu, [here EXCEPT !.idx = c + 1])
                /\ UNCHANGED <<private, plugged>>
        /\ UNCHANGED <<L0, L1, L2, physical, reverse, held>>

WriteBackL1(cpu) ==
    LET here == pc[cpu] state == private[S(cpu)] c == here.idx - GROUP_SIZE k == <<state.group, c>>
    IN  /\ At(cpu, "unplug") /\ c \in ChunkIndex
        /\ physical' = [physical EXCEPT ![k] = state.slots[c]]
        /\ L1' = [L1 EXCEPT ![k] = @ + state.l1[c]]
        /\ Go(cpu, [here EXCEPT !.idx = @ + 1])
        /\ UNCHANGED <<L0, L2, reverse, plugged, private, held>>

\* The sum fits FREE_BITS, which set_bits asserts (TypeOK).
WriteBackL2(cpu) ==
    LET here == pc[cpu] state == private[S(cpu)] g == state.group
    IN  /\ At(cpu, "unplug") /\ here.idx = 2 * GROUP_SIZE
        /\ L2' = [L2 EXCEPT ![g] = [free |-> L2[g].free + state.free, owned |-> FALSE,
                                    allocated |-> state.bitmask]]
        /\ private' = [private EXCEPT ![S(cpu)] = NoState]
        /\ Go(cpu, IF here.then = "claim"
                   THEN [Idle EXCEPT !.at = "claim", !.pass = 1, !.then = "find"] ELSE Idle)
        /\ UNCHANGED <<L0, L1, physical, reverse, plugged, held>>

\* release_private, before the CPU halts.
ReleasePrivate(cpu) ==
    /\ pc[cpu] = Idle /\ private[S(cpu)] # NoState
    /\ Go(cpu, [Idle EXCEPT !.at = "drop"])
    /\ UNCHANGED <<L0, L1, L2, physical, reverse, plugged, private, held>>

(***************************************************************************)
(* deallocate_frame                                                        *)
(***************************************************************************)
\* The caller hands a frame back; its chunk comes from the reverse map and its
\* L0 bit is cleared first.
DeallocateFrame(cpu) ==
    \E f \in held :
        /\ pc[cpu] = Idle
        /\ held' = held \ {f}
        /\ L0' = [L0 EXCEPT ![reverse[f[1]]] = @ \ {f[2]}]
        /\ Go(cpu, [Idle EXCEPT !.at = "count", !.frame = reverse[f[1]]])
        /\ UNCHANGED <<L1, L2, physical, reverse, plugged, private>>

\* Then the counters: the private ones of an own group, else L1 and later L2.
Count(cpu) ==
    LET k == pc[cpu].frame
    IN  /\ At(cpu, "count")
        /\ IF private[S(cpu)].group = k[1]
           THEN /\ private' = [private EXCEPT ![S(cpu)].l1[k[2]] = @ + 1, ![S(cpu)].free = @ + 1]
                /\ Go(cpu, Idle) /\ UNCHANGED L1
           ELSE /\ L1' = [L1 EXCEPT ![k] = @ + 1]
                /\ Go(cpu, [pc[cpu] EXCEPT !.at = "count2", !.any = (L1[k] + 1 = CHUNK_SIZE)])
                /\ UNCHANGED private
        /\ UNCHANGED <<L0, L2, physical, reverse, plugged, held>>

CountL2(cpu) ==
    LET here == pc[cpu] g == here.frame[1]
    IN  /\ At(cpu, "count2")
        /\ L2' = [L2 EXCEPT ![g].free = @ + 1]
        /\ Go(cpu, IF here.any THEN [here EXCEPT !.at = "reclaim", !.any = FALSE] ELSE Idle)
        /\ UNCHANGED <<L0, L1, physical, reverse, plugged, private, held>>

\* A chunk that became unused: claim the group, if nobody owns it, to drop it.
\* The new state is a local of deallocate_frame: the CPU's own group, if it has
\* one, stays in private_allocator_state.
Reclaim(cpu) ==
    LET here == pc[cpu] g == here.frame[1]
    IN  /\ At(cpu, "reclaim")
        /\ IF MayClaim(g)
           THEN TakeGroup(<<cpu, "local">>, g) /\ Go(cpu, [here EXCEPT !.at = "new", !.who = "local"])
           ELSE Go(cpu, Idle) /\ UNCHANGED <<L2, private>>
        /\ UNCHANGED <<L0, L1, physical, reverse, plugged, held>>

Next ==
    \E cpu \in Cpus :
        \/ AllocateFrame(cpu) \/ Claim(cpu) \/ New(cpu) \/ FindFree(cpu) \/ FindNone(cpu)
        \/ Refresh(cpu) \/ RefreshL2(cpu) \/ Plug(cpu) \/ GiveUp(cpu)
        \/ Unplug(cpu) \/ WriteBackL1(cpu) \/ WriteBackL2(cpu) \/ ReleasePrivate(cpu)
        \/ DeallocateFrame(cpu) \/ Count(cpu) \/ CountL2(cpu) \/ Reclaim(cpu)

Spec == Init /\ [][Next]_vars

-------------------------------------------------------------------------------
TypeOK ==
    /\ L0 \in [Group \X ChunkIndex -> SUBSET FrameIndex]
    /\ L1 \in [Group \X ChunkIndex -> 0 .. CHUNK_SIZE]
    /\ \A g \in Group : L2[g].free \in 0 .. 2 * TOTAL - 1 /\ L2[g].allocated \subseteq ChunkIndex
    /\ plugged \subseteq Slots
    /\ held \subseteq Slots \X FrameIndex

\* Frames whose L0 bit is clear but whose L1 count is still to be raised.
Uncounted(k) == {cpu \in Cpus : At(cpu, "count") /\ pc[cpu].frame = k}

\* A chunk's free frames in private copies; a chunk that drop has written back
\* is no longer counted there.
WrittenBack(s, c) == pc[s[1]].who = s[2] /\ At(s[1], "unplug") /\ pc[s[1]].idx > GROUP_SIZE + c
PrivateFree(k) ==
    MapThenSumSet(LAMBDA s : IF private[s].group = k[1] /\ ~WrittenBack(s, k[2])
                             THEN private[s].l1[k[2]] ELSE 0, DOMAIN private)
Owners(g) == {s \in DOMAIN private : private[s].group = g}
\* Chunks with memory: the owner's bitmask is ahead of the shared one.
HasMemory(g, c) ==
    IF Owners(g) = {} THEN c \in L2[g].allocated ELSE \A s \in Owners(g) : c \in private[s].bitmask

\* Every group has at most one owning private state, and the owner bit says
\* whether it has one.
OwnedOnce ==
    \A g \in Group : Cardinality(Owners(g)) = IF L2[g].owned THEN 1 ELSE 0

\* No free frame is lost or counted twice: however allocations, deallocations
\* on other CPUs, claims and drops interleave, the zero bits of a chunk are its
\* private and shared counters plus the frames just about to be counted.  In
\* particular find_free always finds a bit (its unreachable_unchecked).
FreeFramesCounted ==
    \A g \in Group, c \in ChunkIndex :
        LET k == <<g, c>>
        IN  IF HasMemory(g, c)
            THEN PrivateFree(k) + L1[k] + Cardinality(Uncounted(k)) = Cardinality(ZeroBits(k))
            ELSE PrivateFree(k) + L1[k] = 0 /\ L0[k] = {}

\* A frame a caller holds is marked in use in the one chunk its slot is plugged
\* into, so it is neither handed out again nor given back to the supervisor.
HeldFramesUsed ==
    \A f \in held : f[1] \in plugged /\ f[2] \in L0[reverse[f[1]]]
===============================================================================
