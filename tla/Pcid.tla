-------------------------------- MODULE Pcid --------------------------------
(***************************************************************************)
(* Address spaces on CPUs (Pagetables and PcidAllocations in               *)
(* memory/pagetable.rs).  Page tables are shared, by an Arc, between their *)
(* owner and every CPU that ran them last; CR3 stays on them after the     *)
(* owner is gone.  The last reference frees the top level table and the    *)
(* PCID, which is then given to other page tables without a flush when     *)
(* they are activated.                                                     *)
(***************************************************************************)
EXTENDS Integers, FiniteSets

CONSTANTS
    Cpus,
    Spaces,   \* page tables (Pagetables values)
    PCIDS     \* number of PCIDs; 0 is the kernel's

VARIABLES
    in_use,   \* PcidAllocations
    last_idx,
    space,    \* page tables -> [owned, pcid]; pcid is None without allocations
    last,     \* per CPU: last_pagetables and CR3
    tlb       \* per CPU: cached translations, as <<pcid, page tables>>

pcidVars == <<in_use, last_idx, space, last, tlb>>

None == -1
Boot == "boot"    \* the page tables the kernel starts on
NoSpace == [owned |-> FALSE, pcid |-> None]

PcidAssumption == PCIDS \in Nat \ {0} /\ Boot \notin Spaces
ASSUME PcidConstants == PcidAssumption

PcidInit ==
    /\ in_use = {0}
    /\ last_idx = 0
    /\ space = [s \in Spaces |-> NoSpace]
    /\ last = [c \in Cpus |-> Boot]
    /\ tlb = [c \in Cpus |-> {}]

\* PcidAllocations::allocate: round robin from the index after the last one;
\* it panics when every PCID is taken.
Distance(i) == (i - last_idx + PCIDS) % PCIDS
NextFree == CHOOSE i \in (0 .. PCIDS - 1) \ in_use : \A j \in (0 .. PCIDS - 1) \ in_use : Distance(i) <= Distance(j)

New(s) ==
    /\ space[s] = NoSpace /\ in_use # 0 .. PCIDS - 1
    /\ in_use' = in_use \cup {NextFree}
    /\ last_idx' = (NextFree + 1) % PCIDS
    /\ space' = [space EXCEPT ![s] = [owned |-> TRUE, pcid |-> NextFree]]
    /\ UNCHANGED <<last, tlb>>

\* References to page tables besides the owner's.
Running(lasts, s) == {c \in Cpus : lasts[c] = s}

\* Drop of the last Arc: the PCID is flushed on every CPU before it is free.
NoFlushPcid(pcid) == tlb' = tlb
FlushPcid(pcid) == tlb' = [c \in Cpus |-> {t \in tlb[c] : t[1] # pcid}]
Deallocate(s) == FlushPcid(space[s].pcid) /\ in_use' = in_use \ {space[s].pcid}
Keep == UNCHANGED <<tlb, in_use>>

\* activate: CR3 is written first, then the old reference is dropped.
Activate(c, s) ==
    LET old == last[c]
        unused == old # Boot /\ ~space[old].owned /\ Running([last EXCEPT ![c] = s], old) = {}
    IN  /\ space[s].owned /\ old # s
        /\ last' = [last EXCEPT ![c] = s]
        /\ IF unused THEN Deallocate(old) /\ space' = [space EXCEPT ![old] = NoSpace]
           ELSE Keep /\ UNCHANGED space
        /\ UNCHANGED last_idx

\* Drop of Pagetables.
DropPagetables(s) ==
    /\ space[s].owned
    /\ IF Running(last, s) = {} THEN Deallocate(s) /\ space' = [space EXCEPT ![s] = NoSpace]
       ELSE Keep /\ space' = [space EXCEPT ![s].owned = FALSE]
    /\ UNCHANGED <<last_idx, last>>

\* A CPU caches a translation of the page tables CR3 points to.
FillTlb(c) ==
    /\ last[c] # Boot
    /\ tlb' = [tlb EXCEPT ![c] = @ \cup {<<space[last[c]].pcid, last[c]>>}]
    /\ UNCHANGED <<in_use, last_idx, space, last>>

PcidNext ==
    \/ \E s \in Spaces : New(s) \/ DropPagetables(s) \/ \E c \in Cpus : Activate(c, s)
    \/ \E c \in Cpus : FillTlb(c)

PcidSpec == PcidInit /\ [][PcidNext]_pcidVars

-------------------------------------------------------------------------------
PcidTypeOK ==
    /\ in_use \subseteq 0 .. PCIDS - 1 /\ last_idx \in 0 .. PCIDS - 1
    /\ space \in [Spaces -> [owned : BOOLEAN, pcid : {None} \cup 0 .. PCIDS - 1]]
    /\ last \in [Cpus -> Spaces \cup {Boot}]
    /\ tlb \in [Cpus -> SUBSET ((0 .. PCIDS - 1) \X Spaces)]

\* CR3 of a CPU never points to freed page tables, and a CPU that runs page
\* tables only finds translations of theirs under their PCID, although PCIDs
\* are reused and activate does not flush.
TranslationsOwn ==
    \A c \in Cpus : last[c] # Boot =>
        /\ space[last[c]].pcid \in in_use
        /\ \A t \in tlb[c] : t[1] = space[last[c]].pcid => t[2] = last[c]

\* Page tables and PCIDs (memory/pagetable.rs) are never used after they were
\* given back.
PcidsSound == PcidTypeOK /\ TranslationsOwn
===============================================================================
