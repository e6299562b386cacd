------------------------------- MODULE MCMemory -------------------------------
(***************************************************************************)
(* The parts of the memory manager, one at a time: subject says which part *)
(* a behaviour is about; the others stay in their initial state.  Frames   *)
(* and page tables take their variables from one pool, v1, v2, ..., where  *)
(* what is not needed is Unused.  The property of PCIDs is Pcid's own.     *)
(***************************************************************************)
EXTENDS Pcid, TLC

CONSTANTS GROUPS, GROUP_SIZE, CHUNK_SIZE, Slots,
          Pages, Static,
          Vms, PAGES, FRAMES, FILE_PAGES, MaxCalls, PAGE, Bytes, MaxLen,
          Unused

VARIABLES subject, vm, file, rc, used, fault, copy, panic, calls,
          len, pages, mapped, out, v1, v2, v3, v4, v5, v6, v7, v8, v9

\* Two pages in one table, one in a table beside it, and one of the kernel.
MCPages == {<<0, 0, 0>>, <<0, 0, 1>>, <<0, 1, 0>>, <<1, 0, 0>>}
MCStatic == {<<1>>}

Symmetry == Permutations(Cpus) \cup Permutations(Vms)

File == INSTANCE Buffer
Maps == INSTANCE AddressSpace
Frames == INSTANCE FrameAllocator WITH
    L0 <- v1, L1 <- v2, L2 <- v3, physical <- v4, reverse <- v5, plugged <- v6,
    private <- v7, pc <- v8, held <- v9
PageTables == INSTANCE PageTable WITH
    table <- v1, pte <- v2, cpu <- v3, stale <- v4

fileVars == <<len, pages, mapped, out>>
mapVars == <<vm, file, rc, used, fault, copy, panic, calls>>
past4 == <<v5, v6, v7, v8, v9>>  \* what page tables leave alone
pool == <<v1, v2, v3, v4, past4>>
Unused4 == v5 = Unused /\ v6 = Unused /\ v7 = Unused /\ v8 = Unused /\ v9 = Unused
UnusedPool == v1 = Unused /\ v2 = Unused /\ v3 = Unused /\ v4 = Unused /\ Unused4

MemoryInit ==
    /\ PcidInit /\ File!Init /\ Maps!Init
    /\ \/ subject \in {"address spaces", "pcids", "files"} /\ UnusedPool
       \/ subject = "frames" /\ Frames!Init
       \/ subject = "page tables" /\ PageTables!Init /\ Unused4

MemoryNext ==
    /\ UNCHANGED subject
    /\ \/ subject = "address spaces" /\ Maps!Next /\ UNCHANGED <<pcidVars, fileVars, pool>>
       \/ subject = "pcids" /\ PcidNext /\ UNCHANGED <<mapVars, fileVars, pool>>
       \/ subject = "files" /\ File!Next /\ UNCHANGED <<pcidVars, mapVars, pool>>
       \/ subject = "frames" /\ Frames!Next /\ UNCHANGED <<pcidVars, fileVars, mapVars>>
       \/ subject = "page tables" /\ PageTables!Next /\ UNCHANGED <<pcidVars, fileVars, mapVars, past4>>

MemorySpec == MemoryInit /\ [][MemoryNext]_<<subject, pcidVars, fileVars, mapVars, pool>>

-----------------------------------------------------------------------------
\* The frame allocator (memory/frame.rs): a group has one owner, no free frame
\* is lost or counted twice, and a frame in use is not handed out again.
FramesSound ==
    subject = "frames" =>
        Frames!TypeOK /\ Frames!OwnedOnce /\ Frames!FreeFramesCounted /\ Frames!HeldFramesUsed

\* Page tables (memory/pagetable.rs): reference counts are exact, a walk only
\* meets tables that are there and zeroed, and it never goes through a stale
\* translation to a table that was freed.
TablesSound ==
    subject = "page tables" =>
        /\ PageTables!TypeOK /\ PageTables!ReferencesExact
        /\ PageTables!WalksSound /\ PageTables!NoStaleAccess

\* Address spaces (user/process/memory.rs): copy-on-write isolates writes,
\* page table entries agree with the mappings, and pages are freed with their
\* last handle.
MappingsSound ==
    subject = "address spaces" =>
        Maps!TypeOK /\ Maps!WritesIsolated /\ Maps!EntriesCurrent /\ Maps!CountsExact

\* A buffer (memory/page/buffer.rs) is a file of bytes: leftovers never show.
BufferIsFile == File!BufferIsFile
===============================================================================
