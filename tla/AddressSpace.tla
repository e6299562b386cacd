----------------------------- MODULE AddressSpace -----------------------------
(***************************************************************************)
(* User address spaces (user/process/memory.rs) over copy-on-write pages   *)
(* (memory/page).  Addresses are counted in pages: every call rounds to    *)
(* pages before it touches state.  An address space has its mappings,      *)
(* keyed by first page as in the BTreeMap, and the entries of its page     *)
(* tables.  A modification runs under the write lock of the address space  *)
(* and is one step.  A page fault runs under the read lock and the lock of *)
(* its mapping; a write fault is two steps, because the page contents it   *)
(* counts are shared with other address spaces that fault, fork and exit   *)
(* meanwhile.                                                              *)
(***************************************************************************)
EXTENDS Integers, Sequences, FiniteSets, FiniteSetsExt, SequencesExt, Functions, TLC

CONSTANTS
    Vms,       \* address spaces
    PAGES,     \* pages below the base of dynamic mappings
    FRAMES,    \* page contents that can be allocated
    FILE_PAGES,\* pages of the one mapped file
    MaxCalls   \* bound on modifying calls

VARIABLES
    vm,     \* per address space: [live, mappings, brk, pte, rss]
    file,   \* the pages of the file's Buffer
    rc,     \* reference counter of a page content, 0 when it has none
    used,   \* allocated page contents
    fault,  \* per address space: the write fault in progress
    copy,   \* per address space: the page a kernel write will try again
    panic,  \* an unwrap of the code failed
    calls

vars == <<vm, file, rc, used, fault, copy, panic, calls>>

Page == 0 .. PAGES - 1
Frame == 1 .. FRAMES
Zero == 0          \* the content of the shared zero page
None == -1         \* no page yet, or no page table entry
NoEntry == [frame |-> None, writable |-> FALSE]
NoFault == [page |-> None, key |-> None, copy |-> FALSE]
Dead == [live |-> FALSE, mappings |-> <<>>, brk |-> 1, pte |-> [p \in Page |-> NoEntry], rss |-> 0]

(***************************************************************************)
(* KernelPage.  A handle is the content it points to.  Every handle of a   *)
(* content has the counter or none has: clone gives it to both sides.      *)
(***************************************************************************)
\* Tagged handles that refer to a content.
Refs(handles, f) == Cardinality({h \in handles : h[2] = f})

\* Drop: the last counted handle, or the only one, frees the content.
FreedBy(handles) == {f \in used : Refs(handles, f) > 0 /\ rc[f] \in {0, Refs(handles, f)}}
DropPages(handles) ==
    /\ rc' = [f \in Frame |-> IF rc[f] = 0 \/ f \in FreedBy(handles) THEN 0
                              ELSE rc[f] - Refs(handles, f)]
    /\ used' = used \ FreedBy(handles)

\* clone: a content without a counter gets one that starts at 1.
ClonePages(counts, handles) ==
    [f \in Frame |-> IF Refs(handles, f) = 0 THEN counts[f]
                     ELSE Max({1, counts[f]}) + Refs(handles, f)]

Fresh == Min(Frame \ used)

(***************************************************************************)
(* The mappings of an address space.                                       *)
(***************************************************************************)
End(ms, k) == k + ms[k].len - 1

\* cursor.prev() of upper_bound(Included(page)): the last key at or below it.
Below(ms, page) == {k \in DOMAIN ms : k <= page}
Prev(ms, page) == Max(Below(ms, page))

Part(m, from, to) ==
    [m EXCEPT !.len = to - from, !.off = @ + from, !.pages = [i \in 0 .. to - from - 1 |-> @[from + i]]]

\* Mapping::split_off: mapping k keeps the pages before at.
SplitOff(ms, k, at) ==
    (at :> Part(ms[k], at - k, ms[k].len)) @@ (k :> Part(ms[k], 0, at - k)) @@ ms

\* The head of the cursor walks of unmap and mprotect: a mapping that starts
\* before the range is split, one that also ends before it stops the walk.
Precedes(ms, start) == Below(ms, start) # {} /\ Prev(ms, start) < start
Stops(ms, start) == Precedes(ms, start) /\ End(ms, Prev(ms, start)) < start
SplitHead(ms, start) == IF Precedes(ms, start) THEN SplitOff(ms, Prev(ms, start), start) ELSE ms

\* The mappings a walk over start .. end visits: in key order, up to the first
\* one that reaches beyond the end.
InRange(ms, start, end) == {k \in DOMAIN ms : start <= k /\ k <= end}
Straddlers(ms, start, end) == {k \in InRange(ms, start, end) : End(ms, k) > end}
Visited(ms, start, end) ==
    {k \in InRange(ms, start, end) : \A s \in Straddlers(ms, start, end) : k <= s}
SplitTail(ms, start, end) ==
    IF Straddlers(ms, start, end) = {} THEN ms
    ELSE SplitOff(ms, Min(Straddlers(ms, start, end)), end + 1)
\* The cursor refuses to insert the rest when a key up to end + 1 follows; the
\* code unwraps that.
InsertFails(ms, start, end) ==
    /\ Straddlers(ms, start, end) # {}
    /\ \E k \in DOMAIN ms : k > Min(Straddlers(ms, start, end)) /\ k <= end + 1

\* The pages present in some mappings, as tagged handles.
Present(ms, ks) ==
    {<<k, i>> \in ks \X Page : i < ms[k].len /\ ms[k].pages[i] # None}
Handles(tag, ms, ks) == {<<<<tag, x[1], x[2]>>, ms[x[1]].pages[x[2]]>> : x \in Present(ms, ks)}

\* VirtualMemoryWriteGuard::unmap on the mappings: what is left, what is gone.
\* A preceding mapping that ends before the range stops it before anything is
\* removed.
Unmapped(ms, start, end) ==
    LET s == SplitHead(ms, start)
        t == SplitTail(s, start, end)
        gone == Visited(s, start, end)
    IN  IF Stops(ms, start) THEN [left |-> ms, ms |-> ms, gone |-> {}, fails |-> FALSE]
        ELSE [left |-> Restrict(t, DOMAIN t \ gone), ms |-> t, gone |-> gone,
              fails |-> InsertFails(s, start, end)]

\* find_free_address: downwards from the base, the first gap that also has room
\* for a guard page on either side.
find_free_address(ms, len) ==
    LET walk == FoldLeft(LAMBDA acc, k :
                    IF acc.found THEN acc
                    ELSE IF acc.last >= End(ms, k) + 1 /\ acc.last - (End(ms, k) + 1) >= len + 2
                    THEN [acc EXCEPT !.found = TRUE] ELSE [acc EXCEPT !.last = k],
                    [last |-> PAGES, found |-> FALSE],
                    SetToSortSeq(DOMAIN ms, LAMBDA a, b : a > b))
    IN  walk.last - (len + 2) + 1

ClearEntries(pte, start, end) ==
    [p \in Page |-> IF start <= p /\ p <= end THEN NoEntry ELSE pte[p]]

(***************************************************************************)
(* Calls that hold the write lock.                                         *)
(***************************************************************************)
Modifies(v) ==
    /\ calls < MaxCalls /\ calls' = calls + 1
    /\ vm[v].live /\ fault[v] = NoFault /\ ~panic
    /\ UNCHANGED <<fault, file, copy>>

Panic == panic' = TRUE /\ UNCHANGED <<vm, rc, used>>

\* unmap, then possibly the insertion of a new mapping (mmap).
Replace(v, start, end, new, brk) ==
    \E u \in {Unmapped(vm[v].mappings, start, end)} :
    \E gone \in {Handles(v, u.ms, u.gone)} :
        IF u.fails THEN Panic ELSE
        /\ vm' = [vm EXCEPT ![v].mappings = new @@ u.left, ![v].brk = brk,
                            ![v].pte = ClearEntries(@, start, end), ![v].rss = @ - Cardinality(gone)]
        /\ DropPages(gone)
        /\ UNCHANGED panic

Mapping(len, perms, shared, file_end) ==
    [len |-> len, perms |-> perms, shared |-> shared, off |-> 0, file_end |-> file_end,
     pages |-> [i \in 0 .. len - 1 |-> None]]

\* mmap of anonymous memory, of a shared file, and of an ELF segment whose memory
\* is larger than its part of the file (mmap_file_with_zeros, zero_pad).  At a
\* fixed address the pages past the file stand for anonymous ones.
Anonymous(len) == Mapping(len, {"R", "W"}, FALSE, 0)
Backings(len) == {Mapping(len, {"R", "W"}, TRUE, len), Mapping(len, {"R", "W"}, FALSE, 1)}

MmapFixed(v) ==
    /\ Modifies(v)
    /\ \E start \in Page, len \in 1 .. PAGES - 1 : \E m \in Backings(len) :
        start + len <= PAGES /\ Replace(v, start, start + len - 1, start :> m, vm[v].brk)

MmapDynamic(v) ==
    /\ Modifies(v)
    /\ LET start == find_free_address(vm[v].mappings, 1)
       IN  /\ start >= 0
           /\ \E m \in Backings(1) \cup {Anonymous(1)} :
                Replace(v, start, start, start :> m, vm[v].brk)

Munmap(v) ==
    /\ Modifies(v)
    /\ \E start \in Page, len \in 1 .. PAGES :
        start + len <= PAGES /\ Replace(v, start, start + len - 1, <<>>, vm[v].brk)

Mprotect(v) ==
    /\ Modifies(v)
    /\ \E start \in Page, end \in Page, perms \in {{}, {"R"}} :
        LET ms == vm[v].mappings
            s == SplitHead(ms, start)
            t == SplitTail(s, start, end)
        IN  /\ start <= end
            /\ IF ~Stops(ms, start) /\ InsertFails(s, start, end) THEN Panic ELSE
               /\ vm' = [vm EXCEPT ![v].pte = ClearEntries(@, start, end),
                            ![v].mappings = IF Stops(ms, start) THEN ms
                                ELSE [k \in DOMAIN t |-> IF k \in Visited(s, start, end)
                                        THEN [t[k] EXCEPT !.perms = perms] ELSE t[k]]]
               /\ UNCHANGED <<rc, used, panic>>

\* madvise(DontNeed): discard_pages walks the mappings from the start and gives
\* up at the first hole, after what it has already discarded.
discard_pages(ms, start, end) ==
    FoldLeft(LAMBDA acc, k :
        IF acc.at = end \/ acc.failed THEN acc
        ELSE IF k > acc.at \/ acc.at - k > ms[k].len THEN [acc EXCEPT !.failed = TRUE]
        ELSE LET upto == Min({end, k + ms[k].len})
             IN  [acc EXCEPT !.at = upto,
                             !.gone = @ \cup {x \in Present(ms, {k}) : acc.at <= k + x[2] /\ k + x[2] < upto}],
        [at |-> start, failed |-> FALSE, gone |-> {}],
        SetToSortSeq({k \in DOMAIN ms : \A x \in Below(ms, start) : k >= x}, LAMBDA a, b : a < b))

Madvise(v) ==
    /\ Modifies(v)
    /\ \E start \in Page, end \in 1 .. PAGES :
        LET ms == vm[v].mappings
            gone == discard_pages(ms, start, end).gone
        IN  /\ start < end
            /\ vm' = [vm EXCEPT ![v].pte = ClearEntries(@, start, end - 1), ![v].rss = @ - Cardinality(gone),
                        ![v].mappings = [k \in DOMAIN ms |-> [ms[k] EXCEPT !.pages =
                            [i \in DOMAIN @ |-> IF <<k, i>> \in gone THEN None ELSE @[i]]]]]
            /\ DropPages({<<x, ms[x[1]].pages[x[2]]>> : x \in gone})
            /\ UNCHANGED panic

\* is_free: no mapping reaches into the range; false when nothing is below it.
is_free(ms, start, end) == Below(ms, end) # {} /\ End(ms, Prev(ms, end)) < start

\* set_brk_end: grows over free pages only, and shrinks by unmapping.
Brk(v) ==
    /\ Modifies(v)
    /\ \E brk \in 1 .. PAGES :
        LET old == vm[v].brk
        IN  /\ brk # old
            /\ IF brk > old
               THEN IF is_free(vm[v].mappings, old, brk - 1)
                    THEN Replace(v, old, brk - 1, old :> Anonymous(brk - old), brk)
                    ELSE UNCHANGED <<vm, rc, used, panic>>
               ELSE Replace(v, brk, old - 1, <<>>, brk)

\* VirtualMemory::clone, for fork: the parent's entries lose the write bit, then
\* every page is cloned.
NotFrozen(pte) == pte
Frozen(pte) == [p \in Page |-> [pte[p] EXCEPT !.writable = FALSE]]
Fork(v, w) ==
    LET ms == vm[v].mappings
    IN  /\ Modifies(v) /\ ~vm[w].live
        /\ rc' = ClonePages(rc, Handles(v, ms, DOMAIN ms))
        /\ vm' = [vm EXCEPT ![v].pte = Frozen(@),
                            ![w] = [vm[v] EXCEPT !.pte = [p \in Page |-> NoEntry]]]
        /\ UNCHANGED <<used, panic>>

\* Drop of the address space: unmap of everything.
Exit(v) ==
    LET ms == vm[v].mappings
    IN  /\ vm[v].live /\ fault[v] = NoFault /\ copy[v] = None /\ ~panic
        /\ vm' = [vm EXCEPT ![v] = Dead]
        /\ DropPages(Handles(v, ms, DOMAIN ms))
        /\ UNCHANGED <<file, fault, copy, panic, calls>>

(***************************************************************************)
(* Page faults, and kernel accesses to user memory that fault (map_addrs). *)
(***************************************************************************)
\* The mapping a fault finds.  One that ends before the page leaves the page
\* unmapped, whatever other mapping covers it.
Finds(ms, page) == Below(ms, page) # {} /\ page <= End(ms, Prev(ms, page))

\* Backing::get_initial_page: file pages up to the end of the segment, which
\* must exist in the file, then zeros.
FromFile(m, i) == m.off + i < m.file_end
Backed(m, i) == FromFile(m, i) => m.off + i < Len(file)

\* Buffer::get_page gives a shared page its own content at once.
NeedsFresh(m, i) == m.pages[i] = None /\ FromFile(m, i) /\ m.shared /\ file[m.off + i + 1] = Zero

\* Mapping::get_page: the content, and what fetching a missing page changes.
Got(m, i) ==
    LET j == m.off + i + 1
        f == IF NeedsFresh(m, i) THEN Fresh ELSE IF FromFile(m, i) THEN file[j] ELSE Zero
    IN  IF m.pages[i] # None THEN [f |-> m.pages[i], rss |-> 0, rc |-> rc, file |-> file, used |-> used]
        ELSE [f |-> f, rss |-> 1, rc |-> IF f = Zero THEN rc ELSE ClonePages(rc, {<<m, f>>}),
              file |-> IF FromFile(m, i) THEN [file EXCEPT ![j] = f] ELSE file,
              used |-> used \cup ({f} \ {Zero})]

\* map_page up to the point where the page is there; the page stays even when
\* the permissions then refuse the access.
Available(m, i) == Backed(m, i) /\ (NeedsFresh(m, i) => Frame \ used # {})
Fetch(got) ==
    /\ rc' = got.rc /\ file' = got.file /\ used' = got.used
    /\ UNCHANGED <<copy, panic, calls>>
Faults(v, page) == vm[v].live /\ fault[v] = NoFault /\ ~panic /\ Finds(vm[v].mappings, page)

\* A fault that does not ask for write access, or asks for access the mapping
\* does not give and is denied.  The entry is writable when the mapping is and
\* the content belongs to it alone, or is shared on purpose.
ReadFault(v) ==
    \E page \in {p \in Page : Faults(v, p)}, denied \in BOOLEAN :
        \E k \in {Prev(vm[v].mappings, page)} : \E i \in {page - k}, m \in {vm[v].mappings[k]} :
        Available(m, i) /\ \E got \in {Got(m, i)} :
            /\ denied => "W" \notin m.perms
            /\ Fetch(got)
            /\ vm' = [vm EXCEPT ![v].mappings[k].pages[i] = got.f, ![v].rss = @ + got.rss,
                        ![v].pte[page] = IF m.perms = {} \/ denied THEN @
                            ELSE [frame |-> got.f, writable |-> "W" \in m.perms /\ got.f # Zero
                                                                /\ (got.rc[got.f] = 0 \/ m.shared)]]
            /\ UNCHANGED fault

\* A write fault: the old entry goes first, then make_mut reads the counter.
WriteFault(v) ==
    \E page \in {p \in Page : Faults(v, p)} :
        \E k \in {Prev(vm[v].mappings, page)} : \E i \in {page - k}, m \in {vm[v].mappings[k]} :
        Available(m, i) /\ \E got \in {Got(m, i)} :
            /\ "W" \in m.perms
            /\ Fetch(got)
            /\ vm' = [vm EXCEPT ![v].mappings[k].pages[i] = got.f, ![v].rss = @ + got.rss,
                                ![v].pte[page] = NoEntry]
            /\ fault' = [fault EXCEPT ![v] = [page |-> page, key |-> k,
                            copy |-> got.f = Zero \/ (~m.shared /\ got.rc[got.f] > 1)]]

\* The rest of make_mut and the new, writable entry.  A copy drops the old
\* handle, which by now may be the last one.
FinishWriteFault(v) ==
    /\ fault[v] # NoFault /\ (fault[v].copy => Frame \ used # {})
    /\ \E here \in {fault[v]} : \E k \in {here.key}, i \in {here.page - here.key} :
       \E m \in {vm[v].mappings[k]} :
       \E freed \in {FreedBy({<<v, m.pages[i]>>})}, f \in IF here.copy THEN {Fresh} ELSE {m.pages[i]} :
        /\ IF here.copy
           THEN /\ used' = (used \cup {f}) \ freed
                /\ rc' = [x \in Frame |-> IF x = m.pages[i] /\ x \notin freed THEN rc[x] - 1
                                          ELSE IF x \in freed THEN 0 ELSE rc[x]]
           ELSE /\ rc' = IF m.shared THEN rc ELSE [rc EXCEPT ![f] = 0]
                /\ UNCHANGED used
        /\ vm' = [vm EXCEPT ![v].mappings[k].pages[i] = f,
                            ![v].pte[here.page] = [frame |-> f, writable |-> TRUE]]
        /\ fault' = [fault EXCEPT ![v] = NoFault]
        /\ UNCHANGED <<file, copy, panic, calls>>

\* write_bytes_volatile: when the first attempt faulted, map_addrs has mapped the
\* page and the kernel tries again, holding no lock; it unwraps the result.
CopyToUser(v) ==
    \E page \in Page :
        /\ vm[v].live /\ copy[v] = None /\ vm[v].pte[page].writable /\ ~panic
        /\ calls < MaxCalls /\ calls' = calls + 1
        /\ copy' = [copy EXCEPT ![v] = page]
        /\ UNCHANGED <<vm, file, rc, used, fault, panic>>

RetryCopy(v) ==
    /\ copy[v] # None /\ ~panic
    /\ copy' = [copy EXCEPT ![v] = None]
    /\ panic' = ~vm[v].pte[copy[v]].writable
    /\ UNCHANGED <<vm, file, rc, used, fault, calls>>

\* A write to the file: make_mut(true) only replaces the zero page.
FileWrite ==
    \E j \in DOMAIN file :
        /\ file[j] = Zero /\ Frame \ used # {} /\ ~panic
        /\ calls < MaxCalls /\ calls' = calls + 1
        /\ file' = [file EXCEPT ![j] = Fresh]
        /\ used' = used \cup {Fresh}
        /\ UNCHANGED <<vm, rc, fault, copy, panic>>

\* The process starts with a private mapping of the file below its empty heap
\* and an anonymous mapping at the top.
Image ==
    (0 :> Mapping(1, {"R", "W"}, FALSE, 1)) @@ (PAGES - 1 :> Mapping(1, {"R", "W"}, FALSE, 0))

Init ==
    /\ \E first \in Vms :
          vm = [v \in Vms |-> IF v # first THEN Dead
                             ELSE [Dead EXCEPT !.live = TRUE, !.mappings = Image]]
    /\ file = [j \in 1 .. FILE_PAGES |-> Zero]
    /\ rc = [f \in Frame |-> 0]
    /\ used = {}
    /\ fault = [v \in Vms |-> NoFault]
    /\ copy = [v \in Vms |-> None]
    /\ panic = FALSE
    /\ calls = 0

Next ==
    \/ \E v \in Vms :
        \/ MmapFixed(v) \/ MmapDynamic(v) \/ Munmap(v) \/ Mprotect(v) \/ Madvise(v) \/ Brk(v)
        \/ Exit(v) \/ ReadFault(v) \/ WriteFault(v) \/ FinishWriteFault(v)
        \/ CopyToUser(v) \/ RetryCopy(v)
        \/ \E w \in Vms : Fork(v, w)
    \/ FileWrite

Spec == Init /\ [][Next]_vars

-------------------------------------------------------------------------------
TypeOK ==
    /\ \A v \in Vms :
        /\ DOMAIN vm[v].mappings \subseteq Page /\ vm[v].brk \in 1 .. PAGES
        /\ vm[v].pte \in [Page -> [frame : {None, Zero} \cup Frame, writable : BOOLEAN]]
    /\ rc \in [Frame -> Nat] /\ used \subseteq Frame
    /\ file \in Seq({Zero} \cup Frame)

\* All handles in the system: mappings of every address space, and the file.
AllHandles ==
    UNION {Handles(v, vm[v].mappings, DOMAIN vm[v].mappings) : v \in Vms}
        \cup {<<<<j, j, j>>, file[j]>> : j \in DOMAIN file}

\* Copy-on-write isolation: a content that one address space can write through
\* its page tables is never the zero page, and no other page of a private
\* mapping, no other address space and no file refers to it.
WritesIsolated ==
    \A all \in {AllHandles}, v \in Vms, p \in Page :
        LET e == vm[v].pte[p] k == Prev(vm[v].mappings, p)
        IN  e.writable => /\ e.frame # Zero
                          /\ vm[v].mappings[k].shared \/ Refs(all, e.frame) = 1

\* The page tables never outlive the mappings: an entry shows the content that
\* the mapping found for the page holds, with no more than its permissions.
EntriesCurrent ==
    \A v \in Vms, p \in Page :
        LET ms == vm[v].mappings e == vm[v].pte[p] k == Prev(ms, p)
        IN  e # NoEntry => /\ Finds(ms, p) /\ ms[k].pages[p - k] = e.frame
                           /\ "R" \in ms[k].perms /\ (e.writable => "W" \in ms[k].perms)

\* Reference counts are exact: no content is freed while a handle remains, none
\* leaks, and the resident set size is the number of pages present.
CountsExact ==
    /\ \A all \in {AllHandles}, f \in Frame : \A n \in {Refs(all, f)} :
                        (f \in used <=> n > 0) /\ (IF rc[f] = 0 THEN n <= 1 ELSE rc[f] = n)
    /\ \A v \in Vms : vm[v].rss = Cardinality(Present(vm[v].mappings, DOMAIN vm[v].mappings))
===============================================================================
