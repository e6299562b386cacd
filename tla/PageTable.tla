------------------------------ MODULE PageTable ------------------------------
(***************************************************************************)
(* The workload kernel's page tables (memory/pagetable.rs).  An entry is   *)
(* named by the indices that lead to it: a page is the longest name, its   *)
(* proper prefixes are the entries of the tables above it.  A table entry  *)
(* counts, one less than the real number, the guards held on it and the    *)
(* entries of its table that are in use; the last reference frees the      *)
(* table.  CPUs walk down taking guards and drop them on the way back.     *)
(* Every atomic access of an entry is one step.                            *)
(***************************************************************************)
EXTENDS Integers, Sequences, FiniteSets, FiniteSetsExt, SequencesExt

CONSTANTS
    Cpus,
    Pages,    \* names of pages
    Static    \* entries of the top level that are never freed (kernel half)

VARIABLES
    table,    \* table entry -> [state, count]
    pte,      \* page -> "empty", "ro", "rw", or "garbage" in a table not zeroed
    cpu,      \* walk in progress per CPU
    stale     \* tables of which a CPU may cache the translation from before

vars == <<table, pte, cpu, stale>>

Depth == Len(CHOOSE p \in Pages : TRUE)
Tables == {SubSeq(p, 1, n) : p \in Pages, n \in 1 .. Depth - 1}
UserPages == {p \in Pages : SubSeq(p, 1, 1) \notin Static}
Root == <<>>

Empty == [state |-> "empty", count |-> 0]
Garbage == [state |-> "garbage", count |-> 0]
Idle == [op |-> "idle", pages |-> {}, guard |-> Root, todo |-> <<>>, at |-> "walk"]

\* parent_table_entry, and the entries of the table an entry points to.
Parent(e) == SubSeq(e, 1, Len(e) - 1)
Entries(e) == {SubSeq(p, 1, Len(e) + 1) : p \in {q \in Pages : SubSeq(q, 1, Len(e)) = e}}
\* The entries of a table that a walk over some pages visits, lowest first.
OnWay(e, pages) == {x \in Entries(e) : \E p \in pages : IsPrefix(x, p)}
First(es) == CHOOSE x \in es : \A y \in es : Last(x) <= Last(y)

Init ==
    /\ table = [e \in Tables |-> IF e \in Static THEN [state |-> "present", count |-> 0]
                                 ELSE IF Len(e) = 1 \/ Parent(e) \in Static THEN Empty ELSE Garbage]
    /\ pte = [p \in Pages |-> IF Parent(p) \in Static THEN "empty" ELSE "garbage"]
    /\ cpu = [c \in Cpus |-> Idle]
    /\ stale = {}

Next_(c) == First(Last(cpu[c].todo))
Go(c, at) == cpu' = [cpu EXCEPT ![c].at = at]

\* The visit of the next entry is over, whatever it found.
Popped(walk) == [walk EXCEPT !.at = "walk", !.todo[Len(walk.todo)] = @ \ {First(@)}]
Skip(c) == cpu' = [cpu EXCEPT ![c] = Popped(@)]

\* A guard on e: the walk goes on in its table.
Descend(c, e) ==
    cpu' = [cpu EXCEPT ![c].guard = e, ![c].todo = Append(@, OnWay(e, cpu[c].pages)), ![c].at = "walk"]

(***************************************************************************)
(* The operations.  A range is only unmapped; the other operations are on  *)
(* one page.  User memory is modified by one CPU per page at a time        *)
(* (mapping lock), and the callers of map_page and unmap_page own the page.*)
(***************************************************************************)
Busy == UNION {cpu[c].pages : c \in Cpus}
Begin(c, op, pages) ==
    /\ pages \cap Busy = {}
    /\ cpu' = [cpu EXCEPT ![c] =
            [op |-> op, pages |-> pages, guard |-> Root, todo |-> <<OnWay(Root, pages)>>, at |-> "walk"]]
    /\ UNCHANGED <<table, pte, stale>>

Mapped(p) == pte[p] \in {"ro", "rw"}
SetPage(c) == \E p \in UserPages : Begin(c, "set", {p})
MapPage(c) == \E p \in Pages \ UserPages : ~Mapped(p) /\ Begin(c, "map", {p})
UnmapPage(c) == \E p \in Pages \ UserPages : Mapped(p) /\ Begin(c, "unmap", {p})
EntryForPage(c) == \E p \in Pages : Begin(c, "lookup", {p})
Precedes(p, q) ==
    p = q \/ \E i \in 1 .. Depth : p[i] < q[i] /\ \A j \in 1 .. i - 1 : p[j] = q[j]
TryUnmapUserPages(c) ==
    \E p, q \in UserPages :
        Precedes(p, q) /\ Begin(c, "try_unmap", {x \in UserPages : Precedes(p, x) /\ Precedes(x, q)})

Creates(c) == cpu[c].op \in {"set", "map"}

(***************************************************************************)
(* Guards.                                                                 *)
(***************************************************************************)
Holds(c, at) == cpu[c].op # "idle" /\ cpu[c].at = at
AtTable(c) == Holds(c, "walk") /\ Last(cpu[c].todo) # {} /\ Next_(c) \in Tables

\* acquire_reference_count and increase_reference_count of a present entry;
\* both spin while the entry is being initialised.
Counted(e, n) == IF e \in Static THEN table ELSE [table EXCEPT ![e].count = @ + n]
Acquire(c) ==
    LET e == Next_(c)
    IN  /\ AtTable(c) /\ table[e].state = "present"
        /\ table' = Counted(e, 1)
        /\ Descend(c, e)
        /\ UNCHANGED <<pte, stale>>

\* acquire_existing without a table: a lookup ends, an unmapping goes on.
AcquireNone(c) ==
    /\ AtTable(c) /\ ~Creates(c) /\ table[Next_(c)].state = "empty"
    /\ Skip(c)
    /\ UNCHANGED <<table, pte, stale>>

\* acquire without a table: the CPU that sets INITIALIZING builds it.
StartInitialize(c) ==
    LET e == Next_(c)
    IN  /\ AtTable(c) /\ Creates(c) /\ table[e].state = "empty"
        /\ table' = [table EXCEPT ![e].state = "initializing"]
        /\ Go(c, "store")
        /\ UNCHANGED <<pte, stale>>

\* flush: INVLPGB returns when no CPU caches a translation of e's table from
\* before.
Flush(e) == stale' = stale \ {e}

\* The new frame is stored, still INITIALIZING, and its page flushed: a CPU
\* that freed the table before may not have come to its own flush.
StoreTable(c) ==
    /\ Holds(c, "store")
    /\ Flush(Next_(c))
    /\ Go(c, "zero")
    /\ UNCHANGED <<table, pte>>

\* The new table is zeroed, through its recursive mapping.
ZeroTable(c) ==
    LET e == Next_(c)
    IN  /\ Holds(c, "zero")
        /\ table' = [x \in Tables |-> IF x \in Entries(e) THEN Empty ELSE table[x]]
        /\ pte' = [p \in Pages |-> IF p \in Entries(e) THEN "empty" ELSE pte[p]]
        /\ Go(c, "publish")
        /\ UNCHANGED stale

\* Only then is INITIALIZING cleared.
PublishTable(c) ==
    LET e == Next_(c)
    IN  /\ Holds(c, "publish")
        /\ table' = [table EXCEPT ![e] = [state |-> "present", count |-> 0]]
        /\ IF Len(e) > 1 THEN Go(c, "count") ELSE Descend(c, e)
        /\ UNCHANGED <<pte, stale>>

\* A new table is one more entry in use of the table above.
CountTable(c) ==
    LET e == Next_(c)
    IN  /\ Holds(c, "count")
        /\ table' = Counted(Parent(e), 1)
        /\ Descend(c, e)
        /\ UNCHANGED <<pte, stale>>

(***************************************************************************)
(* Level 1 entries.                                                        *)
(***************************************************************************)
Written(op) == IF op \in {"set", "map"} THEN "rw" ELSE "empty"
VisitPage(c) ==
    LET p == Next_(c) op == cpu[c].op
    IN  /\ Holds(c, "walk") /\ Last(cpu[c].todo) # {} /\ p \in Pages
        /\ IF op = "lookup" THEN Skip(c) /\ UNCHANGED pte
           ELSE /\ pte' = [pte EXCEPT ![p] = Written(op)]
                /\ IF Creates(c) = Mapped(p) THEN Skip(c) ELSE Go(c, "reference")
        /\ UNCHANGED <<table, stale>>

\* The reference the page has on its table.
Reference(c) ==
    /\ Holds(c, "reference")
    /\ table' = Counted(Parent(Next_(c)), IF Creates(c) THEN 1 ELSE -1)
    /\ Skip(c)
    /\ UNCHANGED <<pte, stale>>

(***************************************************************************)
(* Dropping a guard.                                                       *)
(***************************************************************************)
\* The walk after the guard on e is gone.
Left(walk) == Popped([walk EXCEPT !.guard = Parent(@), !.todo = Front(@)])

\* release_reference_count would go below the stored zero.
LastReferenceEarly(e) == e \notin Static /\ table[e].count <= 1
LastReference(e) == e \notin Static /\ table[e].count = 0

\* The last reference makes the entry 0; what the table holds is lost, and
\* CPUs may still cache where it was.
DropGuard(c) ==
    LET e == cpu[c].guard
        last == LastReference(e)
    IN  /\ Holds(c, "walk") /\ Last(cpu[c].todo) = {} /\ e # Root
        /\ table' = IF ~last THEN Counted(e, -1)
                    ELSE [x \in Tables |-> IF x = e THEN Empty
                                           ELSE IF x \in Entries(e) THEN Garbage ELSE table[x]]
        /\ pte' = [p \in Pages |-> IF last /\ p \in Entries(e) THEN "garbage" ELSE pte[p]]
        /\ IF last THEN Go(c, "flush") /\ stale' = stale \cup {e}
           ELSE cpu' = [cpu EXCEPT ![c] = Left(@)] /\ UNCHANGED stale

\* Its page is flushed; meanwhile another CPU may build a new table there.
FlushFreed(c) ==
    /\ Holds(c, "flush")
    /\ Flush(cpu[c].guard)
    /\ Go(c, "release")
    /\ UNCHANGED <<table, pte>>

\* The frame is deallocated and the table above has one entry less in use.
ReleaseParent(c) ==
    LET e == cpu[c].guard
    IN  /\ Holds(c, "release")
        /\ table' = IF Len(e) > 1 THEN Counted(Parent(e), -1) ELSE table
        /\ cpu' = [cpu EXCEPT ![c] = Left(@)]
        /\ UNCHANGED <<pte, stale>>

Finish(c) ==
    /\ Holds(c, "walk") /\ cpu[c].guard = Root /\ Last(cpu[c].todo) = {}
    /\ cpu' = [cpu EXCEPT ![c] = Idle]
    /\ UNCHANGED <<table, pte, stale>>

\* freeze_userspace: no walk over user pages is in progress (update_lock).
FreezeUserspace ==
    /\ Busy \cap UserPages = {}
    /\ pte' = [p \in Pages |-> IF p \in UserPages /\ pte[p] = "rw" THEN "ro" ELSE pte[p]]
    /\ UNCHANGED <<table, cpu, stale>>

Next ==
    \/ \E c \in Cpus :
        \/ /\ cpu[c] = Idle
           /\ SetPage(c) \/ MapPage(c) \/ UnmapPage(c) \/ EntryForPage(c) \/ TryUnmapUserPages(c)
        \/ Acquire(c) \/ AcquireNone(c) \/ StartInitialize(c) \/ StoreTable(c) \/ ZeroTable(c)
        \/ PublishTable(c) \/ CountTable(c) \/ VisitPage(c) \/ Reference(c) \/ DropGuard(c)
        \/ FlushFreed(c) \/ ReleaseParent(c) \/ Finish(c)
    \/ FreezeUserspace

Spec == Init /\ [][Next]_vars

-------------------------------------------------------------------------------
TypeOK ==
    /\ table \in [Tables -> [state : {"empty", "initializing", "present", "garbage"}, count : Nat]]
    /\ pte \in [Pages -> {"empty", "ro", "rw", "garbage"}]
    /\ stale \subseteq Tables

\* References to a table: guards, entries in use, and what a CPU has changed
\* without having counted it yet.
Freeing(c) == Holds(c, "flush") \/ Holds(c, "release")
Guards(e) == {c \in Cpus : \/ IsPrefix(e, cpu[c].guard) /\ ~(Freeing(c) /\ cpu[c].guard = e)
                           \/ Holds(c, "count") /\ Next_(c) = e}
InUse(e) == {x \in Entries(e) : IF x \in Pages THEN Mapped(x) ELSE table[x].state = "present"}
Early(e) == {c \in Cpus : \/ Holds(c, "count") /\ Parent(Next_(c)) = e
                          \/ Holds(c, "reference") /\ Creates(c) /\ cpu[c].guard = e}
Late(e) == {c \in Cpus : \/ Freeing(c) /\ Parent(cpu[c].guard) = e
                         \/ Holds(c, "reference") /\ ~Creates(c) /\ cpu[c].guard = e}

\* The reference count of a table is exact, whatever the CPUs in its subtree
\* do at the same time.  So a table is freed with its last user, never before
\* (the assertions that a release frees nothing) and never left behind.
ReferencesExact ==
    \A e \in Tables \ Static :
        table[e].state = "present" =>
            table[e].count + 1 = Cardinality(Guards(e)) + Cardinality(InUse(e))
                                    + Cardinality(Late(e)) - Cardinality(Early(e))

\* A walk only meets zeroed tables: the tables it holds guards on are present,
\* and an entry of a present table was written since the table was allocated.
WalksSound ==
    /\ \A e \in Tables : Guards(e) # {} => table[e].state = "present"
    /\ \A e \in Tables : table[e].state = "present" =>
            \A x \in Entries(e) : IF x \in Pages THEN pte[x] # "garbage" ELSE table[x] # Garbage
    /\ \A p \in Pages : Mapped(p) => table[Parent(p)].state = "present"

\* No access goes to a freed table: whoever walks in a table, or zeroes it, can
\* have no translation of it from before, although a table is built again while
\* the CPU that freed the one before has not flushed yet.
NoStaleAccess ==
    \A e \in stale :
        Guards(e) = {} /\ ~\E c \in Cpus : (Holds(c, "zero") \/ Holds(c, "publish")) /\ Next_(c) = e
===============================================================================
