------------------------------- MODULE FdTable -------------------------------
(***************************************************************************)
(* Descriptor tables (fs/fd.rs) and the system calls that change them       *)
(* (user/process/syscall.rs). Threads share a table or have their own. A    *)
(* system call reads the limit when it starts, locks the table for one      *)
(* operation at a time and makes up to three of them.                       *)
(***************************************************************************)
EXTENDS Integers, Sequences, SequencesExt, FiniteSetsExt

CONSTANTS Thread, Nobody,
          Nums,       \* descriptor numbers that calls name
          Limits      \* values of RLIMIT_NOFILE

VARIABLES table,      \* the tables: number -> is it closed on execve
          uses,       \* the table of each thread, Nobody's after it exited
          limit,
          call        \* the system call of each thread

vars == <<table, uses, limit, call>>

NoCall == [pc |-> "none"]
Empty == [n \in {} |-> 0]

Put(f, n, entry) == [k \in DOMAIN f \cup {n} |-> IF k = n THEN entry ELSE f[k]]
Without(f, ns) == [k \in DOMAIN f \ ns |-> f[k]]
Files(t) == table[uses[t]]

\* All threads start with one table: the three standard descriptors.
with_standard_io == [n \in 0..2 |-> FALSE]

Init ==
    /\ \E first \in Thread :
          /\ uses = [t \in Thread |-> first]
          /\ table = [t \in Thread |-> IF t = first THEN with_standard_io ELSE Empty]
    /\ limit = Max(Limits)
    /\ call = [t \in Thread |-> NoCall]

-----------------------------------------------------------------------------
Mfile == -1
Inval == -2

\* Comparing with <= takes a number that is in use.
FirstGapInclusive(keys, min, lim) ==
    LET z == {i \in 1..Len(keys) : i <= lim - min}
        gaps == {i \in z : min + i - 1 <= keys[i]}
    IN IF gaps # {} THEN min + Min(gaps) - 1
       ELSE IF Len(keys) < lim - min THEN min + Len(keys) ELSE Mfile

\* The keys from min on are zipped with the numbers from min on: the first
\* number that is less than its key is free, else the one after the keys.
FirstGap(keys, min, lim) ==
    LET z == {i \in 1..Len(keys) : i <= lim - min}
        gaps == {i \in z : min + i - 1 < keys[i]}
    IN IF gaps # {} THEN min + Min(gaps) - 1
       ELSE IF Len(keys) < lim - min THEN min + Len(keys) ELSE Mfile

find_free_fd_num(f, min, lim) ==
    IF min >= lim THEN Inval
    ELSE LET from == IF min < 0 THEN 0 ELSE min
         IN FirstGap(SetToSortSeq({n \in DOMAIN f : n >= from}, <), from, lim)

\* insert_after: the table after the call, unchanged when it fails.
Inserted(f, min, entry, lim) ==
    LET n == find_free_fd_num(f, min, lim)
    IN IF n < 0 THEN f ELSE Put(f, n, entry)

SetTable(t, f) == table' = [table EXCEPT ![uses[t]] = f]
Ready(t) == uses[t] # Nobody /\ call[t] = NoCall

\* Bound: of the calls that take several steps, only those on one table overlap.
Starts(t) == Ready(t) /\ \A u \in Thread : call[u] = NoCall \/ uses[u] = uses[t]
Goes(t, c) == call' = [call EXCEPT ![t] = c]

-----------------------------------------------------------------------------
\* A call that has its limit, and if it copies a descriptor found that one, and
\* goes on to insert a descriptor from min on.
Inserting(t, min, cloexec) ==
    /\ Goes(t, [pc |-> "insert", min |-> min, cloexec |-> cloexec, lim |-> limit])
    /\ UNCHANGED <<table, uses, limit>>

\* openat, eventfd, epoll_create1: a new description.
Open(t, cloexec) == Starts(t) /\ Inserting(t, 0, cloexec)

Dup(t, n) == Starts(t) /\ n \in DOMAIN Files(t) /\ Inserting(t, 0, FALSE)

Insert(t) ==
    /\ call[t].pc = "insert"
    /\ SetTable(t, Inserted(Files(t), call[t].min, call[t].cloexec, call[t].lim))
    /\ Goes(t, NoCall)
    /\ UNCHANGED <<uses, limit>>

Close(t, n) ==
    /\ Ready(t) /\ n \in DOMAIN Files(t)
    /\ SetTable(t, Without(Files(t), {n}))
    /\ UNCHANGED <<uses, limit, call>>

\* A number that is not below the limit is refused.
Replacing(t, to, cloexec) ==
    /\ to < limit
    /\ Goes(t, [pc |-> "replace", to |-> to, cloexec |-> cloexec])
    /\ UNCHANGED <<table, uses, limit>>

Dup2(t, n, to) ==
    /\ Starts(t) /\ to >= 0 /\ n \in DOMAIN Files(t) /\ n # to
    /\ Replacing(t, to, FALSE)

Dup3(t, n, to, cloexec) ==
    /\ Starts(t) /\ n # to /\ n \in DOMAIN Files(t)
    /\ Replacing(t, to, cloexec)

\* replace: whatever was there is closed.
Replace(t) ==
    /\ call[t].pc = "replace"
    /\ SetTable(t, Put(Files(t), call[t].to, call[t].cloexec))
    /\ Goes(t, NoCall)
    /\ UNCHANGED <<uses, limit>>

\* fcntl and fcntl64: F_DUPFD, F_DUPFD_CLOEXEC, F_SETFD.
Fcntl(t, n) ==
    /\ Starts(t) /\ n \in DOMAIN Files(t)
    /\ \E cloexec \in BOOLEAN :
          \/ \E min \in Nums : min >= 0 /\ Inserting(t, min, cloexec)
          \/ /\ Goes(t, [pc |-> "flags", num |-> n, cloexec |-> cloexec])
             /\ UNCHANGED <<table, uses, limit>>

\* set_flags: fails if the number was closed meanwhile.
SetFlags(t) ==
    /\ call[t].pc = "flags"
    /\ IF call[t].num \in DOMAIN Files(t)
       THEN SetTable(t, Put(Files(t), call[t].num, call[t].cloexec))
       ELSE UNCHANGED table
    /\ Goes(t, NoCall)
    /\ UNCHANGED <<uses, limit>>

\* pipe2 and socketpair: insert one half, then the other; if that fails, close
\* the number the first one got. socketpair tries the second half even when
\* the first one failed.
PairStart(t, name, cloexec) ==
    /\ Starts(t)
    /\ Goes(t, [pc |-> "first", name |-> name, cloexec |-> cloexec, lim |-> limit])
    /\ UNCHANGED <<table, uses, limit>>

PairFirst(t) ==
    /\ call[t].pc = "first"
    /\ LET n == find_free_fd_num(Files(t), 0, call[t].lim)
       IN /\ SetTable(t, Inserted(Files(t), 0, call[t].cloexec, call[t].lim))
          /\ Goes(t, IF n < 0 /\ call[t].name = "pipe2" THEN NoCall
                     ELSE [pc |-> "second", first |-> n, cloexec |-> call[t].cloexec,
                           lim |-> call[t].lim])
    /\ UNCHANGED <<uses, limit>>

PairSecond(t) ==
    /\ call[t].pc = "second"
    /\ LET n == find_free_fd_num(Files(t), 0, call[t].lim)
       IN /\ SetTable(t, Inserted(Files(t), 0, call[t].cloexec, call[t].lim))
          /\ Goes(t, IF n < 0 /\ call[t].first < 0 THEN NoCall
                     ELSE IF n >= 0 /\ call[t].first >= 0 THEN NoCall
                     ELSE [pc |-> "undo", num |-> IF n < 0 THEN call[t].first ELSE n])
    /\ UNCHANGED <<uses, limit>>

PairUndo(t) ==
    /\ call[t].pc = "undo"
    /\ SetTable(t, Without(Files(t), {call[t].num}))
    /\ Goes(t, NoCall)
    /\ UNCHANGED <<uses, limit>>

-----------------------------------------------------------------------------
prepare_for_execve(f) == Without(f, {n \in DOMAIN f : f[n]})

\* t goes over to table tab with the descriptors f; the table it leaves goes
\* away with its last user.
Moves(t, tab, f) ==
    /\ uses' = [uses EXCEPT ![t] = tab]
    /\ table' = [k \in Thread |-> IF k = tab THEN f
                                  ELSE IF \E u \in Thread : uses'[u] = k THEN table[k] ELSE Empty]
    /\ UNCHANGED <<limit, call>>

OwnTable(t, f) ==
    LET free == {tab \in Thread : \A u \in Thread \ {t} : uses[u] # tab}
    IN \E tab \in IF uses[t] \in free THEN {uses[t]} ELSE free : Moves(t, tab, f)

\* A new thread, without and with CLONE_FILES.
Clone(t, parent) == uses[t] = Nobody /\ Ready(parent) /\ OwnTable(t, Files(parent))
CloneFiles(t, parent) == uses[t] = Nobody /\ Ready(parent) /\ Moves(t, uses[parent], Files(parent))
Execve(t) == Ready(t) /\ OwnTable(t, prepare_for_execve(Files(t)))
Exit(t) == Ready(t) /\ Moves(t, Nobody, Empty)

Prlimit ==
    /\ limit' \in Limits
    /\ UNCHANGED <<table, uses, call>>

Next ==
    \/ \E t \in Thread :
          \/ \E cloexec \in BOOLEAN : Open(t, cloexec)
          \/ \E n \in Nums : Close(t, n) \/ Dup(t, n) \/ Fcntl(t, n)
          \/ \E n, to \in Nums : Dup2(t, n, to) \/ \E c \in BOOLEAN : Dup3(t, n, to, c)
          \/ \E name \in {"pipe2", "socketpair"}, c \in BOOLEAN : PairStart(t, name, c)
          \/ Insert(t) \/ Replace(t) \/ SetFlags(t)
          \/ PairFirst(t) \/ PairSecond(t) \/ PairUndo(t)
          \/ \E u \in Thread : Clone(t, u) \/ CloneFiles(t, u)
          \/ Execve(t) \/ Exit(t)
    \/ Prlimit

Spec == Init /\ [][Next]_vars

-----------------------------------------------------------------------------
TypeOK ==
    /\ \A t \in Thread : uses[t] \in Thread \cup {Nobody}
    /\ \A t \in Thread : \A n \in DOMAIN table[t] : table[t][n] \in BOOLEAN

\* The lowest number that is free, from min on and below lim.
Lowest(f, min, lim) ==
    {n \in min..(lim - 1) : n \notin DOMAIN f /\ \A k \in min..(n - 1) : k \in DOMAIN f}

\* open, dup, pipe2 and socketpair (from 0 on) and F_DUPFD (from its argument on) take the
\* lowest free number and never one that is in use; they fail exactly when there is none
\* below the limit they found.
LowestFree ==
    \A k \in Thread, min \in {0} \cup {n \in Nums : n >= 0}, lim \in Limits :
        LET n == find_free_fd_num(table[k], min, lim)
        IN IF n < 0 THEN Lowest(table[k], min, lim) = {} ELSE Lowest(table[k], min, lim) = {n}
=============================================================================
