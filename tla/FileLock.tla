------------------------------ MODULE FileLock ------------------------------
(***************************************************************************)
(* flock (fs/fd.rs, user/process/syscall.rs): the open descriptions of a    *)
(* file share a record with a counter (-1 for an exclusive lock, else the   *)
(* number of shared ones); each remembers in its state what it holds.       *)
(* Threads, possibly with the same description, lock and unlock.            *)
(***************************************************************************)
EXTENDS Integers, FiniteSets

CONSTANTS Locker, Opened

VARIABLES locks, lockState,
          guard,    \* the thread that holds the mutex of a description's state
          lockArmed, locker

lockVars == <<locks, lockState, guard, lockArmed, locker>>

NoThread == "no thread"
NotLocking == [pc |-> "idle"]

LockAssumption == IsFiniteSet(Opened) /\ NoThread \notin Locker
ASSUME LockConstants == LockAssumption

LockInit ==
    /\ locks = 0
    /\ lockState = [d \in Opened |-> "unlocked"]
    /\ guard = [d \in Opened |-> NoThread]
    /\ lockArmed = {}
    /\ locker = [t \in Locker |-> NotLocking]

LockGoto(t, pc) == locker' = [locker EXCEPT ![t].pc = pc]

\* flock: the thread waits for the notification only if it asked not to block.
Flock(t) ==
    /\ locker[t] = NotLocking
    /\ \E d \in Opened, op \in {"shared", "exclusive", "unlocked"}, nb \in BOOLEAN :
          /\ op = "unlocked" => ~nb
          /\ locker' = [locker EXCEPT ![t] = [pc |-> "start", d |-> d, op |-> op, wait |-> nb]]
    /\ UNCHANGED <<locks, lockState, guard, lockArmed>>

\* The wait starts before the lock is tried.
Start(t) ==
    /\ locker[t].pc = "start" /\ guard[locker[t].d] = NoThread
    /\ guard' = [guard EXCEPT ![locker[t].d] = t]
    /\ lockArmed' = IF locker[t].wait THEN lockArmed \cup {t} ELSE lockArmed
    /\ LockGoto(t, "release")
    /\ UNCHANGED <<locks, lockState>>

\* unlock_internal: the description gives up what it holds.
Unlock(t) ==
    LET d == locker[t].d
    IN /\ locker[t].pc = "release"
       /\ lockState' = [lockState EXCEPT ![d] = "unlocked"]
       /\ locks' = IF lockState[d] = "shared" THEN locks - 1
                     ELSE IF lockState[d] = "exclusive" THEN 0 ELSE locks
       /\ LockGoto(t, IF lockState[d] = "exclusive" \/ (lockState[d] = "shared" /\ locks = 1)
                  THEN "notify" ELSE "acquire")
       /\ UNCHANGED <<guard, lockArmed>>

\* Notifies with the last lock only; the notification follows the release.
Notify(t) ==
    /\ locker[t].pc = "notify"
    /\ lockArmed' = {}
    /\ LockGoto(t, "acquire")
    /\ UNCHANGED <<locks, lockState, guard>>

\* Locking shared without a look at the sign of the counter.
GrantedBlindly(op) == op = "shared" \/ locks = 0

Granted(op) == IF op = "shared" THEN locks >= 0 ELSE locks = 0

\* A failed attempt sleeps, or returns EAGAIN.
Acquire(t) ==
    LET d == locker[t].d
        op == locker[t].op
    IN /\ locker[t].pc = "acquire"
       /\ guard' = [guard EXCEPT ![d] = NoThread]
       /\ IF op = "unlocked" \/ Granted(op)
          THEN /\ lockState' = [lockState EXCEPT ![d] = op]
               /\ locks' = IF op = "shared" THEN locks + 1
                             ELSE IF op = "exclusive" THEN -1 ELSE locks
               /\ locker' = [locker EXCEPT ![t] = NotLocking]
               /\ lockArmed' = lockArmed \ {t}
          ELSE /\ IF locker[t].wait THEN LockGoto(t, "sleep")
                  ELSE locker' = [locker EXCEPT ![t] = NotLocking]
               /\ UNCHANGED <<locks, lockState, lockArmed>>

LockWake(t) ==
    /\ locker[t].pc = "sleep" /\ t \notin lockArmed
    /\ LockGoto(t, "start")
    /\ UNCHANGED <<locks, lockState, guard, lockArmed>>

LockInterrupt(t) ==
    /\ locker[t].pc = "sleep"
    /\ locker' = [locker EXCEPT ![t] = NotLocking]
    /\ lockArmed' = lockArmed \ {t}
    /\ UNCHANGED <<locks, lockState, guard>>

LockNext ==
    \E t \in Locker :
        Flock(t) \/ Start(t) \/ Unlock(t) \/ Notify(t) \/ Acquire(t) \/ LockWake(t) \/ LockInterrupt(t)

LockSpec == LockInit /\ [][LockNext]_lockVars

-----------------------------------------------------------------------------
LockTypeOK ==
    /\ locks \in -1..Cardinality(Opened)
    /\ \A d \in Opened : lockState[d] \in {"unlocked", "shared", "exclusive"}

Holders(op) == {d \in Opened : lockState[d] = op}

\* The counter of the record says what the descriptions hold: an exclusive
\* lock excludes every other one, and no shared lock is forgotten.
CounterHonest ==
    /\ Holders("exclusive") # {} =>
          Holders("shared") = {} /\ Cardinality(Holders("exclusive")) = 1 /\ locks = -1
    /\ Holders("exclusive") = {} => locks = Cardinality(Holders("shared"))

\* A thread that sleeps until it gets the lock is woken when it could have it.
WaiterWoken ==
    \A t \in Locker :
        locker[t].pc = "sleep" /\ t \in lockArmed /\ Granted(locker[t].op)
            => \E u \in Locker : locker[u].pc = "notify"

\* flock (fd.rs): an exclusive lock excludes all others, and a waiter is woken.
LocksExclude == LockTypeOK /\ CounterHonest /\ WaiterWoken
=============================================================================
