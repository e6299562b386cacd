------------------------------- MODULE RwLock -------------------------------
(***************************************************************************)
(* The spinning read-write lock of the workload kernel                     *)
(* (tee/kernel/src/spin/rwlock.rs).  A reader adds one to the state before *)
(* it knows whether the lock is free, so a held write lock drifts upwards  *)
(* and is set back by reload.  Each atomic operation is a step; the state  *)
(* is a signed integer of a given width.                                   *)
(***************************************************************************)
EXTENDS Integers, FiniteSets

CONSTANTS User,   \* whoever uses the lock, one guard at a time
          LIMIT   \* half the range below zero: 2^62 for the AtomicI64

ASSUME RwLockAssumption ==
  IsFiniteSet(User) /\ LIMIT \in Nat \ {0} /\ Cardinality(User) <= LIMIT

MIN == -2 * LIMIT   \* i64::MIN
RELOAD_LIMIT == -LIMIT

VARIABLES state, at, value   \* value: what reload last saw

rwVars == <<state, at, value>>
RwPC == {"idle", "reload", "exchange", "reading", "writing"}

RwInit ==
  /\ state = 0
  /\ at = [c \in User |-> "idle"]
  /\ value = [c \in User |-> 0]

AfterTryExact(v) == IF v = MIN THEN "reload" ELSE "reading"
(* try_read: where a reader that saw v goes *)
AfterTry(v) ==
  IF v >= 0 THEN "reading" ELSE IF v <= RELOAD_LIMIT THEN "reload" ELSE "idle"
TryRead(c) ==
  /\ at[c] = "idle"
  /\ state' = state + 1
  /\ at' = [at EXCEPT ![c] = AfterTry(state)]
  /\ UNCHANGED value

(* reload: load the state ... *)
ReloadLoad(c) ==
  /\ at[c] = "reload"
  /\ value' = [value EXCEPT ![c] = state]
  /\ at' = [at EXCEPT ![c] = "exchange"]
  /\ UNCHANGED state

(* ... and set it back, unless the write lock was released or is fine. *)
Exchanged(seen) == IF state = seen THEN MIN ELSE state
Exchange(c) ==
  /\ at[c] = "exchange"
  /\ \/ /\ value[c] > RELOAD_LIMIT
        /\ at' = [at EXCEPT ![c] = "idle"]
        /\ value' = [value EXCEPT ![c] = 0]
        /\ UNCHANGED state
     \/ /\ value[c] <= RELOAD_LIMIT
        /\ state' = Exchanged(value[c])
        /\ IF state = value[c]
           THEN at' = [at EXCEPT ![c] = "idle"] /\ value' = [value EXCEPT ![c] = 0]
           ELSE value' = [value EXCEPT ![c] = state] /\ UNCHANGED at

(* try_write *)
TryWrite(c) ==
  /\ at[c] = "idle" /\ state = 0
  /\ state' = MIN
  /\ at' = [at EXCEPT ![c] = "writing"]
  /\ UNCHANGED value

(* ReadRwLockGuard::drop *)
DropRead(c) ==
  /\ at[c] = "reading"
  /\ state' = state - 1
  /\ at' = [at EXCEPT ![c] = "idle"]
  /\ UNCHANGED value

(* WriteRwLockGuard::drop *)
Unlocked == 0
DropWrite(c) ==
  /\ at[c] = "writing"
  /\ state' = Unlocked
  /\ at' = [at EXCEPT ![c] = "idle"]
  /\ UNCHANGED value

RwNext == \E c \in User : \/ TryRead(c) \/ ReloadLoad(c) \/ Exchange(c) \/ TryWrite(c)
                        \/ DropRead(c) \/ DropWrite(c)
RwSpec == RwInit /\ [][RwNext]_rwVars

-----------------------------------------------------------------------------
RwTypeOK ==
  /\ state \in MIN .. Cardinality(User)
  /\ at \in [User -> RwPC] /\ value \in [User -> MIN .. Cardinality(User)]

Readers == {c \in User : at[c] = "reading"}
Writers == {c \in User : at[c] = "writing"}

(* A writer has the lock to itself, however many readers add to the state   *)
(* while it holds the lock and however late their reloads are.              *)
Exclusion == \A c, d \in User : at[c] = "writing" /\ at[d] \in {"reading", "writing"} => c = d

(* Without a writer the state counts the readers: an attempt that failed    *)
(* leaves nothing behind that would keep writers out for ever, or let one   *)
(* in too early.                                                            *)
ReadersCounted == Writers = {} => state = Cardinality(Readers)

(* The lock excludes whom it must and nobody else. *)
LockSound == RwTypeOK /\ Exclusion /\ ReadersCounted
=============================================================================
