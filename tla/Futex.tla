------------------------------- MODULE Futex -------------------------------
(***************************************************************************)
(* Futexes of a process: threads that wait for a word in memory to change  *)
(* and threads that change it and wake them.                               *)
(*                                                                         *)
(* A waiter compares the word before and after it takes the lock of the    *)
(* table, and leaves the sending half of a oneshot channel in the table.   *)
(* The lock makes each of wait's registration and wake one step; the word  *)
(* itself is user memory and changes at any time.                          *)
(***************************************************************************)
EXTENDS Naturals, Sequences, FiniteSets

CONSTANTS Thread,   \* the threads that share the word
          Value,    \* the values of the word; 0 is what an exit leaves
          Bitset,   \* the sets of bits, with None for an operation without
          None,
          MaxList   \* bound: entries of the table, those given up included

FutexAssumption == Value \subseteq Nat /\ 0 \in Value /\ MaxList \in Nat
ASSUME FutexConstants == FutexAssumption

VARIABLES word,     \* the value in memory
          list,     \* the waiters in the table, oldest first
          pc,       \* thread -> what it is doing
          val       \* thread -> the value it expects
futexVars == <<word, list, pc, val>>

FutexInit ==
  /\ word \in Value
  /\ list = <<>>
  /\ pc = [t \in Thread |-> "user"]
  /\ val = [t \in Thread |-> 0]

Goto(t, label) == pc' = [pc EXCEPT ![t] = label]

--------------------------------------------------------------------------
(* wait *)

(* The value is compared without the lock first. *)
wait(t, v) ==
  /\ pc[t] = "user" /\ word = v
  /\ Goto(t, "compared")
  /\ val' = [val EXCEPT ![t] = v]
  /\ UNCHANGED <<word, list>>

(* Mutant: the comparison under the lock is dropped. *)
ComparedOnce(t) == TRUE

(* ... and again under the lock. *)
StillEqual(t) == word = val[t]

Entry(t, bits) == [thread |-> t, bits |-> bits, open |-> TRUE]

wait_push(t, bits) ==
  /\ pc[t] = "compared" /\ Len(list) < MaxList
  /\ IF StillEqual(t)
     THEN Goto(t, "asleep") /\ list' = Append(list, Entry(t, bits))
     ELSE Goto(t, "user") /\ UNCHANGED list                        \* EAGAIN
  /\ UNCHANGED <<word, val>>

(* The value was sent: the call succeeds. *)
wait_recv(t) ==
  /\ pc[t] = "woken"
  /\ Goto(t, "user")
  /\ UNCHANGED <<word, list, val>>

(* The deadline of FUTEX_WAIT_BITSET has passed when the task is polled    *)
(* and the channel is still empty; dropping the receiver then closes it.   *)
wait_timeout(t) ==
  /\ pc[t] = "asleep"
  /\ Goto(t, "timedOut")
  /\ UNCHANGED <<word, list, val>>

Closed(t) == [i \in DOMAIN list |-> IF list[i].thread = t
                                   THEN [list[i] EXCEPT !.open = FALSE] ELSE list[i]]

wait_drop(t) ==
  /\ pc[t] = "timedOut"
  /\ list' = Closed(t)
  /\ Goto(t, "user")
  /\ UNCHANGED <<word, val>>

(* A signal interrupts the call before the channel is polled again. *)
interruptable(t) ==
  /\ pc[t] \in {"asleep", "woken"}
  /\ list' = Closed(t)
  /\ Goto(t, "user")
  /\ UNCHANGED <<word, val>>

--------------------------------------------------------------------------
(* wake *)

matches_bitset(e, bits) ==
  e.bits = None \/ bits = None \/ e.bits \cap bits # {}

(* A thread that has given up is skipped. *)
Counts(e) == e.open

(* The entries that wake removes: up to the n-th that could be sent to. *)
Taken(n, bits) ==
  {i \in DOMAIN list :
     /\ matches_bitset(list[i], bits)
     /\ Cardinality({j \in 1..(i - 1) : matches_bitset(list[j], bits) /\ Counts(list[j])}) < n}

(* The entries at these places, in their order. *)
Rank(places, i) == Cardinality({j \in places : j <= i})
Nth(places, k) == CHOOSE i \in places : Rank(places, i) = k
EntriesAt(places) == [k \in 1..Cardinality(places) |-> list[Nth(places, k)]]

(* The caller t goes on at label. *)
wake(t, n, bits, label) ==
  LET taken == Taken(n, bits)
      woken == {list[i].thread : i \in {j \in taken : list[j].open}}
  IN /\ list' = EntriesAt(DOMAIN list \ taken)
     /\ pc' = [u \in Thread |->
                 IF u = t THEN label
                 ELSE IF u \in woken /\ pc[u] = "asleep" THEN "woken" ELSE pc[u]]

All == MaxList + 1

(* FUTEX_WAKE and FUTEX_WAKE_BITSET *)
futex_wake(t, n, bits) ==
  /\ pc[t] = "user"
  /\ wake(t, n, bits, "user")
  /\ UNCHANGED <<word, val>>

(* What programs do: change the word, then wake everyone. *)
Store(t, v) ==
  /\ pc[t] = "user" /\ word # v
  /\ word' = v
  /\ Goto(t, "stored")
  /\ UNCHANGED <<list, val>>

WakeAll(t) ==
  /\ pc[t] = "stored"
  /\ wake(t, All, None, "user")
  /\ UNCHANGED <<word, val>>

(* do_exit clears the word that set_tid_address named and wakes one thread *)
(* that joins this one.                                                    *)
do_exit(t) ==
  /\ pc[t] = "user"
  /\ word' = 0
  /\ Goto(t, "exiting")
  /\ UNCHANGED <<list, val>>

do_exit_wake(t) ==
  /\ pc[t] = "exiting"
  /\ wake(t, 1, None, "gone")
  /\ UNCHANGED <<word, val>>

FutexNext ==
  \E t \in Thread :
    \/ \E v \in Value : wait(t, v) \/ Store(t, v)
    \/ \E bits \in Bitset : wait_push(t, bits) \/ \E n \in 0..1 : futex_wake(t, n, bits)
    \/ wait_recv(t) \/ wait_timeout(t) \/ wait_drop(t) \/ interruptable(t)
    \/ WakeAll(t) \/ do_exit(t) \/ do_exit_wake(t)

FutexSpec == FutexInit /\ [][FutexNext]_futexVars

--------------------------------------------------------------------------
(* Type correctness. *)
FutexTypeOK ==
  /\ word \in Value
  /\ \A i \in DOMAIN list : list[i] \in [thread : Thread, bits : Bitset, open : BOOLEAN]
  /\ val \in [Thread -> Value]

(* A thread that has given up keeps no open entry, and a sleeping one has  *)
(* exactly one: nobody sleeps who cannot be woken, and nobody is woken for *)
(* a call that has returned.                                               *)
EntriesMatch ==
  \A t \in Thread :
    Cardinality({i \in DOMAIN list : list[i].thread = t /\ list[i].open})
      \in (IF pc[t] = "asleep" THEN {1} ELSE IF pc[t] = "timedOut" THEN {0, 1} ELSE {0})

(* A thread does not sleep on a value that is no longer there, unless the  *)
(* thread that changed it has yet to wake the sleepers, or an exit that    *)
(* wakes only one of them changed it.                                      *)
NoLostChange ==
  \A t \in Thread : pc[t] = "asleep" /\ val[t] # word =>
    \E u \in Thread : pc[u] \in {"stored", "exiting", "gone"}

FutexSound == EntriesMatch /\ NoLostChange

(* Futexes (futex.rs): no waiter misses a change of the word, and the table *)
(* holds those that wait.                                                  *)
WaitersWoken == FutexTypeOK /\ FutexSound
=============================================================================
