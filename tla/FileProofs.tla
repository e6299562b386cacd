----------------------------- MODULE FileProofs -----------------------------
(***************************************************************************)
(* For any number of threads and open descriptions: flock excludes and     *)
(* wakes (FileLock). For any number of openers and buffers: the two sides  *)
(* of a named pipe meet (NamedPipe).                                       *)
(*                                                                         *)
(* An honest counter is not inductive alone. unlock_internal and the       *)
(* attempt to lock are separate steps of a thread that holds the mutex of  *)
(* the description's state (GuardHeld), so what the first leaves, nothing  *)
(* held (Released), the second still finds.                                *)
(*                                                                         *)
(* Connected needs that halves are only made by those who hold references  *)
(* to them, and that the references are just those of the openers          *)
(* (UsersMatch); and that a new buffer is none that a dying half still     *)
(* holds (BuffersMade). The assertion of make_read_half and                *)
(* make_write_half gives the rest (SoleMeansNoDying).                      *)
(***************************************************************************)
EXTENDS FileLock, NamedPipe, FiniteSetTheorems, TLAPS

(* What a description holds, where a thread holds the mutex of its state,  *)
(* and a call of flock in progress.                                        *)
Mode == {"unlocked", "shared", "exclusive"}
Inside == {"release", "notify", "acquire"}
Call == [pc : {"start", "sleep"} \cup Inside, d : Opened, op : Mode, wait : BOOLEAN]

(* The types of the record, the descriptions, their mutexes and the calls. *)
LockTypes ==
  /\ locks \in Int
  /\ lockState \in [Opened -> Mode]
  /\ guard \in [Opened -> Locker \cup {NoThread}]
  /\ locker \in [Locker -> Call \cup {NotLocking}]

(* The mutex of the state is held from the start of an attempt to its end, *)
(* and an attempt to lock begins with nothing held.                        *)
GuardHeld == \A t \in Locker : locker[t].pc \in Inside => guard[locker[t].d] = t
Released == \A t \in Locker : locker[t].pc \in {"notify", "acquire"} => lockState[locker[t].d] = "unlocked"

LockInv == LockTypes /\ GuardHeld /\ Released /\ CounterHonest /\ WaiterWoken

-----------------------------------------------------------------------------
(* A thread is either in no call or in one with its description and        *)
(* operation.                                                              *)
LEMMA CallTypes ==
  ASSUME LockInv, NEW t \in Locker
  PROVE  /\ locker[t] \in Call \cup {NotLocking}
         /\ locker[t].pc # "idle" => locker[t] \in Call /\ locker[t].d \in Opened /\ locker[t].op \in Mode
         /\ locker[t] = NotLocking => locker[t].pc = "idle"
<1>1. locker[t] \in Call \cup {NotLocking}
  BY DEF LockInv, LockTypes
<1>2. NotLocking.pc = "idle"
  BY DEF NotLocking
<1>3. locker[t] \in Call => locker[t].d \in Opened /\ locker[t].op \in Mode
  BY DEF Call
<1> QED BY <1>1, <1>2, <1>3

(* A step that moves only one thread. *)
LEMMA GotoFacts ==
  ASSUME LockInv, NEW t \in Locker, NEW to \in {"start", "sleep"} \cup Inside,
         locker[t] \in Call, LockGoto(t, to)
  PROVE  /\ locker' \in [Locker -> Call \cup {NotLocking}]
         /\ locker'[t].pc = to /\ locker'[t].d = locker[t].d /\ locker'[t].op = locker[t].op
         /\ \A u \in Locker : u # t => locker'[u] = locker[u]
<1> DEFINE r == [locker[t] EXCEPT !.pc = to]
<1>1. locker \in [Locker -> Call \cup {NotLocking}] /\ locker' = [locker EXCEPT ![t] = r]
  BY DEF LockInv, LockTypes, LockGoto
<1>2. r \in Call /\ r.pc = to /\ r.d = locker[t].d /\ r.op = locker[t].op
  BY DEF Call
<1> HIDE DEF r
<1>3. locker'[t] = r
  BY <1>1
<1> QED BY <1>1, <1>2, <1>3

(* The holders of a kind of lock are finitely many, no more than there are *)
(* descriptions.                                                           *)
LEMMA HolderCounts ==
  ASSUME LockAssumption, NEW op
  PROVE  /\ IsFiniteSet(Holders(op)) /\ Cardinality(Holders(op)) \in Nat
         /\ Cardinality(Holders(op)) <= Cardinality(Opened) /\ Cardinality(Opened) \in Nat
         /\ Cardinality({}) = 0
         /\ Cardinality(Holders(op)) = 0 <=> Holders(op) = {}
<1>1. Holders(op) \in SUBSET Opened
  BY DEF Holders
<1> QED BY <1>1, FS_Subset, FS_CardinalityType, FS_EmptySet DEF LockAssumption

(* unlock_internal keeps the counter honest. *)
LEMMA UnlockCounts ==
  ASSUME LockAssumption, LockInv, NEW t \in Locker, Unlock(t)
  PROVE  /\ CounterHonest' /\ locks' \in Int /\ lockState' \in [Opened -> Mode]
         /\ lockState'[locker[t].d] = "unlocked"
         /\ \A op \in Mode : Granted(op)' =>
              Granted(op) \/ locker'[t].pc = "notify"
<1> DEFINE d == locker[t].d
           S == Holders("shared")
           E == Holders("exclusive")
<1>1. /\ locker[t].pc = "release" /\ locker[t] \in Call /\ d \in Opened
      /\ lockState \in [Opened -> Mode] /\ locks \in Int
      /\ lockState' = [lockState EXCEPT ![d] = "unlocked"]
      /\ locks' = IF lockState[d] = "shared" THEN locks - 1
                    ELSE IF lockState[d] = "exclusive" THEN 0 ELSE locks
      /\ LockGoto(t, IF lockState[d] = "exclusive" \/ (lockState[d] = "shared" /\ locks = 1)
                  THEN "notify" ELSE "acquire")
  BY CallTypes DEF Unlock, LockInv, LockTypes
<1>2. /\ IsFiniteSet(S) /\ Cardinality(S) \in Nat /\ (Cardinality(S) = 0 <=> S = {})
      /\ IsFiniteSet(E) /\ Cardinality(E) \in Nat /\ (Cardinality(E) = 0 <=> E = {})
      /\ Cardinality({}) = 0
  BY HolderCounts
<1>3. /\ E # {} => S = {} /\ Cardinality(E) = 1 /\ locks = -1
      /\ E = {} => locks = Cardinality(S)
  BY DEF LockInv, CounterHonest
<1>4. S' = S \ {d} /\ E' = E \ {d} /\ (d \in S <=> lockState[d] = "shared") /\ (d \in E <=> lockState[d] = "exclusive")
  BY <1>1 DEF Holders
<1>5. lockState'[d] = "unlocked" /\ lockState' \in [Opened -> Mode] /\ locks' \in Int
  BY <1>1 DEF Mode
<1>t. locker'[t].pc = IF lockState[d] = "exclusive" \/ (lockState[d] = "shared" /\ locks = 1)
                  THEN "notify" ELSE "acquire"
  BY <1>1, GotoFacts DEF Inside
<1> DEFINE res == /\ (E' # {} => S' = {} /\ Cardinality(E') = 1 /\ locks' = -1)
                  /\ (E' = {} => locks' = Cardinality(S'))
                  /\ \A op \in Mode : Granted(op)' => Granted(op) \/ locker'[t].pc = "notify"
<1> SUFFICES res
  BY <1>5 DEF CounterHonest
<1>6. CASE lockState[d] = "shared"
  <2>1. E = {} /\ d \in S /\ E' = {}
    BY <1>3, <1>4, <1>6
  <2>2. Cardinality(S') = Cardinality(S) - 1
    BY <1>2, <1>4, <2>1, FS_RemoveElement
  <2>3. locks' = Cardinality(S') /\ locks > 0
    BY <1>1, <1>2, <1>3, <1>6, <2>1, <2>2
  <2>4. \A op \in Mode : Granted(op)' => Granted(op) \/ locker'[t].pc = "notify"
    BY <1>1, <1>t, <1>6, <2>3 DEF Granted
  <2> QED BY <2>1, <2>3, <2>4
<1>7. CASE lockState[d] = "exclusive"
  <2>1. d \in E /\ S = {} /\ Cardinality(E) = 1
    BY <1>3, <1>4, <1>7
  <2>a. /\ IsFiniteSet(E \ {d}) /\ Cardinality(E \ {d}) = Cardinality(E) - 1
    BY <1>2, <2>1, FS_RemoveElement
  <2>2. Cardinality(E \ {d}) = 0 /\ IsFiniteSet(E \ {d})
    BY <2>1, <2>a
  <2>3. E' = {} /\ S' = {}
    BY <1>4, <2>1, <2>2, FS_EmptySet
  <2> QED BY <1>1, <1>2, <1>t, <1>7, <2>3
<1>8. CASE lockState[d] = "unlocked"
  <2>1. S' = S /\ E' = E /\ locks' = locks
    BY <1>1, <1>4, <1>8
  <2> QED BY <1>3, <2>1 DEF Granted
<1>9. lockState[d] \in Mode
  BY <1>1
<1> QED BY <1>6, <1>7, <1>8, <1>9 DEF Mode

(* An attempt to lock keeps the counter honest and allows nothing to       *)
(* anybody that was not allowed before.                                    *)
LEMMA AcquireCounts ==
  ASSUME LockAssumption, LockInv, NEW t \in Locker, Acquire(t)
  PROVE  /\ CounterHonest' /\ locks' \in Int /\ lockState' \in [Opened -> Mode]
         /\ \A op \in Mode : Granted(op)' => Granted(op)
<1> DEFINE d == locker[t].d
           o == locker[t].op
           S == Holders("shared")
           E == Holders("exclusive")
<1>1. /\ locker[t].pc = "acquire" /\ locker[t] \in Call /\ d \in Opened /\ o \in Mode
      /\ lockState \in [Opened -> Mode] /\ locks \in Int /\ lockState[d] = "unlocked"
      /\ \/ /\ o = "unlocked" \/ Granted(o)
            /\ lockState' = [lockState EXCEPT ![d] = o]
            /\ locks' = IF o = "shared" THEN locks + 1
                             ELSE IF o = "exclusive" THEN -1 ELSE locks
         \/ UNCHANGED <<locks, lockState>>
  BY CallTypes DEF Acquire, LockInv, LockTypes, Released
<1>2. /\ IsFiniteSet(S) /\ Cardinality(S) \in Nat /\ (Cardinality(S) = 0 <=> S = {})
      /\ IsFiniteSet(E) /\ Cardinality(E) \in Nat /\ (Cardinality(E) = 0 <=> E = {})
  BY HolderCounts
<1>3. /\ E # {} => S = {} /\ Cardinality(E) = 1 /\ locks = -1
      /\ E = {} => locks = Cardinality(S)
  BY DEF LockInv, CounterHonest
<1>4. d \notin S /\ d \notin E
  BY <1>1 DEF Holders
<1> DEFINE res == /\ (E' # {} => S' = {} /\ Cardinality(E') = 1 /\ locks' = -1)
                  /\ (E' = {} => locks' = Cardinality(S'))
                  /\ locks' \in Int /\ lockState' \in [Opened -> Mode]
                  /\ \A op \in Mode : Granted(op)' => Granted(op)
<1> SUFFICES res
  BY DEF CounterHonest
<1>5. CASE UNCHANGED <<locks, lockState>>
  <2>1. S' = S /\ E' = E /\ locks' = locks
    BY <1>5 DEF Holders
  <2> QED BY <1>1, <1>3, <1>5, <2>1 DEF Granted
<1>6. CASE /\ o = "unlocked" \/ Granted(o)
           /\ lockState' = [lockState EXCEPT ![d] = o]
           /\ locks' = IF o = "shared" THEN locks + 1 ELSE IF o = "exclusive" THEN -1 ELSE locks
  <2>0. lockState' \in [Opened -> Mode] /\ locks' \in Int
    BY <1>1, <1>6
  <2>1. CASE o = "unlocked"
    <3>1. lockState' = lockState /\ locks' = locks
      BY <1>1, <1>6, <2>1
    <3> QED BY <3>1, <1>5
  <2>2. CASE o = "shared"
    <3>1. locks >= 0 /\ locks' = locks + 1 /\ S' = S \cup {d} /\ E' = E
      BY <1>1, <1>6, <2>2 DEF Granted, Holders
    <3>2. E = {} /\ locks = Cardinality(S)
      BY <1>1, <1>3, <3>1
    <3>3. Cardinality(S') = Cardinality(S) + 1
      BY <1>2, <1>4, <3>1, FS_AddElement
    <3>4. \A op \in Mode : Granted(op)' => Granted(op)
      BY <1>1, <3>1 DEF Granted
    <3>5. E' = {} /\ locks' = Cardinality(S')
      BY <3>1, <3>2, <3>3
    <3> QED BY <2>0, <3>4, <3>5
  <2>3. CASE o = "exclusive"
    <3>1. locks = 0 /\ locks' = -1 /\ S' = S /\ E' = E \cup {d}
      BY <1>1, <1>6, <2>3 DEF Granted, Holders
    <3>2. E = {} /\ S = {}
      BY <1>2, <1>3, <3>1
    <3>3. E' = {d} /\ S' = {}
      BY <3>1, <3>2
    <3>4. Cardinality(E') = 1
      BY <3>3, FS_Singleton
    <3>5. \A op \in Mode : ~Granted(op)'
      BY <3>1 DEF Granted
    <3> QED BY <2>0, <3>1, <3>3, <3>4, <3>5
  <2> QED BY <1>1, <2>1, <2>2, <2>3 DEF Mode
<1> QED BY <1>1, <1>5, <1>6

-----------------------------------------------------------------------------
(* At first nothing is locked and nobody calls.                            *)
LEMMA LockInitHolds ==
  ASSUME LockAssumption, LockInit
  PROVE  LockInv
<1>1. LockTypes
  BY DEF LockInit, LockTypes, Mode
<1>2. \A t \in Locker : locker[t].pc = "idle"
  BY DEF LockInit, NotLocking
<1>3. GuardHeld /\ Released /\ WaiterWoken
  BY <1>2 DEF GuardHeld, Released, WaiterWoken, Inside
<1>4. Holders("exclusive") = {} /\ Holders("shared") = {} /\ locks = 0
  BY DEF LockInit, Holders
<1>5. CounterHonest
  BY <1>4, FS_EmptySet DEF CounterHonest
<1> QED BY <1>1, <1>3, <1>5 DEF LockInv

(* Nobody else has the mutex of the description that a thread works on.    *)
LEMMA GuardAlone ==
  ASSUME LockInv, NEW t \in Locker, locker[t].pc \in Inside,
         NEW u \in Locker, locker[u].pc \in Inside, locker[u].d = locker[t].d
  PROVE  u = t
BY DEF LockInv, GuardHeld

(* A step that leaves the counter and the states of the descriptions alone *)
(* keeps the counter honest and what can be granted.                       *)
LEMMA SameCounts ==
  ASSUME LockInv, UNCHANGED <<locks, lockState>>
  PROVE  /\ CounterHonest' /\ locks' \in Int /\ lockState' \in [Opened -> Mode]
         /\ \A op : Granted(op)' <=> Granted(op)
<1>1. \A op : Holders(op)' = Holders(op)
  BY DEF Holders
<1> QED BY <1>1 DEF LockInv, LockTypes, CounterHonest, Granted

(* Every step but an unlock and an attempt leaves those alone, and moves   *)
(* one thread.                                                             *)
LEMMA LockMoveKeeps ==
  ASSUME LockInv, NEW t \in Locker, UNCHANGED <<locks, lockState>>,
         locker' \in [Locker -> Call \cup {NotLocking}], guard' \in [Opened -> Locker \cup {NoThread}],
         \A u \in Locker : u # t => locker'[u] = locker[u],
         locker'[t].pc \in Inside => guard'[locker'[t].d] = t,
         locker'[t].pc \in {"notify", "acquire"} => lockState[locker'[t].d] = "unlocked",
         \A u \in Locker : u # t /\ locker[u].pc \in Inside => guard'[locker[u].d] = guard[locker[u].d],
         \/ lockArmed' = {}
         \/ /\ lockArmed' \subseteq lockArmed \cup {t} /\ locker[t].pc # "notify"
            /\ locker'[t].pc = "sleep" => ~Granted(locker'[t].op)
  PROVE  LockInv'
<1>1. /\ CounterHonest' /\ locks' \in Int /\ lockState' \in [Opened -> Mode]
      /\ \A op : Granted(op)' <=> Granted(op)
  BY SameCounts
<1>2. GuardHeld'
  BY DEF LockInv, GuardHeld
<1>3. Released'
  BY DEF LockInv, Released
<1>4. WaiterWoken'
  BY <1>1 DEF LockInv, WaiterWoken
<1> QED BY <1>1, <1>2, <1>3, <1>4 DEF LockInv, LockTypes

(* A call of flock keeps the invariant.                                    *)
LEMMA FlockKeeps ==
  ASSUME LockInv, NEW t \in Locker, Flock(t)
  PROVE  LockInv'
<1>1. PICK d \in Opened, op \in Mode, nb \in BOOLEAN :
         locker' = [locker EXCEPT ![t] = [pc |-> "start", d |-> d, op |-> op, wait |-> nb]]
  BY DEF Flock, Mode
<1> DEFINE r == [pc |-> "start", d |-> d, op |-> op, wait |-> nb]
<1>2. r \in Call /\ r.pc = "start"
  BY DEF Call
<1>3. locker \in [Locker -> Call \cup {NotLocking}] /\ guard \in [Opened -> Locker \cup {NoThread}]
  BY DEF LockInv, LockTypes
<1>4. UNCHANGED <<locks, lockState, guard, lockArmed>> /\ locker[t].pc = "idle"
  BY CallTypes DEF Flock
<1> HIDE DEF r
<1>5. locker' = [locker EXCEPT ![t] = r]
  BY <1>1 DEF r
<1>6. locker'[t] = r /\ locker' \in [Locker -> Call \cup {NotLocking}] /\ \A u \in Locker : u # t => locker'[u] = locker[u]
  BY <1>2, <1>3, <1>5
<1> QED BY <1>2, <1>3, <1>4, <1>6, LockMoveKeeps DEF Inside

(* Taking the mutex of the description's state, and arming the wait before *)
(* the lock is tried, keeps the invariant.                                 *)
LEMMA StartKeeps ==
  ASSUME LockAssumption, LockInv, NEW t \in Locker, Start(t)
  PROVE  LockInv'
<1> DEFINE d == locker[t].d
<1>1. /\ locker[t].pc = "start" /\ locker[t] \in Call /\ d \in Opened
      /\ guard \in [Opened -> Locker \cup {NoThread}] /\ guard[d] = NoThread
      /\ guard' = [guard EXCEPT ![d] = t] /\ lockArmed' \subseteq lockArmed \cup {t}
      /\ LockGoto(t, "release") /\ UNCHANGED <<locks, lockState>>
  BY CallTypes DEF Start, LockInv, LockTypes
<1>2. /\ locker' \in [Locker -> Call \cup {NotLocking}]
      /\ locker'[t].pc = "release" /\ locker'[t].d = d
      /\ \A u \in Locker : u # t => locker'[u] = locker[u]
  BY <1>1, GotoFacts DEF Inside
<1>3. ASSUME NEW u \in Locker, u # t, locker[u].pc \in Inside
      PROVE  guard'[locker[u].d] = guard[locker[u].d]
  <2>1. locker[u].d # d
    BY <1>1, <1>3 DEF LockInv, GuardHeld, LockAssumption
  <2>2. locker[u].d \in Opened
    BY <1>3, CallTypes DEF Inside
  <2> QED BY <1>1, <2>1, <2>2
<1>4. guard' \in [Opened -> Locker \cup {NoThread}] /\ guard'[d] = t
  BY <1>1
<1> QED BY SMTT(20), <1>1, <1>2, <1>3, <1>4, LockMoveKeeps

(* unlock_internal keeps the invariant: if somebody could have the lock    *)
(* now, the thread notifies next.                                          *)
LEMMA UnlockKeeps ==
  ASSUME LockAssumption, LockInv, NEW t \in Locker, Unlock(t)
  PROVE  LockInv'
<1> DEFINE d == locker[t].d
<1>1. /\ locker[t].pc = "release" /\ locker[t] \in Call /\ d \in Opened
      /\ guard \in [Opened -> Locker \cup {NoThread}] /\ lockState \in [Opened -> Mode]
      /\ lockState' = [lockState EXCEPT ![d] = "unlocked"] /\ UNCHANGED <<guard, lockArmed>>
  BY CallTypes DEF Unlock, LockInv, LockTypes
<1>2. PICK to \in {"notify", "acquire"} : LockGoto(t, to)
  BY DEF Unlock
<1>3. /\ locker' \in [Locker -> Call \cup {NotLocking}]
      /\ locker'[t].pc = to /\ locker'[t].d = d /\ locker'[t].op = locker[t].op
      /\ \A u \in Locker : u # t => locker'[u] = locker[u]
  BY <1>1, <1>2, GotoFacts DEF Inside
<1>4. /\ CounterHonest' /\ locks' \in Int /\ lockState' \in [Opened -> Mode] /\ lockState'[d] = "unlocked"
      /\ \A op \in Mode : Granted(op)' => Granted(op) \/ locker'[t].pc = "notify"
  BY UnlockCounts
<1>5. GuardHeld'
  BY <1>1, <1>3 DEF LockInv, GuardHeld, Inside
<1>6. Released'
  <2> SUFFICES ASSUME NEW u \in Locker, u # t, locker[u].pc \in {"notify", "acquire"}
               PROVE  lockState'[locker[u].d] = "unlocked"
    BY <1>3, <1>4 DEF Released
  <2>1. locker[u].d # d /\ locker[u].d \in Opened
    BY <1>1, GuardAlone, CallTypes DEF Inside
  <2>2. lockState[locker[u].d] = "unlocked"
    BY DEF LockInv, Released
  <2> QED BY <1>1, <2>1, <2>2
<1>7. WaiterWoken'
  <2> SUFFICES ASSUME NEW u \in Locker, locker'[u].pc = "sleep", u \in lockArmed', Granted(locker[u].op)',
                      locker'[t].pc # "notify"
               PROVE  \E w \in Locker : locker'[w].pc = "notify"
    BY DEF WaiterWoken
  <2>1. u # t /\ locker'[u] = locker[u]
    BY <1>3
  <2>2. locker[u].op \in Mode
    BY <2>1, CallTypes
  <2>3. Granted(locker[u].op)
    BY <1>4, <2>1, <2>2
  <2>4. PICK w \in Locker : locker[w].pc = "notify"
    BY <1>1, <2>1, <2>3 DEF LockInv, WaiterWoken
  <2>5. w # t
    BY <1>1, <2>4
  <2> QED BY <1>3, <2>4, <2>5
<1> QED BY <1>1, <1>3, <1>4, <1>5, <1>6, <1>7 DEF LockInv, LockTypes

(* The attempt to lock keeps the invariant: who goes to sleep was not      *)
(* granted the lock, and who gets it grants nothing to others.             *)
LEMMA AcquireKeeps ==
  ASSUME LockAssumption, LockInv, NEW t \in Locker, Acquire(t)
  PROVE  LockInv'
<1> DEFINE d == locker[t].d
<1>1. /\ locker[t].pc = "acquire" /\ locker[t] \in Call /\ d \in Opened
      /\ guard \in [Opened -> Locker \cup {NoThread}] /\ lockState \in [Opened -> Mode]
      /\ guard' = [guard EXCEPT ![d] = NoThread]
      /\ lockArmed' \subseteq lockArmed
      /\ \A e \in Opened : e # d => lockState'[e] = lockState[e]
      /\ \/ locker' = [locker EXCEPT ![t] = NotLocking]
         \/ LockGoto(t, "sleep") /\ UNCHANGED <<locks, lockState>> /\ ~Granted(locker[t].op)
  BY CallTypes DEF Acquire, LockInv, LockTypes
<1>2. /\ locker' \in [Locker -> Call \cup {NotLocking}]
      /\ locker'[t].pc \in {"idle", "sleep"}
      /\ locker'[t].pc = "sleep" => ~Granted(locker[t].op)'
      /\ \A u \in Locker : u # t => locker'[u] = locker[u]
  <2>1. CASE locker' = [locker EXCEPT ![t] = NotLocking]
    <3>1. locker \in [Locker -> Call \cup {NotLocking}] /\ NotLocking.pc = "idle"
      BY DEF LockInv, LockTypes, NotLocking
    <3>2. locker'[t] = NotLocking
      BY <2>1, <3>1
    <3> QED BY <2>1, <3>1, <3>2
  <2>2. CASE LockGoto(t, "sleep") /\ UNCHANGED <<locks, lockState>> /\ ~Granted(locker[t].op)
    <3>1. /\ locker' \in [Locker -> Call \cup {NotLocking}]
          /\ locker'[t].pc = "sleep" /\ locker'[t].op = locker[t].op
          /\ \A u \in Locker : u # t => locker'[u] = locker[u]
      BY <1>1, <2>2, GotoFacts DEF Inside
    <3>2. ~Granted(locker[t].op)'
      BY <2>2, <3>1 DEF Granted
    <3> QED BY <3>1, <3>2
  <2> QED BY <1>1, <2>1, <2>2
<1>3. /\ CounterHonest' /\ locks' \in Int /\ lockState' \in [Opened -> Mode]
      /\ \A op \in Mode : Granted(op)' => Granted(op)
  BY AcquireCounts
<1>4. ASSUME NEW u \in Locker, locker'[u].pc \in Inside
      PROVE  /\ u # t /\ locker'[u] = locker[u] /\ locker[u].d # d /\ locker[u].d \in Opened
             /\ guard'[locker[u].d] = u /\ lockState'[locker[u].d] = lockState[locker[u].d]
  <2>1. u # t /\ locker'[u] = locker[u]
    BY <1>2, <1>4 DEF Inside
  <2>2. locker[u].d # d /\ locker[u].d \in Opened
    BY <1>1, <1>4, <2>1, GuardAlone, CallTypes DEF Inside
  <2>3. guard[locker[u].d] = u
    BY <1>4, <2>1 DEF LockInv, GuardHeld
  <2> QED BY <1>1, <2>1, <2>2, <2>3
<1>5. GuardHeld'
  BY <1>4 DEF GuardHeld
<1>6. Released'
  BY <1>4 DEF LockInv, Released, Inside
<1>7. WaiterWoken'
  <2> SUFFICES ASSUME NEW u \in Locker, locker'[u].pc = "sleep", u \in lockArmed', Granted(locker[u].op)'
               PROVE  \E w \in Locker : locker'[w].pc = "notify"
    BY DEF WaiterWoken
  <2>1. u # t /\ locker'[u] = locker[u]
    BY <1>2
  <2>2. locker[u].op \in Mode
    BY <2>1, CallTypes
  <2>3. Granted(locker[u].op)
    BY <1>3, <2>1, <2>2
  <2>4. PICK w \in Locker : locker[w].pc = "notify"
    BY <1>1, <2>1, <2>3 DEF LockInv, WaiterWoken
  <2>5. w # t
    BY <1>1, <2>4
  <2> QED BY <1>2, <2>4, <2>5
<1>8. guard' \in [Opened -> Locker \cup {NoThread}]
  BY <1>1
<1> QED BY <1>2, <1>3, <1>5, <1>6, <1>7, <1>8 DEF LockInv, LockTypes

(* The notification keeps the invariant: nobody is left armed.             *)
LEMMA NotifyKeeps ==
  ASSUME LockInv, NEW t \in Locker, Notify(t)
  PROVE  LockInv'
<1>1. /\ locker[t].pc = "notify" /\ locker[t] \in Call /\ lockArmed' = {}
      /\ guard \in [Opened -> Locker \cup {NoThread}]
      /\ LockGoto(t, "acquire") /\ UNCHANGED <<locks, lockState, guard>>
  BY CallTypes DEF Notify, LockInv, LockTypes
<1>2. /\ locker' \in [Locker -> Call \cup {NotLocking}]
      /\ locker'[t].pc = "acquire" /\ locker'[t].d = locker[t].d
      /\ \A u \in Locker : u # t => locker'[u] = locker[u]
  BY <1>1, GotoFacts DEF Inside
<1>3. guard[locker[t].d] = t /\ lockState[locker[t].d] = "unlocked"
  BY <1>1 DEF LockInv, GuardHeld, Released, Inside
<1> QED BY <1>1, <1>2, <1>3, LockMoveKeeps

(* A notified thread that tries again keeps the invariant.                 *)
LEMMA LockWakeKeeps ==
  ASSUME LockInv, NEW t \in Locker, LockWake(t)
  PROVE  LockInv'
<1>1. /\ locker[t].pc = "sleep" /\ locker[t] \in Call
      /\ guard \in [Opened -> Locker \cup {NoThread}]
      /\ LockGoto(t, "start") /\ UNCHANGED <<locks, lockState, guard, lockArmed>>
  BY CallTypes DEF LockWake, LockInv, LockTypes
<1>2. /\ locker' \in [Locker -> Call \cup {NotLocking}] /\ locker'[t].pc = "start"
      /\ \A u \in Locker : u # t => locker'[u] = locker[u]
  BY <1>1, GotoFacts
<1> QED BY <1>1, <1>2, LockMoveKeeps DEF Inside

(* A thread that gives up its wait over a signal keeps the invariant.      *)
LEMMA InterruptKeeps ==
  ASSUME LockInv, NEW t \in Locker, LockInterrupt(t)
  PROVE  LockInv'
<1>1. /\ locker[t].pc = "sleep" /\ locker \in [Locker -> Call \cup {NotLocking}]
      /\ guard \in [Opened -> Locker \cup {NoThread}]
      /\ locker' = [locker EXCEPT ![t] = NotLocking] /\ lockArmed' = lockArmed \ {t} /\ UNCHANGED <<locks, lockState, guard>>
  BY DEF LockInterrupt, LockInv, LockTypes
<1>2. NotLocking.pc = "idle"
  BY DEF NotLocking
<1>3. /\ locker' \in [Locker -> Call \cup {NotLocking}] /\ locker'[t].pc = "idle"
      /\ \A u \in Locker : u # t => locker'[u] = locker[u]
  BY <1>1, <1>2
<1> QED BY <1>1, <1>3, LockMoveKeeps DEF Inside

(* Every step of every thread keeps the invariant.                         *)
LEMMA LockStepKeeps ==
  ASSUME LockAssumption, LockInv, [LockNext]_lockVars
  PROVE  LockInv'
<1>1. CASE UNCHANGED lockVars
  <2>1. CounterHonest' /\ \A op : Granted(op)' <=> Granted(op)
    BY <1>1, SameCounts DEF lockVars
  <2> QED BY <1>1, <2>1 DEF lockVars, LockInv, LockTypes, GuardHeld, Released, WaiterWoken
<1> QED BY <1>1, FlockKeeps, StartKeeps, UnlockKeeps, NotifyKeeps, AcquireKeeps, LockWakeKeeps, InterruptKeeps DEF LockNext

(* flock (fs/fd.rs): for any number of threads and open descriptions, an   *)
(* exclusive lock excludes every other lock, the counter is the number of  *)
(* shared locks, and a thread that sleeps for a lock it could have is      *)
(* about to be notified.                                                   *)
THEOREM LocksAreExclusive == LockSpec => []LocksExclude
<1>0. LockAssumption
  BY LockConstants
<1>1. LockInit => LockInv
  BY <1>0, LockInitHolds
<1>2. LockInv /\ [LockNext]_lockVars => LockInv'
  BY <1>0, LockStepKeeps
<1>3. LockInv => LocksExclude
  <2> SUFFICES ASSUME LockInv
               PROVE  LockTypeOK
    BY DEF LockInv, LocksExclude
  <2>1. locks \in -1..Cardinality(Opened)
    BY <1>0, HolderCounts DEF LockInv, CounterHonest
  <2> QED BY <2>1 DEF LockTypeOK, LockInv, LockTypes, Mode, LocksExclude
<1> QED BY <1>1, <1>2, <1>3, PTL DEF LockSpec

-----------------------------------------------------------------------------

(* The halves of the node, those that nobody references any more, and the  *)
(* openers.                                                                *)
HalfSet == [buf : Nat, users : SUBSET Opener]
DyingSet == [buf : Nat, side : Side]
OpenerSet == [pc : {"idle", "sleep", "open", "fail"}, sides : SUBSET Side]

(* The types; only finitely many halves are going away.                    *)
PipeTypes ==
  /\ half \in [Side -> HalfSet]
  /\ dying \in SUBSET DyingSet /\ IsFiniteSet(dying)
  /\ made \in 0..MaxBuffer
  /\ opener \in [Opener -> OpenerSet]
  /\ panic \in BOOLEAN

(* An opener is among the users of exactly the halves that it opened. *)
UsersMatch ==
  \A o \in Opener :
    /\ \A s \in Side : o \in half[s].users <=> s \in opener[o].sides
    /\ opener[o].pc = "idle" => opener[o] = NotOpening
    /\ opener[o].pc = "sleep" => \E s \in Side : opener[o].sides = {s}

(* Every buffer that a half holds has been made.                           *)
BuffersMade ==
  /\ \A s \in Side : half[s].buf <= made
  /\ \A d \in dying : d.buf <= made

PipeInv == PipeTypes /\ UsersMatch /\ BuffersMade /\ Connected /\ PartnerSeen

-----------------------------------------------------------------------------
(* There are two sides, each the other of the other; a set of one side is  *)
(* one of the two.                                                         *)
LEMMA Sides ==
  /\ Cardinality(Side) = 2
  /\ \A s : Cardinality({s}) = 1
  /\ \A S \in SUBSET Side : IsFiniteSet(S) /\ (Cardinality(S) = 1 => \E s \in Side : S = {s})
  /\ \A s \in Side : Other(s) \in Side /\ Other(s) # s /\ Other(Other(s)) = s
  /\ \A s, r \in Side : r = s \/ r = Other(s)
<1>1. \A s : IsFiniteSet({s}) /\ Cardinality({s}) = 1
  BY FS_Singleton
<1>2. Side = {"write"} \cup {"read"} /\ "read" \notin {"write"}
  BY DEF Side
<1>3. IsFiniteSet(Side) /\ Cardinality(Side) = Cardinality({"write"}) + 1
  BY <1>1, <1>2, FS_AddElement
<1>4. Cardinality({}) = 0
  BY FS_EmptySet
<1>5. ASSUME NEW S \in SUBSET Side
      PROVE  IsFiniteSet(S) /\ (Cardinality(S) = 1 => \E s \in Side : S = {s})
  <2>1. IsFiniteSet(S)
    BY <1>3, FS_Subset
  <2>2. S = {} \/ S = {"read"} \/ S = {"write"} \/ S = Side
    BY DEF Side
  <2>3. S = {} \/ S = Side => Cardinality(S) # 1
    BY <1>1, <1>3, <1>4
  <2> QED BY <2>1, <2>2, <2>3 DEF Side
<1>6. /\ \A s \in Side : Other(s) \in Side /\ Other(s) # s /\ Other(Other(s)) = s
      /\ \A s, r \in Side : r = s \/ r = Other(s)
  BY DEF Other, Side
<1>7. Cardinality(Side) = 2
  BY <1>1, <1>3
<1> QED BY <1>1, <1>5, <1>6, <1>7

(* The assertion says that no half that is going away holds the buffer. *)
LEMMA SoleMeansNoDying ==
  ASSUME PipeInv, NEW side \in Side, Alive(Other(side)), SoleHolder(side)
  PROVE  \A d \in dying : d.buf # half[Other(side)].buf
<1> DEFINE b == half[Other(side)].buf
           live == {s \in Side : Alive(s) /\ half[s].buf = b}
           late == {d \in dying : d.buf = b}
<1>1. Other(side) \in live
  BY Sides
<1>2. IsFiniteSet(live) /\ IsFiniteSet(late)
  <2>1. live \in SUBSET Side /\ late \in SUBSET dying /\ IsFiniteSet(dying)
    BY DEF PipeInv, PipeTypes
  <2> QED BY <2>1, Sides, FS_Subset
<1>3. Cardinality(live) + Cardinality(late) = 1
  BY DEF SoleHolder, StrongCount
<1> HIDE DEF live, late
<1>4. Cardinality(live) \in Nat /\ Cardinality(live) # 0 /\ Cardinality(late) \in Nat
  BY <1>1, <1>2, FS_CardinalityType, FS_EmptySet
<1>5. Cardinality(late) = 0
  BY <1>3, <1>4
<1>6. late = {}
  BY <1>2, <1>5, FS_EmptySet
<1> QED BY <1>6 DEF late

(* At first there is no half and nobody opens.                             *)
LEMMA PipeInitHolds ==
  ASSUME PipeAssumption, FifoInit
  PROVE  PipeInv
<1>1. /\ half = [s \in Side |-> [buf |-> 0, users |-> {}]] /\ dying = {} /\ made = 0
      /\ opener = [o \in Opener |-> NotOpening] /\ waiting = {} /\ panic = FALSE /\ MaxBuffer \in Nat
  BY DEF FifoInit, PipeAssumption
<1>2. [buf |-> 0, users |-> {}] \in HalfSet /\ NotOpening \in OpenerSet /\ NotOpening.sides = {} /\ NotOpening.pc = "idle"
  BY DEF HalfSet, NotOpening, OpenerSet
<1>3. IsFiniteSet({})
  BY FS_EmptySet
<1>4. PipeTypes
  <2> DEFINE h == [buf |-> 0, users |-> {}]
             idle == NotOpening
  <2>1. h \in HalfSet /\ half = [s \in Side |-> h] /\ idle \in OpenerSet /\ opener = [o \in Opener |-> idle]
    BY <1>1, <1>2
  <2> HIDE DEF h, idle
  <2>2. half \in [Side -> HalfSet] /\ opener \in [Opener -> OpenerSet]
    BY <2>1
  <2>3. made \in 0..MaxBuffer
    BY <1>1
  <2> QED BY <1>1, <1>3, <2>2, <2>3, Zenon DEF PipeTypes
<1>5. \A s \in Side : half[s].buf = 0 /\ half[s].users = {}
  BY <1>1
<1>6. \A o \in Opener : opener[o] = NotOpening
  BY <1>1
<1>7. UsersMatch
  BY <1>2, <1>5, <1>6 DEF UsersMatch
<1>8. BuffersMade
  BY <1>1, <1>5 DEF BuffersMade
<1>9. Connected
  BY <1>1, <1>5 DEF Connected, Alive, Side
<1>10. PartnerSeen
  BY <1>1 DEF PartnerSeen
<1> QED BY <1>4, <1>7, <1>8, <1>9, <1>10 DEF PipeInv

(* The types of the parts of halves, openers and dying halves.             *)
LEMMA HalfFacts ==
  ASSUME PipeInv
  PROVE  /\ \A s \in Side : half[s] \in HalfSet /\ half[s].buf \in Nat /\ half[s].users \in SUBSET Opener
         /\ \A o \in Opener : opener[o] \in OpenerSet /\ opener[o].sides \in SUBSET Side
         /\ \A d \in dying : d \in DyingSet /\ d.buf \in Nat /\ d.side \in Side
         /\ made \in Nat
<1>1. half \in [Side -> HalfSet] /\ dying \in SUBSET DyingSet /\ made \in 0..MaxBuffer /\ opener \in [Opener -> OpenerSet]
  BY DEF PipeInv, PipeTypes
<1>2. \A h \in HalfSet : h.buf \in Nat /\ h.users \in SUBSET Opener
  BY DEF HalfSet
<1>3. \A h \in DyingSet : h.buf \in Nat /\ h.side \in Side
  BY DEF DyingSet
<1>4. \A h \in OpenerSet : h.sides \in SUBSET Side
  BY DEF OpenerSet
<1> QED BY <1>1, <1>2, <1>3, <1>4

(* What opening one side does to the halves. *)
LEMMA JoinFacts ==
  ASSUME PipeAssumption, PipeInv, NEW o \in Opener, NEW side \in Side, Join(o, side),
         MustMake(side) => SoleHolder(side)
  PROVE  /\ half' \in [Side -> HalfSet] /\ made' \in 0..MaxBuffer
         /\ half'[side].users = half[side].users \cup {o}
         /\ half'[Other(side)] = half[Other(side)]
         /\ \A s \in Side : half'[s].buf <= made'
         /\ made <= made'
         /\ Alive(Other(side)) => half'[side].buf = half[Other(side)].buf
         /\ \A d \in dying : half'[side].buf = d.buf => side # d.side
<1>1. /\ half \in [Side -> HalfSet] /\ made \in 0..MaxBuffer /\ made \in Nat /\ MaxBuffer \in Nat
      /\ \A s \in Side : half[s] \in HalfSet /\ half[s].buf \in Nat /\ half[s].users \in SUBSET Opener /\ half[s].buf <= made
      /\ \A d \in dying : d.buf \in Nat /\ d.buf <= made
  BY HalfFacts DEF PipeInv, PipeTypes, BuffersMade, PipeAssumption
<1>2. Other(side) \in Side /\ Other(side) # side /\ \A s \in Side : s = side \/ s = Other(side)
  BY Sides
<1>3. \A b \in Nat, us \in SUBSET Opener : [buf |-> b, users |-> us] \in HalfSet
  BY DEF HalfSet
<1>4. CASE Alive(side)
  <2> DEFINE h == [buf |-> half[side].buf, users |-> half[side].users \cup {o}]
  <2>0. half[side] = [buf |-> half[side].buf, users |-> half[side].users]
    BY <1>1 DEF HalfSet
  <2>1. half' = [half EXCEPT ![side] = h] /\ made' = made
    BY <1>4, <2>0 DEF Join
  <2>2. h \in HalfSet /\ h.buf = half[side].buf /\ h.users = half[side].users \cup {o}
    BY <1>1, <1>3
  <2> HIDE DEF h
  <2>3. half'[side] = h /\ half'[Other(side)] = half[Other(side)] /\ half' \in [Side -> HalfSet]
    BY <1>1, <1>2, <2>1, <2>2
  <2>4. \A s \in Side : half'[s].buf <= made'
    BY <1>1, <1>2, <2>1, <2>2, <2>3
  <2>5. Alive(Other(side)) => half[side].buf = half[Other(side)].buf
    BY <1>4 DEF PipeInv, Connected, Other, Side
  <2>6. \A d \in dying : half[side].buf = d.buf => side # d.side
    BY <1>4 DEF PipeInv, Connected
  <2> QED BY SMTT(20), <1>1, <2>1, <2>2, <2>3, <2>4, <2>5, <2>6
<1>5. CASE ~Alive(side) /\ Alive(Other(side))
  <2> DEFINE h == [buf |-> half[Other(side)].buf, users |-> {o}]
  <2>1. half' = [half EXCEPT ![side] = h] /\ made' = made /\ half[side].users = {}
    BY <1>5 DEF Join, Alive
  <2>2. h \in HalfSet /\ h.buf = half[Other(side)].buf /\ h.users = {o}
    BY <1>1, <1>2, <1>3
  <2> HIDE DEF h
  <2>3. half'[side] = h /\ half'[Other(side)] = half[Other(side)] /\ half' \in [Side -> HalfSet]
    BY <1>1, <1>2, <2>1, <2>2
  <2>4. \A s \in Side : half'[s].buf <= made'
    BY <1>1, <1>2, <2>1, <2>2, <2>3
  <2>5. \A d \in dying : d.buf # half[Other(side)].buf
    BY <1>5, SoleMeansNoDying DEF MustMake
  <2> QED BY SMTT(20), <1>1, <2>1, <2>2, <2>3, <2>4, <2>5
<1>6. CASE ~Alive(side) /\ ~Alive(Other(side))
  <2> DEFINE h == [buf |-> made + 1, users |-> {o}]
  <2>1. half' = [half EXCEPT ![side] = h] /\ made' = made + 1 /\ made < MaxBuffer /\ half[side].users = {}
    BY <1>6 DEF Join, Alive
  <2>2. h \in HalfSet /\ h.buf = made + 1 /\ h.users = {o}
    BY <1>1, <1>2, <1>3
  <2> HIDE DEF h
  <2>3. half'[side] = h /\ half'[Other(side)] = half[Other(side)] /\ half' \in [Side -> HalfSet]
    BY <1>1, <1>2, <2>1, <2>2
  <2>4. \A s \in Side : half'[s].buf <= made'
    BY <1>1, <1>2, <2>1, <2>2, <2>3
  <2>5. \A d \in dying : d.buf # made + 1
    BY <1>1
  <2>6. made' \in 0..MaxBuffer /\ made <= made'
    BY <1>1, <2>1
  <2> QED BY <1>6, <2>1, <2>2, <2>3, <2>4, <2>5, <2>6
<1> QED BY <1>4, <1>5, <1>6

-----------------------------------------------------------------------------
(* A panic, and every other step that leaves the pipe alone. *)
LEMMA PipeStutters ==
  ASSUME PipeInv, UNCHANGED <<half, dying, made, opener, waiting>>, panic' \in BOOLEAN
  PROVE  PipeInv'
<1>1. \A s : Alive(s)' <=> Alive(s)
  BY DEF Alive
<1> QED BY <1>1 DEF PipeInv, PipeTypes, UsersMatch, BuffersMade, Connected, PartnerSeen

(* Nobody sleeps and waits for a partner who is there: the one that has    *)
(* just looked for one and found none is the only one left waiting.        *)
LEMMA LookedAndFoundNone ==
  ASSUME UsersMatch, opener \in [Opener -> OpenerSet], NEW o \in Opener, NEW side \in Side, opener[o].sides = {side},
         half[Other(side)].users = {}, NEW p \in Opener, opener[p].pc # "idle",
         Cardinality(opener[p].sides) = 1
  PROVE  opener[p].sides = opener[o].sides
<1>1. opener[p].sides \in SUBSET Side
  BY DEF OpenerSet
<1>2. PICK s \in Side : opener[p].sides = {s}
  BY <1>1, Sides
<1>3. p \in half[s].users
  BY <1>2 DEF UsersMatch
<1>4. s # Other(side)
  BY <1>3
<1> QED BY <1>2, <1>4, Sides

(* open for one side keeps the invariant: the opener joins the half, makes *)
(* it from the other one, whose buffer no dying half holds, or makes a     *)
(* buffer; it sleeps only if it found no partner, and it wakes the others. *)
LEMMA OpenSideKeeps ==
  ASSUME PipeAssumption, PipeInv, NEW o \in Opener, NEW side \in Side, OpenSide(o, side)
  PROVE  PipeInv'
<1>1. CASE panic' = TRUE /\ UNCHANGED <<half, dying, made, opener, waiting>>
  BY <1>1, PipeStutters
<1>2. CASE ~(panic' = TRUE /\ UNCHANGED <<half, dying, made, opener, waiting>>)
  <2>1. PICK pc \in {"open", "sleep", "fail"} :
          /\ opener[o] = NotOpening
          /\ MustMake(side) => SoleHolder(side)
          /\ Join(o, side)
          /\ pc = "sleep" => ~Alive(Other(side))
          /\ opener' = [opener EXCEPT ![o] = [pc |-> pc, sides |-> {side}]]
          /\ waiting' = IF pc = "sleep" THEN {o} ELSE {}
          /\ UNCHANGED <<dying, panic>>
    BY <1>2 DEF OpenSide
  <2>2. /\ half' \in [Side -> HalfSet] /\ made' \in 0..MaxBuffer
        /\ half'[side].users = half[side].users \cup {o}
        /\ half'[Other(side)] = half[Other(side)]
        /\ \A s \in Side : half'[s].buf <= made'
        /\ made <= made'
        /\ Alive(Other(side)) => half'[side].buf = half[Other(side)].buf
        /\ \A d \in dying : half'[side].buf = d.buf => side # d.side
    BY <2>1, JoinFacts
  <2> DEFINE r == [pc |-> pc, sides |-> {side}]
  <2>3. r \in OpenerSet /\ r.pc = pc /\ r.sides = {side}
    BY DEF OpenerSet
  <2>4. /\ opener \in [Opener -> OpenerSet] /\ opener[o].sides = {} /\ opener' = [opener EXCEPT ![o] = r]
        /\ dying \in SUBSET DyingSet /\ IsFiniteSet(dying) /\ panic \in BOOLEAN /\ made \in Nat /\ MaxBuffer \in Nat
        /\ \A d \in dying : d.buf \in Nat
    BY SMTT(20), <2>1, HalfFacts DEF PipeInv, PipeTypes, NotOpening, PipeAssumption
  <2> HIDE DEF r
  <2>5. /\ opener' \in [Opener -> OpenerSet] /\ opener'[o] = r
        /\ \A p \in Opener : p # o => opener'[p] = opener[p]
    BY <2>3, <2>4
  <2>6. PipeTypes'
    BY <2>1, <2>2, <2>4, <2>5 DEF PipeTypes
  <2>7. Other(side) \in Side /\ Other(side) # side /\ \A s \in Side : s = side \/ s = Other(side)
    BY Sides
  <2>8. UsersMatch'
    <3> SUFFICES ASSUME NEW p \in Opener
                 PROVE  /\ \A s \in Side : p \in half'[s].users <=> s \in opener'[p].sides
                        /\ opener'[p].pc = "idle" => opener'[p] = NotOpening
                        /\ opener'[p].pc = "sleep" => \E s \in Side : opener'[p].sides = {s}
      BY DEF UsersMatch
    <3>0. /\ \A s \in Side : p \in half[s].users <=> s \in opener[p].sides
          /\ opener[p].pc = "idle" => opener[p] = NotOpening
          /\ opener[p].pc = "sleep" => \E s \in Side : opener[p].sides = {s}
      BY DEF PipeInv, UsersMatch
    <3>1. CASE p = o
      <4>1. opener'[p].sides = {side} /\ opener'[p].pc # "idle"
        BY <2>1, <2>3, <2>5, <3>1
      <4>2. \A s \in Side : p \in half'[s].users <=> s = side
        BY <2>2, <2>4, <2>7, <3>0, <3>1
      <4> QED BY <4>1, <4>2
    <3>2. CASE p # o
      BY SMTT(20), <2>2, <2>5, <2>7, <3>0, <3>2
    <3> QED BY <3>1, <3>2
  <2>9. BuffersMade'
    BY SMTT(20), <2>1, <2>2, <2>4 DEF PipeInv, BuffersMade, PipeTypes
  <2>10. Connected'
    <3>1. Alive(Other(side))' => Alive(Other(side)) /\ half'[side].buf = half'[Other(side)].buf
      BY <2>2 DEF Alive
    <3>2. Alive("read")' /\ Alive("write")' => half'["read"].buf = half'["write"].buf
      BY <3>1 DEF Other, Side
    <3>3. ASSUME NEW d \in dying, NEW s \in Side, Alive(s)', half'[s].buf = d.buf
          PROVE  s # d.side
      BY <2>2, <2>7, <3>1, <3>3 DEF PipeInv, Connected
    <3> QED BY <2>1, <3>2, <3>3 DEF Connected
  <2>11. PartnerSeen'
    <3> SUFFICES ASSUME NEW q \in Opener, NEW p \in Opener, opener'[q].pc = "sleep", q \in waiting',
                        opener'[p].pc # "idle", Cardinality(opener'[p].sides) = 1
                 PROVE  opener'[p].sides = opener'[q].sides
      BY DEF PartnerSeen
    <3>1. q = o /\ pc = "sleep" /\ opener'[o].sides = {side}
      BY <2>1, <2>3, <2>5
    <3>2. half'[Other(side)].users = {}
      BY <2>1, <2>2, <3>1 DEF Alive
    <3>3. opener'[p].sides \in SUBSET Side
      BY <2>5 DEF OpenerSet
    <3>4. PICK s \in Side : opener'[p].sides = {s}
      BY <3>3, Sides
    <3>5. p \in half'[s].users
      BY <2>8, <3>4 DEF UsersMatch
    <3> QED BY <2>7, <3>1, <3>2, <3>4, <3>5
  <2> QED BY <2>6, <2>8, <2>9, <2>10, <2>11 DEF PipeInv
<1> QED BY <1>1, <1>2

(* open for both sides keeps the invariant: the missing half is made from  *)
(* the one there is, and who waits is not somebody it should have woken.   *)
LEMMA OpenReadWriteKeeps ==
  ASSUME PipeAssumption, PipeInv, NEW o \in Opener, OpenReadWrite(o)
  PROVE  PipeInv'
<1>1. CASE panic' = TRUE /\ UNCHANGED <<half, dying, made, opener, waiting>>
  BY <1>1, PipeStutters
<1>2. CASE ~(panic' = TRUE /\ UNCHANGED <<half, dying, made, opener, waiting>>)
  <2>1. /\ opener[o] = NotOpening
        /\ \A s \in Side : MustMake(s) => SoleHolder(s)
        /\ IF \A s \in Side : ~Alive(s)
           THEN /\ made < MaxBuffer
                /\ half' = [s \in Side |-> [buf |-> made + 1, users |-> {o}]]
                /\ made' = made + 1
           ELSE /\ half' = [s \in Side |->
                      [buf |-> IF Alive(s) THEN half[s].buf ELSE half[Other(s)].buf,
                       users |-> half[s].users \cup {o}]]
                /\ UNCHANGED made
        /\ opener' = [opener EXCEPT ![o] = [pc |-> "open", sides |-> Side]]
        /\ UNCHANGED <<dying, waiting, panic>>
    BY <1>2 DEF OpenReadWrite
  <2>2. /\ \A s \in Side : half[s].buf \in Nat /\ half[s].users \in SUBSET Opener /\ half[s].buf <= made
        /\ made \in Nat /\ MaxBuffer \in Nat /\ made <= MaxBuffer
        /\ \A d \in dying : d.buf \in Nat /\ d.buf <= made
    BY SMTT(20), HalfFacts DEF PipeInv, PipeTypes, BuffersMade, PipeAssumption
  <2>3. \A b \in Nat, us \in SUBSET Opener : [buf |-> b, users |-> us] \in HalfSet
    BY DEF HalfSet
  <2>4. /\ half' \in [Side -> HalfSet] /\ made' \in 0..MaxBuffer /\ made <= made'
        /\ \A s \in Side : half'[s].users = half[s].users \cup {o} /\ half'[s].buf <= made'
        /\ half'["read"].buf = half'["write"].buf
        /\ \A s \in Side, d \in dying : half'[s].buf = d.buf => s # d.side
    <3>1. CASE \A s \in Side : ~Alive(s)
      <4> DEFINE h == [buf |-> made + 1, users |-> {o}]
      <4>1. half' = [s \in Side |-> h] /\ made' = made + 1 /\ made < MaxBuffer
        BY <2>1, <3>1
      <4>2. h \in HalfSet /\ h.buf = made + 1 /\ h.users = {o}
        BY <2>2, <2>3
      <4> HIDE DEF h
      <4>3. \A s \in Side : half'[s] = h /\ half[s].users = {}
        BY <3>1, <4>1 DEF Alive
      <4>4. "read" \in Side /\ "write" \in Side
        BY DEF Side
      <4>5. \A s \in Side : half'[s].users = half[s].users \cup {o} /\ half'[s].buf = made + 1
        BY <4>2, <4>3
      <4>6. made' \in 0..MaxBuffer /\ made <= made' /\ made + 1 <= made' /\ \A d \in dying : d.buf # made + 1
        BY <2>2, <4>1
      <4> QED BY <4>1, <4>2, <4>4, <4>5, <4>6
    <3>2. CASE ~\A s \in Side : ~Alive(s)
      <4> DEFINE b(s) == IF Alive(s) THEN half[s].buf ELSE half[Other(s)].buf
                 h(s) == [buf |-> b(s), users |-> half[s].users \cup {o}]
      <4>1. half' = [s \in Side |-> h(s)] /\ made' = made
        BY <2>1, <3>2
      <4>2. \A s \in Side : b(s) \in Nat /\ b(s) <= made
        BY <2>2, Sides
      <4>3. b("read") = b("write")
        BY <3>2 DEF PipeInv, Connected, Other, Side
      <4>4. ASSUME NEW s \in Side, NEW d \in dying, b(s) = d.buf
            PROVE  s # d.side
        <5>1. CASE Alive(s)
          BY <4>4, <5>1 DEF PipeInv, Connected
        <5>2. CASE ~Alive(s)
          <6>1. Alive(Other(s))
            BY <3>2, <5>2, Sides
          <6>2. SoleHolder(s)
            BY <2>1, <5>2, <6>1 DEF MustMake
          <6>3. d.buf # half[Other(s)].buf
            BY <6>1, <6>2, SoleMeansNoDying
          <6> QED BY <4>4, <5>2, <6>3
        <5> QED BY <5>1, <5>2
      <4>5. \A s \in Side : h(s) \in HalfSet /\ h(s).buf = b(s) /\ h(s).users = half[s].users \cup {o}
        BY <2>2, <2>3, <4>2
      <4> HIDE DEF h, b
      <4>6. \A s \in Side : half'[s] = h(s)
        BY <4>1
      <4>7. "read" \in Side /\ "write" \in Side
        BY DEF Side
      <4>8. half' \in [Side -> HalfSet]
        BY <4>1, <4>5
      <4>9. made' \in 0..MaxBuffer /\ made <= made'
        BY <2>2, <4>1
      <4> QED BY <4>1, <4>2, <4>3, <4>4, <4>5, <4>6, <4>7, <4>8, <4>9
    <3> QED BY <3>1, <3>2
  <2> DEFINE r == [pc |-> "open", sides |-> Side]
  <2>5. r \in OpenerSet /\ r.pc = "open" /\ r.sides = Side
    BY DEF OpenerSet
  <2>6. /\ opener \in [Opener -> OpenerSet] /\ opener' = [opener EXCEPT ![o] = r]
        /\ dying \in SUBSET DyingSet /\ IsFiniteSet(dying) /\ panic \in BOOLEAN
    BY <2>1 DEF PipeInv, PipeTypes
  <2> HIDE DEF r
  <2>7. /\ opener' \in [Opener -> OpenerSet] /\ opener'[o] = r
        /\ \A p \in Opener : p # o => opener'[p] = opener[p]
    BY <2>5, <2>6
  <2>8. PipeTypes'
    BY <2>1, <2>4, <2>6, <2>7 DEF PipeTypes
  <2>9. UsersMatch'
    BY SMTT(20), <2>4, <2>5, <2>7 DEF PipeInv, UsersMatch
  <2>10. BuffersMade'
    <3>1. dying' = dying /\ made \in Nat /\ made' \in Nat /\ made <= made'
      BY SMTT(20), <2>1, <2>2, <2>4
    <3>2. ASSUME NEW d \in dying'
          PROVE  d.buf <= made'
      <4>1. d.buf \in Nat /\ d.buf <= made
        BY <2>2, <3>1
      <4> QED BY <3>1, <4>1
    <3>3. \A s \in Side : half'[s].buf <= made'
      BY <2>4
    <3> QED BY <3>2, <3>3 DEF BuffersMade
  <2>11. Connected'
    BY <2>1, <2>4 DEF Connected
  <2>12. PartnerSeen'
    <3> SUFFICES ASSUME NEW q \in Opener, NEW p \in Opener, opener'[q].pc = "sleep", q \in waiting',
                        opener'[p].pc # "idle", Cardinality(opener'[p].sides) = 1
                 PROVE  opener'[p].sides = opener'[q].sides
      BY DEF PartnerSeen
    <3>1. q # o /\ p # o
      BY <2>5, <2>7, Sides
    <3> QED BY <2>1, <2>7, <3>1 DEF PipeInv, PartnerSeen
  <2> QED BY <2>8, <2>9, <2>10, <2>11, <2>12 DEF PipeInv
<1> QED BY <1>1, <1>2

(* A woken opener that looks for a partner again keeps the invariant.      *)
LEMMA PipeWakeKeeps ==
  ASSUME PipeInv, NEW o \in Opener, FifoWake(o)
  PROVE  PipeInv'
<1>1. /\ opener[o].pc = "sleep" /\ UNCHANGED <<half, dying, made, panic>>
      /\ opener \in [Opener -> OpenerSet] /\ opener[o] \in OpenerSet
  BY DEF FifoWake, PipeInv, PipeTypes
<1>2. Connected' /\ BuffersMade'
  BY <1>1 DEF PipeInv, Connected, BuffersMade, Alive
<1>3. CASE opener' = [opener EXCEPT ![o].pc = "open"] /\ UNCHANGED waiting
  <2> DEFINE r == [opener[o] EXCEPT !.pc = "open"]
  <2>1. opener' = [opener EXCEPT ![o] = r]
    BY <1>3
  <2>2. r \in OpenerSet /\ r.pc = "open" /\ r.sides = opener[o].sides
    BY <1>1 DEF OpenerSet
  <2> HIDE DEF r
  <2>3. /\ opener' \in [Opener -> OpenerSet] /\ opener'[o] = r
        /\ \A p \in Opener : p # o => opener'[p] = opener[p]
    BY <1>1, <2>1, <2>2
  <2>4. PipeTypes'
    BY <1>1, <2>3 DEF PipeInv, PipeTypes
  <2>5. UsersMatch'
    BY <1>1, <2>2, <2>3 DEF PipeInv, UsersMatch
  <2>6. PartnerSeen'
    BY <1>1, <1>3, <2>2, <2>3 DEF PipeInv, PartnerSeen
  <2> QED BY <1>2, <2>4, <2>5, <2>6 DEF PipeInv
<1>4. CASE /\ ~\E s \in opener[o].sides : Alive(Other(s))
           /\ waiting' = waiting \cup {o} /\ UNCHANGED opener
  <2>1. PICK s \in Side : opener[o].sides = {s}
    BY <1>1 DEF PipeInv, UsersMatch
  <2>2. half[Other(s)].users = {}
    BY <1>4, <2>1 DEF Alive
  <2>3. \A p \in Opener : opener[p].pc # "idle" /\ Cardinality(opener[p].sides) = 1 => opener[p].sides = opener[o].sides
    BY <1>1, <2>1, <2>2, LookedAndFoundNone DEF PipeInv
  <2>4. PipeTypes' /\ UsersMatch'
    BY <1>1, <1>4 DEF PipeInv, PipeTypes, UsersMatch
  <2>5. PartnerSeen'
    BY <1>4, <2>3 DEF PipeInv, PartnerSeen
  <2> QED BY <1>2, <2>4, <2>5 DEF PipeInv
<1> QED BY <1>3, <1>4 DEF FifoWake

(* Closing, a failed open and an interrupted one keep the invariant: the   *)
(* half that loses its last reference is dying with its buffer.            *)
LEMMA PipeCloseKeeps ==
  ASSUME PipeInv, NEW o \in Opener, FifoClose(o)
  PROVE  PipeInv'
<1> DEFINE last == {r \in Side : half[r].users = {o}}
           gone == {[buf |-> half[s].buf, side |-> s] : s \in last}
<1>1. /\ half' = [s \in Side |-> [half[s] EXCEPT !.users = @ \ {o}]]
      /\ dying' = dying \cup gone
      /\ opener' = [opener EXCEPT ![o] = NotOpening]
      /\ waiting' = waiting \ {o} /\ UNCHANGED <<made, panic>>
  BY DEF FifoClose
<1>2. /\ \A s \in Side : half[s] \in HalfSet /\ half[s].buf \in Nat /\ half[s].users \in SUBSET Opener
      /\ opener \in [Opener -> OpenerSet] /\ dying \in SUBSET DyingSet /\ IsFiniteSet(dying)
      /\ made \in 0..MaxBuffer /\ panic \in BOOLEAN
  BY HalfFacts DEF PipeInv, PipeTypes
<1>3. \A s \in Side : /\ half'[s] \in HalfSet /\ half'[s].buf = half[s].buf
                      /\ half'[s].users = half[s].users \ {o}
  BY <1>1, <1>2 DEF HalfSet
<1>4. half' \in [Side -> HalfSet]
  <2>1. half' = [s \in Side |-> half'[s]]
    BY <1>1
  <2> QED BY <1>3, <2>1
<1>5. gone \in SUBSET DyingSet /\ IsFiniteSet(gone)
  <2>2. \A s \in Side : [buf |-> half[s].buf, side |-> s] \in DyingSet
    BY <1>2 DEF DyingSet
  <2> DEFINE f(s) == [buf |-> half[s].buf, side |-> s]
  <2>3. gone \in SUBSET ({f("read")} \cup {f("write")})
    BY DEF Side
  <2>4. IsFiniteSet({f("read")}) /\ IsFiniteSet({f("write")})
    BY FS_Singleton
  <2>5. IsFiniteSet({f("read")} \cup {f("write")})
    BY <2>4, FS_Union
  <2>6. IsFiniteSet(gone)
    BY <2>3, <2>5, FS_Subset
  <2> QED BY <2>2, <2>6
<1>6. \A d \in gone : d.side \in last /\ d.buf = half[d.side].buf
  OBVIOUS
<1> HIDE DEF gone
<1>7. NotOpening \in OpenerSet /\ NotOpening.sides = {} /\ NotOpening.pc = "idle"
  BY DEF NotOpening, OpenerSet
<1>8. /\ opener' \in [Opener -> OpenerSet] /\ opener'[o] = NotOpening
      /\ \A p \in Opener : p # o => opener'[p] = opener[p]
  BY <1>1, <1>2, <1>7
<1>9. dying' \in SUBSET DyingSet /\ IsFiniteSet(dying')
  BY <1>1, <1>2, <1>5, FS_Union
<1>10. PipeTypes'
  BY <1>1, <1>2, <1>4, <1>8, <1>9 DEF PipeTypes
<1>11. UsersMatch'
  BY <1>3, <1>7, <1>8 DEF PipeInv, UsersMatch
<1>12. BuffersMade'
  BY <1>1, <1>3, <1>6 DEF PipeInv, BuffersMade
<1>13. Connected'
  <2>1. \A s \in Side : Alive(s)' => Alive(s) /\ s \notin last
    BY <1>3 DEF Alive
  <2>2. Alive("read")' /\ Alive("write")' => half'["read"].buf = half'["write"].buf
    BY <1>3, <2>1 DEF PipeInv, Connected, Side
  <2>3. ASSUME NEW d \in dying', NEW s \in Side, Alive(s)', half'[s].buf = d.buf
        PROVE  s # d.side
    BY <1>1, <1>3, <1>6, <2>1, <2>3 DEF PipeInv, Connected
  <2> QED BY <2>2, <2>3 DEF Connected
<1>14. PartnerSeen'
  BY <1>1, <1>7, <1>8 DEF PipeInv, PartnerSeen
<1> QED BY <1>10, <1>11, <1>12, <1>13, <1>14 DEF PipeInv

(* The end of a dying half keeps the invariant.                            *)
LEMMA DropHalfKeeps ==
  ASSUME PipeInv, NEW d \in dying, DropHalf(d)
  PROVE  PipeInv'
<1>1. dying' = dying \ {d} /\ UNCHANGED <<half, made, opener, waiting, panic>>
  BY DEF DropHalf
<1>2. IsFiniteSet(dying')
  BY <1>1, FS_Subset DEF PipeInv, PipeTypes
<1>3. \A s : Alive(s)' <=> Alive(s)
  BY <1>1 DEF Alive
<1> QED BY <1>1, <1>2, <1>3 DEF PipeInv, PipeTypes, UsersMatch, BuffersMade, Connected, PartnerSeen

(* Every step of every opener, and every end of a half, keeps the          *)
(* invariant.                                                              *)
LEMMA PipeStepKeeps ==
  ASSUME PipeAssumption, PipeInv, [FifoNext]_fifoVars
  PROVE  PipeInv'
<1>1. CASE UNCHANGED fifoVars
  <2>1. UNCHANGED <<half, dying, made, opener, waiting>> /\ panic' \in BOOLEAN
    BY <1>1 DEF fifoVars, PipeInv, PipeTypes
  <2> QED BY <2>1, PipeStutters
<1>2. "read" \in Side /\ "write" \in Side
  BY DEF Side
<1> QED BY <1>1, <1>2, OpenSideKeeps, OpenReadWriteKeeps, PipeWakeKeeps, PipeCloseKeeps, DropHalfKeeps DEF FifoNext

(* Named pipes (pipe/named.rs): for any number of openers and buffers,     *)
(* readers and writers share one buffer, no buffer has two halves of a     *)
(* side, and nobody who was armed sleeps while a partner of the other side *)
(* is there.                                                               *)
THEOREM FifosConnect == FifoSpec => []FifoConnects
<1>0. PipeAssumption
  BY PipeConstants
<1>1. FifoInit => PipeInv
  BY <1>0, PipeInitHolds
<1>2. PipeInv /\ [FifoNext]_fifoVars => PipeInv'
  BY <1>0, PipeStepKeeps
<1>3. PipeInv => FifoConnects
  <2>1. PipeInv => \A o \in Opener : opener[o].pc \in {"idle", "sleep", "open", "fail"}
    BY <1>0, HalfFacts DEF OpenerSet
  <2> QED BY <2>1 DEF FifoTypeOK, PipeInv, PipeTypes, FifoConnects
<1> QED BY <1>1, <1>2, <1>3, PTL DEF FifoSpec
=============================================================================
