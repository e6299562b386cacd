-------------------------------- MODULE Time --------------------------------
(***************************************************************************)
(* The simulated time of the workload kernel (tee/kernel/src/time.rs):     *)
(* the clock, the heap of timeouts, and the skip to the next timeout that  *)
(* the last running vCPU takes when nothing can run.  Every operation      *)
(* holds the lock of STATE.  A sleeper stands for one call of sleep_until  *)
(* at a time; it may drop its receiver before the timeout fires (a futex   *)
(* that was woken, a poll that found an event), which leaves its timeout   *)
(* in the heap.                                                            *)
(***************************************************************************)
EXTENDS Integers, Sequences, SequencesExt

CONSTANTS Sleeper,    \* concurrent calls of sleep_until
          MaxTime,    \* bound on the clock and the deadlines
          MaxHeap,    \* bound on the timeouts in the heap
          Nobody      \* the sender of a timeout whose receiver was dropped

VARIABLES
  backend_offset,   \* State
  skip_offset,
  realtime_offset,
  timeouts,         \* State::timeouts: the heap's array of [time, sender]
  deadline,         \* what every sleeper waits for, NotSleeping if nothing
  late              \* history: by how much every sleeper overslept

vars == <<backend_offset, skip_offset, realtime_offset, timeouts, deadline, late>>
NotSleeping == -1
Time == 0 .. MaxTime

combine == backend_offset + skip_offset
Valid(t) == t.sender # Nobody

-----------------------------------------------------------------------------
(* alloc::collections::BinaryHeap over Timeout, whose order is reversed:    *)
(* the root is the earliest timeout.                                        *)

Swap(h, i, j) == [h EXCEPT ![i] = h[j], ![j] = h[i]]

RECURSIVE SiftUp(_, _)
SiftUp(h, i) ==
  IF i > 1 /\ h[i].time < h[i \div 2].time THEN SiftUp(Swap(h, i, i \div 2), i \div 2) ELSE h

(* sift_down_to_bottom: along the earlier children to a leaf, then up *)
RECURSIVE SiftDown(_, _)
SiftDown(h, i) ==
  CASE 2 * i > Len(h) -> SiftUp(h, i)
    [] 2 * i = Len(h) -> SiftUp(Swap(h, i, 2 * i), 2 * i)
    [] OTHER -> LET c == IF h[2 * i].time >= h[2 * i + 1].time THEN 2 * i + 1 ELSE 2 * i
                IN  SiftDown(Swap(h, i, c), c)

HeapPush(h, t) == SiftUp(Append(h, t), Len(h) + 1)
HeapPop(h) ==
  IF Len(h) = 1 THEN <<>> ELSE SiftDown([Front(h) EXCEPT ![1] = Last(h)], 1)

-----------------------------------------------------------------------------
(* has_expired *)
Expired(t, now) == t.time <= now

(* fire_clocks: pop the timeouts from the heap until the first has not expired. *)
RECURSIVE Unfired(_, _)
Unfired(h, now) == IF h # <<>> /\ Expired(h[1], now) THEN Unfired(HeapPop(h), now) ELSE h

(* Wake the sleepers whose timeouts left the heap. *)
Wake(h, now) ==
  LET Fired == {s \in Sleeper : deadline[s] # NotSleeping /\ ~\E i \in DOMAIN h : h[i].sender = s}
  IN  /\ timeouts' = h
      /\ deadline' = [s \in Sleeper |-> IF s \in Fired THEN NotSleeping ELSE deadline[s]]
      /\ late' = [s \in Sleeper |-> IF s \in Fired THEN now - deadline[s] ELSE late[s]]

fire_clocks(now) == Wake(Unfired(timeouts, now), now)

Init ==
  /\ backend_offset = 0 /\ skip_offset = 0 /\ realtime_offset = 0
  /\ timeouts = <<>>
  /\ deadline = [s \in Sleeper |-> NotSleeping]
  /\ late = [s \in Sleeper |-> 0]

RefreshBack(offset) ==
  /\ backend_offset' = offset
  /\ fire_clocks(backend_offset' + skip_offset)
  /\ UNCHANGED <<skip_offset, realtime_offset>>

(* refresh, and read_clock, now: the backend may return any offset. *)
Refresh(offset) ==
  /\ backend_offset' = IF offset > backend_offset THEN offset ELSE backend_offset
  /\ fire_clocks(backend_offset' + skip_offset)
  /\ UNCHANGED <<skip_offset, realtime_offset>>

(* set_real_time: refresh; fails before the monotonic clock. *)
SetRealTime(offset, time) ==
  /\ backend_offset' = IF offset > backend_offset THEN offset ELSE backend_offset
  /\ fire_clocks(backend_offset' + skip_offset)
  /\ LET now == backend_offset' + skip_offset
     IN  IF time >= now THEN realtime_offset' = time - now
         ELSE UNCHANGED realtime_offset
  /\ UNCHANGED skip_offset

(* add_timeout: an expired timeout fires at once. *)
add_timeout(s, time) ==
  /\ \/ /\ Expired([time |-> time, sender |-> s], combine)
        /\ late' = [late EXCEPT ![s] = combine - time]
        /\ UNCHANGED <<timeouts, deadline>>
     \/ /\ ~Expired([time |-> time, sender |-> s], combine) /\ Len(timeouts) < MaxHeap
        /\ timeouts' = HeapPush(timeouts, [time |-> time, sender |-> s])
        /\ deadline' = [deadline EXCEPT ![s] = time]
        /\ UNCHANGED late
  /\ UNCHANGED <<backend_offset, skip_offset, realtime_offset>>

SleepUntil(s, time) == deadline[s] = NotSleeping /\ add_timeout(s, time)

(* The receiver is dropped: the oneshot channel is closed. *)
Cancel(s) ==
  /\ deadline[s] # NotSleeping
  /\ timeouts' = [i \in DOMAIN timeouts |->
                    IF timeouts[i].sender = s THEN [timeouts[i] EXCEPT !.sender = Nobody] ELSE timeouts[i]]
  /\ deadline' = [deadline EXCEPT ![s] = NotSleeping]
  /\ UNCHANGED <<backend_offset, skip_offset, realtime_offset, late>>

(* advance_to_next_timeout: timeouts.iter().find(|t| t.valid()), in the     *)
(* order of the heap's array                                                *)
NextTimeout == timeouts[CHOOSE i \in DOMAIN timeouts :
                 Valid(timeouts[i]) /\ \A j \in 1 .. i - 1 : ~Valid(timeouts[j])]

AdvanceToNextTimeout ==
  /\ \E i \in DOMAIN timeouts : Valid(timeouts[i])
  /\ skip_offset' = skip_offset
       + (IF NextTimeout.time > combine THEN NextTimeout.time - combine ELSE 0)
  /\ fire_clocks(backend_offset + skip_offset')
  /\ UNCHANGED <<backend_offset, realtime_offset>>

Next ==
  \/ \E offset \in 0 .. MaxTime - skip_offset :
       Refresh(offset) \/ \E time \in Time : SetRealTime(offset, time)
  \/ \E s \in Sleeper : Cancel(s) \/ \E time \in Time : SleepUntil(s, time)
  \/ AdvanceToNextTimeout

Spec == Init /\ [][Next]_vars

-----------------------------------------------------------------------------
TypeOK ==
  /\ backend_offset \in Time /\ skip_offset \in Time /\ combine \in Time
  /\ realtime_offset \in Nat
  /\ timeouts \in Seq([time : Time, sender : Sleeper \cup {Nobody}]) /\ Len(timeouts) <= MaxHeap
  /\ deadline \in [Sleeper -> Time \cup {NotSleeping}]
  /\ late \in [Sleeper -> Int]

(* No sleeper returns before its deadline. *)
NeverEarly == \A s \in Sleeper : late[s] >= 0

(* Once the lock is released no timeout in the heap has expired: a sleeper  *)
(* whose deadline has passed on the kernel's clock is awake, however the    *)
(* heap was filled and whatever was cancelled in it.                        *)
NoneOverdue == \A s \in Sleeper : deadline[s] # NotSleeping => deadline[s] > combine

(* A sleeper never wakes before its deadline, and is awake after the first  *)
(* operation that sees the clock past it.  How far past it that operation   *)
(* takes the clock is not bounded: see SkipsToEarliest.                     *)
DeadlinesKept == TypeOK /\ NeverEarly /\ NoneOverdue

(* Neither a refresh with an older backend offset nor a skip takes the      *)
(* monotonic clock back.                                                    *)
NotBack == backend_offset' + skip_offset' >= combine

(* A skip goes to the earliest deadline a sleeper waits for: "the mushroom  *)
(* kernel may skip forward in time when it determines that no tasks can be  *)
(* executed until the clock advances to a certain timestamp. This is        *)
(* transparent to the workload." (README.md)                                *)
SkipsToEarliest ==
  [][skip_offset' # skip_offset =>
       \A s \in Sleeper : deadline[s] # NotSleeping => deadline[s] >= backend_offset' + skip_offset']_vars
=============================================================================
