---- MODULE Profiler ----
(***************************************************************************)
(* The kernel's function profiler and the host's collection of its data.   *)
(* Each vCPU fills one half of its buffer while the host may still read    *)
(* the other; flush publishes the half with a header and a notify bit.  On *)
(* the host one thread polls the bits and hands the vCPUs to collector     *)
(* threads, which copy the entries and append them to the vCPU's file.     *)
(***************************************************************************)
EXTENDS Naturals, Sequences, SequencesExt

CONSTANTS Cpus,                \* the number of vCPUs: 0 .. Cpus - 1
          Collectors,          \* the number of collector threads
          PROFILER_ENTRIES, CALL_STACK_CAPACITY,
          Functions,           \* the functions that are called
          MaxEvents            \* vCPU -> its calls, returns and flushes

VARIABLES stack,       \* vCPU -> the recorded calls that have not returned
          deeper,      \* vCPU -> calls in progress that found the stack full
          local,       \* vCPU -> its LocalHeader
          buffer,      \* vCPU -> index -> entry
          headers, notify_flags, \* ProfilerControl
          cpu,         \* vCPU -> run, or spinning in flush; the entry it is adding
          states, available, poll, \* notification_poll_thread
          notify,      \* collector -> the index it is to process
          collector,   \* collector -> wait, copy or write; its vCPU, header and copy
          file,        \* vCPU -> its .dat file
          chunk, published, \* ghosts: the entries since the last flush, and before it
          events

kernel == <<stack, deeper, local, buffer, headers, cpu, chunk, published, events>>
host == <<states, available, poll, notify, collector, file>>
vars == <<kernel, notify_flags, host>>

Cpu == 0..(Cpus - 1)
Collector == 0..(Collectors - 1)
Half == PROFILER_ENTRIES \div 2
\* Processing(k) is the number k of the collector
Idle == Collectors
Notified == Collectors + 1
LOST_ENTRY == [type |-> "lost", depth |-> 0, address |-> "none"]
NoEntry == [type |-> "none", depth |-> 0, address |-> "none"]

Init ==
  /\ stack = [c \in Cpu |-> <<>>] /\ deeper = [c \in Cpu |-> 0]
  /\ local = [c \in Cpu |-> [start |-> 0, len |-> 0, lost |-> FALSE]]
  /\ buffer = [c \in Cpu |-> [i \in 0..(PROFILER_ENTRIES - 1) |-> NoEntry]]
  /\ headers = local /\ notify_flags = {}
  /\ cpu = [c \in Cpu |-> [pc |-> "run", entry |-> NoEntry]]
  /\ states = [c \in Cpu |-> Idle] /\ available = [k \in 1..Collectors |-> k - 1]
  /\ poll = [phase |-> "notified", i |-> 0]
  /\ notify = [k \in Collector |-> Cpus]
  /\ collector = [k \in Collector |->
                    [pc |-> "wait", cpu |-> 0, header |-> local[0], copy |-> <<>>]]
  /\ file = [c \in Cpu |-> <<>>]
  /\ chunk = [c \in Cpu |-> <<>>] /\ published = [c \in Cpu |-> <<>>]
  /\ events = [c \in Cpu |-> 0]

---------------------------------------------------------------------------
(* The kernel *)

Count(c) == events[c] < MaxEvents[c] /\ events' = [events EXCEPT ![c] = @ + 1]

(* The end of add_entry, once there is room for the entry *)
Store(c, entry, header) ==
  /\ buffer' = [buffer EXCEPT ![c][header.start + header.len] = entry]
  /\ local' = [local EXCEPT ![c] = [header EXCEPT !.len = @ + 1]]

(* add_entry: a full half is flushed first *)
AddEntry(c, entry) ==
  IF local[c].len = Half
  THEN /\ cpu' = [cpu EXCEPT ![c] = [pc |-> "flush", entry |-> entry]]
       /\ UNCHANGED <<buffer, local, chunk>>
  ELSE /\ Store(c, entry, local[c])
       /\ chunk' = [chunk EXCEPT ![c] = Append(@, entry)]
       /\ UNCHANGED cpu

mcount(c, f) ==
  /\ cpu[c].pc = "run" /\ Count(c)
  /\ IF Len(stack[c]) = CALL_STACK_CAPACITY
     THEN /\ local' = [local EXCEPT ![c].lost = TRUE]
          /\ deeper' = [deeper EXCEPT ![c] = @ + 1]
          /\ UNCHANGED <<stack, buffer, cpu, chunk>>
     ELSE /\ stack' = [stack EXCEPT ![c] = Append(@, f)]
          /\ AddEntry(c, [type |-> "entry", depth |-> Len(stack[c]) + 1, address |-> f])
          /\ UNCHANGED deeper
  /\ UNCHANGED <<headers, notify_flags, published, host>>

(* A call that was not recorded returns past the trampoline *)
PlainReturn(c) ==
  /\ cpu[c].pc = "run" /\ deeper[c] > 0
  /\ deeper' = [deeper EXCEPT ![c] = @ - 1]
  /\ UNCHANGED <<stack, local, buffer, headers, cpu, chunk, published, events, notify_flags, host>>

trampoline(c) ==
  /\ cpu[c].pc = "run" /\ deeper[c] = 0 /\ stack[c] # <<>> /\ Count(c)
  /\ stack' = [stack EXCEPT ![c] = Front(@)]
  /\ AddEntry(c, [type |-> "exit", depth |-> Len(stack[c]), address |-> Last(stack[c])])
  /\ UNCHANGED <<deeper, headers, notify_flags, published, host>>

flush(c) ==
  /\ cpu[c].pc = "run" /\ local[c].len > 0 /\ Count(c)
  /\ cpu' = [cpu EXCEPT ![c] = [pc |-> "flush", entry |-> NoEntry]]
  /\ UNCHANGED <<stack, deeper, local, buffer, headers, notify_flags, chunk, published, host>>

HostMayRead(c) == TRUE
HostDone(c) == c \notin notify_flags

Wrapped(i) == i % PROFILER_ENTRIES

(* The notify bit is clear: publish the header, start the other half, store the entry *)
Publish(c) ==
  /\ cpu[c].pc = "flush" /\ HostDone(c)
  /\ headers' = [headers EXCEPT ![c] = local[c]]
  /\ notify_flags' = notify_flags \cup {c}
  /\ published' = [published EXCEPT ![c] = @ \o
                     (IF local[c].lost THEN <<LOST_ENTRY>> ELSE chunk[c])]
  /\ LET fresh == [start |-> Wrapped(local[c].start + Half), len |-> 0, lost |-> FALSE]
     IN  IF cpu[c].entry = NoEntry
         THEN /\ local' = [local EXCEPT ![c] = fresh]
              /\ chunk' = [chunk EXCEPT ![c] = <<>>]
              /\ UNCHANGED buffer
         ELSE /\ Store(c, cpu[c].entry, fresh)
              /\ chunk' = [chunk EXCEPT ![c] = <<cpu[c].entry>>]
  /\ cpu' = [cpu EXCEPT ![c] = [pc |-> "run", entry |-> NoEntry]]
  /\ UNCHANGED <<stack, deeper, events, host>>

---------------------------------------------------------------------------
(* The thread that polls the notify bits *)

(* The next vCPU of a pass over states, or the next pass *)
Advance(next) ==
  poll' = IF poll.i + 1 < Cpus THEN [poll EXCEPT !.i = @ + 1] ELSE [phase |-> next, i |-> 0]

PollNotified ==
  /\ poll.phase = "notified"
  /\ states' = IF states[poll.i] = Idle /\ poll.i \in notify_flags
               THEN [states EXCEPT ![poll.i] = Notified] ELSE states
  /\ Advance("finished")
  /\ UNCHANGED <<kernel, notify_flags, available, notify, collector, file>>

(* try_lock fails while the collector copies and writes; Some(i) means it has not begun *)
Finished(k) == collector[k].pc = "wait" /\ notify[k] = Cpus

PollFinished ==
  /\ poll.phase = "finished"
  /\ IF \E k \in Collector : states[poll.i] = k /\ Finished(k)
     THEN LET k == states[poll.i]
          IN  /\ states' = [states EXCEPT ![poll.i] = Idle]
              /\ notify_flags' = notify_flags \ {poll.i}
              /\ available' = Append(available, k)
     ELSE UNCHANGED <<states, notify_flags, available>>
  /\ Advance("start")
  /\ UNCHANGED <<kernel, notify, collector, file>>

(* One round of the loop that hands the first notified vCPU to an available collector *)
PollStart ==
  /\ poll.phase = "start"
  /\ IF available # <<>> /\ \E i \in Cpu : states[i] = Notified
     THEN LET i == CHOOSE i \in Cpu :
                     states[i] = Notified /\ \A j \in Cpu : states[j] = Notified => i <= j
              k == Last(available)
          IN  /\ available' = Front(available)
              /\ notify' = [notify EXCEPT ![k] = i]
              /\ states' = [states EXCEPT ![i] = k]
              /\ UNCHANGED poll
     ELSE /\ poll' = [phase |-> "notified", i |-> 0]
          /\ UNCHANGED <<available, notify, states>>
  /\ UNCHANGED <<kernel, notify_flags, collector, file>>

---------------------------------------------------------------------------
(* A collector thread *)

Take(k) ==
  /\ collector[k].pc = "wait" /\ notify[k] # Cpus
  /\ collector' = [collector EXCEPT ![k] =
       [pc |-> IF headers[notify[k]].lost THEN "write" ELSE "copy", cpu |-> notify[k],
        header |-> headers[notify[k]],
        copy |-> IF headers[notify[k]].lost THEN <<LOST_ENTRY>> ELSE <<>>]]
  /\ notify' = [notify EXCEPT ![k] = Cpus]
  /\ UNCHANGED <<kernel, notify_flags, states, available, poll, file>>

Copy(k) ==
  /\ collector[k].pc = "copy"
  /\ LET me == collector[k]
         copied == Append(me.copy, buffer[me.cpu][me.header.start + Len(me.copy)])
     IN  collector' = [collector EXCEPT ![k].copy = copied,
                         ![k].pc = IF Len(copied) = me.header.len THEN "write" ELSE "copy"]
  /\ UNCHANGED <<kernel, notify_flags, states, available, poll, notify, file>>

(* The guard of notify is held until the thread waits again, after the write *)
WriteFile(k) ==
  /\ collector[k].pc = "write"
  /\ file' = [file EXCEPT ![collector[k].cpu] = @ \o collector[k].copy]
  /\ collector' = [collector EXCEPT ![k].pc = "wait", ![k].copy = <<>>]
  /\ UNCHANGED <<kernel, notify_flags, states, available, poll, notify>>

Step(c) ==
  \/ \E f \in Functions : mcount(c, f)
  \/ PlainReturn(c)
  \/ trampoline(c)
  \/ flush(c)
Poll == PollNotified \/ PollFinished \/ PollStart
Collect(k) == Take(k) \/ Copy(k) \/ WriteFile(k)

Next ==
  \/ \E c \in Cpu : Step(c) \/ Publish(c)
  \/ Poll
  \/ \E k \in Collector : Collect(k)

Spec == Init /\ [][Next]_vars
FairSpec ==
  /\ Spec
  /\ \A c \in Cpu : WF_vars(Publish(c))
  /\ WF_vars(Poll)
  /\ \A k \in Collector : WF_vars(Collect(k))

---------------------------------------------------------------------------
(* Properties *)

TypeOK ==
  /\ \A c \in Cpu : local[c].start \in {0, Half} /\ local[c].len \in 0..Half
  /\ notify_flags \subseteq Cpu
  /\ IsInjective(available)

(* What the host has written for a vCPU is a prefix of what the vCPU published, in order and
   without a torn entry, and all of it once the notify bit is clear. *)
TraceIntact ==
  \A c \in Cpu :
    /\ IsPrefix(file[c], published[c])
    /\ c \notin notify_flags => file[c] = published[c]

(* While a notify bit is set the kernel writes only to the half the header does not name. *)
HalvesApart ==
  \A c \in notify_flags : headers[c].start # local[c].start

ProfilerSound == TypeOK /\ TraceIntact /\ HalvesApart
====
