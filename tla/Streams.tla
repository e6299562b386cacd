------------------------------- MODULE Streams -------------------------------
(***************************************************************************)
(* Blocking I/O on the descriptors whose two ends meet in the kernel: pipes *)
(* and stream sockets (fs/fd/stream_buffer.rs), sequenced-packet sockets    *)
(* (fs/fd/unix_socket/seq_packet.rs) and event counters (fs/fd/eventfd.rs), *)
(* with read, write, poll, select and epoll_wait (process/syscall.rs) and   *)
(* the notifications (rt/notify.rs) they sleep on.                          *)
(*                                                                         *)
(* An object has the ends "a" and "b". queue[e] is what can be read at end  *)
(* e; its bytes (packets) are numbered in the order they were written.      *)
(* A Notify is the set of the threads that called wait since the last       *)
(* notify: its generation differs from the recorded one iff the thread is   *)
(* no longer in the set.                                                    *)
(***************************************************************************)
EXTENDS Integers, Sequences, SequencesExt

CONSTANTS Thread,
          Kinds,      \* the kinds of objects to look at
          EpollKinds, \* bound: the kinds that are added to an epoll instance
          CAPACITY,   \* bytes in a buffer
          PIPE_BUF,   \* writes up to this size are atomic
          MAX,        \* the largest value of an event counter
          Lens,       \* sizes of reads and writes, by kind
          MaxSent     \* bound: bytes (packets, additions) written

VARIABLES kind, queue, counter,
          strong,     \* halves that hold the buffer of an end
          armed,      \* Notify: the threads waiting since the last notify
          holder,     \* the threads whose descriptor table holds an end
          dropping,   \* what dropping an end still has to do
          thread, interest,
          epolling,   \* the thread that holds the lock of the interest list
          sent, received, eof

vars == <<kind, queue, counter, strong, armed, holder, dropping, thread, interest, epolling,
          sent, received, eof>>
object == <<kind, queue, counter, strong, sent, received, eof>>

End == {"a", "b"}
Peer(e) == IF e = "a" THEN "b" ELSE "a"
Stream == kind \in {"pipe", "socket"}

-----------------------------------------------------------------------------
(* The ends: the buffers they read and write, and the notifications their   *)
(* ready methods wait for.                                                  *)
PipeReadEnd == [reads |-> {"a"}, writes |-> {}, waits |-> {"a"}]
PipeWriteEnd == [reads |-> {}, writes |-> {"a"}, waits |-> {"a"}]
SocketEnd(e) == [reads |-> {e}, writes |-> {Peer(e)}, waits |-> End]
PacketEnd(e) == [reads |-> {e}, writes |-> {Peer(e)}, waits |-> End]
EventEnd == [reads |-> {"a"}, writes |-> {"a"}, waits |-> {"a"}]

Description(e) ==
    IF kind = "pipe" THEN (IF e = "a" THEN PipeReadEnd ELSE PipeWriteEnd)
    ELSE IF kind = "socket" THEN SocketEnd(e)
    ELSE IF kind = "seqpacket" THEN PacketEnd(e)
    ELSE EventEnd

Ends == IF kind = "eventfd" THEN {"a"} ELSE End
Target(e) == CHOOSE n \in Description(e).writes : TRUE
ATOMIC_WRITE_SIZE == IF kind = "pipe" THEN PIPE_BUF ELSE 1

\* An end is dropped when no table holds it and no call uses it.
Referenced(e) ==
    \/ holder[e] # {}
    \/ \E t \in Thread : e \in thread[t].ends
    \/ \E i \in interest : i.end = e

\* Notifying before the buffer is released: a plausible order of the fields.
NotifiesFirst(e) ==
    LET halves == Description(e).writes \cup Description(e).reads
        Half(n) == <<<<"notify", n>>, <<"release", n>>>>
    IN FlattenSeq([i \in DOMAIN SetToSeq(halves) |-> Half(SetToSeq(halves)[i])])

\* Dropping a half releases the buffer, then notifies; the write half goes
\* first. (Both halves of a socket are dropped with it.)
DropOrder(e) ==
    LET Half(halves) == IF halves = {} THEN <<>>
                        ELSE LET n == CHOOSE n \in halves : TRUE
                             IN <<<<"release", n>>, <<"notify", n>>>>
    IN IF kind = "eventfd" THEN <<>>
       ELSE Half(Description(e).writes) \o Half(Description(e).reads)

-----------------------------------------------------------------------------
(* Notify *)
Notified(n) == armed' = [armed EXCEPT ![n] = {}]
\* Dropping the future of a wait that has not ended removes its waker.
Disarmed(t) == armed' = [n \in End |-> armed[n] \ {t}]

-----------------------------------------------------------------------------
(* What an end is ready for. *)
ReadHalfReady(n) ==
    {ev \in {"READ", "HUP"} : strong[n] = 1 \/ (ev = "READ" /\ queue[n] # <<>>)}

WriteHalfReady(n) ==
    {ev \in {"WRITE", "ERR"} : strong[n] = 1 \/ (ev = "WRITE" /\ Len(queue[n]) < CAPACITY)}

PacketReady(e) ==
    {ev \in {"READ", "HUP"} : strong[e] = 1 \/ (ev = "READ" /\ queue[e] # <<>>)}
    \cup (IF strong[Peer(e)] = 1 THEN {"ERR"} ELSE {"WRITE"})

EventReady ==
    {ev \in {"READ", "WRITE"} : IF ev = "READ" THEN counter # 0 ELSE counter # MAX}

PollReady(e) ==
    IF Stream THEN UNION {ReadHalfReady(n) : n \in Description(e).reads}
                   \cup UNION {WriteHalfReady(n) : n \in Description(e).writes}
    ELSE IF kind = "seqpacket" THEN PacketReady(e)
    ELSE EventReady

Events(e) ==
    {ev \in {"READ", "WRITE"} :
        IF ev = "READ" THEN Description(e).reads # {} ELSE Description(e).writes # {}}

MaxRemainingCapacity(n) == CAPACITY - Len(queue[n])

CanWrite(n, count) ==
    IF count <= ATOMIC_WRITE_SIZE
    THEN count <= MaxRemainingCapacity(n)
    ELSE 0 < MaxRemainingCapacity(n)

-----------------------------------------------------------------------------
(* The calls *)
Idle == [op |-> "none", pc |-> "none", ends |-> {}, len |-> 0, block |-> FALSE]
EndOf(t) == CHOOSE e \in thread[t].ends : TRUE

Waits(t) ==
    UNION {Description(e).waits :
             e \in IF thread[t].op = "epoll" THEN {i.end : i \in interest} ELSE thread[t].ends}

\* The condition on which ready, ready_for_write and the futures of poll and
\* epoll_wait end.
Ready(t) ==
    IF thread[t].op = "read" THEN "READ" \in PollReady(EndOf(t))
    ELSE IF thread[t].op = "write"
    THEN IF kind = "pipe" THEN CanWrite("a", thread[t].len) \/ strong["a"] = 1
         ELSE "WRITE" \in PollReady(EndOf(t))
    ELSE IF thread[t].op = "poll"
    THEN \E e \in thread[t].ends : PollReady(e) \cap (Events(e) \cup {"HUP", "ERR"}) # {}
    ELSE IF thread[t].op = "select"
    THEN \E e \in thread[t].ends : PollReady(e) \cap Events(e) # {}
    ELSE \E i \in interest : PollReady(i.end) \cap i.events # {}

Init ==
    /\ kind \in Kinds
    /\ queue = [e \in End |-> <<>>]
    /\ counter = 0
    /\ strong = [e \in End |-> 2]
    /\ armed = [e \in End |-> {}]
    \* The ends were passed on: those of a pipe to all, those of a socket to one each.
    /\ \E owner \in [End -> Thread] :
          holder = [e \in End |-> IF e \notin Ends THEN {}
                                  ELSE IF kind \in {"pipe", "eventfd"} THEN Thread
                                  ELSE {owner[e]}]
    /\ dropping = [e \in End |-> IF e \in Ends THEN DropOrder(e) ELSE <<>>]
    /\ thread = [t \in Thread |-> Idle]
    /\ interest = {} /\ epolling = {}
    /\ sent = [e \in End |-> 0] /\ received = [e \in End |-> 0]
    /\ eof = [e \in End |-> FALSE]

\* A call ends: its description and the lock of the interest list are given up.
Return(t) ==
    /\ thread' = [thread EXCEPT ![t] = Idle]
    /\ epolling' = epolling \ {t}

Goto(t, pc) == thread' = [thread EXCEPT ![t].pc = pc] /\ UNCHANGED epolling

\* do_io and do_write_io on EAGAIN: wait, unless O_NONBLOCK was set.
Again(t) ==
    /\ IF thread[t].block THEN Goto(t, "arm") ELSE Return(t)
    /\ UNCHANGED <<object, armed>>

Call(t, op, pc, ends, len, block) ==
    /\ \A e \in ends : t \in holder[e]
    /\ thread' = [thread EXCEPT ![t] =
          [op |-> op, pc |-> pc, ends |-> ends, len |-> len, block |-> block]]
    /\ UNCHANGED <<object, armed, holder, dropping, interest>>

\* A call looks up the description and O_NONBLOCK (which eventfds ignore) once.
Read(t) ==
    /\ thread[t] = Idle /\ UNCHANGED epolling
    /\ \E e \in {x \in Ends : "READ" \in Events(x)}, len \in Lens[kind], block \in BOOLEAN :
          Call(t, "read", "try", {e}, len, block \/ kind = "eventfd")

Write(t) ==
    /\ thread[t] = Idle /\ UNCHANGED epolling
    /\ \E e \in {x \in Ends : "WRITE" \in Events(x)}, len \in Lens[kind], block \in BOOLEAN :
          /\ sent["a"] + sent["b"] + len <= MaxSent[kind]
          /\ Call(t, "write", "try", {e}, len, block \/ kind = "eventfd")

Poll(t) ==
    /\ thread[t] = Idle /\ UNCHANGED epolling
    /\ \E ends \in SUBSET Ends : ends # {} /\ Call(t, "poll", "arm", ends, 0, TRUE)

\* select and pselect6 do not look for HUP and ERR.
Select(t) ==
    /\ thread[t] = Idle /\ UNCHANGED epolling
    /\ \E ends \in SUBSET Ends : ends # {} /\ Call(t, "select", "arm", ends, 0, TRUE)

\* epoll_wait holds the spin lock of the interest list while it waits.
EpollWait(t) ==
    /\ thread[t] = Idle /\ epolling = {} /\ interest # {}
    /\ Call(t, "epoll", "arm", {}, 0, TRUE)
    /\ epolling' = {t}

epoll_add(e, events) == interest' = interest \cup {[end |-> e, events |-> events]}

EpollAdd(t) ==
    /\ thread[t] = Idle /\ epolling = {} /\ interest = {} /\ kind \in EpollKinds
    /\ \E e \in Ends : \E ev \in SUBSET Events(e) :
          /\ t \in holder[e] /\ ev # {}
          /\ epoll_add(e, ev)
    /\ UNCHANGED <<object, armed, holder, dropping, thread, epolling>>

\* The description of the epoll instance goes away, and its interest list.
EpollClose ==
    /\ interest # {} /\ epolling = {}
    /\ interest' = {}
    /\ UNCHANGED <<object, armed, holder, dropping, thread, epolling>>

-----------------------------------------------------------------------------
(* Waiting: arm the notifications, check, and sleep until one is sent. *)
Arm(t) ==
    /\ thread[t].pc = "arm"
    /\ armed' = [n \in End |-> IF n \in Waits(t) THEN armed[n] \cup {t} ELSE armed[n]]
    /\ Goto(t, "check")
    /\ UNCHANGED <<object, holder, dropping, interest>>

Check(t) ==
    /\ thread[t].pc = "check"
    /\ IF ~Ready(t) THEN Goto(t, "sleep") /\ UNCHANGED armed
       ELSE /\ Disarmed(t)
            /\ IF thread[t].op \in {"poll", "select", "epoll"} THEN Return(t) ELSE Goto(t, "try")
    /\ UNCHANGED <<object, holder, dropping, interest>>

Wake(t) ==
    /\ thread[t].pc = "sleep"
    /\ \E n \in Waits(t) : t \notin armed[n]
    /\ Disarmed(t) /\ Goto(t, "arm")
    /\ UNCHANGED <<object, holder, dropping, interest>>

\* A signal, or the timeout of poll and epoll_wait.
Interrupt(t) ==
    /\ thread[t].pc = "sleep"
    /\ Disarmed(t) /\ Return(t)
    /\ UNCHANGED <<object, holder, dropping, interest>>

-----------------------------------------------------------------------------
(* One attempt of a read or write. Copying to or from user memory may fail. *)
WasFull(n) == CAPACITY - Len(queue[n]) < ATOMIC_WRITE_SIZE

TookOut(n, k) ==
    /\ queue' = [queue EXCEPT ![n] = SubSeq(@, k + 1, Len(@))]
    /\ received' = [received EXCEPT ![n] = @ + k]

Fault(t) == Return(t) /\ UNCHANGED <<object, armed>>

\* Looking for the writer before looking at the buffer, as PacketRead does.
ClosedFirst(n) == strong[n] = 1

AtEof(n) == queue[n] = <<>> /\ strong[n] = 1

StreamRead(t) ==
    /\ Stream /\ thread[t].op = "read" /\ thread[t].pc = "try"
    /\ LET n == EndOf(t)
           k == IF thread[t].len < Len(queue[n]) THEN thread[t].len ELSE Len(queue[n])
       IN IF AtEof(n)
          THEN /\ eof' = [eof EXCEPT ![n] = TRUE]
               /\ Return(t)
               /\ UNCHANGED <<kind, queue, counter, strong, sent, received, armed>>
          ELSE IF queue[n] = <<>> THEN Again(t)
          ELSE \/ /\ TookOut(n, k) /\ Return(t)
                  /\ IF WasFull(n) THEN Notified(n) ELSE UNCHANGED armed
                  /\ UNCHANGED <<kind, counter, strong, sent, eof>>
               \/ Fault(t)
    /\ UNCHANGED <<holder, dropping, interest>>

\* A write looks for the reader before it takes the lock of the buffer.
StreamWriteCheck(t) ==
    /\ Stream /\ thread[t].op = "write" /\ thread[t].pc = "try"
    /\ IF strong[Target(EndOf(t))] > 1 THEN Goto(t, "lock") ELSE Return(t)
    /\ UNCHANGED <<object, armed, holder, dropping, interest>>

PutIn(n, items) ==
    /\ queue' = [queue EXCEPT ![n] = @ \o [i \in 1..items |-> sent[n] + i]]
    /\ sent' = [sent EXCEPT ![n] = @ + items]

StreamWrite(t) ==
    /\ Stream /\ thread[t].op = "write" /\ thread[t].pc = "lock"
    /\ LET n == Target(EndOf(t))
           len == thread[t].len
           k == IF len < MaxRemainingCapacity(n) THEN len ELSE MaxRemainingCapacity(n)
       IN IF CanWrite(n, len)
          THEN \/ /\ PutIn(n, k)
                  /\ thread' = [thread EXCEPT ![t].pc = "notify", ![t].len = len - k]
                  /\ UNCHANGED <<kind, counter, strong, received, eof, armed, epolling>>
               \/ Fault(t)
          ELSE Again(t)
    /\ UNCHANGED <<holder, dropping, interest>>

\* The lock is released before the notification; the rest of the bytes are
\* another write.
WriteNotify(t) ==
    /\ thread[t].pc = "notify"
    /\ Notified(Target(EndOf(t)))
    /\ IF thread[t].len > 0 THEN Goto(t, "try") ELSE Return(t)
    /\ UNCHANGED <<object, holder, dropping, interest>>

\* A packet is out of the queue before it is copied to the user.
PacketRead(t) ==
    /\ kind = "seqpacket" /\ thread[t].op = "read" /\ thread[t].pc = "try"
    /\ LET n == EndOf(t)
       IN \/ /\ strong[n] = 1
             /\ eof' = [eof EXCEPT ![n] = TRUE]
             /\ Return(t)
             /\ UNCHANGED <<kind, queue, counter, strong, sent, received, armed>>
          \/ /\ strong[n] # 1 /\ queue[n] # <<>>
             /\ TookOut(n, 1) /\ Return(t)
             /\ UNCHANGED <<kind, counter, strong, sent, eof, armed>>
          \/ strong[n] # 1 /\ queue[n] = <<>> /\ Again(t)
    /\ UNCHANGED <<holder, dropping, interest>>

PacketWrite(t) ==
    /\ kind = "seqpacket" /\ thread[t].op = "write" /\ thread[t].pc = "try"
    /\ \/ /\ PutIn(Target(EndOf(t)), 1)
          /\ thread' = [thread EXCEPT ![t].pc = "notify", ![t].len = 0]
          /\ UNCHANGED <<kind, counter, strong, received, eof, armed, epolling>>
       \/ Fault(t)
    /\ UNCHANGED <<holder, dropping, interest>>

\* Reading takes the whole value of the counter, and notifies nobody.
EventRead(t) ==
    /\ kind = "eventfd" /\ thread[t].op = "read" /\ thread[t].pc = "try"
    /\ IF counter = 0 THEN Again(t)
       ELSE /\ counter' = 0 /\ Return(t)
            /\ UNCHANGED <<kind, queue, strong, sent, received, eof, armed>>
    /\ UNCHANGED <<holder, dropping, interest>>

EventWrite(t) ==
    /\ kind = "eventfd" /\ thread[t].op = "write" /\ thread[t].pc = "try"
    /\ IF counter + thread[t].len > MAX THEN Again(t)
       ELSE /\ counter' = counter + thread[t].len
            /\ sent' = [sent EXCEPT !["a"] = @ + thread[t].len]
            /\ IF counter = 0
               THEN thread' = [thread EXCEPT ![t].pc = "notify", ![t].len = 0] /\ UNCHANGED epolling
               ELSE Return(t)
            /\ UNCHANGED <<kind, queue, strong, received, eof, armed>>
    /\ UNCHANGED <<holder, dropping, interest>>

-----------------------------------------------------------------------------
(* Descriptors *)
Close(t) ==
    /\ thread[t] = Idle
    /\ \E e \in Ends :
          /\ t \in holder[e]
          /\ holder' = [holder EXCEPT ![e] = @ \ {t}]
    /\ UNCHANGED <<object, armed, dropping, thread, interest, epolling>>

DropStep(e) ==
    /\ ~Referenced(e) /\ dropping[e] # <<>>
    /\ LET step == Head(dropping[e])
       IN IF step[1] = "release"
          THEN strong' = [strong EXCEPT ![step[2]] = @ - 1] /\ UNCHANGED armed
          ELSE Notified(step[2]) /\ UNCHANGED strong
    /\ dropping' = [dropping EXCEPT ![e] = Tail(@)]
    /\ UNCHANGED <<kind, queue, counter, holder, thread, interest, epolling, sent, received, eof>>

\* fcntl(F_SETFL) on a pipe sends a notification; on the others it sends none.
SetFlags(t) ==
    /\ thread[t] = Idle /\ kind = "pipe"
    /\ \E e \in Ends : t \in holder[e]
    /\ armed # [n \in End |-> {}]
    /\ Notified("a")
    /\ UNCHANGED <<object, holder, dropping, thread, interest, epolling>>

ThreadStep(t) ==
    \/ Arm(t) \/ Check(t) \/ Wake(t)
    \/ StreamRead(t) \/ StreamWriteCheck(t) \/ StreamWrite(t) \/ WriteNotify(t)
    \/ PacketRead(t) \/ PacketWrite(t) \/ EventRead(t) \/ EventWrite(t)

Next ==
    \/ \E t \in Thread :
          \/ Read(t) \/ Write(t) \/ Poll(t) \/ Select(t) \/ EpollWait(t) \/ EpollAdd(t)
          \/ ThreadStep(t) \/ Interrupt(t) \/ Close(t) \/ SetFlags(t)
    \/ \E e \in End : DropStep(e)
    \/ EpollClose

Spec == Init /\ [][Next]_vars

-----------------------------------------------------------------------------
TypeOK ==
    /\ kind \in Kinds
    /\ counter \in 0..MAX
    /\ \A e \in End : strong[e] \in 0..2
    /\ \A t \in Thread : thread[t].op = "none" => \A n \in End : t \notin armed[n]

\* A notification that is on its way: a write that has not notified yet, or an
\* end that is being dropped.
Owed(n) ==
    \/ \E t \in Thread : thread[t].pc = "notify" /\ Target(EndOf(t)) = n
    \/ \E e \in End : ~Referenced(e) /\ <<"notify", n>> \in Range(dropping[e])

\* Nobody sleeps through what they wait for: when a sleeping call could go on,
\* one of its notifications has been sent or is on its way. Writers that wait
\* for an event counter are excepted: nobody notifies them.
NoLostWakeup ==
    \A t \in Thread :
        /\ thread[t].pc = "sleep" /\ Ready(t)
        /\ kind = "eventfd" =>
              counter # 0 /\ (thread[t].op = "epoll" => \A i \in interest : "READ" \in i.events)
        /\ kind = "eventfd" => thread[t].op # "write"
        => \E n \in Waits(t) : t \notin armed[n] \/ Owed(n)

\* What is read is what was written, in order, without gaps or repetitions,
\* and a buffer never holds more than its capacity.
InOrder ==
    \A e \in End :
        /\ queue[e] = [i \in 1..(sent[e] - received[e]) |-> received[e] + i] \/ kind = "eventfd"
        /\ Stream => Len(queue[e]) <= CAPACITY

\* The end of a stream is final: it is reported only when everything that was
\* written has been read, and nothing can be written any more.
EofFinal == Stream => \A e \in End : eof[e] => received[e] = sent[e]
=============================================================================
