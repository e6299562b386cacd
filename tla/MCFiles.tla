-------------------------------- MODULE MCFiles -------------------------------
(***************************************************************************)
(* Open files and the descriptors that name them, one part at a time:      *)
(* subject says which part a behaviour is about.  The properties of file   *)
(* locks and of named pipes are FileLock's and NamedPipe's own.            *)
(***************************************************************************)
EXTENDS Streams, FileLock, NamedPipe

CONSTANTS CHUNK, MaxSize, Offsets, MaxDisturb,
          Names, Room, MaxListed,
          Nobody, Nums, Limits

VARIABLES subject,
          data, mode, cursor, mover, got, lost, disturbed,
          dir, entries, listed, steady,
          table, uses, limit, changer

Cursors == INSTANCE OpenFile WITH Lens <- Offsets, thread <- mover
Listing == INSTANCE OpenDir WITH Lens <- Room
Tables == INSTANCE FdTable WITH call <- changer

MCNums == {-1, 0, 1}
MCKinds == {"pipe", "socket", "seqpacket", "eventfd"}
MCLens == [k \in MCKinds |-> IF k = "seqpacket" THEN {2} ELSE {2, 3}]
MCMaxSent == [k \in MCKinds |-> IF k = "seqpacket" THEN 3 ELSE 5]
Symmetry == Permutations(Thread)

cursorVars == <<data, mode, cursor, mover, got, lost, disturbed>>
listVars == <<dir, entries, listed, steady>>
tableVars == <<table, uses, limit, changer>>
allVars == <<subject, vars, fifoVars, lockVars, cursorVars, listVars, tableVars>>

Subjects == {"streams", "fifo", "locks", "cursors", "listing", "tables"}

\* A part that a behaviour is not about stays in one of its initial states.
FilesInit ==
    /\ subject \in Subjects
    /\ Init /\ (subject # "streams" => kind = "pipe")
    /\ FifoInit /\ LockInit
    /\ Cursors!Init /\ (subject # "cursors" => mode = [in |-> "readonly", out |-> "append"])
    /\ Listing!Init /\ Tables!Init

FilesNext ==
    /\ UNCHANGED subject
    /\ \/ /\ subject = "streams" /\ Next
          /\ UNCHANGED <<fifoVars, lockVars, cursorVars, listVars, tableVars>>
       \/ /\ subject = "fifo" /\ FifoNext
          /\ UNCHANGED <<vars, lockVars, cursorVars, listVars, tableVars>>
       \/ /\ subject = "locks" /\ LockNext
          /\ UNCHANGED <<vars, fifoVars, cursorVars, listVars, tableVars>>
       \/ /\ subject = "cursors" /\ Cursors!Next
          /\ UNCHANGED <<vars, fifoVars, lockVars, listVars, tableVars>>
       \/ /\ subject = "listing" /\ Listing!Next
          /\ UNCHANGED <<vars, fifoVars, lockVars, cursorVars, tableVars>>
       \/ /\ subject = "tables" /\ Tables!Next
          /\ UNCHANGED <<vars, fifoVars, lockVars, cursorVars, listVars>>

FilesSpec == FilesInit /\ [][FilesNext]_allVars

-----------------------------------------------------------------------------
\* Blocking calls on pipes, sockets and eventfds (stream_buffer.rs, notify.rs,
\* do_io): nobody sleeps through what they wait for.
StreamsAwake == subject = "streams" => TypeOK /\ NoLostWakeup

\* Bytes and packets are read as they were written, and the end of a stream is
\* reported only when there is nothing left (stream_buffer.rs, seq_packet.rs).
StreamsIntact == subject = "streams" => InOrder /\ EofFinal

\* Cursors and directory listings (file.rs, dir.rs): what is shared is consumed
\* once, and nothing that was there throughout is left out.
EachOnce ==
    /\ subject = "cursors" => Cursors!ConsumedOnce
    /\ subject = "listing" => Listing!ListedOnce

\* Descriptor tables (fd.rs): dup, open, pipe2 and F_DUPFD take the lowest free
\* number of the table, whatever calls of other threads come in between.
NumbersLowest == subject = "tables" => Tables!TypeOK /\ Tables!LowestFree
===============================================================================
