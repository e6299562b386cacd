--------------------------- MODULE CommandBuffer ----------------------------
(***************************************************************************)
(* The ring of bytes through which the workload kernel sends commands to   *)
(* the supervisor (common/supervisor-services/src/command_buffer.rs).      *)
(*                                                                         *)
(* The kernel pushes under the WRITER mutex, so there is one writer at a   *)
(* time; the supervisor has one reader (the TDX supervisor takes a lock    *)
(* first).  Writer and reader run on different processors and every access *)
(* to a shared byte or index is a step of its own.                         *)
(*                                                                         *)
(* The k-th byte of command c is the pair <<c, k>>; byte 0 is C::ID, the   *)
(* others are the payload.                                                 *)
(***************************************************************************)
EXTENDS Integers, Sequences

CONSTANTS COMMAND_BUFFER_SIZE,  \* bytes in the ring
          Command,              \* the commands the kernel may issue
          PayloadSize,          \* size_of::<C>() of every command
          NoCommand

ASSUME BufferAssumption ==
  /\ COMMAND_BUFFER_SIZE \in Nat \ {0}
  /\ PayloadSize \in [Command -> Nat]
  /\ NoCommand \notin Command

Index == 0 .. COMMAND_BUFFER_SIZE - 1
Byte  == Command \X Nat
NoByte == <<NoCommand, 0>>

VARIABLES
  completed_index,  \* index of the first byte the reader has not released
  pending_index,    \* index past the last published byte
  buffer,
  writer,           \* the push in progress
  reader,           \* the handle in progress
  dispatched,       \* the command dispatched last
  unread,           \* history: the published and not yet released bytes
  pushed            \* history: the commands these bytes are the encoding of

vars == <<completed_index, pending_index, buffer, writer, reader, dispatched, unread, pushed>>

IdleWriter == [pc |-> "idle", cmd |-> NoCommand, idx |-> 0, pos |-> 0]
IdleReader == [pc |-> "idle", idx |-> 0, got |-> <<>>]

Init ==
  /\ completed_index = 0
  /\ pending_index = 0
  /\ buffer = [i \in Index |-> NoByte]
  /\ writer = IdleWriter
  /\ reader = IdleReader
  /\ dispatched = NoCommand
  /\ unread = <<>>
  /\ pushed = <<>>

-----------------------------------------------------------------------------
(* index += 1; if index == COMMAND_BUFFER_SIZE { index = 0 } *)
NextIndex(i) == IF i + 1 = COMMAND_BUFFER_SIZE THEN 0 ELSE i + 1

AvailableCapacityOffByOne ==
  IF completed_index <= pending_index
  THEN completed_index + (COMMAND_BUFFER_SIZE - pending_index)
  ELSE completed_index - pending_index

(* One byte of the ring always stays free: a full ring would look empty. *)
AvailableCapacity ==
  IF completed_index <= pending_index
  THEN completed_index + (COMMAND_BUFFER_SIZE - 1 - pending_index)
  ELSE completed_index - pending_index - 1

(* CommandBufferWriter::push *)
BeginPush(c) ==
  /\ writer.pc = "idle"
  /\ AvailableCapacity >= 1 + PayloadSize[c]      \* else Err(CapacityError)
  /\ writer' = [pc |-> "store", cmd |-> c, idx |-> pending_index, pos |-> 0]
  /\ UNCHANGED <<completed_index, pending_index, buffer, reader, dispatched, unread, pushed>>

StoreByte ==
  /\ writer.pc = "store"
  /\ writer.pos <= PayloadSize[writer.cmd]
  /\ buffer' = [buffer EXCEPT ![writer.idx] = <<writer.cmd, writer.pos>>]
  /\ writer' = [writer EXCEPT !.idx = NextIndex(@), !.pos = @ + 1]
  /\ UNCHANGED <<completed_index, pending_index, reader, dispatched, unread, pushed>>

Bytes(c) == [k \in 1 .. 1 + PayloadSize[c] |-> <<c, k - 1>>]

PublishEarly ==
  /\ writer.pc = "store"
  /\ writer.pos >= PayloadSize[writer.cmd]
  /\ pending_index' = NextIndex(writer.idx)
  /\ unread' = unread \o Bytes(writer.cmd)
  /\ pushed' = Append(pushed, writer.cmd)
  /\ writer' = IdleWriter
  /\ UNCHANGED <<completed_index, buffer, reader, dispatched>>

Publish ==
  /\ writer.pc = "store"
  /\ writer.pos > PayloadSize[writer.cmd]
  /\ pending_index' = writer.idx
  /\ unread' = unread \o Bytes(writer.cmd)
  /\ pushed' = Append(pushed, writer.cmd)
  /\ writer' = IdleWriter
  /\ UNCHANGED <<completed_index, buffer, reader, dispatched>>

-----------------------------------------------------------------------------
(* CommandBufferReader::handle *)
BeginHandle ==
  /\ reader.pc = "idle"
  /\ pending_index # completed_index              \* else return false
  /\ reader' = [pc |-> "load", idx |-> completed_index, got |-> <<>>]
  /\ UNCHANGED <<completed_index, pending_index, buffer, writer, dispatched, unread, pushed>>

(* All bytes of the command whose id was read first have been read. *)
HaveCommand ==
  /\ reader.got # <<>>
  /\ reader.got[1][1] \in Command                 \* else "unknown command id"
  /\ Len(reader.got) > PayloadSize[reader.got[1][1]]

LoadByte ==
  /\ reader.pc = "load"
  /\ ~HaveCommand
  /\ reader' = [reader EXCEPT !.got = Append(@, buffer[reader.idx]),
                              !.idx = NextIndex(@)]
  /\ UNCHANGED <<completed_index, pending_index, buffer, writer, dispatched, unread, pushed>>

DispatchUnlessWrapped ==
  /\ reader.pc = "load"
  /\ HaveCommand
  /\ dispatched' = IF reader.idx = 0 THEN dispatched ELSE reader.got[1][1]
  /\ reader' = [reader EXCEPT !.pc = "release"]
  /\ UNCHANGED <<completed_index, pending_index, buffer, writer, unread, pushed>>

(* The handler runs before the bytes are released. *)
Dispatch ==
  /\ reader.pc = "load"
  /\ HaveCommand
  /\ dispatched' = reader.got[1][1]
  /\ reader' = [reader EXCEPT !.pc = "release"]
  /\ UNCHANGED <<completed_index, pending_index, buffer, writer, unread, pushed>>

Release ==
  /\ reader.pc = "release"
  /\ completed_index' = reader.idx
  /\ unread' = SubSeq(unread, Len(reader.got) + 1, Len(unread))
  /\ pushed' = Tail(pushed)
  /\ reader' = IdleReader
  /\ UNCHANGED <<pending_index, buffer, writer, dispatched>>

-----------------------------------------------------------------------------
WriterNext == StoreByte \/ Publish \/ \E c \in Command : BeginPush(c)
ReaderNext == BeginHandle \/ LoadByte \/ Dispatch \/ Release
Next == WriterNext \/ ReaderNext

Spec == Init /\ [][Next]_vars
(* The supervisor runs `while handle() {}` whenever it is kicked. *)
FairSpec == Spec /\ WF_vars(ReaderNext)

-----------------------------------------------------------------------------
TypeOK ==
  /\ completed_index \in Index
  /\ pending_index \in Index
  /\ buffer \in [Index -> Byte \cup {NoByte}]
  /\ writer \in [pc : {"idle", "store"}, cmd : Command \cup {NoCommand},
                 idx : Index, pos : Nat]
  /\ reader \in [pc : {"idle", "load", "release"}, idx : Index, got : Seq(Byte \cup {NoByte})]
  /\ dispatched \in Command \cup {NoCommand}
  /\ unread \in Seq(Byte)
  /\ pushed \in Seq(Command)

(* The supervisor never reads a torn or an overwritten command: what handle *)
(* has read so far is a prefix of one command, the oldest published one.    *)
CommandIntact ==
  reader.pc # "idle" =>
    /\ Len(reader.got) <= Len(unread)
    /\ \A k \in 1 .. Len(reader.got) :
         reader.got[k] = unread[k] /\ reader.got[k] = <<reader.got[1][1], k - 1>>

(* push never overwrites a byte the supervisor has yet to release, and the  *)
(* ring never becomes so full that it looks empty.                          *)
Offset(i, k) == IF i + k < COMMAND_BUFFER_SIZE THEN i + k ELSE i + k - COMMAND_BUFFER_SIZE
UnreadIntact ==
  /\ Len(unread) < COMMAND_BUFFER_SIZE
  /\ pending_index = Offset(completed_index, Len(unread))
  /\ \A k \in 1 .. Len(unread) : buffer[Offset(completed_index, k - 1)] = unread[k]

(* The ring between push and handle is never torn, overwritten or overfull. *)
BufferSound == TypeOK /\ CommandIntact /\ UnreadIntact

(* The ring of bytes implements a queue of commands: whatever the           *)
(* interleaving of push and handle, commands are executed whole, once, in   *)
(* the order of the pushes.                                                 *)
Queue == INSTANCE CommandQueue
           WITH queue <- IF reader.pc = "release" THEN Tail(pushed) ELSE pushed
ImplementsQueue == Queue!Spec

(* Every published command is executed, once the supervisor runs its loop,  *)
(* before its bytes are released.                                           *)
EveryCommandHandled ==
  \A c \in Command :
    pushed # <<>> /\ pushed[1] = c ~> reader.pc = "release" /\ dispatched = c
=============================================================================
