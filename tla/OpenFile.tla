------------------------------- MODULE OpenFile -------------------------------
(***************************************************************************)
(* Descriptions of regular files (fs/fd/file.rs) and the calls that move    *)
(* their data. Threads share the descriptions "in" and "out" of two files.  *)
(* A call on a description is atomic under its cursor's lock; sendfile,     *)
(* splice and copy_file_range read a chunk from one description and write   *)
(* it to the other in a second step.                                        *)
(***************************************************************************)
EXTENDS Integers, Sequences, SequencesExt, FiniteSetsExt

CONSTANTS Thread,
          CHUNK,      \* bytes that sendfile moves at once
          MaxSize,    \* bound: size of a file
          Lens,       \* lengths and offsets that calls name
          MaxDisturb  \* bound: calls that move a cursor or change data in place

VARIABLES data,       \* contents of the files; bytes of "in" are their positions
          mode,       \* what "in" and "out" were opened for
          cursor,
          thread,     \* [left, chunk]: a sendfile under way
          got,        \* bytes that read returned
          lost,       \* bytes whose write failed
          disturbed   \* calls that moved a cursor or changed data in place

vars == <<data, mode, cursor, thread, got, lost, disturbed>>

Desc == {"in", "out"}
Idle == [left |-> 0, chunk |-> <<>>]
Byte(x) == <<"new", x>>

\* open_file: the kind of description that the flags give. O_APPEND counts for
\* O_WRONLY only.
open_file(access, append) ==
    IF access = "WRONLY" THEN IF append THEN "append" ELSE "writeonly"
    ELSE IF access = "RDWR" THEN "readwrite" ELSE "readonly"

Init ==
    /\ data = [in |-> [i \in 1..MaxSize |-> Byte(i)], out |-> <<>>]
    /\ \E a, b \in {"RDONLY", "WRONLY", "RDWR"}, app \in BOOLEAN :
          mode = [in |-> open_file(a, FALSE), out |-> open_file(b, app)]
    /\ cursor = [d \in Desc |-> 0]
    /\ thread = [t \in Thread |-> Idle]
    /\ got = <<>> /\ lost = <<>> /\ disturbed = 0

CanRead(d) == mode[d] \in {"readonly", "readwrite"}
CanSeek(d) == mode[d] # "append"

Slice(s, pos, len) == SubSeq(s, pos + 1, IF pos + len < Len(s) THEN pos + len ELSE Len(s))
Padded(s, size) == [i \in 1..size |-> IF i <= Len(s) THEN s[i] ELSE Byte(0)]
Larger(a, b) == IF a < b THEN b ELSE a
Overwrite(s, pos, buf) ==
    [i \in 1..Larger(Len(s), pos + Len(buf)) |->
        IF i > pos /\ i <= pos + Len(buf) THEN buf[i - pos]
        ELSE IF i <= Len(s) THEN s[i] ELSE Byte(0)]

-----------------------------------------------------------------------------
\* A cursor that stays where it is.
Stays(pos, len) == pos

Advanced(pos, len) == pos + len

ReadFrom(d, len) ==
    LET buf == Slice(data[d], cursor[d], len)
    IN [buf |-> buf, cursor |-> [cursor EXCEPT ![d] = Advanced(@, Len(buf))]]

\* What a write of buf makes of d, or nothing for a description that does not
\* write.
WriteTo(d, buf) ==
    CASE mode[d] = "append"   -> [data |-> [data EXCEPT ![d] = @ \o buf], cursor |-> cursor]
      [] mode[d] = "readonly" -> [data |-> data, cursor |-> cursor]
      [] OTHER -> [data |-> [data EXCEPT ![d] = Overwrite(@, cursor[d], buf)],
                   cursor |-> [cursor EXCEPT ![d] = Advanced(@, Len(buf))]]
Writes(d) == mode[d] # "readonly"
Fits(d, len) ==
    (IF mode[d] = "append" THEN Len(data[d]) ELSE cursor[d]) + len <= MaxSize

\* From here on the history says nothing.
Disturb == disturbed < MaxDisturb /\ disturbed' = disturbed + 1 /\ got' = <<>> /\ lost' = <<>>

\* read and readv. A copy that faults leaves the cursor where it was.
Read(t, len) ==
    /\ thread[t] = Idle /\ CanRead("in")
    /\ LET r == ReadFrom("in", len)
       IN cursor' = r.cursor /\ got' = IF disturbed > 0 THEN got ELSE got \o r.buf
    /\ UNCHANGED <<data, mode, thread, lost, disturbed>>

\* write and writev, to either description.
Write(t, d, len) ==
    /\ thread[t] = Idle /\ Writes(d) /\ Fits(d, len)
    /\ LET w == WriteTo(d, [i \in 1..len |-> Byte(0)])
       IN data' = w.data /\ cursor' = w.cursor
    /\ Disturb
    /\ UNCHANGED <<mode, thread>>

\* pwrite64 and ftruncate.
WriteAt(d, pos, buf) == data' = [data EXCEPT ![d] = Overwrite(@, pos, buf)]
Pwrite(d, pos, len) ==
    /\ mode[d] \in {"writeonly", "readwrite"} /\ pos + len <= MaxSize
    /\ WriteAt(d, pos, [i \in 1..len |-> Byte(0)])
    /\ Disturb
    /\ UNCHANGED <<mode, cursor, thread>>

Ftruncate(d, len) ==
    /\ mode[d] \in {"writeonly", "readwrite"} /\ len <= MaxSize
    /\ data' = [data EXCEPT ![d] = Padded(@, len)]
    /\ Disturb
    /\ UNCHANGED <<mode, cursor, thread>>

\* lseek; SEEK_DATA and SEEK_HOLE exist for read-only descriptions. The code
\* has no holes: data is everywhere and the hole is at the end.
SeekTo(d, off, whence) ==
    CASE whence \in {"Set", "Data"} -> off
      [] whence = "Cur"  -> cursor[d] + off
      [] whence = "End"  -> Len(data[d]) + off
      [] whence = "Hole" -> Len(data[d])
Seek(d, off, whence) ==
    /\ CanSeek(d)
    /\ whence \in {"Data", "Hole"} => mode[d] = "readonly" /\ off < Len(data[d])
    /\ SeekTo(d, off, whence) \in 0..MaxSize
    /\ cursor' = [cursor EXCEPT ![d] = SeekTo(d, off, whence)]
    /\ Disturb
    /\ UNCHANGED <<data, mode, thread>>

\* sendfile, splice and copy_file_range: read a chunk ...
Sendfile(t, count) ==
    /\ thread[t] = Idle /\ CanRead("in") /\ count > 0
    /\ thread' = [thread EXCEPT ![t] = [left |-> count, chunk |-> <<>>]]
    /\ UNCHANGED <<data, mode, cursor, got, lost, disturbed>>

TakeChunk(t) ==
    /\ thread[t].left > 0 /\ thread[t].chunk = <<>>
    /\ LET r == ReadFrom("in", IF thread[t].left < CHUNK THEN thread[t].left ELSE CHUNK)
       IN /\ cursor' = r.cursor
          /\ thread' = [thread EXCEPT ![t] = IF r.buf = <<>> THEN Idle
                                             ELSE [left |-> @.left - Len(r.buf), chunk |-> r.buf]]
    /\ UNCHANGED <<data, mode, got, lost, disturbed>>

\* ... and write_all it; a description that does not write ends the call with
\* the chunk gone.
PutChunk(t) ==
    /\ thread[t].chunk # <<>> /\ Fits("out", Len(thread[t].chunk))
    /\ LET w == WriteTo("out", thread[t].chunk)
       IN data' = w.data /\ cursor' = w.cursor
    /\ thread' = [thread EXCEPT ![t] = IF Writes("out") THEN [@ EXCEPT !.chunk = <<>>] ELSE Idle]
    /\ lost' = IF Writes("out") \/ disturbed > 0 THEN lost ELSE lost \o thread[t].chunk
    /\ UNCHANGED <<mode, got, disturbed>>


Next ==
    \/ \E t \in Thread :
          \/ \E len \in Lens :
                \/ Read(t, len) \/ Sendfile(t, len)
                \/ \E d \in Desc : Write(t, d, len)
          \/ TakeChunk(t) \/ PutChunk(t)
    \/ \E d \in Desc, pos \in Lens :
          \/ \E len \in Lens : Pwrite(d, pos, len)
          \/ Ftruncate(d, pos)
          \/ \E w \in {"Set", "Cur", "End", "Data", "Hole"} : Seek(d, pos, w)

Spec == Init /\ [][Next]_vars

-----------------------------------------------------------------------------
Consumed == got \o lost \o data["out"] \o FoldSet(LAMBDA t, s : s \o thread[t].chunk, <<>>, Thread)

\* Readers and copies that share the two descriptions consume every byte of
\* the input once: what is before the cursor was read, is on its way, or is in
\* the output, and nothing is there twice.
ConsumedOnce ==
    disturbed = 0 => /\ IsInjective(Consumed)
                  /\ Range(Consumed) = {Byte(i) : i \in 1..cursor["in"]}
=============================================================================
