-------------------------------- MODULE Buffer --------------------------------
(***************************************************************************)
(* The content of a tmpfs file (memory/page/buffer.rs): a length in bytes  *)
(* and pages, of which there may be more than the length needs and whose   *)
(* bytes past the length are leftovers.  Pages are handed to shared        *)
(* mappings, through which user code stores at any offset of the page.     *)
(* The file's lock makes every operation one step.                         *)
(***************************************************************************)
EXTENDS Integers, Sequences, FiniteSets, FiniteSetsExt

CONSTANTS
    PAGE,     \* bytes of a page
    Bytes,    \* values that are written
    MaxLen    \* bound on offsets and lengths

VARIABLES
    len,
    pages,    \* sequence of pages, each a function from offset to byte
    mapped,   \* pages a shared mapping still refers to
    out       \* what a read just returned

vars == <<len, pages, mapped, out>>

Offsets == 0 .. PAGE - 1
ZeroPage == [o \in Offsets |-> 0]
DivCeil(a, b) == (a + b - 1) \div b

Init == len = 0 /\ pages = <<>> /\ mapped = {} /\ out = <<>>

\* reserve: zero pages up to the new capacity.
reserve(ps, n) ==
    LET count == Max({DivCeil(len + n, PAGE), Len(ps)})
    IN  IF n = 0 THEN ps ELSE [i \in 1 .. count |-> IF i <= Len(ps) THEN ps[i] ELSE ZeroPage]

\* reserve_zeroed before it reserves: leftovers in the last page are zeroed,
\* the pages after it dropped.
DroppedOnly(ps, n) == IF n = 0 THEN ps ELSE SubSeq(ps, 1, DivCeil(len, PAGE))
Zeroed(ps, n) ==
    IF n = 0 THEN ps
    ELSE [i \in 1 .. DivCeil(len, PAGE) |->
            IF len % PAGE # 0 /\ i = len \div PAGE + 1
            THEN [o \in Offsets |-> IF o >= len % PAGE THEN 0 ELSE ps[i][o]]
            ELSE ps[i]]
reserve_zeroed(ps, n) == reserve(Zeroed(ps, n), n)

Beyond(offset) == Max({0, offset - len})

\* The copy loops: page by page, over the part of the page inside the range.
CopyIn(ps, offset, buf, count) ==
    [i \in 1 .. Len(ps) |-> [o \in Offsets |->
        LET at == (i - 1) * PAGE + o
        IN  IF offset <= at /\ at < offset + count THEN buf[at - offset + 1] ELSE ps[i][o]]]
CopyOut(offset, count) ==
    [k \in 1 .. count |-> LET at == offset + k - 1 IN pages[at \div PAGE + 1][at % PAGE]]

\* Pages that reserve_zeroed drains leave the mappings behind.
Kept(ps, n) == {i \in mapped : n = 0 \/ i <= DivCeil(len, PAGE)}

\* read and read_to_user.
Read ==
    \E offset \in 0 .. MaxLen, n \in 0 .. MaxLen :
        LET count == Min({Max({0, len - offset}), n})
        IN  out' = CopyOut(offset, count) /\ UNCHANGED <<len, pages, mapped>>

\* write and write_from_user; an empty write still reserves.
Write ==
    \E offset \in 0 .. MaxLen, n \in 0 .. MaxLen : \E buf \in [1 .. n -> Bytes] :
        LET before == reserve_zeroed(pages, Beyond(offset))
            ready == reserve(before, Beyond(offset + n))
        IN  /\ offset + n <= MaxLen
            /\ pages' = IF n = 0 THEN before ELSE CopyIn(ready, offset, buf, n)
            /\ len' = IF n = 0 THEN len ELSE Max({len, offset + n})
            /\ mapped' = Kept(pages, Beyond(offset))
            /\ out' = <<>>

\* The write fails: memory runs out before anything is reserved, or user memory
\* faults at the start of a page and the pages before it are written.
WriteFails ==
    \E offset \in 0 .. MaxLen, n \in 1 .. MaxLen, done \in 0 .. MaxLen : \E buf \in [1 .. n -> Bytes] :
        LET before == reserve_zeroed(pages, Beyond(offset))
            ready == reserve(before, Beyond(offset + n))
        IN  /\ offset + n <= MaxLen /\ done < n /\ (done > 0 => (offset + done) % PAGE = 0)
            /\ pages' \in {Zeroed(pages, Beyond(offset)), before, CopyIn(ready, offset, buf, done)}
            /\ mapped' = Kept(pages, Beyond(offset))
            /\ out' = <<>>
            /\ UNCHANGED len

Truncate ==
    \E n \in 0 .. MaxLen :
        /\ pages' = reserve_zeroed(pages, Beyond(n))
        /\ mapped' = Kept(pages, Beyond(n))
        /\ len' = n
        /\ out' = <<>>

\* get_page for a shared mapping: reserves up to the end of the page.
GetPage ==
    \E i \in 1 .. Len(pages) :
        /\ pages' = reserve_zeroed(pages, Beyond(i * PAGE))
        /\ mapped' = Kept(pages, Beyond(i * PAGE)) \cup {i}
        /\ out' = <<>>
        /\ UNCHANGED len

\* User code stores through a shared mapping.
Store ==
    \E i \in mapped, o \in Offsets, b \in Bytes :
        pages' = [pages EXCEPT ![i][o] = b] /\ out' = <<>> /\ UNCHANGED <<len, mapped>>

Next == Read \/ Write \/ WriteFails \/ Truncate \/ GetPage \/ Store

Spec == Init /\ [][Next]_vars

-------------------------------------------------------------------------------
TypeOK ==
    /\ len \in 0 .. MaxLen /\ len <= Len(pages) * PAGE
    /\ \A i \in DOMAIN pages : pages[i] \in [Offsets -> Bytes \cup {0}]
    /\ mapped \subseteq DOMAIN pages

\* The buffer behaves as a file of bytes: no sequence of writes, truncations,
\* failed writes and stores through mappings past the end of the file makes
\* leftover bytes readable.
BufferFile == INSTANCE AbstractFile WITH content <- CopyOut(0, len)
BufferIsFile == BufferFile!Spec
===============================================================================
