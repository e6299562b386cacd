---------------------------- MODULE AbstractFile ----------------------------
(***************************************************************************)
(* What memory/page/buffer.rs promises of a file's content: a sequence of  *)
(* bytes, extended with zeros only.                                        *)
(***************************************************************************)
EXTENDS Integers, Sequences, FiniteSets

CONSTANTS Bytes, MaxLen

VARIABLES content, out

Init == content = <<>> /\ out = <<>>

At(i) == IF i <= Len(content) THEN content[i] ELSE 0
Larger(a, b) == IF a > b THEN a ELSE b
Within(offset, n) == {i \in 1 .. Len(content) : offset < i /\ i <= offset + n}

Read(offset, n) ==
    /\ out' = [k \in 1 .. Cardinality(Within(offset, n)) |-> content[offset + k]]
    /\ UNCHANGED content

Write(offset, buf) ==
    /\ buf # <<>>
    /\ content' = [i \in 1 .. Larger(Len(content), offset + Len(buf)) |->
                    IF offset < i /\ i <= offset + Len(buf) THEN buf[i - offset] ELSE At(i)]
    /\ out' = <<>>

\* A write that fails may have replaced the beginning of its range, up to the
\* old end of the file.
WriteFails(offset, buf) ==
    /\ \E n \in 0 .. Len(buf) :
        content' = [i \in 1 .. Len(content) |-> IF i \in Within(offset, n) THEN buf[i - offset] ELSE content[i]]
    /\ out' = <<>>

Truncate(n) == content' = [i \in 1 .. n |-> At(i)] /\ out' = <<>>

\* A store through a shared mapping.
Store(i, b) == i <= Len(content) /\ content' = [content EXCEPT ![i] = b] /\ out' = <<>>

Next ==
    \/ \E offset, n \in 0 .. MaxLen : Read(offset, n)
    \/ \E offset \in 0 .. MaxLen, n \in 0 .. MaxLen : \E buf \in [1 .. n -> Bytes] :
            Write(offset, buf) \/ WriteFails(offset, buf)
    \/ \E n \in 0 .. MaxLen : Truncate(n)
    \/ \E i \in 1 .. MaxLen, b \in Bytes : Store(i, b)

Spec == Init /\ [][Next]_<<content, out>>
===============================================================================
