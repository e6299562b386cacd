------------------------------- MODULE OpenDir -------------------------------
(***************************************************************************)
(* The description of an open directory (fs/fd/dir.rs) and getdents, while  *)
(* names are added to the directory and removed from it.                    *)
(***************************************************************************)
EXTENDS Integers, Sequences, SequencesExt

CONSTANTS Names,      \* names in the directory
          Lens,       \* entries that fit in the caller's buffer
          MaxListed   \* bound: entries returned

VARIABLES dir,        \* names that the directory has
          entries,    \* what is left of the listing, or NotListed
          listed,     \* names that getdents returned
          steady      \* names that were there all the time since the listing

vars == <<dir, entries, listed, steady>>

NotListed == <<"none">>

Init == dir = Names /\ entries = NotListed /\ listed = <<>> /\ steady = {}

Unlisted == entries = NotListed

\* getdents and getdents64: the first call lists the directory, every call
\* takes as many entries as fit from the end of that listing.
Getdents(n) ==
    \E listing \in IF Unlisted THEN SetToSeqs(dir) ELSE {entries} :
        /\ LET k == IF n < Len(listing) THEN n ELSE Len(listing)
           IN /\ entries' = SubSeq(listing, 1, Len(listing) - k)
              /\ listed' = listed \o SubSeq(listing, Len(listing) - k + 1, Len(listing))
        /\ steady' = IF entries = NotListed THEN dir ELSE steady
        /\ UNCHANGED dir

Link(name) ==
    /\ dir' = dir \cup {name}
    /\ UNCHANGED <<entries, listed, steady>>
Unlink(name) ==
    /\ dir' = dir \ {name} /\ steady' = steady \ {name}
    /\ UNCHANGED <<entries, listed>>

Next ==
    \/ \E n \in Lens : Len(listed) <= MaxListed /\ Getdents(n)
    \/ \E name \in Names : Link(name) \/ Unlink(name)

Spec == Init /\ [][Next]_vars

-----------------------------------------------------------------------------
\* A pass over a directory returns no name twice, and returns every name that
\* was there the whole time, however the directory changes meanwhile.
ListedOnce ==
    /\ IsInjective(listed)
    /\ entries = <<>> => steady \subseteq Range(listed)
=============================================================================
