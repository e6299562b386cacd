---------------------------- MODULE CommandQueue ----------------------------
(***************************************************************************)
(* What the command buffer promises to the kernel and to the supervisor: a *)
(* first-in first-out queue of commands.  A command is either appended     *)
(* whole or refused, and the supervisor executes the commands one by one   *)
(* in the order in which they were appended.                               *)
(***************************************************************************)
EXTENDS Sequences

CONSTANTS Command,      \* the commands the kernel may issue
          NoCommand     \* "no command has been executed yet"

VARIABLES queue,        \* the commands that were pushed and not yet executed
          dispatched    \* the command the supervisor executed last

vars == <<queue, dispatched>>

Init == queue = <<>> /\ dispatched = NoCommand

Push(c) == queue' = Append(queue, c) /\ UNCHANGED dispatched

Dispatch ==
  /\ queue # <<>>
  /\ dispatched' = Head(queue)
  /\ queue' = Tail(queue)

Next == Dispatch \/ \E c \in Command : Push(c)

Spec == Init /\ [][Next]_vars
=============================================================================
