------------------------------ MODULE NamedPipe ------------------------------
(***************************************************************************)
(* Opening and closing a named pipe (fs/fd/pipe/named.rs). The node keeps   *)
(* weak references to a read half and a write half, which share a buffer    *)
(* (fs/fd/stream_buffer.rs); descriptions, and openers that wait for a      *)
(* partner, hold strong references. When the last one goes away a half      *)
(* cannot be upgraded any more, but holds the buffer a moment longer.       *)
(***************************************************************************)
EXTENDS Integers, FiniteSets

CONSTANTS Opener,
          MaxBuffer   \* bound: buffers made over time

PipeAssumption == MaxBuffer \in Nat
ASSUME PipeConstants == PipeAssumption

VARIABLES half,     \* the current half of each side: its buffer and its users
          dying,    \* halves that nobody references but that hold a buffer
          made,     \* buffers made so far
          opener, waiting, panic

fifoVars == <<half, dying, made, opener, waiting, panic>>

Side == {"read", "write"}
Other(side) == IF side = "read" THEN "write" ELSE "read"
NotOpening == [pc |-> "idle", sides |-> {}]
Alive(side) == half[side].users # {}

\* The halves that hold buffer b: Arc::strong_count(&self.buffer).
StrongCount(b) ==
    Cardinality({s \in Side : Alive(s) /\ half[s].buf = b})
        + Cardinality({d \in dying : d.buf = b})

FifoInit ==
    /\ half = [s \in Side |-> [buf |-> 0, users |-> {}]]
    /\ dying = {} /\ made = 0
    /\ opener = [o \in Opener |-> NotOpening]
    /\ waiting = {} /\ panic = FALSE

-----------------------------------------------------------------------------
\* Taking the buffer of a half without looking at who else holds it.
Unchecked(side) == TRUE

\* The assertion of make_read_half and make_write_half.
SoleHolder(side) == StrongCount(half[Other(side)].buf) = 1

\* Opening one side: join it, make it from the other half, or make a buffer.
Join(o, side) ==
    IF Alive(side)
    THEN half' = [half EXCEPT ![side].users = @ \cup {o}] /\ UNCHANGED made
    ELSE IF Alive(Other(side))
    THEN /\ half' = [half EXCEPT ![side] = [buf |-> half[Other(side)].buf, users |-> {o}]]
         /\ UNCHANGED made
    ELSE /\ made < MaxBuffer
         /\ half' = [half EXCEPT ![side] = [buf |-> made + 1, users |-> {o}]]
         /\ made' = made + 1

MustMake(side) == ~Alive(side) /\ Alive(Other(side))

\* O_RDONLY and O_WRONLY: join, notify, and wait for the other side, unless
\* O_NONBLOCK; a non-blocking writer fails unless there are two readers. The
\* lock of the node is given up only to sleep.
OpenSide(o, side) ==
    /\ opener[o] = NotOpening
    /\ \E block \in BOOLEAN :
          IF MustMake(side) /\ ~SoleHolder(side)
          THEN panic' = TRUE /\ UNCHANGED <<half, dying, made, opener, waiting>>
          ELSE /\ Join(o, side)
               /\ LET pc == IF block THEN (IF Alive(Other(side)) THEN "open" ELSE "sleep")
                            ELSE IF side = "write" /\ Cardinality(half["read"].users) <= 1
                            THEN "fail" ELSE "open"
                  IN /\ opener' = [opener EXCEPT ![o] = [pc |-> pc, sides |-> {side}]]
                     /\ waiting' = IF pc = "sleep" THEN {o} ELSE {}
               /\ UNCHANGED <<dying, panic>>

\* O_RDWR: both halves, without a notification and without waiting.
OpenReadWrite(o) ==
    /\ opener[o] = NotOpening
    /\ IF \E s \in Side : MustMake(s) /\ ~SoleHolder(s)
       THEN panic' = TRUE /\ UNCHANGED <<half, dying, made, opener, waiting>>
       ELSE /\ IF \A s \in Side : ~Alive(s)
               THEN /\ made < MaxBuffer
                    /\ half' = [s \in Side |-> [buf |-> made + 1, users |-> {o}]]
                    /\ made' = made + 1
               ELSE /\ half' = [s \in Side |->
                          [buf |-> IF Alive(s) THEN half[s].buf ELSE half[Other(s)].buf,
                           users |-> half[s].users \cup {o}]]
                    /\ UNCHANGED made
            /\ opener' = [opener EXCEPT ![o] = [pc |-> "open", sides |-> Side]]
            /\ UNCHANGED <<dying, waiting, panic>>

\* A notification came: look for a partner again, or wait for the next one.
FifoWake(o) ==
    /\ opener[o].pc = "sleep" /\ o \notin waiting
    /\ IF \E s \in opener[o].sides : Alive(Other(s))
       THEN opener' = [opener EXCEPT ![o].pc = "open"] /\ UNCHANGED waiting
       ELSE waiting' = waiting \cup {o} /\ UNCHANGED opener
    /\ UNCHANGED <<half, dying, made, panic>>

\* A description is closed, or an open fails or is interrupted: the references
\* go, and with the last one a half starts to die.
FifoClose(o) ==
    /\ opener[o].pc \in {"open", "fail", "sleep"}
    /\ half' = [s \in Side |-> [half[s] EXCEPT !.users = @ \ {o}]]
    /\ dying' = dying \cup {[buf |-> half[s].buf, side |-> s] :
                              s \in {r \in Side : half[r].users = {o}}}
    /\ opener' = [opener EXCEPT ![o] = NotOpening]
    /\ waiting' = waiting \ {o}
    /\ UNCHANGED <<made, panic>>

DropHalf(d) ==
    /\ d \in dying
    /\ dying' = dying \ {d}
    /\ UNCHANGED <<half, made, opener, waiting, panic>>

FifoNext ==
    /\ ~panic
    /\ \/ \E o \in Opener :
             OpenSide(o, "read") \/ OpenSide(o, "write") \/ OpenReadWrite(o)
                \/ FifoWake(o) \/ FifoClose(o)
       \/ \E d \in dying : DropHalf(d)

FifoSpec == FifoInit /\ [][FifoNext]_fifoVars

-----------------------------------------------------------------------------
FifoTypeOK ==
    /\ made \in 0..MaxBuffer /\ panic \in BOOLEAN
    /\ \A o \in Opener : opener[o].pc \in {"idle", "sleep", "open", "fail"}

\* Whoever reads and whoever writes use the same buffer, and no buffer has a
\* second half of either side, even one that is just going away.
Connected ==
    /\ Alive("read") /\ Alive("write") => half["read"].buf = half["write"].buf
    /\ \A d \in dying, s \in Side : Alive(s) /\ half[s].buf = d.buf => s # d.side

\* An opener does not sleep while somebody has the other side open for just
\* that side. (An O_RDWR open sends no notification.)
PartnerSeen ==
    \A o \in Opener, p \in Opener :
        opener[o].pc = "sleep" /\ o \in waiting /\ opener[p].pc # "idle"
            /\ Cardinality(opener[p].sides) = 1
            => opener[p].sides = opener[o].sides

\* Named pipes (pipe/named.rs): readers and writers get the two halves of one
\* buffer, and an open does not sleep while its partner is there.
FifoConnects == FifoTypeOK /\ Connected /\ PartnerSeen
=============================================================================
