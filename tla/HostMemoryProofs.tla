-------------------------- MODULE HostMemoryProofs --------------------------
(***************************************************************************)
(* The inductive invariant of the kernel and its SNP or insecure           *)
(* supervisor, for any number of vCPUs, slots, commands and allocation     *)
(* entries; and that the kernel's steps that move memory slots keep it.    *)
(***************************************************************************)
EXTENDS HostServices, TLAPS

(* The command AllocateMemory stays in the buffer while it is handled, and *)
(* a vCPU that is to be notified has an index.                             *)
TypeInv ==
  /\ TypeOK
  /\ sup.pc = "fill" => cmds # <<>> /\ cmds[1].kind = "AllocateMemory"
  /\ \A c \in VCPU : pc(c) = "notify" => kernel[c].at \in VCPU

-----------------------------------------------------------------------------
(* Where slot s is, by kind of owner. *)
InEntry(s) == \E i \in Entry : entries[i] = s
InCache(s) == \E i \in DOMAIN cached : cached[i] = s
InCommand(s) == \E i \in DOMAIN cmds : cmds[i].slot = s
Frees(c, s) == Pushing(c) /\ kernel[c].cmd.slot = s
InPush(s) == \E c \in VCPU : Frees(c, s)

(* No kind of owner has a slot twice, *)
EachOnce ==
  /\ \A i, j \in Entry : entries[i] = entries[j] /\ entries[i] # EMPTY => i = j
  /\ \A i, j \in DOMAIN cached : cached[i] = cached[j] => i = j
  /\ \A i, j \in DOMAIN cmds : cmds[i].slot = cmds[j].slot /\ cmds[i].slot # EMPTY => i = j
  /\ \A c, d \in VCPU, s \in Slot : Frees(c, s) /\ Frees(d, s) => c = d

(* and every slot has one kind of owner. *)
OneKind ==
  \A s \in Slot :
    /\ InEntry(s) \/ InCache(s) \/ InCommand(s) \/ InPush(s) \/ s \in held \/ s \in free
    /\ InEntry(s) => ~InCache(s) /\ ~InCommand(s) /\ ~InPush(s) /\ s \notin held /\ s \notin free
    /\ InCache(s) => ~InCommand(s) /\ ~InPush(s) /\ s \notin held /\ s \notin free
    /\ InCommand(s) => ~InPush(s) /\ s \notin held /\ s \notin free
    /\ InPush(s) => s \notin held /\ s \notin free
    /\ s \in held => s \notin free

SlotInv == EachOnce /\ OneKind

-----------------------------------------------------------------------------
(* c pushes StartNextAp; StartNextAp is in the command buffer. *)
Asks(c) == Pushing(c) /\ kernel[c].cmd.kind = "StartNextAp"
Asked(i) == cmds[i].kind = "StartNextAp"

(* The vCPU the supervisor started last. *)
Last == started - 1

(* The vCPUs below started were started, and all but the last of them have *)
(* finished launching.                                                     *)
InOrder ==
  /\ started > 0
  /\ \A c \in VCPU : c < Last => Launched(c)
  /\ \A c \in VCPU : c >= started => pc(c) = "off"
  /\ \A c \in token \cup tokick \cup armed : c < started
  /\ \A c \in tokick \cup armed : Launched(c)
  /\ \A c \in VCPU : pc(c) = "notify" => Launched(kernel[c].at)

(* At most one vCPU is on its way, asked for or started, and it is the one *)
(* whose scheduler bit is set.                                             *)
OneOnItsWay ==
  /\ \A c \in VCPU : c >= started /\ c \in bits => c = started /\ starting /\ Launched(Last)
  /\ ~Launched(Last) => starting /\ Last \in bits
  /\ \A c \in VCPU : Asks(c) => starting /\ Launched(Last) /\ started \in bits
  /\ \A i \in DOMAIN cmds : Asked(i) => starting /\ Launched(Last) /\ started \in bits
  /\ \A c, d \in VCPU : Asks(c) /\ Asks(d) => c = d
  /\ \A i, j \in DOMAIN cmds : Asked(i) /\ Asked(j) => i = j
  /\ \A c \in VCPU, i \in DOMAIN cmds : ~(Asks(c) /\ Asked(i))

StartInv == InOrder /\ OneOnItsWay

-----------------------------------------------------------------------------
(* c waits for a notification, or is about to. *)
Awaits(c) ==
  \/ pc(c) \in {"retry", "repop", "ask"}
  \/ /\ pc(c) \in {"wait", "parked"}
     /\ kernel[c].then \in {"arm", "parm"} \/ (kernel[c].then = "resume" /\ c \in bits)

Notified(c) == \E d \in VCPU : pc(d) = "notify" /\ kernel[d].at = c

WakeInv ==
  /\ sup.pc # "kick" => tokick = {}
  /\ \A c \in VCPU : Awaits(c) => c \in token \cup tokick \cup armed \/ Notified(c)
  /\ \A c \in VCPU : Awaits(c) /\ pc(c) = "parked" /\ sup.pc # "done" => WakeupPending(c)
  /\ NoStrandedCommand

IInv == TypeInv /\ SlotInv /\ StartInv /\ WakeInv

-----------------------------------------------------------------------------
(* A vCPU's step in supervisor.rs: its new place and local variables. *)

Places == PCs \cup {"parked"}
Thens == {"idle", "arm", "parm", "resume", "halted"}
KState == [pc : Places, cmd : Command, at : Nat, then : Thens]

(* l is the state <<p, m, a, t>>, and vCPU c went there. *)
Is(l, p, m, a, t) == l \in KState /\ l.pc = p /\ l.cmd = m /\ l.at = a /\ l.then = t

Went(c, p, m, a, t) ==
  /\ kernel' \in [VCPU -> KState]
  /\ kernel'[c].pc = p /\ kernel'[c].cmd = m /\ kernel'[c].at = a /\ kernel'[c].then = t
  /\ \A d \in VCPU : d # c => kernel'[d] = kernel[d]

LEMMA SetWent ==
  ASSUME TypeOK, NEW c \in VCPU, NEW l, NEW p, NEW m, NEW a, NEW t,
         Is(l, p, m, a, t), Set(c, l)
  PROVE  Went(c, p, m, a, t)
  <1>1. kernel \in [VCPU -> KState]
    BY DEF TypeOK, KernelTypeOK, KState, Places, Thens
  <1>2. kernel' = [kernel EXCEPT ![c] = l]
    BY DEF Set
  <1> QED
    BY <1>1, <1>2 DEF Went, Is

U == Cmd("UpdateOutput")

LEMMA CommandTypes ==
  /\ \A k \in {"StartNextAp", "AllocateMemory", "UpdateOutput", "FinishOutput", "FailOutput"} :
       Cmd(k) \in Command /\ Cmd(k).kind = k /\ Cmd(k).slot = EMPTY
  /\ \A s \in Slot : /\ DeallocateMemory(s) \in Command /\ DeallocateMemory(s).slot = s
                      /\ DeallocateMemory(s).kind = "DeallocateMemory"
  /\ \A m \in Command : (m.slot \in Slot /\ m.kind = "DeallocateMemory")
                          \/ (m.slot = EMPTY /\ m.kind # "DeallocateMemory")
  /\ EMPTY \notin Slot
  <1>1. \A k : Cmd(k).kind = k /\ Cmd(k).slot = EMPTY
    BY DEF Cmd
  <1>2. \A s : DeallocateMemory(s).slot = s /\ DeallocateMemory(s).kind = "DeallocateMemory"
    BY DEF DeallocateMemory
  <1>3. ASSUME NEW m \in Command
        PROVE  \/ m.slot \in Slot /\ m.kind = "DeallocateMemory"
               \/ m.slot = EMPTY /\ m.kind # "DeallocateMemory"
    BY <1>1, <1>2 DEF Command
  <1>4. EMPTY \notin Slot
    BY ServicesAssumption
  <1>5. /\ \A k \in {"StartNextAp", "AllocateMemory", "UpdateOutput", "FinishOutput", "FailOutput"} :
             Cmd(k) \in Command
        /\ \A s \in Slot : DeallocateMemory(s) \in Command
    BY DEF Command
  <1> QED
    BY <1>1, <1>2, <1>3, <1>4, <1>5

(* The states vCPUs are set to. *)
LEMMA RecordTypes ==
  ASSUME NEW p \in Places, NEW m \in Command, NEW a \in Nat, NEW t \in Thens
  PROVE  /\ Is(Idle, "idle", U, 0, "idle")
         /\ Is(At(p), p, U, 0, "idle")
         /\ Is([At(p) EXCEPT !.cmd = m], p, m, 0, "idle")
         /\ Is([At(p) EXCEPT !.at = a], p, U, a, "idle")
         /\ Is(Waits(t), "wait", U, 0, t)
  <1>1. U \in Command /\ "idle" \in Places /\ "wait" \in Places /\ "idle" \in Thens
    BY CommandTypes DEF U, Places, PCs, Thens
  <1>2. Is(Idle, "idle", U, 0, "idle")
    BY <1>1 DEF Idle, U, Is, KState
  <1>3. Is(At(p), p, U, 0, "idle")
    BY <1>2 DEF At, Is, KState
  <1>4. Is([At(p) EXCEPT !.cmd = m], p, m, 0, "idle") /\ Is([At(p) EXCEPT !.at = a], p, U, a, "idle")
    BY <1>3 DEF Is, KState
  <1>5. Is(Waits(t), "wait", U, 0, t)
    BY <1>1, <1>2, Zenon DEF Waits, Is, KState
  <1> QED
    BY <1>2, <1>3, <1>4, <1>5

(* The states a vCPU is moved to from where it is. *)
LEMMA MovedTypes ==
  ASSUME TypeOK, NEW c \in VCPU, NEW p \in Places, NEW t \in Thens
  PROVE  /\ Is([kernel[c] EXCEPT !.pc = p], p, kernel[c].cmd, kernel[c].at, kernel[c].then)
         /\ Is([kernel[c] EXCEPT !.pc = p, !.then = t], p, kernel[c].cmd, kernel[c].at, t)
         /\ Is([kernel[c] EXCEPT !.at = @ + 1], pc(c), kernel[c].cmd, kernel[c].at + 1, kernel[c].then)
         /\ kernel[c] \in KState /\ kernel[c].then \in Thens \cap Places /\ kernel[c].at \in Nat
         /\ kernel[c].cmd \in Command
  <1>1. kernel[c] \in KState
    BY DEF TypeOK, KernelTypeOK, KState, Places, Thens
  <1>2. Thens \subseteq Places
    BY DEF Thens, Places, PCs
  <1>3. PICK r \in KState : r = kernel[c]
    BY <1>1
  <1>4. r.pc \in Places /\ r.then \in Thens /\ r.at \in Nat /\ r.cmd \in Command
    BY DEF KState
  <1>5. Is([r EXCEPT !.pc = p], p, r.cmd, r.at, r.then)
    BY DEF Is, KState
  <1>6. Is([r EXCEPT !.pc = p, !.then = t], p, r.cmd, r.at, t)
    BY Zenon DEF Is, KState
  <1>7. Is([r EXCEPT !.at = r.at + 1], r.pc, r.cmd, r.at + 1, r.then)
    <2>1. PICK n \in Nat : n = r.at + 1
      BY <1>4
    <2>2. Is([r EXCEPT !.at = n], r.pc, r.cmd, n, r.then)
      BY DEF Is, KState
    <2> QED
      BY <2>1, <2>2
  <1> QED
    BY <1>2, <1>3, <1>4, <1>5, <1>6, <1>7 DEF pc

(* Where the steps of supervisor.rs take a vCPU. *)
LEMMA StepTo ==
  ASSUME TypeOK, NEW c \in VCPU
  PROVE  /\ Set(c, Idle) => Went(c, "idle", U, 0, "idle")
         /\ \A p \in Places : Set(c, At(p)) => Went(c, p, U, 0, "idle")
         /\ \A p \in Places, m \in Command : Set(c, [At(p) EXCEPT !.cmd = m]) => Went(c, p, m, 0, "idle")
         /\ \A p \in Places, a \in Nat : Set(c, [At(p) EXCEPT !.at = a]) => Went(c, p, U, a, "idle")
         /\ \A t \in Thens : Set(c, Waits(t)) => Went(c, "wait", U, 0, t)
         /\ \A p \in Places : Set(c, [kernel[c] EXCEPT !.pc = p])
                               => Went(c, p, kernel[c].cmd, kernel[c].at, kernel[c].then)
         /\ \A p \in Places, t \in Thens : Set(c, [kernel[c] EXCEPT !.pc = p, !.then = t])
                                          => Went(c, p, kernel[c].cmd, kernel[c].at, t)
         /\ Set(c, [kernel[c] EXCEPT !.at = @ + 1])
              => Went(c, pc(c), kernel[c].cmd, kernel[c].at + 1, kernel[c].then)
         /\ kernel[c].cmd \in Command /\ kernel[c].at \in Nat /\ kernel[c].then \in Thens
  <1>1. U \in Command /\ 0 \in Nat /\ "idle" \in Places /\ "idle" \in Thens
    BY CommandTypes DEF U, Places, PCs, Thens
  <1>2. Set(c, Idle) => Went(c, "idle", U, 0, "idle")
    BY <1>1, RecordTypes, SetWent, Zenon
  <1>3. ASSUME NEW p \in Places
        PROVE  /\ Set(c, At(p)) => Went(c, p, U, 0, "idle")
               /\ \A m \in Command : Set(c, [At(p) EXCEPT !.cmd = m]) => Went(c, p, m, 0, "idle")
               /\ \A a \in Nat : Set(c, [At(p) EXCEPT !.at = a]) => Went(c, p, U, a, "idle")
    BY <1>1, RecordTypes, SetWent, Zenon
  <1>4. ASSUME NEW t \in Thens PROVE Set(c, Waits(t)) => Went(c, "wait", U, 0, t)
    BY <1>1, RecordTypes, SetWent, Zenon
  <1>5. ASSUME NEW p \in Places, NEW t \in Thens
        PROVE  /\ Set(c, [kernel[c] EXCEPT !.pc = p])
                    => Went(c, p, kernel[c].cmd, kernel[c].at, kernel[c].then)
               /\ Set(c, [kernel[c] EXCEPT !.pc = p, !.then = t])
                    => Went(c, p, kernel[c].cmd, kernel[c].at, t)
    BY MovedTypes, SetWent, Zenon
  <1>6. Set(c, [kernel[c] EXCEPT !.at = @ + 1])
          => Went(c, pc(c), kernel[c].cmd, kernel[c].at + 1, kernel[c].then)
    BY <1>1, MovedTypes, SetWent, Zenon
  <1>7. kernel[c].cmd \in Command /\ kernel[c].at \in Nat /\ kernel[c].then \in Thens
    BY <1>1, MovedTypes, Zenon
  <1> QED
    BY <1>1, <1>2, <1>3, <1>4, <1>5, <1>6, <1>7, Zenon

(* What the step of c to <<p, m, a, t>> changes. *)
PushAt(p, t) == p \in {"push", "arm", "retry"} \/ (p \in {"wait", "parked"} /\ t = "arm")

LEMMA AfterStep ==
  ASSUME NEW c \in VCPU, NEW p, NEW m, NEW a, NEW t, Went(c, p, m, a, t)
  PROVE  /\ \A s \in Slot : Frees(c, s)' <=> PushAt(p, t) /\ m.slot = s
         /\ Asks(c)' <=> PushAt(p, t) /\ m.kind = "StartNextAp"
         /\ pc(c)' = p
         /\ \A d \in VCPU : d # c => /\ pc(d)' = pc(d)
                                     /\ \A s \in Slot : Frees(d, s)' <=> Frees(d, s)
                                     /\ Asks(d)' <=> Asks(d)
  BY DEF Went, Frees, Asks, Pushing, PushAt, pc

(* A vCPU outside push_blocking frees no slot and asks for no vCPU. *)
LEMMA NotPushing ==
  ASSUME NEW c \in VCPU, ~Pushing(c)
  PROVE  ~Asks(c) /\ \A s \in Slot : ~Frees(c, s)
  BY DEF Asks, Frees

-----------------------------------------------------------------------------
(* Steps that leave an invariant alone. *)

SameFrees == \A d \in VCPU, s \in Slot : Frees(d, s)' <=> Frees(d, s)

(* A step within push_blocking, or outside it, keeps slot and request. *)
LEMMA KeepsFrees ==
  ASSUME NEW c \in VCPU, NEW p, NEW m, NEW a, NEW t, Went(c, p, m, a, t),
         PushAt(p, t) <=> Pushing(c), Pushing(c) => m = kernel[c].cmd
  PROVE  SameFrees /\ (PushAt(p, t) /\ m.kind = "StartNextAp" <=> Asks(c))
  <1>1. /\ PushAt(p, t) /\ m.kind = "StartNextAp" <=> Asks(c)
        /\ \A s \in Slot : Frees(c, s) <=> PushAt(p, t) /\ m.slot = s
    BY DEF Asks, Frees
  <1>2. \A s \in Slot : Frees(c, s)' <=> Frees(c, s)
    BY <1>1, AfterStep
  <1> QED
    BY <1>1, <1>2, AfterStep DEF SameFrees

LEMMA SlotFrame ==
  ASSUME SlotInv, UNCHANGED <<entries, cached, cmds, held, free>>, SameFrees
  PROVE  SlotInv'
  <1>1. ASSUME NEW s \in Slot
        PROVE  /\ InEntry(s)' <=> InEntry(s)
               /\ InCache(s)' <=> InCache(s)
               /\ InCommand(s)' <=> InCommand(s)
               /\ InPush(s)' <=> InPush(s)
    BY DEF InEntry, InCache, InCommand, InPush, SameFrees
  <1>2. EachOnce'
    BY DEF SlotInv, EachOnce, SameFrees
  <1>3. OneKind'
    BY <1>1 DEF SlotInv, OneKind
  <1> QED
    BY <1>2, <1>3 DEF SlotInv

SameAsks == \A d \in VCPU : Asks(d)' <=> Asks(d)

(* vCPUs neither start nor finish launching. *)
SameLaunches ==
  \A d \in VCPU : (Launched(d)' <=> Launched(d)) /\ (d >= started /\ pc(d) = "off" => pc(d)' = "off")

(* No StartNextAp is added to the command buffer. *)
NoNewAsked ==
  /\ \A i \in DOMAIN cmds' : cmds'[i].kind = "StartNextAp" => \E j \in DOMAIN cmds : Asked(j)
  /\ \A i, j \in DOMAIN cmds' :
       cmds'[i].kind = "StartNextAp" /\ cmds'[j].kind = "StartNextAp" => i = j

(* Only launched vCPUs are scheduled or halted, armed, unparked, notified. *)
OnlyLaunchedBits ==
  bits' \subseteq VCPU /\ \A d \in VCPU : ~Launched(d) => (d \in bits' <=> d \in bits)
OnlyLaunchedWoken ==
  /\ tokick' \cup armed' \subseteq tokick \cup armed \cup {d \in VCPU : Launched(d)}
  /\ token' \subseteq token \cup tokick \cup armed \cup {d \in VCPU : Launched(d)}
  /\ \A d \in VCPU : pc(d)' = "notify" => kernel'[d].at \in VCPU /\ Launched(kernel'[d].at)

LEMMA StartTypes ==
  ASSUME TypeOK, StartInv
  PROVE  /\ started \in Nat \ {0} /\ Last \in VCPU /\ Last < started
         /\ bits \subseteq VCPU /\ VCPU \subseteq Nat
         /\ token \cup tokick \cup armed \subseteq VCPU
  BY ServicesAssumption DEF TypeOK, KernelTypeOK, StartInv, InOrder, Last

LEMMA LaunchedBelow ==
  ASSUME TypeOK, StartInv, NEW d \in VCPU
  PROVE  /\ Launched(d) => d < started
         /\ d < started => Launched(d) \/ d = Last
  <1>1. d \in Nat /\ started \in Nat \ {0}
    BY StartTypes
  <1>2. d >= started => ~Launched(d)
    BY DEF StartInv, InOrder, Launched
  <1>3. d < Last => Launched(d)
    BY DEF StartInv, InOrder
  <1> QED
    BY <1>1, <1>2, <1>3 DEF Last

KeepsLaunched ==
  \A d \in VCPU : (Launched(d) => Launched(d)') /\ (d >= started /\ pc(d) = "off" => pc(d)' = "off")

LEMMA OrderFrame ==
  ASSUME TypeOK, StartInv, UNCHANGED started, KeepsLaunched, OnlyLaunchedWoken
  PROVE  InOrder'
  <1>t. Last' = Last /\ started > 0 /\ token \cup tokick \cup armed \subseteq VCPU
    BY StartTypes DEF Last
  <1>1. ASSUME NEW d \in VCPU, Launched(d)
        PROVE  d < started /\ Launched(d)'
    BY <1>1, LaunchedBelow DEF KeepsLaunched
  <1>2. started' > 0 /\ \A d \in VCPU : d < Last' => Launched(d)'
    BY <1>t, <1>1 DEF StartInv, InOrder
  <1>3. \A d \in VCPU : d >= started' => pc(d)' = "off"
    BY DEF StartInv, InOrder, KeepsLaunched
  <1>4. \A d \in token' \cup tokick' \cup armed' : d < started'
    BY <1>1 DEF StartInv, InOrder, OnlyLaunchedWoken
  <1>5. \A d \in tokick' \cup armed' : Launched(d)'
    BY <1>t, <1>1 DEF StartInv, InOrder, OnlyLaunchedWoken
  <1>6. \A d \in VCPU : pc(d)' = "notify" => Launched(kernel[d].at)'
    <2>1. ASSUME NEW d \in VCPU, pc(d)' = "notify" PROVE Launched(kernel[d].at)'
      <3>1. PICK e \in VCPU : e = kernel'[d].at /\ Launched(e)
        BY <2>1 DEF OnlyLaunchedWoken
      <3>2. Launched(e)'
        BY <3>1, <1>1
      <3> QED
        BY <3>1, <3>2 DEF Launched, pc
    <2> QED
      BY <2>1
  <1> QED
    BY <1>2, <1>3, <1>4, <1>5, <1>6 DEF InOrder

LEMMA StartFrame ==
  ASSUME TypeOK, StartInv, UNCHANGED <<starting, started>>,
         SameAsks, SameLaunches, NoNewAsked, OnlyLaunchedBits, OnlyLaunchedWoken
  PROVE  StartInv'
  <1>t. /\ started \in Nat \ {0} /\ Last \in VCPU /\ Last < started /\ Last' = Last
        /\ bits \subseteq VCPU /\ VCPU \subseteq Nat
        /\ token \cup tokick \cup armed \subseteq VCPU
    BY StartTypes DEF Last
  <1>1. KeepsLaunched
    BY DEF SameLaunches, KeepsLaunched
  <1>2. InOrder'
    BY <1>1, OrderFrame
  <1>3. OneOnItsWay'
    <2>1. Launched(Last)' <=> Launched(Last)
      BY <1>t DEF SameLaunches, Launched, pc
    <2>2. \A d \in VCPU : ~Launched(d) => (d \in bits' <=> d \in bits)
      BY DEF OnlyLaunchedBits
    <2>3. started \in bits => started \in bits'
      <3>1. started \in bits => started \in VCPU /\ pc(started) = "off"
        BY <1>t DEF StartInv, InOrder
      <3> QED
        BY <2>2, <3>1 DEF Launched
    <2>4. ASSUME NEW d \in VCPU, d >= started, d \in bits' PROVE d \in bits
      <3>1. pc(d) = "off"
        BY <2>4 DEF StartInv, InOrder
      <3> QED
        BY <2>2, <2>4, <3>1 DEF Launched
    <2>5. \A i \in DOMAIN cmds' : Asked(i)' => \E j \in DOMAIN cmds : Asked(j)
      BY DEF NoNewAsked, Asked
    <2>6. \A i, j \in DOMAIN cmds' : Asked(i)' /\ Asked(j)' => i = j
      BY DEF NoNewAsked, Asked
    <2> QED
      BY <1>t, <2>1, <2>2, <2>3, <2>4, <2>5, <2>6 DEF StartInv, OneOnItsWay, SameAsks
  <1> QED
    BY <1>2, <1>3 DEF StartInv

(* A kick is not lost, nor a notification or a token that is waited for; a *)
(* new wait and a new command are seen by the supervisor.                  *)
KeepsKicking == Kicking => Kicking' \/ stoken'
KeepsNotified == \A c \in VCPU : Notified(c) => Notified(c)'
KeepsToken == \A c \in VCPU : c \in token /\ Awaits(c)' => c \in token'
WaitsCovered ==
  \A c \in VCPU : Awaits(c)' =>
    \/ Awaits(c) /\ (pc(c)' = "parked" => pc(c) = "parked" \/ stoken')
    \/ Notified(c)'
    \/ c \in armed' /\ pc(c)' # "parked"
CommandsKicked ==
  (\E i \in DOMAIN cmds' : cmds'[i].kind # "UpdateOutput")
    => Kicking' \/ \E i \in DOMAIN cmds : cmds[i].kind # "UpdateOutput"

LEMMA WakeFrame ==
  ASSUME WakeInv, UNCHANGED <<sup, tokick>>, armed \subseteq armed', stoken => stoken',
         KeepsKicking, KeepsNotified, KeepsToken, WaitsCovered, CommandsKicked
  PROVE  WakeInv'
  <1>1. ASSUME NEW c \in VCPU, Awaits(c)'
        PROVE  c \in token' \cup tokick' \cup armed' \/ Notified(c)'
    BY <1>1 DEF WakeInv, KeepsNotified, KeepsToken, WaitsCovered
  <1>2. ASSUME NEW c \in VCPU, Awaits(c)', pc(c)' = "parked", sup'.pc # "done"
        PROVE  WakeupPending(c)'
    <2>1. CASE Notified(c)'
      BY <2>1 DEF WakeupPending, Notified
    <2>2. CASE Awaits(c) /\ stoken'
      BY <1>1, <1>2, <2>2 DEF WakeupPending, Notified
    <2>3. CASE WakeupPending(c)
      <3>1. CASE c \in token \cup tokick
        BY <1>2, <3>1 DEF WakeupPending, KeepsToken
      <3>2. CASE Notified(c)
        BY <2>1, <3>2 DEF KeepsNotified
      <3>3. CASE c \in armed /\ (sup.pc \in {"drain", "fill", "reset"} \/ stoken \/ Kicking)
        BY <3>3 DEF WakeupPending, KeepsKicking
      <3> QED
        BY <2>3, <3>1, <3>2, <3>3 DEF WakeupPending, Notified
    <2> QED
      BY <1>2, <2>1, <2>2, <2>3 DEF WakeInv, WaitsCovered
  <1>3. NoStrandedCommand'
    BY DEF WakeInv, NoStrandedCommand, CommandsKicked, KeepsKicking
  <1> QED
    BY <1>1, <1>2, <1>3 DEF WakeInv

(* The step of a vCPU that neither kicks the supervisor nor arms another.  *)
LEMMA KeepsWakers ==
  ASSUME NEW c \in VCPU, NEW p, NEW m, NEW a, NEW t, Went(c, p, m, a, t),
         pc(c) \notin {"kick", "wait", "notify"}
  PROVE  KeepsKicking /\ KeepsNotified
  <1>1. \A d \in VCPU : d # c => kernel'[d] = kernel[d]
    BY DEF Went
  <1>2. KeepsKicking
    BY <1>1 DEF KeepsKicking, Kicking, pc
  <1>3. KeepsNotified
    BY <1>1 DEF KeepsNotified, Notified, pc
  <1> QED
    BY <1>2, <1>3

-----------------------------------------------------------------------------
(* One lemma per operation.  First the steps that only move a vCPU along   *)
(* in supervisor.rs, from one place of an operation to another.            *)

AwaitAt(c, p, t) ==
  \/ p \in {"retry", "repop", "ask"}
  \/ p \in {"wait", "parked"} /\ (t \in {"arm", "parm"} \/ (t = "resume" /\ c \in bits))

SameAt(c, p, m, t) ==
  /\ \A s \in Slot : PushAt(p, t) /\ m.slot = s <=> Frees(c, s)
  /\ PushAt(p, t) /\ m.kind = "StartNextAp" <=> Asks(c)
  /\ AwaitAt(c, p, t) => Awaits(c)

LEMMA TypeFrame ==
  ASSUME TypeInv, NEW c \in VCPU, NEW p, NEW m, NEW a, NEW t, Went(c, p, m, a, t),
         p = "notify" => a \in VCPU,
         bits' \subseteq VCPU, starting' \in BOOLEAN, UNCHANGED <<shared, memory, hvars>>
  PROVE  TypeInv'
  <1>1. kernel' \in [VCPU -> [pc : PCs \cup {"parked"}, cmd : Command, at : Nat,
                         then : {"idle", "arm", "parm", "resume", "halted"}]]
    BY DEF Went, KState, Places, Thens
  <1>2. TypeOK'
    BY <1>1 DEF TypeInv, TypeOK, KernelTypeOK, shared, memory, hvars
  <1>3. \A d \in VCPU : pc(d)' = "notify" => kernel'[d].at \in VCPU
    BY DEF Went, TypeInv, pc
  <1>4. sup'.pc = "fill" => cmds' # <<>> /\ cmds'[1].kind = "AllocateMemory"
    BY DEF TypeInv, shared, hvars
  <1> QED
    BY <1>2, <1>3, <1>4 DEF TypeInv

LEMMA QuietStep ==
  ASSUME IInv, NEW c \in VCPU, NEW p, NEW m, NEW a, NEW t, Went(c, p, m, a, t),
         UNCHANGED <<shared, scheduler, memory, hvars>>,
         pc(c) \notin {"off", "launch", "kick", "wait", "notify"},
         p \notin {"off", "launch", "notify", "parked"},
         SameAt(c, p, m, t)
  PROVE  IInv'
  <1>u. /\ UNCHANGED <<cmds, entries, armed, bits, starting, cached, held, load>>
        /\ UNCHANGED <<sup, stoken, token, tokick, free, started, result>>
    BY DEF shared, scheduler, memory, hvars
  <1>1. TypeInv'
    <2>1. bits' \subseteq VCPU /\ starting' \in BOOLEAN
      BY <1>u DEF IInv, TypeInv, TypeOK, KernelTypeOK
    <2> QED
      BY <2>1, TypeFrame DEF IInv
  <1>2. SlotInv'
    <2>1. SameFrees
      BY AfterStep DEF SameFrees, SameAt
    <2> QED
      BY <1>u, <2>1, SlotFrame DEF IInv
  <1>3. StartInv'
    <2>1. SameAsks
      BY AfterStep DEF SameAsks, SameAt
    <2>2. SameLaunches
      BY AfterStep DEF SameLaunches, Launched
    <2>3. NoNewAsked
      BY <1>u DEF NoNewAsked, IInv, StartInv, OneOnItsWay, Asked
    <2>4. OnlyLaunchedBits /\ OnlyLaunchedWoken
      <3>1. \A d \in VCPU : pc(d)' = "notify" => kernel'[d].at \in VCPU /\ Launched(kernel'[d].at)
        BY DEF Went, pc, IInv, TypeInv, StartInv, InOrder
      <3>2. bits \subseteq VCPU
        BY DEF IInv, TypeInv, TypeOK, KernelTypeOK
      <3> QED
        BY <1>u, <3>1, <3>2 DEF OnlyLaunchedBits, OnlyLaunchedWoken
    <2> QED
      BY <1>u, <2>1, <2>2, <2>3, <2>4, StartFrame DEF IInv, TypeInv
  <1>4. WakeInv'
    <2>1. KeepsKicking /\ KeepsNotified
      BY KeepsWakers
    <2>2. WaitsCovered
      BY <1>u DEF WaitsCovered, Went, Awaits, AwaitAt, SameAt, pc
    <2>3. CommandsKicked
      BY <1>u DEF CommandsKicked
    <2> QED
      BY <1>u, <2>1, <2>2, <2>3, WakeFrame DEF IInv, KeepsToken
  <1> QED
    BY <1>1, <1>2, <1>3, <1>4 DEF IInv

(* output, and commit_output and fail, begin to push a command. *)
LEMMA OutputKeeps ==
  ASSUME IInv, NEW c \in VCPU, UNCHANGED hvars, Output(c) \/ CommitOutput(c)
  PROVE  IInv'
  <1>t. TypeOK /\ pc(c) = "idle" /\ UNCHANGED <<shared, scheduler, memory, hvars>>
    BY DEF IInv, TypeInv, Output, CommitOutput
  <1>1. PICK k \in {"UpdateOutput", "FinishOutput", "FailOutput"} : Set(c, [At("push") EXCEPT !.cmd = Cmd(k)])
    BY DEF Output, CommitOutput, Push
  <1>2. Cmd(k) \in Command /\ Cmd(k).kind = k /\ Cmd(k).slot = EMPTY
    BY CommandTypes
  <1>4. Went(c, "push", Cmd(k), 0, "idle")
    BY <1>t, <1>1, <1>2, StepTo, Zenon DEF Places, PCs
  <1>5. SameAt(c, "push", Cmd(k), "idle")
    BY <1>t, <1>2, CommandTypes DEF SameAt, PushAt, AwaitAt, Frees, Asks, Pushing
  <1> QED
    BY <1>t, <1>4, <1>5, QuietStep

(* halt_forever: the vCPU halts again whenever it is woken. *)
LEMMA HaltForeverKeeps ==
  ASSUME IInv, NEW c \in VCPU, UNCHANGED hvars, HaltForever(c)
  PROVE  IInv'
  <1>t. TypeOK /\ pc(c) = "halted" /\ UNCHANGED <<shared, scheduler, memory, hvars>>
    BY DEF IInv, TypeInv, HaltForever
  <1>2. Went(c, "wait", U, 0, "halted")
    BY <1>t, StepTo, Zenon DEF HaltForever, Places, PCs, Thens
  <1>3. SameAt(c, "wait", U, "halted")
    BY <1>t DEF SameAt, PushAt, AwaitAt, Frees, Asks, Pushing
  <1> QED
    BY <1>t, <1>2, <1>3, QuietStep

(* pop_allocation has looked at all entries. *)
LEMMA PopNoneKeeps ==
  ASSUME IInv, NEW c \in VCPU, UNCHANGED hvars, PopNone(c)
  PROVE  IInv'
  <1>t. TypeOK /\ pc(c) \in {"pop", "repop"} /\ UNCHANGED <<shared, scheduler, memory, hvars>>
    BY DEF IInv, TypeInv, PopNone
  <1>1. PICK p \in {"parm", "ask"} : p = (IF pc(c) = "pop" THEN "parm" ELSE "ask") /\ Set(c, At(p))
    BY DEF PopNone
  <1>3. Went(c, p, U, 0, "idle")
    BY <1>t, <1>1, StepTo, Zenon DEF Places, PCs, Thens
  <1>4. SameAt(c, p, U, "idle")
    BY <1>t, <1>1 DEF SameAt, PushAt, AwaitAt, Awaits, Frees, Asks, Pushing
  <1> QED
    BY <1>t, <1>3, <1>4, QuietStep

(* push_background_command found no room: it arms and tries once more, and *)
(* then waits.                                                             *)
LEMMA NoRoomKeeps ==
  ASSUME IInv, NEW c \in VCPU, UNCHANGED hvars, TryPush(c), ~HasRoom
  PROVE  IInv'
  <1>t. TypeOK /\ pc(c) \in {"push", "retry"} /\ UNCHANGED <<shared, scheduler, memory, hvars>>
    BY DEF IInv, TypeInv, TryPush, shared
  <1>1. CASE pc(c) = "push"
    <2>1. Set(c, [kernel[c] EXCEPT !.pc = "arm"])
      BY <1>1 DEF TryPush
    <2>3. Went(c, "arm", kernel[c].cmd, kernel[c].at, kernel[c].then)
      BY <1>t, <2>1, StepTo, Zenon DEF Places, PCs, Thens
    <2>4. SameAt(c, "arm", kernel[c].cmd, kernel[c].then)
      BY <1>1 DEF SameAt, PushAt, AwaitAt, Frees, Asks, Pushing
    <2> QED
      BY <1>t, <2>3, <2>4, QuietStep
  <1>2. CASE pc(c) = "retry"
    <2>1. Set(c, [kernel[c] EXCEPT !.pc = "wait", !.then = "arm"])
      BY <1>2 DEF TryPush
    <2>3. Went(c, "wait", kernel[c].cmd, kernel[c].at, "arm")
      BY <1>t, <2>1, StepTo, Zenon DEF Places, PCs, Thens
    <2>4. SameAt(c, "wait", kernel[c].cmd, "arm")
      BY <1>2 DEF SameAt, PushAt, AwaitAt, Awaits, Frees, Asks, Pushing
    <2> QED
      BY <1>t, <2>3, <2>4, QuietStep
  <1> QED
    BY <1>t, <1>1, <1>2

-----------------------------------------------------------------------------
(* Slots that move.  Slot s0 has a new kind of owner and the others have   *)
(* the owners they had.                                                    *)

OthersKept(s0) ==
  \A s \in Slot \ {s0} :
    /\ InEntry(s)' <=> InEntry(s)
    /\ InCache(s)' <=> InCache(s)
    /\ InCommand(s)' <=> InCommand(s)
    /\ InPush(s)' <=> InPush(s)
    /\ s \in held' <=> s \in held
    /\ s \in free' <=> s \in free

Exactly(e, k, m, p, h, f) ==
  /\ e \/ k \/ m \/ p \/ h \/ f
  /\ e => ~k /\ ~m /\ ~p /\ ~h /\ ~f
  /\ k => ~m /\ ~p /\ ~h /\ ~f
  /\ m => ~p /\ ~h /\ ~f
  /\ p => ~h /\ ~f
  /\ h => ~f

LEMMA OneKindMoved ==
  ASSUME OneKind, NEW s0 \in Slot, OthersKept(s0),
         Exactly(InEntry(s0)', InCache(s0)', InCommand(s0)', InPush(s0)', s0 \in held', s0 \in free')
  PROVE  OneKind'
  BY DEF OneKind, OthersKept, Exactly

LEMMA OneKindAt ==
  ASSUME OneKind, NEW s \in Slot
  PROVE  Exactly(InEntry(s), InCache(s), InCommand(s), InPush(s), s \in held, s \in free)
  BY DEF OneKind, Exactly

(* Steps that leave the vCPUs, the commands and the notifications alone. *)
LEMMA StartWakeFrame ==
  ASSUME StartInv, WakeInv,
         UNCHANGED <<kernel, cmds, armed, bits, starting, sup, stoken, token, tokick, started>>
  PROVE  StartInv' /\ WakeInv'
  <1>1. InOrder'
    BY DEF StartInv, InOrder, Last, Launched, pc
  <1>2. OneOnItsWay'
    BY DEF StartInv, OneOnItsWay, Last, Launched, pc, Asks, Asked, Pushing
  <1>3. KeepsKicking /\ KeepsNotified /\ KeepsToken /\ WaitsCovered /\ CommandsKicked
    BY DEF KeepsKicking, KeepsNotified, KeepsToken, WaitsCovered, CommandsKicked, Kicking, Notified, Awaits, pc
  <1>4. WakeInv'
    BY <1>3, WakeFrame
  <1> QED
    BY <1>1, <1>2, <1>4 DEF StartInv

(* allocate_frame takes a frame from the cache. *)
LEMMA CachedKeeps ==
  ASSUME IInv, NEW c \in VCPU, UNCHANGED hvars, AllocateFrame(c), cached # <<>>
  PROVE  IInv'
  <1>t. cached \in Seq(Slot) /\ Len(cached) \in Nat /\ held \subseteq Slot /\ load.cache \in Nat
    BY ServicesAssumption DEF IInv, TypeInv, TypeOK, KernelTypeOK
  <1>u. /\ held' = held \cup {cached[Len(cached)]}
        /\ cached' = SubSeq(cached, 1, Len(cached) - 1)
        /\ UNCHANGED <<kernel, load, cmds, entries, armed, bits, starting>>
        /\ UNCHANGED <<sup, stoken, token, tokick, free, started, result>>
    BY DEF AllocateFrame, shared, scheduler, hvars
  <1>1. PICK n \in Nat : Len(cached) = n + 1
    <2>1. Len(cached) - 1 \in Nat /\ Len(cached) = (Len(cached) - 1) + 1
      BY <1>t
    <2> QED
      BY <2>1, Zenon
  <1>2. PICK s0 \in Slot : s0 = cached[n + 1]
    BY <1>t, <1>1
  <1>3. /\ cached' \in Seq(Slot) /\ Len(cached') = n /\ DOMAIN cached' = 1 .. n
        /\ \A i \in 1 .. n : cached'[i] = cached[i]
        /\ DOMAIN cached = 1 .. n + 1
    BY <1>t, <1>u, <1>1
  <1>4. TypeInv'
    <2>1. Len(cached') <= load.cache /\ held' \subseteq Slot
      BY <1>t, <1>u, <1>1, <1>2, <1>3 DEF IInv, TypeInv, TypeOK, KernelTypeOK
    <2>2. TypeOK'
      BY <1>u, <1>3, <2>1 DEF IInv, TypeInv, TypeOK, KernelTypeOK
    <2> QED
      BY <1>u, <2>2 DEF IInv, TypeInv, pc
  <1>5. SlotInv'
    <2>1. \A i, j \in 1 .. n + 1 : cached[i] = cached[j] => i = j
      BY <1>3 DEF IInv, SlotInv, EachOnce
    <2>2. EachOnce'
      <3>1. \A i, j \in 1 .. n : cached'[i] = cached'[j] => i = j
        BY <1>3, <2>1
      <3>2. \A d \in VCPU, s \in Slot : Frees(d, s)' <=> Frees(d, s)
        BY <1>u DEF Frees, Pushing, pc
      <3> QED
        BY <1>u, <1>3, <3>1, <3>2 DEF IInv, SlotInv, EachOnce
    <2>3. InCache(s0) /\ ~InCache(s0)'
      <3>1. n + 1 \in 1 .. n + 1 /\ \A i \in 1 .. n : i \in 1 .. n + 1 /\ i # n + 1
        OBVIOUS
      <3> QED
        BY <1>2, <1>3, <2>1, <3>1 DEF InCache
    <2>4. ASSUME NEW s \in Slot \ {s0} PROVE InCache(s)' <=> InCache(s)
      <3>1. \A i \in 1 .. n + 1 : i = n + 1 \/ i \in 1 .. n
        OBVIOUS
      <3>2. \A i \in 1 .. n : i \in 1 .. n + 1
        OBVIOUS
      <3> QED
        BY <1>2, <1>3, <3>1, <3>2 DEF InCache
    <2>5. ASSUME NEW s \in Slot
          PROVE  (InEntry(s)' <=> InEntry(s)) /\ (InCommand(s)' <=> InCommand(s)) /\ (InPush(s)' <=> InPush(s))
      BY <1>u DEF InEntry, InCommand, InPush, Frees, Pushing, pc
    <2>6. OthersKept(s0)
      BY <1>u, <1>1, <1>2, <2>4, <2>5 DEF OthersKept
    <2>7. Exactly(InEntry(s0)', InCache(s0)', InCommand(s0)', InPush(s0)', s0 \in held', s0 \in free')
      BY <1>u, <1>1, <1>2, <2>3, <2>5, OneKindAt DEF IInv, SlotInv, Exactly
    <2> QED
      BY <2>2, <2>6, <2>7, OneKindMoved DEF IInv, SlotInv
  <1>6. StartInv' /\ WakeInv'
    BY <1>u, StartWakeFrame DEF IInv
  <1> QED
    BY <1>4, <1>5, <1>6 DEF IInv

(* allocate_frame with an empty cache begins allocate. *)
LEMMA AllocateKeeps ==
  ASSUME IInv, NEW c \in VCPU, UNCHANGED hvars, AllocateFrame(c)
  PROVE  IInv'
  <1>1. CASE cached # <<>>
    BY <1>1, CachedKeeps
  <1>2. CASE cached = <<>>
    <2>t. TypeOK /\ pc(c) = "idle" /\ UNCHANGED <<shared, scheduler, memory, hvars>>
      BY <1>2 DEF IInv, TypeInv, AllocateFrame
    <2>1. Set(c, [At("pop") EXCEPT !.at = 1])
      BY <1>2 DEF AllocateFrame
    <2>3. Went(c, "pop", U, 1, "idle")
      BY <2>t, <2>1, StepTo, Zenon DEF Places, PCs, Thens
    <2>4. SameAt(c, "pop", U, "idle")
      BY <2>t DEF SameAt, PushAt, AwaitAt, Frees, Asks, Pushing
    <2> QED
      BY <2>t, <2>3, <2>4, QuietStep
  <1> QED
    BY <1>1, <1>2

(* A step of one vCPU, for vCPUs that launch and vCPUs that wait. *)
LEMMA StepWoken ==
  ASSUME IInv, NEW c \in VCPU, NEW p, NEW m, NEW a, NEW t, Went(c, p, m, a, t),
         p = "notify" => a \in VCPU /\ Launched(a), token' \subseteq token, UNCHANGED tokick,
         armed' \subseteq armed \cup {d \in VCPU : Launched(d)}
  PROVE  OnlyLaunchedWoken
  <1>1. ASSUME NEW d \in VCPU, pc(d)' = "notify"
        PROVE  kernel'[d].at \in VCPU /\ Launched(kernel'[d].at)
    <2>1. CASE d = c
      BY <1>1, <2>1 DEF Went, pc
    <2>2. CASE d # c
      BY <1>1, <2>2 DEF Went, pc, IInv, TypeInv, StartInv, InOrder
    <2> QED
      BY <2>1, <2>2
  <1> QED
    BY <1>1 DEF OnlyLaunchedWoken

LEMMA StepStart ==
  ASSUME IInv, NEW c \in VCPU, NEW p, NEW m, NEW a, NEW t, Went(c, p, m, a, t),
         pc(c) \notin {"off", "launch"}, p \notin {"off", "launch"},
         p = "notify" => a \in VCPU /\ Launched(a),
         PushAt(p, t) /\ m.kind = "StartNextAp" <=> Asks(c),
         token' \subseteq token, UNCHANGED <<starting, started, tokick>>, NoNewAsked,
         OnlyLaunchedBits,
         armed' \subseteq armed \cup {d \in VCPU : Launched(d)}
  PROVE  StartInv'
  <1>1. SameAsks
    BY AfterStep DEF SameAsks
  <1>2. SameLaunches
    BY AfterStep DEF SameLaunches, Launched
  <1>3. OnlyLaunchedWoken
    BY StepWoken
  <1> QED
    BY <1>1, <1>2, <1>3, StartFrame DEF IInv, TypeInv

LEMMA StepWake ==
  ASSUME IInv, NEW c \in VCPU, NEW p, NEW m, NEW a, NEW t, Went(c, p, m, a, t),
         pc(c) \notin {"kick", "wait", "notify"}, p # "parked",
         UNCHANGED <<sup, stoken, token, tokick>>, armed \subseteq armed',
         \A d \in VCPU : d # c /\ d \in bits' /\ Awaits(d)' => d \in bits,
         AwaitAt(c, p, t) \/ (p = "wait" /\ t = "resume" /\ c \in bits') => Awaits(c),
         CommandsKicked
  PROVE  WakeInv'
  <1>1. KeepsKicking /\ KeepsNotified
    BY KeepsWakers
  <1>2. ASSUME NEW d \in VCPU, Awaits(d)'
        PROVE  Awaits(d) /\ (pc(d)' = "parked" => pc(d) = "parked")
    <2>1. CASE d = c
      BY <1>2, <2>1 DEF Went, Awaits, AwaitAt, pc
    <2>2. CASE d # c
      BY <1>2, <2>2 DEF Went, Awaits, pc
    <2> QED
      BY <2>1, <2>2
  <1>3. WaitsCovered
    BY <1>2 DEF WaitsCovered
  <1> QED
    BY <1>1, <1>3, WakeFrame DEF IInv, KeepsToken

LEMMA SameCommands ==
  ASSUME StartInv, UNCHANGED cmds
  PROVE  NoNewAsked /\ CommandsKicked
  BY DEF NoNewAsked, CommandsKicked, StartInv, OneOnItsWay, Asked

(* deallocate_frame puts the frame into the cache, *)
LEMMA CacheKeeps ==
  ASSUME IInv, NEW c \in VCPU, NEW s0 \in Slot, UNCHANGED hvars, DeallocateFrame(c, s0),
         Len(cached) < load.cache
  PROVE  IInv'
  <1>t. cached \in Seq(Slot) /\ Len(cached) \in Nat /\ held \subseteq Slot /\ load.cache \in Nat
    BY ServicesAssumption DEF IInv, TypeInv, TypeOK, KernelTypeOK
  <1>u. /\ s0 \in held /\ held' = held \ {s0}
        /\ cached' = Append(cached, s0)
        /\ UNCHANGED <<kernel, load, cmds, entries, armed, bits, starting>>
        /\ UNCHANGED <<sup, stoken, token, tokick, free, started, result>>
    BY <1>t DEF DeallocateFrame, shared, scheduler, hvars
  <1>1. PICK n \in Nat : n = Len(cached)
    BY <1>t
  <1>2. /\ cached' \in Seq(Slot) /\ Len(cached') = n + 1 /\ DOMAIN cached' = 1 .. n + 1
        /\ \A i \in 1 .. n : cached'[i] = cached[i]
        /\ cached'[n + 1] = s0 /\ DOMAIN cached = 1 .. n
    BY <1>t, <1>u, <1>1
  <1>3. TypeInv'
    <2>1. Len(cached') <= load.cache /\ held' \subseteq Slot
      BY <1>t, <1>u, <1>1, <1>2
    <2>2. TypeOK'
      BY <1>u, <1>2, <2>1 DEF IInv, TypeInv, TypeOK, KernelTypeOK
    <2> QED
      BY <1>u, <2>2 DEF IInv, TypeInv, pc
  <1>4. SlotInv'
    <2>1. /\ \A i \in 1 .. n + 1 : i = n + 1 \/ i \in 1 .. n
          /\ \A i \in 1 .. n : i \in 1 .. n + 1 /\ i # n + 1
          /\ n + 1 \in 1 .. n + 1
      OBVIOUS
    <2>2. ~InCache(s0) /\ InCache(s0)'
      BY <1>u, <1>2, <2>1, OneKindAt DEF IInv, SlotInv, Exactly, InCache
    <2>3. EachOnce'
      <3>1. \A i, j \in 1 .. n + 1 : cached'[i] = cached'[j] => i = j
        BY <1>2, <2>1, <2>2 DEF IInv, SlotInv, EachOnce, InCache
      <3> QED
        BY <1>u, <1>2, <3>1 DEF IInv, SlotInv, EachOnce, Frees, Pushing, pc
    <2>4. ASSUME NEW s \in Slot \ {s0} PROVE InCache(s)' <=> InCache(s)
      BY <1>2, <2>1 DEF InCache
    <2>5. ASSUME NEW s \in Slot
          PROVE  (InEntry(s)' <=> InEntry(s)) /\ (InCommand(s)' <=> InCommand(s)) /\ (InPush(s)' <=> InPush(s))
      BY <1>u DEF InEntry, InCommand, InPush, Frees, Pushing, pc
    <2>6. OthersKept(s0)
      BY <1>u, <2>4, <2>5 DEF OthersKept
    <2>7. Exactly(InEntry(s0)', InCache(s0)', InCommand(s0)', InPush(s0)', s0 \in held', s0 \in free')
      BY <1>u, <2>2, <2>5, OneKindAt DEF IInv, SlotInv, Exactly
    <2> QED
      BY <2>3, <2>6, <2>7, OneKindMoved DEF IInv, SlotInv
  <1>5. StartInv' /\ WakeInv'
    BY <1>u, StartWakeFrame DEF IInv
  <1> QED
    BY <1>3, <1>4, <1>5 DEF IInv

(* or begins to push DeallocateMemory when the cache is full. *)
LEMMA DeallocateKeeps ==
  ASSUME IInv, NEW c \in VCPU, NEW s0 \in Slot, UNCHANGED hvars, DeallocateFrame(c, s0)
  PROVE  IInv'
  <1>1. CASE Len(cached) < load.cache
    BY <1>1, CacheKeeps
  <1>2. CASE ~(Len(cached) < load.cache)
    <2>t. TypeOK /\ pc(c) = "idle" /\ SlotInv /\ StartInv /\ held \subseteq Slot
      BY DEF DeallocateFrame, IInv, TypeInv, TypeOK, KernelTypeOK
    <2>u. /\ s0 \in held /\ held' = held \ {s0}
          /\ Set(c, [At("push") EXCEPT !.cmd = DeallocateMemory(s0)])
          /\ UNCHANGED <<cached, load, cmds, entries, armed, bits, starting>>
          /\ UNCHANGED <<sup, stoken, token, tokick, free, started, result>>
      BY <1>2 DEF DeallocateFrame, shared, scheduler, hvars, Push
    <2>1. PICK m \in Command : m = DeallocateMemory(s0) /\ m.slot = s0 /\ m.kind # "StartNextAp"
      BY CommandTypes
    <2>3. Went(c, "push", m, 0, "idle")
      BY <2>t, <2>u, <2>1, StepTo, Zenon DEF Places, PCs, Thens
    <2>4. TypeInv'
      <3>1. kernel' \in [VCPU -> [pc : PCs \cup {"parked"}, cmd : Command, at : Nat,
                             then : {"idle", "arm", "parm", "resume", "halted"}]]
        BY <2>3 DEF Went, KState, Places, Thens
      <3>2. TypeOK'
        BY <2>u, <3>1 DEF IInv, TypeInv, TypeOK, KernelTypeOK
      <3>3. \A d \in VCPU : pc(d)' = "notify" => kernel'[d].at \in VCPU
        BY <2>3 DEF Went, IInv, TypeInv, pc
      <3> QED
        BY <2>u, <3>2, <3>3 DEF IInv, TypeInv
    <2>5. /\ \A s \in Slot : Frees(c, s)' <=> s = s0
          /\ \A d \in VCPU, s \in Slot : d # c => (Frees(d, s)' <=> Frees(d, s))
          /\ \A s \in Slot : ~Frees(c, s)
      <3>1. PushAt("push", "idle") /\ ~Pushing(c)
        BY <2>t DEF PushAt, Pushing
      <3>2. \A s \in Slot : Frees(c, s)' <=> s = s0
        BY <2>1, <2>3, <3>1, AfterStep
      <3>3. \A d \in VCPU, s \in Slot : d # c => (Frees(d, s)' <=> Frees(d, s))
        BY <2>3, AfterStep
      <3> QED
        BY <3>1, <3>2, <3>3, NotPushing
    <2>6. SlotInv'
      <3>1. ~InPush(s0)
        BY <2>t, <2>u, OneKindAt DEF SlotInv, Exactly
      <3>2. \A d, e \in VCPU, s \in Slot : Frees(d, s)' /\ Frees(e, s)' => d = e
        <4>1. \A d \in VCPU : ~Frees(d, s0)
          BY <3>1 DEF InPush
        <4>2. \A d, e \in VCPU, s \in Slot : Frees(d, s) /\ Frees(e, s) => d = e
          BY <2>t DEF SlotInv, EachOnce
        <4> QED
          BY <2>5, <4>1, <4>2
      <3>3. EachOnce'
        BY <2>t, <2>u, <3>2 DEF SlotInv, EachOnce
      <3>4. ASSUME NEW s \in Slot
            PROVE  (InEntry(s)' <=> InEntry(s)) /\ (InCommand(s)' <=> InCommand(s)) /\ (InCache(s)' <=> InCache(s))
        BY <2>u DEF InEntry, InCommand, InCache
      <3>5. InPush(s0)' /\ \A s \in Slot \ {s0} : InPush(s)' <=> InPush(s)
        BY <2>5 DEF InPush
      <3>6. OthersKept(s0)
        BY <2>u, <3>4, <3>5 DEF OthersKept
      <3>7. Exactly(InEntry(s0)', InCache(s0)', InCommand(s0)', InPush(s0)', s0 \in held', s0 \in free')
        BY <2>t, <2>u, <3>4, <3>5, OneKindAt DEF SlotInv, Exactly
      <3> QED
        BY <2>t, <3>3, <3>6, <3>7, OneKindMoved DEF SlotInv
    <2>7. StartInv'
      <3>1. PushAt("push", "idle") /\ m.kind = "StartNextAp" <=> Asks(c)
        BY <2>t, <2>1 DEF Asks, Pushing
      <3>2. OnlyLaunchedBits
        BY <2>t, <2>u DEF TypeOK, KernelTypeOK, OnlyLaunchedBits
      <3> QED
        BY <2>t, <2>u, <2>3, <3>1, <3>2, SameCommands, StepStart
    <2>8. WakeInv'
      <3>1. ~AwaitAt(c, "push", "idle")
        BY DEF AwaitAt
      <3> QED
        BY <2>t, <2>u, <2>3, <3>1, SameCommands, StepWake
    <2> QED
      BY <2>4, <2>6, <2>7, <2>8 DEF IInv
  <1> QED
    BY <1>1, <1>2

(* pop_allocation looks at an entry and, if there is a slot in it, takes it. *)
LEMMA PopEntryKeeps ==
  ASSUME IInv, NEW c \in VCPU, UNCHANGED hvars, PopEntry(c)
  PROVE  IInv'
  <1>t. /\ TypeOK /\ SlotInv /\ StartInv /\ pc(c) \in {"pop", "repop"}
        /\ entries \in [Entry -> Slot \cup {EMPTY}] /\ held \subseteq Slot
    BY DEF PopEntry, IInv, TypeInv, TypeOK, KernelTypeOK
  <1>1. PICK i \in Entry : i = kernel[c].at
    BY DEF PopEntry
  <1>u. /\ entries' = [entries EXCEPT ![i] = EMPTY]
        /\ UNCHANGED <<cmds, armed, bits, starting, cached, load>>
        /\ UNCHANGED <<sup, stoken, token, tokick, free, started, result>>
    BY <1>1 DEF PopEntry, scheduler, hvars
  <1>2. CASE entries[i] = EMPTY
    <2>1. entries' = entries
      BY <1>t, <1>u, <1>2
    <2>2. UNCHANGED <<shared, scheduler, memory, hvars>>
      BY <1>1, <1>2, <2>1 DEF PopEntry, shared, memory
    <2>3. Set(c, [kernel[c] EXCEPT !.at = @ + 1])
      BY <1>1, <1>2 DEF PopEntry
    <2>5. Went(c, pc(c), kernel[c].cmd, kernel[c].at + 1, kernel[c].then)
      BY <1>t, <2>3, StepTo, Zenon
    <2>6. SameAt(c, pc(c), kernel[c].cmd, kernel[c].then)
      BY <1>t DEF SameAt, PushAt, AwaitAt, Awaits, Frees, Asks, Pushing
    <2> QED
      BY <1>t, <2>2, <2>5, <2>6, QuietStep
  <1>3. CASE entries[i] # EMPTY
    <2>1. PICK s0 \in Slot : s0 = entries[i] /\ s0 # EMPTY
      BY <1>t, <1>3
    <2>2. held' = held \cup {s0} /\ Set(c, Idle)
      BY <1>1, <1>3, <2>1 DEF PopEntry
    <2>3. Went(c, "idle", U, 0, "idle")
      BY <1>t, <2>2, StepTo, Zenon
    <2>4. TypeInv'
      <3>1. kernel' \in [VCPU -> [pc : PCs \cup {"parked"}, cmd : Command, at : Nat,
                             then : {"idle", "arm", "parm", "resume", "halted"}]]
        BY <2>3 DEF Went, KState, Places, Thens
      <3>2. TypeOK'
        BY <1>u, <2>1, <2>2, <3>1 DEF IInv, TypeInv, TypeOK, KernelTypeOK
      <3>3. \A d \in VCPU : pc(d)' = "notify" => kernel'[d].at \in VCPU
        BY <2>3 DEF Went, IInv, TypeInv, pc
      <3> QED
        BY <1>u, <3>2, <3>3 DEF IInv, TypeInv
    <2>5. \A d \in VCPU, s \in Slot : Frees(d, s)' <=> Frees(d, s)
      <3>1. ~Pushing(c) /\ ~PushAt("idle", "idle")
        BY <1>t DEF PushAt, Pushing
      <3> QED
        BY <2>3, <3>1, KeepsFrees DEF SameFrees
    <2>6. SlotInv'
      <3>1. \A j \in Entry : entries'[j] = IF j = i THEN EMPTY ELSE entries[j]
        BY <1>t, <1>u
      <3>2. \A j, k \in Entry : entries[j] = entries[k] /\ entries[j] # EMPTY => j = k
        BY <1>t DEF SlotInv, EachOnce
      <3>3. EachOnce'
        BY <1>t, <1>u, <2>5, <3>1, <3>2 DEF SlotInv, EachOnce
      <3>4. InEntry(s0) /\ ~InEntry(s0)' /\ \A s \in Slot \ {s0} : InEntry(s)' <=> InEntry(s)
        <4>1. InEntry(s0)
          BY <2>1 DEF InEntry
        <4>2. ~InEntry(s0)'
          BY <2>1, <3>1, <3>2 DEF InEntry
        <4>3. ASSUME NEW s \in Slot, s # s0 PROVE InEntry(s)' <=> InEntry(s)
          <5>1. s # EMPTY
            BY CommandTypes
          <5> QED
            BY <2>1, <3>1, <4>3, <5>1 DEF InEntry
        <4> QED
          BY <4>1, <4>2, <4>3
      <3>5. ASSUME NEW s \in Slot
            PROVE  (InCache(s)' <=> InCache(s)) /\ (InCommand(s)' <=> InCommand(s)) /\ (InPush(s)' <=> InPush(s))
        BY <1>u, <2>5 DEF InCache, InCommand, InPush
      <3>6. OthersKept(s0)
        BY <1>u, <2>2, <3>4, <3>5 DEF OthersKept
      <3>7. Exactly(InEntry(s0)', InCache(s0)', InCommand(s0)', InPush(s0)', s0 \in held', s0 \in free')
        BY <1>t, <1>u, <2>2, <3>4, <3>5, OneKindAt DEF SlotInv, Exactly
      <3> QED
        BY <1>t, <3>3, <3>6, <3>7, OneKindMoved DEF SlotInv
    <2>7. StartInv'
      <3>1. PushAt("idle", "idle") /\ U.kind = "StartNextAp" <=> Asks(c)
        BY <1>t DEF Asks, Pushing, PushAt
      <3>2. OnlyLaunchedBits
        BY <1>t, <1>u DEF TypeOK, KernelTypeOK, OnlyLaunchedBits
      <3> QED
        BY <1>t, <1>u, <2>3, <3>1, <3>2, SameCommands, StepStart
    <2>8. WakeInv'
      <3>1. ~AwaitAt(c, "idle", "idle")
        BY DEF AwaitAt
      <3> QED
        BY <1>t, <1>u, <2>3, <3>1, SameCommands, StepWake
    <2> QED
      BY <2>4, <2>6, <2>7, <2>8 DEF IInv
  <1> QED
    BY <1>2, <1>3

=============================================================================
