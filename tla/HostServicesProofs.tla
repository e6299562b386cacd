------------------------- MODULE HostServicesProofs -------------------------
(***************************************************************************)
(* For any number of vCPUs, slots, commands and allocation entries: the    *)
(* kernel and the SNP or insecure supervisor lose no slot and no wake-up,  *)
(* and start the vCPU that the scheduler meant.                            *)
(***************************************************************************)
EXTENDS HostKernelProofs

(* The supervisor's steps, which leave the vCPUs where they are. *)

LEMMA SupervisorStart ==
  ASSUME IInv, UNCHANGED <<kernel, bits, starting, started>>, NoNewAsked,
         tokick' \cup armed' \subseteq tokick \cup armed, token' \subseteq token \cup tokick \cup armed
  PROVE  StartInv'
  <1>1. SameAsks /\ SameLaunches
    BY DEF SameAsks, SameLaunches, Asks, Pushing, Launched, pc
  <1>2. OnlyLaunchedBits
    BY DEF OnlyLaunchedBits, IInv, TypeInv, TypeOK, KernelTypeOK
  <1>3. OnlyLaunchedWoken
    BY DEF OnlyLaunchedWoken, IInv, TypeInv, StartInv, InOrder, pc
  <1> QED
    BY <1>1, <1>2, <1>3, StartFrame DEF IInv, TypeInv

LEMMA DrainWake ==
  ASSUME WakeInv, UNCHANGED <<kernel, bits, armed, tokick>>, token \subseteq token',
         sup.pc # "kick", sup'.pc \in {"drain", "fill", "reset", "done"},
         sup'.pc = "reset" => cmds' = <<>>
  PROVE  WakeInv'
  <1>1. \A c \in VCPU : (Awaits(c)' <=> Awaits(c)) /\ (Notified(c)' <=> Notified(c))
    BY DEF Awaits, Notified, pc
  <1>2. \A c \in VCPU : Awaits(c)' => c \in token' \cup tokick' \cup armed' \/ Notified(c)'
    BY <1>1 DEF WakeInv
  <1>3. \A c \in VCPU : Awaits(c)' /\ sup'.pc # "done" => WakeupPending(c)'
    BY <1>2 DEF WakeupPending, Notified
  <1>4. NoStrandedCommand'
    BY DEF NoStrandedCommand
  <1>5. tokick' = {}
    BY DEF WakeInv
  <1> QED
    BY <1>2, <1>3, <1>4, <1>5 DEF WakeInv

(* The first command leaves the buffer. *)
Removed(n) ==
  /\ cmds' \in Seq(Command) /\ Len(cmds') <= CAPACITY
  /\ DOMAIN cmds = 1 .. n + 1 /\ DOMAIN cmds' = 1 .. n
  /\ cmds[1] = Head(cmds) /\ cmds[1] \in Command
  /\ 1 \in 1 .. n + 1
  /\ \A i \in 1 .. n : i + 1 \in 1 .. n + 1 /\ i + 1 # 1 /\ cmds'[i] = cmds[i + 1]
  /\ \A j \in 1 .. n + 1 : j = 1 \/ \E i \in 1 .. n : j = i + 1
  /\ \A i, j \in 1 .. n : i + 1 = j + 1 => i = j

LEMMA CompleteRemoves ==
  ASSUME TypeOK, cmds # <<>>, Complete
  PROVE  \E n \in Nat : Removed(n)
  <1>1. cmds \in Seq(Command) /\ Len(cmds) <= CAPACITY /\ CAPACITY \in Nat /\ cmds' = Tail(cmds)
    BY ServicesAssumption DEF TypeOK, KernelTypeOK, Complete
  <1>2. PICK n \in Nat : Len(cmds) = n + 1
    <2>1. Len(cmds) \in Nat \ {0}
      BY <1>1
    <2>2. Len(cmds) - 1 \in Nat /\ Len(cmds) = (Len(cmds) - 1) + 1
      BY <2>1
    <2> QED
      BY <2>2, Zenon
  <1>3. /\ cmds' \in Seq(Command) /\ Len(cmds') = n /\ Head(cmds) = cmds[1]
        /\ DOMAIN cmds = 1 .. n + 1 /\ DOMAIN cmds' = 1 .. n
        /\ \A i \in 1 .. n : cmds'[i] = cmds[i + 1]
    BY <1>1, <1>2
  <1>4. n <= CAPACITY
    BY <1>1, <1>2
  <1>5. /\ 1 \in 1 .. n + 1
        /\ \A i \in 1 .. n : i + 1 \in 1 .. n + 1 /\ i + 1 # 1
        /\ \A i, j \in 1 .. n : i + 1 = j + 1 => i = j
    OBVIOUS
  <1>6. \A j \in 1 .. n + 1 : j = 1 \/ \E i \in 1 .. n : j = i + 1
    <2>1. ASSUME NEW j \in 1 .. n + 1, j # 1 PROVE \E i \in 1 .. n : j = i + 1
      <3>1. j - 1 \in 1 .. n /\ j = (j - 1) + 1
        BY <2>1
      <3> QED
        BY <3>1
    <2> QED
      BY <2>1
  <1>7. cmds[1] \in Command
    BY <1>1, <1>3, <1>5
  <1> QED
    BY <1>3, <1>4, <1>5, <1>6, <1>7 DEF Removed

(* A slot that was in the command goes to the allocator. *)
LEMMA CompleteSlots ==
  ASSUME SlotInv, NEW n \in Nat, Removed(n), UNCHANGED <<kernel, entries, cached, held>>,
         free' = free \cup ({cmds[1].slot} \cap Slot)
  PROVE  SlotInv'
  <1>1. PICK s0 : s0 = cmds[1].slot
    OBVIOUS
  <1>2. s0 \in Slot => InCommand(s0) /\ ~InCommand(s0)'
    <2>1. s0 # EMPTY => \A i \in 1 .. n : cmds'[i].slot # s0
      BY <1>1 DEF SlotInv, EachOnce, Removed
    <2>2. s0 \in Slot => s0 # EMPTY
      BY CommandTypes
    <2> QED
      BY <1>1, <2>1, <2>2 DEF InCommand, Removed
  <1>3. ASSUME NEW s \in Slot, s # s0 PROVE InCommand(s)' <=> InCommand(s)
    <2>1. ASSUME NEW i \in 1 .. n, cmds'[i].slot = s PROVE InCommand(s)
      <3>1. PICK j \in DOMAIN cmds : cmds[j] = cmds'[i]
        BY DEF Removed
      <3> QED
        BY <2>1, <3>1 DEF InCommand
    <2>2. ASSUME NEW j \in DOMAIN cmds, cmds[j].slot = s PROVE InCommand(s)'
      <3>1. PICK i \in 1 .. n : j = i + 1
        BY <1>1, <1>3, <2>2 DEF Removed
      <3>2. cmds'[i] = cmds[j]
        BY <3>1 DEF Removed
      <3> QED
        BY <2>2, <3>2 DEF InCommand, Removed
    <2>3. DOMAIN cmds' = 1 .. n
      BY DEF Removed
    <2> QED
      BY <2>1, <2>2, <2>3 DEF InCommand
  <1>4. ASSUME NEW s \in Slot
        PROVE  (InEntry(s)' <=> InEntry(s)) /\ (InCache(s)' <=> InCache(s)) /\ (InPush(s)' <=> InPush(s))
    BY DEF InEntry, InCache, InPush, Frees, Pushing, pc
  <1>5. \A i, j \in 1 .. n : cmds'[i].slot = cmds'[j].slot /\ cmds'[i].slot # EMPTY => i = j
    <2>1. ASSUME NEW i \in 1 .. n, NEW j \in 1 .. n, cmds'[i].slot = cmds'[j].slot, cmds'[i].slot # EMPTY
          PROVE  i = j
      <3>1. /\ i + 1 \in DOMAIN cmds /\ j + 1 \in DOMAIN cmds
            /\ cmds'[i] = cmds[i + 1] /\ cmds'[j] = cmds[j + 1]
        BY DEF Removed
      <3>2. i + 1 = j + 1
        BY <2>1, <3>1 DEF SlotInv, EachOnce
      <3> QED
        BY <3>2 DEF Removed
    <2> QED
      BY <2>1
  <1>6. EachOnce'
    BY <1>5 DEF SlotInv, EachOnce, Removed, Frees, Pushing, pc
  <1>7. \A s \in Slot : s \in free' <=> s \in free \/ s = s0
    BY <1>1
  <1>8. OneKind'
    BY <1>2, <1>3, <1>4, <1>7 DEF SlotInv, OneKind
  <1> QED
    BY <1>6, <1>8 DEF SlotInv

LEMMA CompleteAsked ==
  ASSUME StartInv, NEW n \in Nat, Removed(n)
  PROVE  NoNewAsked
  <1>1. DOMAIN cmds' = 1 .. n /\ \A i \in 1 .. n : i + 1 \in DOMAIN cmds /\ cmds'[i] = cmds[i + 1]
    BY DEF Removed
  <1>2. ASSUME NEW i \in 1 .. n, cmds'[i].kind = "StartNextAp" PROVE \E j \in DOMAIN cmds : Asked(j)
    BY <1>1, <1>2 DEF Asked
  <1>3. ASSUME NEW i \in 1 .. n, NEW j \in 1 .. n,
               cmds'[i].kind = "StartNextAp", cmds'[j].kind = "StartNextAp"
        PROVE  i = j
    <2>1. Asked(i + 1) /\ Asked(j + 1) /\ i + 1 \in DOMAIN cmds /\ j + 1 \in DOMAIN cmds
      BY <1>1, <1>3 DEF Asked
    <2>2. i + 1 = j + 1
      BY <2>1 DEF StartInv, OneOnItsWay
    <2> QED
      BY <2>2 DEF Removed
  <1> QED
    BY <1>1, <1>2, <1>3 DEF NoNewAsked

(* A command other than StartNextAp is completed. *)
LEMMA CompleteKeeps ==
  ASSUME IInv, sup.pc \in {"drain", "fill"}, cmds # <<>>, Complete,
         sup' \in [pc : {"drain", "fill", "reset", "kick", "park", "done"}, at : 1 .. ALLOCATIONS + 1],
         sup'.pc \in {"drain", "done"}, result' \in {"running", "finished", "failed"},
         free' = free \cup ({Head(cmds).slot} \cap Slot),
         UNCHANGED <<entries, armed, scheduler, memory, kernel, stoken, token, tokick, started>>
  PROVE  IInv'
  <1>t. TypeInv /\ TypeOK /\ SlotInv /\ StartInv /\ WakeInv
    BY DEF IInv, TypeInv
  <1>u. UNCHANGED <<entries, armed, bits, starting, cached, held, load, kernel, stoken, token, tokick, started>>
    BY DEF scheduler, memory
  <1>1. PICK n \in Nat : Removed(n)
    BY <1>t, CompleteRemoves
  <1>2. TypeInv'
    <2>1. TypeOK'
      BY <1>t, <1>u, <1>1 DEF TypeOK, KernelTypeOK, Removed
    <2> QED
      BY <1>t, <1>u, <2>1 DEF TypeInv, pc
  <1>3. SlotInv'
    <2>1. Head(cmds) = cmds[1]
      BY <1>1 DEF Removed
    <2> QED
      BY <1>t, <1>u, <1>1, <2>1, CompleteSlots
  <1>4. StartInv'
    BY <1>t, <1>u, <1>1, CompleteAsked, SupervisorStart
  <1>5. WakeInv'
    BY <1>t, <1>u, DrainWake
  <1> QED
    BY <1>2, <1>3, <1>4, <1>5 DEF IInv

(* start_next_ap: the next vCPU is the one that was asked for. *)
LEMMA StartApKeeps ==
  ASSUME IInv, Handle, Head(cmds).kind = "StartNextAp"
  PROVE  IInv'
  <1>t. TypeInv /\ TypeOK /\ SlotInv /\ StartInv /\ WakeInv /\ sup.pc = "drain" /\ cmds # <<>>
    BY DEF IInv, TypeInv, Handle
  <1>1. StartAp
    BY DEF Handle
  <1>u. UNCHANGED <<entries, armed, bits, starting, cached, held, load, kernel, stoken, tokick, sup, free, result>>
    BY <1>1 DEF Handle, StartAp, scheduler, memory
  <1>2. PICK n \in Nat : Removed(n)
    BY <1>t, <1>1, CompleteRemoves DEF StartAp
  <1>3. Head(cmds) = cmds[1] /\ cmds[1] \in Command /\ 1 \in DOMAIN cmds /\ Asked(1)
    BY <1>2 DEF Removed, Asked
  <1>4. /\ starting /\ Launched(Last) /\ started \in bits
        /\ \A c \in VCPU : ~Asks(c)
        /\ \A i \in DOMAIN cmds : Asked(i) => i = 1
    BY <1>t, <1>3 DEF StartInv, OneOnItsWay
  <1>5. started \in VCPU /\ started \in Nat \ {0} /\ VCPU \subseteq Nat
    BY <1>t, <1>4, StartTypes
  <1>6. started' = started + 1 /\ token' = token \cup {started} /\ Last' = started
    BY <1>1, <1>5 DEF StartAp, Last
  <1>7. TypeInv'
    <2>1. started' \in Nat /\ 0 .. started' - 1 \subseteq VCPU
      BY <1>5, <1>6, ServicesAssumption
    <2>2. TypeOK'
      BY <1>t, <1>u, <1>2, <1>5, <1>6, <2>1 DEF TypeOK, KernelTypeOK, Removed
    <2> QED
      BY <1>t, <1>u, <2>2 DEF TypeInv, pc
  <1>8. SlotInv'
    <2>1. cmds[1].slot \notin Slot
      BY <1>3, CommandTypes
    <2>2. free' = free \cup ({cmds[1].slot} \cap Slot)
      BY <1>u, <2>1
    <2> QED
      BY <1>t, <1>u, <1>2, <2>2, CompleteSlots
  <1>9. StartInv'
    <2>1. \A c \in VCPU : Launched(c)' <=> Launched(c)
      BY <1>u DEF Launched, pc
    <2>3. InOrder'
      <3>1. ASSUME NEW c \in VCPU, c < started PROVE Launched(c)'
        BY <1>t, <1>4, <2>1, <3>1, LaunchedBelow
      <3>2. ASSUME NEW c \in VCPU, c >= started + 1 PROVE pc(c)' = "off"
        <4>1. c >= started
          BY <1>5, <3>2
        <4> QED
          BY <1>t, <1>u, <4>1 DEF StartInv, InOrder, pc
      <3>3. \A c \in token \cup tokick \cup armed : c < started + 1
        <4>1. token \cup tokick \cup armed \subseteq Nat
          BY <1>t, StartTypes
        <4> QED
          BY <1>t, <1>5, <4>1 DEF StartInv, InOrder
      <3>4. started < started + 1 /\ started + 1 > 0
        BY <1>5
      <3>5. (\A c \in tokick' \cup armed' : Launched(c)') /\ (\A c \in VCPU : pc(c)' = "notify" => Launched(kernel[c].at)')
        BY <1>t, <1>u DEF StartInv, InOrder, Launched, pc
      <3> QED
        BY <1>u, <1>6, <3>1, <3>2, <3>3, <3>4, <3>5 DEF InOrder
    <2>4. OneOnItsWay'
      <3>1. \A c \in VCPU : ~Asks(c)'
        BY <1>u, <1>4 DEF Asks, Pushing, pc
      <3>2. \A i \in DOMAIN cmds' : ~Asked(i)'
        <4>1. ASSUME NEW i \in DOMAIN cmds' PROVE cmds'[i].kind # "StartNextAp"
          <5>1. i + 1 \in DOMAIN cmds /\ i + 1 # 1 /\ cmds'[i] = cmds[i + 1]
            BY <1>2 DEF Removed
          <5> QED
            BY <1>4, <5>1 DEF Asked
        <4> QED
          BY <4>1 DEF Asked
      <3>3. ASSUME NEW c \in VCPU PROVE ~(c >= started + 1 /\ c \in bits)
        <4>1. c >= started /\ c \in bits => c = started
          BY <1>t DEF StartInv, OneOnItsWay
        <4> QED
          BY <1>5, <4>1
      <3>4. starting' /\ Last' \in bits'
        BY <1>u, <1>4, <1>6
      <3> QED
        BY <1>u, <1>6, <3>1, <3>2, <3>3, <3>4 DEF OneOnItsWay
    <2> QED
      BY <2>3, <2>4 DEF StartInv
  <1>10. WakeInv'
    BY <1>t, <1>u, <1>6, DrainWake
  <1> QED
    BY <1>7, <1>8, <1>9, <1>10 DEF IInv

(* CommandBufferReader::handle, for all commands. *)
LEMMA HandleKeeps ==
  ASSUME IInv, Handle
  PROVE  IInv'
  <1>t. /\ TypeInv /\ TypeOK /\ SlotInv /\ StartInv /\ WakeInv /\ sup.pc = "drain" /\ cmds # <<>>
        /\ sup \in [pc : {"drain", "fill", "reset", "kick", "park", "done"}, at : 1 .. ALLOCATIONS + 1]
        /\ result \in {"running", "finished", "failed"} /\ ALLOCATIONS \in Nat
    BY ServicesAssumption DEF IInv, TypeInv, Handle, TypeOK
  <1>u. UNCHANGED <<entries, armed, scheduler, memory, kernel, stoken, tokick>>
    BY DEF Handle
  <1>1. Head(cmds) \in Command /\ Head(cmds) = cmds[1]
    <2>1. cmds \in Seq(Command)
      BY <1>t DEF TypeOK, KernelTypeOK
    <2> QED
      BY <1>t, <2>1
  <1>2. /\ Head(cmds).kind # "DeallocateMemory" => {Head(cmds).slot} \cap Slot = {}
        /\ Head(cmds).kind = "DeallocateMemory" => Head(cmds).slot \in Slot
    BY <1>1, CommandTypes
  <1>3. CASE Head(cmds).kind = "StartNextAp"
    BY <1>3, StartApKeeps
  <1>4. CASE Head(cmds).kind = "AllocateMemory"
    <2>1. sup' = Sup("fill") /\ UNCHANGED <<cmds, token, free, started, result>>
      BY <1>4 DEF Handle
    <2>2. UNCHANGED <<entries, armed, bits, starting, cached, held, load, kernel, stoken, tokick>>
      BY <1>u DEF scheduler, memory
    <2>3. sup'.pc = "fill" /\ sup' \in [pc : {"fill"}, at : 1 .. ALLOCATIONS + 1]
      BY <1>t, <2>1 DEF Sup
    <2>4. TypeInv'
      <3>1. TypeOK'
        BY <1>t, <2>1, <2>2, <2>3 DEF TypeOK, KernelTypeOK
      <3> QED
        BY <1>t, <1>1, <1>4, <2>1, <2>2, <3>1 DEF TypeInv, pc
    <2>5. SlotInv'
      <3>1. SameFrees
        BY <2>2 DEF SameFrees, Frees, Pushing, pc
      <3> QED
        BY <1>t, <2>1, <2>2, <3>1, SlotFrame
    <2>6. StartInv'
      BY <1>t, <2>1, <2>2, SameCommands, SupervisorStart
    <2>7. WakeInv'
      BY <1>t, <2>1, <2>2, <2>3, DrainWake
    <2> QED
      BY <2>4, <2>5, <2>6, <2>7 DEF IInv
  <1>5. CASE Head(cmds).kind = "DeallocateMemory"
    <2>1. Dealloc(Head(cmds).slot)
      BY <1>5 DEF Handle
    <2>2. free' = free \cup ({Head(cmds).slot} \cap Slot) /\ Complete /\ UNCHANGED <<sup, token, started, result>>
      BY <1>2, <1>5, <2>1 DEF Dealloc
    <2> QED
      BY <1>t, <1>u, <2>2, CompleteKeeps
  <1>6. CASE Head(cmds).kind = "UpdateOutput"
    <2>1. free' = free \cup ({Head(cmds).slot} \cap Slot) /\ Complete /\ UNCHANGED <<sup, token, started, result>>
      BY <1>2, <1>6 DEF Handle
    <2> QED
      BY <1>t, <1>u, <2>1, CompleteKeeps
  <1>7. CASE Head(cmds).kind \in {"FinishOutput", "FailOutput"}
    <2>1. PICK r \in {"finished", "failed"} : Conclude(r)
      BY <1>7 DEF Handle
    <2>2. free' = free \cup ({Head(cmds).slot} \cap Slot) /\ Complete /\ UNCHANGED <<token, started>>
      BY <1>2, <1>7, <2>1 DEF Conclude
    <2>3. result' \in {"running", "finished", "failed"}
      BY <1>t, <2>1 DEF Conclude
    <2>4. Sup("done").pc = "done" /\ Sup("done") \in [pc : {"done"}, at : 1 .. ALLOCATIONS + 1]
      BY <1>t DEF Sup
    <2>5. sup' = sup \/ sup' = Sup("done")
      BY <2>1 DEF Conclude
    <2>6. /\ sup'.pc \in {"drain", "done"}
          /\ sup' \in [pc : {"drain", "fill", "reset", "kick", "park", "done"}, at : 1 .. ALLOCATIONS + 1]
      BY <1>t, <2>4, <2>5
    <2> QED
      BY <1>t, <1>u, <2>2, <2>3, <2>6, CompleteKeeps
  <1> QED
    BY <1>3, <1>4, <1>5, <1>6, <1>7 DEF Handle

(* allocate_memory puts a slot into an entry that is EMPTY. *)
LEMMA FillKeeps ==
  ASSUME IInv, Fill
  PROVE  IInv'
  <1>t. /\ TypeInv /\ TypeOK /\ SlotInv /\ StartInv /\ WakeInv /\ sup.pc = "fill"
        /\ entries \in [Entry -> Slot \cup {EMPTY}] /\ free \subseteq Slot /\ ALLOCATIONS \in Nat
    BY ServicesAssumption, Zenon DEF IInv, TypeInv, TypeOK, KernelTypeOK, Fill
  <1>1. PICK i \in Entry : i = sup.at /\ entries[i] = EMPTY
    BY DEF Fill
  <1>2. PICK s0 \in free : entries' = [entries EXCEPT ![i] = s0] /\ free' = free \ {s0}
    BY <1>1, Zenon DEF Fill
  <1>u. /\ UNCHANGED <<cmds, armed, bits, starting, cached, held, load, kernel>>
        /\ UNCHANGED <<stoken, token, tokick, started, result>>
    BY DEF Fill, scheduler, memory
  <1>3. s0 \in Slot /\ s0 # EMPTY
    BY <1>t, <1>2, CommandTypes
  <1>4. \A j \in Entry : entries'[j] = IF j = i THEN s0 ELSE entries[j]
    BY <1>t, <1>2
  <1>5. sup'.pc = "fill" /\ sup' \in [pc : {"fill"}, at : 1 .. ALLOCATIONS + 1]
    BY <1>t DEF Fill, Sup
  <1>6. TypeInv'
    <2>1. TypeOK'
      BY <1>t, <1>u, <1>2, <1>3, <1>5 DEF TypeOK, KernelTypeOK
    <2> QED
      BY <1>t, <1>u, <2>1 DEF TypeInv, pc
  <1>7. SlotInv'
    <2>1. ~InEntry(s0)
      BY <1>t, <1>2, <1>3 DEF SlotInv, OneKind
    <2>2. \A j, k \in Entry : entries'[j] = entries'[k] /\ entries'[j] # EMPTY => j = k
      BY <1>t, <1>1, <1>4, <2>1 DEF SlotInv, EachOnce, InEntry
    <2>3. EachOnce'
      BY <1>t, <1>u, <2>2 DEF SlotInv, EachOnce, Frees, Pushing, pc
    <2>4. InEntry(s0)' /\ \A s \in Slot \ {s0} : InEntry(s)' <=> InEntry(s)
      BY <1>1, <1>4, CommandTypes DEF InEntry
    <2>5. ASSUME NEW s \in Slot
          PROVE  (InCache(s)' <=> InCache(s)) /\ (InCommand(s)' <=> InCommand(s)) /\ (InPush(s)' <=> InPush(s))
      BY <1>u DEF InCache, InCommand, InPush, Frees, Pushing, pc
    <2>6. OthersKept(s0)
      BY <1>u, <1>2, <2>4, <2>5 DEF OthersKept
    <2>7. Exactly(InEntry(s0)', InCache(s0)', InCommand(s0)', InPush(s0)', s0 \in held', s0 \in free')
      BY <1>t, <1>u, <1>2, <1>3, <2>4, <2>5, OneKindAt DEF SlotInv, Exactly
    <2> QED
      BY <1>t, <1>3, <2>3, <2>6, <2>7, OneKindMoved DEF SlotInv
  <1>8. StartInv'
    BY <1>t, <1>u, SameCommands, SupervisorStart
  <1>9. WakeInv'
    BY <1>t, <1>u, <1>5, DrainWake
  <1> QED
    BY <1>6, <1>7, <1>8, <1>9 DEF IInv

(* The supervisor's other steps move no slot and keep the commands. *)
LEMMA LoopTypes ==
  ASSUME IInv, UNCHANGED <<cmds, entries, scheduler, memory, kernel, free, started, result>>,
         armed' \subseteq VCPU, token' \subseteq VCPU, tokick' \subseteq VCPU, stoken' \in BOOLEAN,
         sup' \in [pc : {"drain", "fill", "reset", "kick", "park", "done"}, at : 1 .. ALLOCATIONS + 1],
         sup'.pc = "fill" => sup.pc = "fill"
  PROVE  TypeInv' /\ SlotInv'
  <1>u. UNCHANGED <<bits, starting, cached, held, load>>
    BY DEF scheduler, memory
  <1>1. TypeOK'
    BY <1>u DEF IInv, TypeInv, TypeOK, KernelTypeOK
  <1>2. TypeInv'
    BY <1>1 DEF IInv, TypeInv, pc
  <1>3. SameFrees
    BY DEF SameFrees, Frees, Pushing, pc
  <1>4. SlotInv'
    BY <1>u, <1>3, SlotFrame DEF IInv
  <1> QED
    BY <1>2, <1>4

LEMMA SupTypes ==
  ASSUME NEW l \in {"drain", "fill", "reset", "kick", "park", "done"}
  PROVE  /\ Sup(l).pc = l
         /\ Sup(l) \in [pc : {"drain", "fill", "reset", "kick", "park", "done"}, at : 1 .. ALLOCATIONS + 1]
  BY ServicesAssumption DEF Sup

(* find_free_entry passes an entry; allocate_memory is done. *)
LEMMA FillNextKeeps ==
  ASSUME IInv, FillNext
  PROVE  IInv'
  <1>t. /\ TypeInv /\ TypeOK /\ SlotInv /\ StartInv /\ WakeInv /\ sup.pc = "fill"
        /\ armed \subseteq VCPU /\ token \subseteq VCPU /\ tokick \subseteq VCPU /\ stoken \in BOOLEAN
        /\ sup \in [pc : {"drain", "fill", "reset", "kick", "park", "done"}, at : 1 .. ALLOCATIONS + 1]
        /\ ALLOCATIONS \in Nat
    BY ServicesAssumption, Zenon DEF IInv, TypeInv, TypeOK, KernelTypeOK, FillNext
  <1>u. /\ UNCHANGED <<cmds, entries, armed, bits, starting, scheduler, memory, kernel>>
        /\ UNCHANGED <<stoken, token, tokick, free, started, result>>
    BY DEF FillNext, kvars, shared, scheduler
  <1>1. PICK n \in 1 .. ALLOCATIONS + 1 : n = sup.at + 1
    <2>1. sup.at \in 1 .. ALLOCATIONS
      BY DEF FillNext, Entry
    <2>2. sup.at + 1 \in 1 .. ALLOCATIONS + 1
      BY <1>t, <2>1
    <2> QED
      BY <2>2
  <1>2. sup' = [sup EXCEPT !.at = n]
    BY <1>1 DEF FillNext
  <1>3. sup'.pc = "fill" /\ sup' \in [pc : {"drain", "fill", "reset", "kick", "park", "done"}, at : 1 .. ALLOCATIONS + 1]
    BY <1>t, <1>2
  <1>4. TypeInv' /\ SlotInv'
    BY <1>t, <1>u, <1>3, LoopTypes
  <1>5. StartInv'
    BY <1>t, <1>u, SameCommands, SupervisorStart
  <1>6. WakeInv'
    BY <1>t, <1>u, <1>3, DrainWake
  <1> QED
    BY <1>4, <1>5, <1>6 DEF IInv

LEMMA FillDoneKeeps ==
  ASSUME IInv, FillDone
  PROVE  IInv'
  <1>t. /\ TypeInv /\ TypeOK /\ sup.pc = "fill" /\ cmds # <<>> /\ cmds[1].kind = "AllocateMemory"
        /\ cmds \in Seq(Command) /\ result \in {"running", "finished", "failed"}
    BY DEF IInv, TypeInv, TypeOK, KernelTypeOK, FillDone
  <1>u. UNCHANGED <<entries, armed, scheduler, memory, kernel, stoken, token, tokick, free, started, result>>
    BY DEF FillDone
  <1>1. Head(cmds) \in Command /\ Head(cmds) = cmds[1]
    BY <1>t
  <1>2. Head(cmds).slot \notin Slot
    BY <1>t, <1>1, CommandTypes
  <1>3. free' = free \cup ({Head(cmds).slot} \cap Slot)
    BY <1>u, <1>2
  <1>4. sup' = Sup("drain") /\ Complete
    BY DEF FillDone
  <1> QED
    BY <1>t, <1>u, <1>3, <1>4, SupTypes, CompleteKeeps

(* The loop of the supervisor: no command is left, *)
LEMMA DrainedKeeps ==
  ASSUME IInv, Drained \/ Park
  PROVE  IInv'
  <1>t. /\ TypeInv /\ TypeOK /\ SlotInv /\ StartInv /\ WakeInv
        /\ armed \subseteq VCPU /\ token \subseteq VCPU /\ tokick \subseteq VCPU /\ stoken \in BOOLEAN
    BY DEF IInv, TypeInv, TypeOK, KernelTypeOK
  <1>u. /\ UNCHANGED <<cmds, entries, armed, bits, starting, scheduler, memory, kernel>>
        /\ UNCHANGED <<token, tokick, free, started, result>>
        /\ stoken' \in BOOLEAN
    BY <1>t, Zenon DEF Drained, Park, kvars, shared, scheduler
  <1>1. /\ sup.pc # "kick" /\ sup'.pc \in {"drain", "reset"} /\ (sup'.pc = "reset" => cmds' = <<>>)
        /\ sup' \in [pc : {"drain", "fill", "reset", "kick", "park", "done"}, at : 1 .. ALLOCATIONS + 1]
    BY <1>u, SupTypes DEF Drained, Park
  <1>2. TypeInv' /\ SlotInv'
    BY <1>t, <1>u, <1>1, LoopTypes
  <1>3. StartInv'
    BY <1>t, <1>u, SameCommands, SupervisorStart
  <1>4. WakeInv'
    BY <1>t, <1>u, <1>1, DrainWake
  <1> QED
    BY <1>2, <1>3, <1>4 DEF IInv

(* the armed vCPUs are taken, *)
LEMMA ResetKeeps ==
  ASSUME IInv, Reset
  PROVE  IInv'
  <1>t. /\ TypeInv /\ TypeOK /\ SlotInv /\ StartInv /\ WakeInv /\ sup.pc = "reset"
        /\ armed \subseteq VCPU /\ token \subseteq VCPU /\ tokick \subseteq VCPU /\ stoken \in BOOLEAN
    BY DEF IInv, TypeInv, TypeOK, KernelTypeOK, Reset
  <1>u. /\ UNCHANGED <<cmds, entries, bits, starting, scheduler, memory, kernel>>
        /\ UNCHANGED <<stoken, token, free, started, result>>
        /\ tokick' = armed /\ armed' = {}
    BY DEF Reset, scheduler
  <1>1. /\ sup'.pc = "kick"
        /\ sup' \in [pc : {"drain", "fill", "reset", "kick", "park", "done"}, at : 1 .. ALLOCATIONS + 1]
    BY SupTypes DEF Reset
  <1>2. TypeInv' /\ SlotInv'
    BY <1>t, <1>u, <1>1, LoopTypes
  <1>3. StartInv'
    BY <1>t, <1>u, SameCommands, SupervisorStart
  <1>4. WakeInv'
    <2>1. tokick = {}
      BY <1>t DEF WakeInv
    <2>2. \A c \in VCPU : (Awaits(c)' <=> Awaits(c)) /\ (Notified(c)' <=> Notified(c))
      BY <1>u DEF Awaits, Notified, pc
    <2>3. \A c \in VCPU : Awaits(c)' => c \in token' \cup tokick' \/ Notified(c)'
      BY <1>t, <1>u, <2>1, <2>2 DEF WakeInv
    <2>4. \A c \in VCPU : Awaits(c)' => WakeupPending(c)'
      BY <2>3 DEF WakeupPending, Notified
    <2>5. NoStrandedCommand'
      BY <1>t, <1>u DEF WakeInv, NoStrandedCommand, Kicking, pc
    <2> QED
      BY <1>1, <2>3, <2>4, <2>5 DEF WakeInv
  <1> QED
    BY <1>2, <1>3, <1>4 DEF IInv

(* unparked one by one, *)
LEMMA KickKeeps ==
  ASSUME IInv, Kick
  PROVE  IInv'
  <1>t. /\ TypeInv /\ TypeOK /\ SlotInv /\ StartInv /\ WakeInv /\ sup.pc = "kick"
        /\ armed \subseteq VCPU /\ token \subseteq VCPU /\ tokick \subseteq VCPU /\ stoken \in BOOLEAN
        /\ sup \in [pc : {"drain", "fill", "reset", "kick", "park", "done"}, at : 1 .. ALLOCATIONS + 1]
    BY DEF IInv, TypeInv, TypeOK, KernelTypeOK, Kick
  <1>1. PICK d \in tokick : tokick' = tokick \ {d} /\ token' = token \cup {d}
    BY DEF Kick
  <1>u. /\ UNCHANGED <<cmds, entries, armed, bits, starting, scheduler, memory, kernel>>
        /\ UNCHANGED <<sup, stoken, free, started, result>>
    BY DEF Kick, kvars, shared, scheduler
  <1>2. TypeInv' /\ SlotInv'
    BY <1>t, <1>u, <1>1, LoopTypes
  <1>3. StartInv'
    BY <1>t, <1>u, <1>1, SameCommands, SupervisorStart
  <1>4. WakeInv'
    <2>1. \A c \in VCPU : (Awaits(c)' <=> Awaits(c)) /\ (Notified(c)' <=> Notified(c)) /\ pc(c)' = pc(c)
      BY <1>u DEF Awaits, Notified, pc
    <2>2. token' \cup tokick' = token \cup tokick
      BY <1>1
    <2>3. \A c \in VCPU : WakeupPending(c)' <=> WakeupPending(c)
      BY <1>u, <2>2 DEF WakeupPending, Kicking, pc
    <2>4. NoStrandedCommand'
      BY <1>t, <1>u DEF WakeInv, NoStrandedCommand, Kicking, pc
    <2> QED
      BY <1>t, <1>u, <2>1, <2>2, <2>3, <2>4 DEF WakeInv
  <1> QED
    BY <1>2, <1>3, <1>4 DEF IInv

(* and the supervisor waits, or is done. *)
LEMMA KickedKeeps ==
  ASSUME IInv, Kicked
  PROVE  IInv'
  <1>t. /\ TypeInv /\ TypeOK /\ SlotInv /\ StartInv /\ WakeInv /\ sup.pc = "kick" /\ tokick = {}
        /\ armed \subseteq VCPU /\ token \subseteq VCPU /\ stoken \in BOOLEAN
    BY DEF IInv, TypeInv, TypeOK, KernelTypeOK, Kicked
  <1>u. /\ UNCHANGED <<cmds, entries, armed, bits, starting, scheduler, memory, kernel>>
        /\ UNCHANGED <<stoken, token, tokick, free, started, result>>
    BY DEF Kicked, kvars, shared, scheduler
  <1>1. /\ sup'.pc \in {"park", "done"}
        /\ sup' \in [pc : {"drain", "fill", "reset", "kick", "park", "done"}, at : 1 .. ALLOCATIONS + 1]
    BY SupTypes DEF Kicked
  <1>2. TypeInv' /\ SlotInv'
    BY <1>t, <1>u, <1>1, LoopTypes
  <1>3. StartInv'
    BY <1>t, <1>u, SameCommands, SupervisorStart
  <1>4. WakeInv'
    <2>1. \A c \in VCPU : (Awaits(c)' <=> Awaits(c)) /\ (Notified(c)' <=> Notified(c)) /\ pc(c)' = pc(c)
      BY <1>u DEF Awaits, Notified, pc
    <2>2. \A c \in VCPU : WakeupPending(c) => WakeupPending(c)'
      BY <1>t, <1>u DEF WakeupPending, Kicking, pc
    <2>3. NoStrandedCommand'
      BY <1>t, <1>u, <1>1 DEF WakeInv, NoStrandedCommand, Kicking, pc
    <2> QED
      BY <1>t, <1>u, <1>1, <2>1, <2>2, <2>3 DEF WakeInv
  <1> QED
    BY <1>2, <1>3, <1>4 DEF IInv

-----------------------------------------------------------------------------
(* The invariant and what it implies. *)

LEMMA InitInv == Init => IInv
  <1> SUFFICES ASSUME Init PROVE IInv
    OBVIOUS
  <1>u. /\ cmds = <<>> /\ entries = [i \in Entry |-> EMPTY] /\ armed = {} /\ bits = {0} /\ starting = TRUE
        /\ cached = <<>> /\ held = {} /\ load \in Workloads
        /\ kernel = [c \in VCPU |-> IF c = 0 THEN At("launch") ELSE At("off")]
        /\ sup = Sup("drain") /\ stoken = FALSE /\ token = {} /\ tokick = {}
        /\ free = Slot /\ started = 1 /\ result = "running"
    BY DEF Init, KernelInit
  <1>1. Is(At("launch"), "launch", U, 0, "idle") /\ Is(At("off"), "off", U, 0, "idle") /\ 0 \in VCPU
    BY RecordTypes, CommandTypes, ServicesAssumption, Zenon DEF Places, PCs, Thens, U
  <1>2. /\ kernel \in [VCPU -> KState]
        /\ \A c \in VCPU : pc(c) = (IF c = 0 THEN "launch" ELSE "off") /\ kernel[c].cmd = U
    BY <1>u, <1>1 DEF Is, pc
  <1>3. TypeInv
    <2>1. cmds \in Seq(Command) /\ Len(cmds) <= CAPACITY /\ cached \in Seq(Slot) /\ Len(cached) <= load.cache
      BY <1>u, ServicesAssumption
    <2>2. entries \in [Entry -> Slot \cup {EMPTY}] /\ armed \subseteq VCPU /\ bits \subseteq VCPU
      BY <1>u, <1>1
    <2>3. KernelTypeOK({"parked"})
      BY <1>u, <1>2, <2>1, <2>2 DEF KernelTypeOK, KState, Places, Thens
    <2>4. started \in Nat /\ 0 .. started - 1 \subseteq VCPU
      BY <1>u, <1>1
    <2>5. TypeOK
      BY <1>u, <2>3, <2>4, SupTypes, Zenon DEF TypeOK
    <2> QED
      BY <1>u, <1>2, <2>5, SupTypes DEF TypeInv
  <1>4. SlotInv
    <2>1. \A c \in VCPU, s \in Slot : ~Frees(c, s)
      BY <1>2 DEF Frees, Pushing
    <2>2. DOMAIN cmds = {} /\ DOMAIN cached = {}
      BY <1>u
    <2>3. \A i \in Entry : entries[i] = EMPTY
      BY <1>u
    <2>4. EachOnce
      BY <2>1, <2>2, <2>3 DEF EachOnce
    <2>5. ASSUME NEW s \in Slot PROVE ~InEntry(s) /\ ~InCache(s) /\ ~InCommand(s) /\ ~InPush(s)
      BY <2>1, <2>2, <2>3, CommandTypes DEF InEntry, InCache, InCommand, InPush
    <2> QED
      BY <1>u, <2>4, <2>5 DEF SlotInv, OneKind
  <1>5. StartInv
    <2>1. Last = 0 /\ VCPU \subseteq Nat
      BY <1>u, ServicesAssumption DEF Last
    <2>2. \A c \in VCPU : ~Asks(c) /\ pc(c) # "notify"
      BY <1>2 DEF Asks, Pushing
    <2>3. DOMAIN cmds = {}
      BY <1>u
    <2>4. InOrder
      BY <1>u, <1>2, <2>1, <2>2 DEF InOrder
    <2>5. OneOnItsWay
      BY <1>u, <1>2, <2>1, <2>2, <2>3 DEF OneOnItsWay
    <2> QED
      BY <2>4, <2>5 DEF StartInv
  <1>6. WakeInv
    <2>1. \A c \in VCPU : ~Awaits(c)
      BY <1>2 DEF Awaits
    <2> QED
      BY <1>u, <2>1, SupTypes DEF WakeInv, NoStrandedCommand
  <1> QED
    BY <1>3, <1>4, <1>5, <1>6 DEF IInv

LEMMA NextInv == IInv /\ [Next]_vars => IInv'
  <1> SUFFICES ASSUME IInv, [Next]_vars PROVE IInv'
    OBVIOUS
  <1>1. CASE SupervisorStep
    BY <1>1, HandleKeeps, FillKeeps, FillNextKeeps, FillDoneKeeps, DrainedKeeps, ResetKeeps, KickKeeps, KickedKeeps
       DEF SupervisorStep
  <1>2. ASSUME NEW c \in VCPU, VcpuStep(c) PROVE IInv'
    <2>1. CASE Hlt(c)
      BY <2>1, HltKeeps
    <2>2. CASE ParkReturns(c)
      BY <2>2, UnparkKeeps, FirstRunKeeps DEF ParkReturns
    <2>3. CASE KernelStep(c) /\ UNCHANGED hvars
      <3>1. CASE Output(c) \/ CommitOutput(c) \/ HaltForever(c) \/ PopNone(c)
        BY <2>3, <3>1, OutputKeeps, HaltForeverKeeps, PopNoneKeeps
      <3>2. CASE AllocateFrame(c) \/ (\E s \in Slot : DeallocateFrame(c, s)) \/ PopEntry(c)
        BY <2>3, <3>2, AllocateKeeps, DeallocateKeeps, PopEntryKeeps
      <3>3. CASE \E d \in VCPU : StartNextAp(c, d) \/ Schedule(c, d)
        BY <2>3, <3>3, StartNextApKeeps, ScheduleKeeps
      <3>4. CASE Notify(c) \/ Halt(c) \/ Resume(c) \/ FinishLaunch(c)
        BY <2>3, <3>4, NotifyKeeps, HaltKeeps, FinishLaunchKeeps
      <3>5. CASE TryPush(c)
        BY <2>3, <3>5, PushKeeps, NoRoomKeeps
      <3>6. CASE Arm(c) \/ AskMemory(c)
        BY <2>3, <3>6, ArmKeeps, AskMemoryKeeps
      <3> QED
        BY <2>3, <3>1, <3>2, <3>3, <3>4, <3>5, <3>6 DEF KernelStep
    <2> QED
      BY <1>2, <2>1, <2>2, <2>3 DEF VcpuStep
  <1>3. CASE UNCHANGED vars
    <2>u. /\ UNCHANGED <<cmds, entries, armed, bits, starting, cached, held, load, kernel>>
          /\ UNCHANGED <<sup, stoken, token, tokick, free, started, result>>
      BY <1>3 DEF vars, kvars, shared, scheduler, memory, hvars
    <2>1. StartInv' /\ WakeInv'
      BY <2>u, StartWakeFrame DEF IInv
    <2>2. TypeInv' /\ SlotInv'
      <3>1. UNCHANGED <<scheduler, memory>>
        BY <2>u DEF scheduler, memory
      <3> QED
        BY <2>u, <3>1, LoopTypes DEF IInv, TypeInv, TypeOK, KernelTypeOK
    <2> QED
      BY <2>1, <2>2 DEF IInv
  <1> QED
    BY <1>1, <1>2, <1>3 DEF Next, Finished

(* One place for every slot: the places of one kind have one member and    *)
(* those of the other kinds have none.                                     *)
LEMMA OwnedOnce == IInv => SlotsOwnedOnce
  <1> SUFFICES ASSUME IInv, NEW s \in Slot PROVE \E o \in Owners(s) : Owners(s) = {o}
    BY DEF SlotsOwnedOnce
  <1> DEFINE E == {i \in Entry : entries[i] = s}
             K == {i \in DOMAIN cached : cached[i] = s}
             M == {i \in DOMAIN cmds : cmds[i].slot = s}
             P == {c \in VCPU : Pushing(c) /\ kernel[c].cmd.slot = s}
             H == held \cap {s}
             F == free \cap {s}
  <1>1. Owners(s) = {<<"entry", i>> : i \in E} \cup {<<"cache", i>> : i \in K} \cup {<<"command", i>> : i \in M}
                      \cup {<<"push", c>> : c \in P} \cup {<<"user", t>> : t \in H} \cup {<<"free", t>> : t \in F}
    BY DEF Owners, KernelOwners
  <1>2. /\ \A i, j \in E : i = j
        /\ \A i, j \in K : i = j
        /\ \A i, j \in M : i = j
        /\ \A c, d \in P : c = d
        /\ \A t, u \in H : t = u
        /\ \A t, u \in F : t = u
    <2>1. s # EMPTY
      BY CommandTypes
    <2>2. \A c \in P : c \in VCPU /\ Frees(c, s)
      BY DEF Frees
    <2> QED
      BY <2>1, <2>2 DEF IInv, SlotInv, EachOnce
  <1>3. Exactly(E # {}, K # {}, M # {}, P # {}, H # {}, F # {})
    <2>1. /\ InEntry(s) <=> E # {}
          /\ InCache(s) <=> K # {}
          /\ InCommand(s) <=> M # {}
          /\ InPush(s) <=> P # {}
          /\ s \in held <=> H # {}
          /\ s \in free <=> F # {}
      BY DEF InEntry, InCache, InCommand, InPush, Frees
    <2> QED
      BY <2>1, OneKindAt DEF IInv, SlotInv, Exactly
  <1> HIDE DEF E, K, M, P, H, F
  <1>4. CASE E # {}
    <2>1. PICK i \in E : E = {i}
      BY <1>2, <1>4
    <2>2. Owners(s) = {<<"entry", i>>}
      BY <1>1, <1>3, <1>4, <2>1 DEF Exactly
    <2> QED
      BY <2>2
  <1>5. CASE K # {}
    <2>1. PICK i \in K : K = {i}
      BY <1>2, <1>5
    <2>2. Owners(s) = {<<"cache", i>>}
      BY <1>1, <1>3, <1>5, <2>1 DEF Exactly
    <2> QED
      BY <2>2
  <1>6. CASE M # {}
    <2>1. PICK i \in M : M = {i}
      BY <1>2, <1>6
    <2>2. Owners(s) = {<<"command", i>>}
      BY <1>1, <1>3, <1>6, <2>1 DEF Exactly
    <2> QED
      BY <2>2
  <1>7. CASE P # {}
    <2>1. PICK c \in P : P = {c}
      BY <1>2, <1>7
    <2>2. Owners(s) = {<<"push", c>>}
      BY <1>1, <1>3, <1>7, <2>1 DEF Exactly
    <2> QED
      BY <2>2
  <1>8. CASE H # {}
    <2>1. PICK t \in H : H = {t}
      BY <1>2, <1>8
    <2>2. Owners(s) = {<<"user", t>>}
      BY <1>1, <1>3, <1>8, <2>1 DEF Exactly
    <2> QED
      BY <2>2
  <1>9. CASE F # {}
    <2>1. PICK t \in F : F = {t}
      BY <1>2, <1>9
    <2>2. Owners(s) = {<<"free", t>>}
      BY <1>1, <1>3, <1>9, <2>1 DEF Exactly
    <2> QED
      BY <2>2
  <1> QED
    BY <1>3, <1>4, <1>5, <1>6, <1>7, <1>8, <1>9 DEF Exactly

(* Only the vCPU that was started last may not have launched yet. *)
LEMMA StartsScheduled == IInv => StartsTheScheduled
  <1> SUFFICES ASSUME IInv, NEW c \in VCPU, pc(c) = "launch" \/ (pc(c) = "off" /\ c \in token)
               PROVE  c \in bits /\ starting
    BY DEF StartsTheScheduled
  <1>t. TypeOK /\ StartInv
    BY DEF IInv, TypeInv
  <1>1. c < started /\ ~Launched(c)
    <2>1. c \in Nat /\ started \in Nat
      BY <1>t, StartTypes
    <2>2. CASE pc(c) = "launch"
      <3>1. ~(c >= started)
        BY <1>t, <2>2 DEF StartInv, InOrder
      <3> QED
        BY <2>1, <2>2, <3>1 DEF Launched
    <2>3. CASE pc(c) = "off" /\ c \in token
      BY <1>t, <2>3 DEF StartInv, InOrder, Launched
    <2> QED
      BY <2>2, <2>3
  <1>2. c = Last
    BY <1>t, <1>1, LaunchedBelow
  <1> QED
    BY <1>t, <1>1, <1>2 DEF StartInv, OneOnItsWay

LEMMA NobodyStranded == IInv => NothingStranded
  BY DEF IInv, WakeInv, Awaits, NothingStranded, NoLostWakeup

-----------------------------------------------------------------------------
LEMMA Invariant == Spec => []IInv
  <1>1. [Next]_<<vars, asked>> => [Next]_vars
    OBVIOUS
  <1> QED
    BY <1>1, InitInv, NextInv, PTL DEF Spec

(* SlotIndex, pop_allocation, allocate_memory, deallocate_memory and        *)
(* start_next_ap: whatever the vCPUs and the supervisor do, every slot has  *)
(* exactly one owner, and the vCPU that the supervisor starts is the one    *)
(* the scheduler picked.                                                    *)
THEOREM ServicesAreSound == Spec => []ServicesSound
  <1>1. IInv => ServicesSound
    BY OwnedOnce, StartsScheduled DEF ServicesSound, IInv, TypeInv
  <1> QED
    BY Invariant, <1>1, PTL

(* arm, kick_supervisor and wait_for_command: the supervisor does not park  *)
(* over a command that it was kicked for, and no vCPU parks without         *)
(* somebody left who will unpark it.                                        *)
THEOREM NothingIsStranded == Spec => []NothingStranded
  BY Invariant, NobodyStranded, PTL

-----------------------------------------------------------------------------
(* The verdict.  While none was handled, the first one in the buffer is the *)
(* one that was asked for first, and one was asked for only if it is there. *)
IsVerdict(cmd) == Verdict(cmd) # "running"
VerdictInv ==
  /\ asked \in {"running", "finished", "failed"}
  /\ FirstVerdictStands
  /\ result = "running" =>
       /\ asked # "running" => \E i \in DOMAIN cmds : IsVerdict(cmds[i])
       /\ \A i \in DOMAIN cmds :
            IsVerdict(cmds[i]) => \/ Verdict(cmds[i]) = asked
                                 \/ \E j \in DOMAIN cmds : j < i /\ Verdict(cmds[j]) = asked /\ asked # "running"

(* A command is added to the buffer, taken out of it, or neither. *)
Pushes == \E cmd \in Command : cmds' = Append(cmds, cmd) /\ result' = result
Takes ==
  /\ cmds # <<>> /\ cmds' = Tail(cmds)
  /\ result' = IF result = "running" THEN Verdict(Head(cmds)) ELSE result
Leaves == cmds' = cmds /\ result' = result

LEMMA VerdictPushed ==
  ASSUME VerdictInv, cmds \in Seq(Command), Pushes, Recorded PROVE VerdictInv'
  <1>1. PICK cmd \in Command : cmds' = Append(cmds, cmd) /\ result' = result
    BY DEF Pushes
  <1>2. /\ cmds' \in Seq(Command) /\ Len(cmds') = Len(cmds) + 1 /\ cmds'[Len(cmds) + 1] = cmd
        /\ \A i \in 1 .. Len(cmds) : cmds'[i] = cmds[i]
        /\ DOMAIN cmds = 1 .. Len(cmds) /\ DOMAIN cmds' = 1 .. Len(cmds) + 1 /\ Len(cmds) \in Nat
    BY <1>1
  <1>3. asked' = IF asked = "running" THEN Verdict(cmd) ELSE asked
    BY <1>2 DEF Recorded
  <1>4. Verdict(cmd) \in {"running", "finished", "failed"}
    BY DEF Verdict
  <1>5. result # "running" => asked # "running"
    BY DEF VerdictInv, FirstVerdictStands
  <1>6. CASE result # "running"
    BY <1>1, <1>3, <1>5, <1>6 DEF VerdictInv, FirstVerdictStands
  <1>7. CASE result = "running" /\ asked # "running"
    BY <1>1, <1>2, <1>3, <1>7 DEF VerdictInv, FirstVerdictStands, IsVerdict
  <1>8. CASE result = "running" /\ asked = "running"
    <2>1. \A i \in DOMAIN cmds : ~IsVerdict(cmds[i])
      BY <1>8 DEF VerdictInv, IsVerdict
    <2> QED
      BY <1>1, <1>2, <1>3, <1>4, <1>8, <2>1 DEF VerdictInv, FirstVerdictStands, IsVerdict
  <1> QED
    BY <1>6, <1>7, <1>8

LEMMA VerdictTaken ==
  ASSUME VerdictInv, cmds \in Seq(Command), Takes, Recorded PROVE VerdictInv'
  <1>1. /\ cmds' \in Seq(Command) /\ Len(cmds') = Len(cmds) - 1 /\ Len(cmds) \in Nat \ {0}
        /\ \A i \in 1 .. Len(cmds) - 1 : cmds'[i] = cmds[i + 1]
        /\ DOMAIN cmds = 1 .. Len(cmds) /\ DOMAIN cmds' = 1 .. Len(cmds) - 1 /\ Head(cmds) = cmds[1]
    BY DEF Takes
  <1>2. asked' = asked
    BY <1>1 DEF Recorded
  <1>3. result' = IF result = "running" THEN Verdict(cmds[1]) ELSE result
    BY <1>1 DEF Takes
  <1>4. CASE result # "running"
    BY <1>2, <1>3, <1>4 DEF VerdictInv, FirstVerdictStands
  <1>5. CASE result = "running" /\ IsVerdict(cmds[1])
    <2>1. 1 \in DOMAIN cmds /\ \A j \in DOMAIN cmds : ~(j < 1)
      BY <1>1
    <2>2. Verdict(cmds[1]) = asked
      BY <1>5, <2>1 DEF VerdictInv
    <2> QED
      BY <1>2, <1>3, <1>5, <2>2 DEF VerdictInv, FirstVerdictStands, IsVerdict
  <1>6. CASE result = "running" /\ ~IsVerdict(cmds[1])
    <2>1. result' = "running"
      BY <1>3, <1>6 DEF IsVerdict
    <2>2. ASSUME asked # "running" PROVE \E i \in DOMAIN cmds' : IsVerdict(cmds'[i])
      <3>1. PICK i \in DOMAIN cmds : IsVerdict(cmds[i])
        BY <1>6, <2>2 DEF VerdictInv
      <3>2. i # 1 /\ i - 1 \in DOMAIN cmds' /\ cmds'[i - 1] = cmds[i]
        BY <1>1, <1>6, <3>1
      <3> QED
        BY <3>1, <3>2
    <2>3. ASSUME NEW i \in DOMAIN cmds', IsVerdict(cmds'[i])
          PROVE  \/ Verdict(cmds'[i]) = asked
                 \/ \E j \in DOMAIN cmds' : j < i /\ Verdict(cmds'[j]) = asked /\ asked # "running"
      <3>1. i + 1 \in DOMAIN cmds /\ cmds'[i] = cmds[i + 1]
        BY <1>1
      <3>2. CASE Verdict(cmds[i + 1]) = asked
        BY <3>1, <3>2
      <3>3. ASSUME NEW j \in DOMAIN cmds, j < i + 1, Verdict(cmds[j]) = asked, asked # "running"
            PROVE  \E k \in DOMAIN cmds' : k < i /\ Verdict(cmds'[k]) = asked /\ asked # "running"
        <4>1. j # 1
          BY <1>6, <3>3 DEF IsVerdict
        <4>2. j - 1 \in DOMAIN cmds' /\ cmds'[j - 1] = cmds[j] /\ j - 1 < i
          BY <1>1, <3>3, <4>1
        <4> QED
          BY <3>3, <4>2
      <3> QED
        BY <1>6, <2>3, <3>1, <3>2, <3>3 DEF VerdictInv
    <2> QED
      BY <1>2, <2>1, <2>2, <2>3 DEF VerdictInv, FirstVerdictStands
  <1> QED
    BY <1>4, <1>5, <1>6

LEMMA VerdictLeft ==
  ASSUME VerdictInv, Leaves, Recorded \/ asked' = asked PROVE VerdictInv'
  <1>1. asked' = asked
    BY DEF Leaves, Recorded
  <1> QED
    BY <1>1 DEF VerdictInv, FirstVerdictStands, Leaves

(* What each step does to the command buffer and to the result. *)
LEMMA StepVerdict ==
  ASSUME IInv, [Next]_<<vars, asked>>
  PROVE  (Recorded /\ (Pushes \/ Takes \/ Leaves)) \/ (asked' = asked /\ Leaves)
  <1>t. cmds \in Seq(Command) /\ kernel \in [VCPU -> KState]
    BY DEF IInv, TypeInv, TypeOK, KernelTypeOK, KState, Places, Thens
  <1>1. CASE Handle /\ Recorded
    <2>1. CASE Head(cmds).kind = "AllocateMemory"
      BY <1>1, <2>1 DEF Handle, StartAp, Dealloc, Conclude, Leaves
    <2>2. CASE Head(cmds).kind # "AllocateMemory"
      BY <1>1, <2>2 DEF Handle, StartAp, Dealloc, Conclude, Complete, Takes, Verdict
    <2> QED
      BY <1>1, <2>1, <2>2
  <1>2. CASE SupervisorStep /\ ~Handle /\ Recorded
    <2>1. CASE FillDone
      <3>1. cmds # <<>> /\ cmds[1].kind = "AllocateMemory" /\ Head(cmds) = cmds[1]
        BY <1>t, <2>1 DEF FillDone, IInv, TypeInv
      <3>2. Verdict(Head(cmds)) = "running"
        BY <3>1 DEF Verdict
      <3> QED
        BY <1>2, <2>1, <3>1, <3>2 DEF FillDone, Complete, Takes
    <2> QED
      BY <1>2, <2>1 DEF SupervisorStep, Fill, FillNext, Drained, Reset, Kick, Kicked, Park, kvars, shared, Leaves
  <1>3. ASSUME NEW c \in VCPU, VcpuStep(c), Recorded PROVE Pushes \/ Leaves
    <2>1. kernel[c].cmd \in Command /\ Cmd("AllocateMemory") \in Command
      BY <1>t DEF KState, Command
    <2>2. CASE Hlt(c) \/ ParkReturns(c)
      BY <2>2 DEF Hlt, ParkReturns, shared, Leaves
    <2>3. CASE KernelStep(c) /\ UNCHANGED hvars
      <3>1. result' = result
        BY <2>3 DEF hvars
      <3>2. CASE TryPush(c)
        BY <2>1, <3>1, <3>2 DEF TryPush, Pushes, Leaves
      <3>3. CASE AskMemory(c)
        BY <2>1, <3>1, <3>3 DEF AskMemory, Pushes, Leaves
      <3> QED
        BY <2>3, <3>1, <3>2, <3>3
           DEF KernelStep, Output, AllocateFrame, DeallocateFrame, StartNextAp, Schedule, Notify, Halt, Resume,
               FinishLaunch, CommitOutput, HaltForever, Arm, PopEntry, PopNone, shared, Leaves
    <2> QED
      BY <1>3, <2>2, <2>3 DEF VcpuStep
  <1>4. CASE UNCHANGED vars /\ Recorded
    BY <1>4 DEF vars, kvars, hvars, shared, Leaves
  <1>5. CASE UNCHANGED <<vars, asked>>
    BY <1>5 DEF vars, kvars, hvars, shared, Leaves
  <1> QED
    BY <1>1, <1>2, <1>3, <1>4, <1>5 DEF Next, Finished

(* commit_output, fail and finish_status.get_or_insert: what the host is    *)
(* told is the verdict that a vCPU pushed first, whatever other vCPUs push  *)
(* and however long the buffer and the wait for room in it are.             *)
THEOREM FirstVerdictIsKept == Spec => []FirstVerdictStands
  <1>1. Init => VerdictInv
    BY DEF Init, KernelInit, VerdictInv, FirstVerdictStands
  <1>2. IInv /\ VerdictInv /\ [Next]_<<vars, asked>> => VerdictInv'
    <2> SUFFICES ASSUME IInv, VerdictInv, [Next]_<<vars, asked>> PROVE VerdictInv'
      OBVIOUS
    <2>1. cmds \in Seq(Command)
      BY DEF IInv, TypeInv, TypeOK, KernelTypeOK
    <2> QED
      BY <2>1, StepVerdict, VerdictPushed, VerdictTaken, VerdictLeft
  <1>3. VerdictInv => FirstVerdictStands
    BY DEF VerdictInv
  <1> QED
    BY <1>1, <1>2, <1>3, Invariant, PTL DEF Spec
=============================================================================
