-------------------------- MODULE HostKernelProofs --------------------------
(***************************************************************************)
(* The kernel's scheduler, its waits for the supervisor and the commands   *)
(* it pushes keep the invariant of HostMemoryProofs.                       *)
(***************************************************************************)
EXTENDS HostMemoryProofs

(* The scheduler. *)

LEMMA StepFrees ==
  ASSUME NEW c \in VCPU, NEW p, NEW m, NEW a, NEW t, Went(c, p, m, a, t),
         ~Pushing(c), PushAt(p, t) => m.slot \notin Slot
  PROVE  SameFrees
  <1>1. \A s \in Slot : ~Frees(c, s) /\ ~Frees(c, s)'
    BY AfterStep DEF Frees
  <1> QED
    BY <1>1, AfterStep DEF SameFrees

(* start_next_ap: all launched vCPUs are busy, and none is on its way. *)
LEMMA StartNextApKeeps ==
  ASSUME IInv, NEW c \in VCPU, NEW d \in VCPU, UNCHANGED hvars, StartNextAp(c, d)
  PROVE  IInv'
  <1>t. /\ TypeInv /\ TypeOK /\ SlotInv /\ StartInv /\ WakeInv
        /\ pc(c) = "idle" /\ Picked(d) /\ ~Launched(d) /\ ~starting
    BY DEF StartNextAp, IInv, TypeInv
  <1>u. /\ starting' = TRUE /\ bits' = bits \cup {d}
        /\ Set(c, [At("push") EXCEPT !.cmd = Cmd("StartNextAp")])
        /\ UNCHANGED <<cmds, entries, armed, cached, held, load>>
        /\ UNCHANGED <<sup, stoken, token, tokick, free, started, result>>
    BY DEF StartNextAp, Push, shared, memory, hvars
  <1>1. PICK m \in Command : m = Cmd("StartNextAp") /\ m.kind = "StartNextAp" /\ m.slot \notin Slot
    BY CommandTypes
  <1>3. Went(c, "push", m, 0, "idle")
    BY <1>t, <1>u, <1>1, StepTo, Zenon DEF Places, PCs, Thens
  <1>4. Launched(Last) /\ (\A e \in VCPU : ~Asks(e)) /\ \A i \in DOMAIN cmds : ~Asked(i)
    BY <1>t DEF StartInv, OneOnItsWay
  <1>5. \A e \in VCPU : e >= started => e \notin bits
    BY <1>t DEF StartInv, OneOnItsWay
  <1>6. d = started /\ pc(d) = "off"
    <2>t. d \in Nat /\ started \in Nat
      BY <1>t, StartTypes
    <2>1. ~(d < started)
      BY <1>t, <1>4, LaunchedBelow
    <2>2. ASSUME d > started PROVE FALSE
      <3>1. started \in VCPU
        BY <2>t, <2>2, ServicesAssumption
      <3>2. started \in bits
        BY <1>t, <2>2, <3>1 DEF Picked
      <3> QED
        BY <1>5, <2>t, <3>1, <3>2
    <2>3. d = started
      BY <2>t, <2>1, <2>2
    <2> QED
      BY <1>t, <2>t, <2>3 DEF StartInv, InOrder
  <1>7. TypeInv'
    <2>1. bits' \subseteq VCPU /\ starting' \in BOOLEAN
      BY <1>t, <1>u DEF TypeOK, KernelTypeOK
    <2>2. UNCHANGED <<shared, memory, hvars>>
      BY <1>u DEF shared, memory, hvars
    <2> QED
      BY <1>t, <1>3, <2>1, <2>2, TypeFrame
  <1>8. SlotInv'
    <2>1. SameFrees
      BY <1>t, <1>1, <1>3, StepFrees DEF Pushing
    <2> QED
      BY <1>t, <1>u, <2>1, SlotFrame
  <1>9. StartInv'
    <2>1. InOrder'
      <3>1. KeepsLaunched
        BY <1>t, <1>3, AfterStep DEF KeepsLaunched, Launched
      <3>2. OnlyLaunchedWoken
        BY <1>u, <1>3, StepWoken
      <3> QED
        BY <1>t, <1>u, <3>1, <3>2, OrderFrame
    <2>2. OneOnItsWay'
      <3>1. Last' = Last /\ Last \in VCPU /\ started \in Nat /\ VCPU \subseteq Nat
        BY <1>t, <1>u, StartTypes DEF Last
      <3>2. Launched(Last)'
        <4>1. PICK l \in VCPU : l = Last /\ l = Last'
          BY <3>1
        <4>2. pc(l)' \notin {"off", "launch"}
          BY <1>t, <1>3, <1>4, <4>1, AfterStep DEF Launched
        <4> QED
          BY <4>1, <4>2 DEF Launched, pc
      <3>3. \A e \in VCPU : e >= started /\ e \in bits' => e = started
        BY <1>u, <1>5, <1>6
      <3>4. \A e \in VCPU : Asks(e)' => e = c
        BY <1>3, <1>4, AfterStep
      <3>5. \A i \in DOMAIN cmds' : ~Asked(i)'
        BY <1>u, <1>4 DEF Asked
      <3> QED
        BY <1>u, <1>6, <3>1, <3>2, <3>3, <3>4, <3>5 DEF OneOnItsWay
    <2> QED
      BY <2>1, <2>2 DEF StartInv
  <1>10. WakeInv'
    <2>1. ~AwaitAt(c, "push", "idle")
      BY DEF AwaitAt
    <2>2. \A e \in VCPU : e # c /\ e \in bits' /\ Awaits(e)' => e \in bits
      <3>1. d # c => ~Awaits(d)'
        BY <1>3, <1>6, AfterStep DEF Awaits, pc
      <3> QED
        BY <1>u, <3>1
    <2> QED
      BY <1>t, <1>u, <1>3, <2>1, <2>2, SameCommands, StepWake
  <1> QED
    BY <1>7, <1>8, <1>9, <1>10 DEF IInv

(* A step of a launched vCPU that moves no slot and changes no command. *)
LEMMA LaunchedStep ==
  ASSUME IInv, NEW c \in VCPU, NEW p, NEW m, NEW a, NEW t, Went(c, p, m, a, t),
         pc(c) \notin {"off", "launch"}, p \notin {"off", "launch"},
         p = "notify" => a \in VCPU /\ Launched(a), SameFrees,
         PushAt(p, t) /\ m.kind = "StartNextAp" <=> Asks(c),
         OnlyLaunchedBits, armed' \subseteq armed \cup {d \in VCPU : Launched(d)}, stoken' \in BOOLEAN,
         UNCHANGED <<cmds, entries, starting, cached, held, load>>,
         token' \subseteq token, UNCHANGED <<sup, tokick, free, started, result>>
  PROVE  TypeInv' /\ SlotInv' /\ StartInv'
  <1>1. TypeInv'
    <2>1. kernel' \in [VCPU -> [pc : PCs \cup {"parked"}, cmd : Command, at : Nat,
                           then : {"idle", "arm", "parm", "resume", "halted"}]]
      BY DEF Went, KState, Places, Thens
    <2>2. TypeOK'
      BY <2>1 DEF IInv, TypeInv, TypeOK, KernelTypeOK, OnlyLaunchedBits
    <2>3. \A d \in VCPU : pc(d)' = "notify" => kernel'[d].at \in VCPU
      BY DEF Went, IInv, TypeInv, pc
    <2> QED
      BY <2>2, <2>3 DEF IInv, TypeInv
  <1>2. SlotInv'
    BY SlotFrame DEF IInv
  <1>3. StartInv'
    BY SameCommands, StepStart DEF IInv
  <1> QED
    BY <1>1, <1>2, <1>3

(* schedule_vcpu picks a launched vCPU, *)
LEMMA ScheduleKeeps ==
  ASSUME IInv, NEW c \in VCPU, NEW d \in VCPU, UNCHANGED hvars, Schedule(c, d)
  PROVE  IInv'
  <1>t. TypeOK /\ StartInv /\ WakeInv /\ pc(c) = "idle" /\ Launched(d) /\ bits \subseteq VCPU /\ d \in Nat
    BY ServicesAssumption DEF Schedule, IInv, TypeInv, TypeOK, KernelTypeOK
  <1>u. /\ bits' = bits \cup {d} /\ Set(c, [At("notify") EXCEPT !.at = d])
        /\ UNCHANGED <<cmds, entries, armed, starting, cached, held, load>>
        /\ UNCHANGED <<sup, stoken, token, tokick, free, started, result>>
    BY DEF Schedule, shared, memory, hvars
  <1>2. Went(c, "notify", U, d, "idle")
    BY <1>t, <1>u, StepTo, Zenon DEF Places, PCs, Thens
  <1>3. TypeInv' /\ SlotInv' /\ StartInv'
    <2>1. SameFrees
      BY <1>t, <1>2, StepFrees DEF Pushing, PushAt
    <2>2. PushAt("notify", "idle") /\ U.kind = "StartNextAp" <=> Asks(c)
      BY <1>t DEF PushAt, Asks, Pushing
    <2>3. OnlyLaunchedBits /\ stoken' \in BOOLEAN
      BY <1>t, <1>u DEF OnlyLaunchedBits, TypeOK
    <2> QED
      BY <1>t, <1>u, <1>2, <2>1, <2>2, <2>3, LaunchedStep
  <1>4. WakeInv'
    <2>1. KeepsKicking /\ KeepsNotified
      BY <1>t, <1>2, KeepsWakers
    <2>2. Notified(d)'
      BY <1>2 DEF Notified, Went, pc
    <2>3. ASSUME NEW e \in VCPU, Awaits(e)', e # d
          PROVE  Awaits(e) /\ (pc(e)' = "parked" => pc(e) = "parked")
      BY <1>u, <1>2, <2>3 DEF Went, Awaits, pc
    <2>4. WaitsCovered
      BY <2>2, <2>3 DEF WaitsCovered
    <2> QED
      BY <1>t, <1>u, <2>1, <2>4, SameCommands, WakeFrame DEF KeepsToken
  <1> QED
    BY <1>3, <1>4 DEF IInv

(* arms it, and is about to kick the supervisor. *)
LEMMA NotifyKeeps ==
  ASSUME IInv, NEW c \in VCPU, UNCHANGED hvars, Notify(c)
  PROVE  IInv'
  <1>t. TypeOK /\ StartInv /\ WakeInv /\ pc(c) = "notify" /\ bits \subseteq VCPU
    BY DEF Notify, IInv, TypeInv, TypeOK, KernelTypeOK
  <1>1. PICK d \in VCPU : d = kernel[c].at /\ Launched(d)
    BY <1>t DEF IInv, TypeInv, StartInv, InOrder
  <1>u. /\ armed' = armed \cup {d} /\ Set(c, At("kick"))
        /\ UNCHANGED <<cmds, entries, bits, starting, cached, held, load>>
        /\ UNCHANGED <<sup, stoken, token, tokick, free, started, result>>
    BY <1>1 DEF Notify, scheduler, memory, hvars
  <1>3. Went(c, "kick", U, 0, "idle")
    BY <1>t, <1>u, StepTo, Zenon DEF Places, PCs, Thens
  <1>4. TypeInv' /\ SlotInv' /\ StartInv'
    <2>1. SameFrees
      BY <1>t, <1>3, StepFrees DEF Pushing, PushAt
    <2>2. PushAt("kick", "idle") /\ U.kind = "StartNextAp" <=> Asks(c)
      BY <1>t DEF PushAt, Asks, Pushing
    <2>3. OnlyLaunchedBits /\ stoken' \in BOOLEAN
      BY <1>t, <1>u DEF OnlyLaunchedBits, TypeOK
    <2>4. armed' \subseteq armed \cup {e \in VCPU : Launched(e)}
      BY <1>u, <1>1
    <2> QED
      BY <1>t, <1>u, <1>3, <2>1, <2>2, <2>3, <2>4, LaunchedStep
  <1>5. WakeInv'
    <2>1. Kicking' /\ d \in armed'
      BY <1>u, <1>3 DEF Kicking, Went, pc
    <2>2. \A e \in VCPU : Notified(e) /\ e # d => Notified(e)'
      BY <1>1, <1>3 DEF Notified, Went, pc
    <2>3. \A e \in VCPU : Awaits(e)' => Awaits(e) /\ (pc(e)' = "parked" => pc(e) = "parked")
      BY <1>u, <1>3 DEF Went, Awaits, pc
    <2>4. \A e \in VCPU : Awaits(e)' => e \in token' \cup tokick' \cup armed' \/ Notified(e)'
      BY <1>t, <1>u, <2>1, <2>2, <2>3 DEF WakeInv
    <2>5. \A e \in VCPU : Awaits(e)' => WakeupPending(e)'
      BY <2>1, <2>4 DEF WakeupPending, Notified
    <2>6. NoStrandedCommand'
      BY <2>1 DEF NoStrandedCommand
    <2> QED
      BY <1>t, <1>u, <2>4, <2>5, <2>6 DEF WakeInv
  <1> QED
    BY <1>4, <1>5 DEF IInv

(* Scheduler::halt and Scheduler::resume, which resets and sets the bit. *)
LEMMA HaltKeeps ==
  ASSUME IInv, NEW c \in VCPU, UNCHANGED hvars, Halt(c) \/ Resume(c)
  PROVE  IInv'
  <1>t. TypeOK /\ StartInv /\ WakeInv /\ pc(c) \in {"idle", "resume"} /\ bits \subseteq VCPU
    BY DEF Halt, Resume, IInv, TypeInv, TypeOK, KernelTypeOK
  <1>1. PICK p \in {"wait", "idle"}, t \in {"resume", "idle"} :
          /\ Went(c, p, U, 0, t)
          /\ bits' = IF p = "wait" THEN bits \ {c} ELSE bits \cup {c}
          /\ UNCHANGED <<shared, starting, memory>>
    <2>2. CASE Halt(c)
      <3>1. Went(c, "wait", U, 0, "resume")
        BY <1>t, <2>2, StepTo, Zenon DEF Halt, Places, PCs, Thens
      <3> QED
        BY <2>2, <3>1 DEF Halt
    <2>3. CASE Resume(c)
      <3>1. Went(c, "idle", U, 0, "idle")
        BY <1>t, <2>3, StepTo, Zenon DEF Resume
      <3> QED
        BY <2>3, <3>1 DEF Resume
    <2> QED
      BY <2>2, <2>3
  <1>u. /\ UNCHANGED <<cmds, entries, armed, starting, cached, held, load>>
        /\ UNCHANGED <<sup, stoken, token, tokick, free, started, result>>
    BY <1>1 DEF shared, memory, hvars
  <1>2. TypeInv' /\ SlotInv' /\ StartInv'
    <2>1. SameFrees
      BY <1>t, <1>1, StepFrees DEF Pushing, PushAt
    <2>2. PushAt(p, t) /\ U.kind = "StartNextAp" <=> Asks(c)
      BY <1>t DEF PushAt, Asks, Pushing
    <2>3. OnlyLaunchedBits /\ stoken' \in BOOLEAN
      BY <1>t, <1>u, <1>1 DEF OnlyLaunchedBits, TypeOK, Launched
    <2> QED
      BY <1>t, <1>u, <1>1, <2>1, <2>2, <2>3, LaunchedStep
  <1>3. WakeInv'
    <2>1. KeepsKicking /\ KeepsNotified
      BY <1>t, <1>1, KeepsWakers
    <2>2. ~Awaits(c)'
      BY <1>1 DEF Awaits, Went, pc
    <2>3. ASSUME NEW e \in VCPU, Awaits(e)'
          PROVE  Awaits(e) /\ (pc(e)' = "parked" => pc(e) = "parked")
      BY <1>1, <2>2, <2>3 DEF Went, Awaits, pc
    <2>4. WaitsCovered
      BY <2>3 DEF WaitsCovered
    <2> QED
      BY <1>t, <1>u, <2>1, <2>4, SameCommands, WakeFrame DEF KeepsToken
  <1> QED
    BY <1>2, <1>3 DEF IInv

(* finish_launch: the vCPU that was on its way is there. *)
LEMMA FinishLaunchKeeps ==
  ASSUME IInv, NEW c \in VCPU, UNCHANGED hvars, FinishLaunch(c)
  PROVE  IInv'
  <1>t. TypeInv /\ TypeOK /\ SlotInv /\ StartInv /\ WakeInv /\ pc(c) = "launch" /\ bits \subseteq VCPU
    BY DEF FinishLaunch, IInv, TypeInv, TypeOK, KernelTypeOK
  <1>u. /\ starting' = FALSE /\ Set(c, Idle)
        /\ UNCHANGED <<cmds, entries, armed, bits, cached, held, load>>
        /\ UNCHANGED <<sup, stoken, token, tokick, free, started, result>>
    BY DEF FinishLaunch, shared, memory, hvars
  <1>2. Went(c, "idle", U, 0, "idle")
    BY <1>t, <1>u, StepTo, Zenon DEF Places, PCs, Thens
  <1>3. c = Last /\ ~Launched(Last)
    <2>1. c \in Nat /\ started \in Nat
      BY <1>t, StartTypes
    <2>2. ~(c >= started)
      BY <1>t DEF StartInv, InOrder
    <2>3. ~Launched(c)
      BY <1>t DEF Launched
    <2>4. c = Last
      BY <1>t, <2>1, <2>2, <2>3, LaunchedBelow
    <2> QED
      BY <2>3, <2>4
  <1>4. TypeInv'
    <2>1. bits' \subseteq VCPU /\ starting' \in BOOLEAN
      BY <1>t, <1>u, Zenon
    <2>2. UNCHANGED <<shared, memory, hvars>>
      BY <1>u DEF shared, memory, hvars
    <2> QED
      BY <1>t, <1>2, <2>1, <2>2, TypeFrame
  <1>5. SlotInv'
    <2>1. SameFrees
      BY <1>t, <1>2, StepFrees DEF Pushing, PushAt
    <2> QED
      BY <1>t, <1>u, <2>1, SlotFrame
  <1>6. StartInv'
    <2>1. InOrder'
      <3>1. KeepsLaunched
        BY <1>t, <1>2, AfterStep DEF KeepsLaunched, Launched
      <3>2. OnlyLaunchedWoken
        BY <1>u, <1>2, StepWoken
      <3> QED
        BY <1>t, <1>u, <3>1, <3>2, OrderFrame
    <2>2. OneOnItsWay'
      <3>1. Last' = Last
        BY <1>u DEF Last
      <3>2. Launched(Last)'
        <4>1. pc(c)' = "idle" /\ c = Last'
          BY <1>2, <1>3, <3>1, AfterStep
        <4> QED
          BY <4>1 DEF Launched, pc
      <3>3. \A e \in VCPU : ~(e >= started' /\ e \in bits')
        BY <1>t, <1>u, <1>3 DEF StartInv, OneOnItsWay
      <3>4. \A e \in VCPU : ~Asks(e)'
        <4>1. ~Asks(c)'
          BY <1>2, AfterStep DEF PushAt
        <4>2. \A e \in VCPU : ~Asks(e)
          BY <1>t, <1>3 DEF StartInv, OneOnItsWay
        <4> QED
          BY <1>2, <4>1, <4>2, AfterStep
      <3>5. \A i \in DOMAIN cmds' : ~Asked(i)'
        BY <1>t, <1>u, <1>3 DEF StartInv, OneOnItsWay, Asked
      <3> QED
        BY <3>2, <3>3, <3>4, <3>5 DEF OneOnItsWay
    <2> QED
      BY <2>1, <2>2 DEF StartInv
  <1>7. WakeInv'
    <2>1. ~AwaitAt(c, "idle", "idle")
      BY DEF AwaitAt
    <2> QED
      BY <1>t, <1>u, <1>2, <2>1, SameCommands, StepWake
  <1> QED
    BY <1>4, <1>5, <1>6, <1>7 DEF IInv

-----------------------------------------------------------------------------
(* Waiting for the supervisor. *)

(* arm: the vCPU will be notified, and looks once more before it waits. *)
LEMMA ArmKeeps ==
  ASSUME IInv, NEW c \in VCPU, UNCHANGED hvars, Arm(c)
  PROVE  IInv'
  <1>t. TypeOK /\ StartInv /\ WakeInv /\ pc(c) \in {"arm", "parm"} /\ bits \subseteq VCPU
    BY DEF Arm, IInv, TypeInv, TypeOK, KernelTypeOK
  <1>u. /\ armed' = armed \cup {c}
        /\ UNCHANGED <<cmds, entries, bits, starting, cached, held, load>>
        /\ UNCHANGED <<sup, stoken, token, tokick, free, started, result>>
    BY DEF Arm, scheduler, memory, hvars
  <1>1. PICK p \in {"retry", "repop"}, m \in Command, a \in Nat :
          /\ Went(c, p, m, a, "idle")
          /\ p = "retry" => pc(c) = "arm" /\ m = kernel[c].cmd
          /\ p = "repop" => pc(c) = "parm"
    <2>1. CASE pc(c) = "arm"
      <3>1. Set(c, [kernel[c] EXCEPT !.pc = "retry", !.then = "idle"])
        BY <2>1 DEF Arm
      <3>2. Went(c, "retry", kernel[c].cmd, kernel[c].at, "idle")
        BY <1>t, <3>1, StepTo, Zenon DEF Places, PCs, Thens
      <3>3. kernel[c].cmd \in Command /\ kernel[c].at \in Nat
        BY <1>t, StepTo, Zenon
      <3> QED
        BY <2>1, <3>2, <3>3
    <2>2. CASE pc(c) = "parm"
      <3>1. Set(c, [At("repop") EXCEPT !.at = 1])
        BY <2>2 DEF Arm
      <3>2. Went(c, "repop", U, 1, "idle") /\ U \in Command
        BY <1>t, <3>1, StepTo, CommandTypes, Zenon DEF Places, PCs, Thens, U
      <3> QED
        BY <2>2, <3>2
    <2> QED
      BY <1>t, <2>1, <2>2
  <1>2. TypeInv' /\ SlotInv' /\ StartInv'
    <2>1. (PushAt(p, "idle") <=> Pushing(c)) /\ (Pushing(c) => m = kernel[c].cmd)
      BY <1>1 DEF PushAt, Pushing
    <2>2. SameFrees /\ (PushAt(p, "idle") /\ m.kind = "StartNextAp" <=> Asks(c))
      BY <1>1, <2>1, KeepsFrees
    <2>3. OnlyLaunchedBits /\ stoken' \in BOOLEAN
      BY <1>t, <1>u DEF OnlyLaunchedBits, TypeOK
    <2>4. armed' \subseteq armed \cup {d \in VCPU : Launched(d)}
      BY <1>t, <1>u DEF Launched
    <2> QED
      BY <1>t, <1>u, <1>1, <2>2, <2>3, <2>4, LaunchedStep
  <1>3. WakeInv'
    <2>1. KeepsKicking /\ KeepsNotified
      BY <1>t, <1>1, KeepsWakers
    <2>2. c \in armed' /\ pc(c)' # "parked"
      BY <1>u, <1>1, AfterStep
    <2>3. ASSUME NEW e \in VCPU, e # c, Awaits(e)'
          PROVE  Awaits(e) /\ (pc(e)' = "parked" => pc(e) = "parked")
      BY <1>1, <1>u, <2>3 DEF Went, Awaits, pc
    <2>4. WaitsCovered
      BY <2>2, <2>3 DEF WaitsCovered
    <2> QED
      BY <1>t, <1>u, <2>1, <2>4, SameCommands, WakeFrame DEF KeepsToken
  <1> QED
    BY <1>2, <1>3 DEF IInv

(* KvmExit::Hlt: the supervisor is unparked, and the vCPU's thread parks   *)
(* unless kick_supervisor was told to resume.                              *)
LEMMA HltKeeps ==
  ASSUME IInv, NEW c \in VCPU, Hlt(c)
  PROVE  IInv'
  <1>t. TypeOK /\ StartInv /\ WakeInv /\ pc(c) \in {"kick", "wait"} /\ bits \subseteq VCPU
    BY DEF Hlt, IInv, TypeInv, TypeOK, KernelTypeOK
  <1>u. /\ stoken' = TRUE
        /\ UNCHANGED <<cmds, entries, armed, bits, starting, cached, held, load>>
        /\ UNCHANGED <<sup, token, tokick, free, started, result>>
    BY DEF Hlt, shared, scheduler, memory
  <1>1. PICK p \in {"idle", "halted", "parked"}, m \in Command, a \in Nat, t \in Thens :
          /\ Went(c, p, m, a, t)
          /\ p = "parked" => pc(c) = "wait" /\ m = kernel[c].cmd /\ t = kernel[c].then
          /\ p # "parked" => pc(c) = "kick"
    <2>1. CASE pc(c) = "kick"
      <3>1. PICK p \in {"idle", "halted"} : Set(c, At(p))
        BY <2>1 DEF Hlt, Returned
      <3>2. U \in Command
        BY CommandTypes DEF U
      <3>3. Went(c, p, U, 0, "idle")
        BY <1>t, <3>1, StepTo, Zenon DEF Places, PCs, Thens
      <3> QED
        BY <2>1, <3>2, <3>3 DEF Thens
    <2>2. CASE pc(c) = "wait"
      <3>1. Set(c, [kernel[c] EXCEPT !.pc = "parked"])
        BY <2>2 DEF Hlt
      <3>2. kernel[c].cmd \in Command /\ kernel[c].at \in Nat /\ kernel[c].then \in Thens
        BY <1>t, StepTo, Zenon
      <3>3. Went(c, "parked", kernel[c].cmd, kernel[c].at, kernel[c].then)
        BY <1>t, <3>1, StepTo, Zenon DEF Places, PCs, Thens
      <3> QED
        BY <2>2, <3>2, <3>3
    <2> QED
      BY <1>t, <2>1, <2>2
  <1>2. TypeInv' /\ SlotInv' /\ StartInv'
    <2>1. (PushAt(p, t) <=> Pushing(c)) /\ (Pushing(c) => m = kernel[c].cmd)
      BY <1>1 DEF PushAt, Pushing
    <2>2. SameFrees /\ (PushAt(p, t) /\ m.kind = "StartNextAp" <=> Asks(c))
      BY <1>1, <2>1, KeepsFrees
    <2>3. OnlyLaunchedBits /\ stoken' \in BOOLEAN
      BY <1>t, <1>u DEF OnlyLaunchedBits
    <2> QED
      BY <1>t, <1>u, <1>1, <2>2, <2>3, LaunchedStep
  <1>3. WakeInv'
    <2>1. KeepsKicking
      BY <1>u DEF KeepsKicking
    <2>2. KeepsNotified
      BY <1>t, <1>1 DEF KeepsNotified, Notified, Went, pc
    <2>3. Awaits(c)' => Awaits(c)
      BY <1>1, <1>u DEF Went, Awaits, pc
    <2>4. ASSUME NEW e \in VCPU, e # c, Awaits(e)'
          PROVE  Awaits(e) /\ (pc(e)' = "parked" => pc(e) = "parked")
      BY <1>1, <1>u, <2>4 DEF Went, Awaits, pc
    <2>5. WaitsCovered
      BY <1>u, <2>3, <2>4 DEF WaitsCovered
    <2> QED
      BY <1>t, <1>u, <2>1, <2>2, <2>5, SameCommands, WakeFrame DEF KeepsToken
  <1> QED
    BY <1>2, <1>3 DEF IInv

(* park returns: the vCPU goes on, *)
LEMMA UnparkKeeps ==
  ASSUME IInv, NEW c \in VCPU, ParkReturns(c), pc(c) = "parked"
  PROVE  IInv'
  <1>t. TypeOK /\ StartInv /\ WakeInv /\ bits \subseteq VCPU
    BY DEF IInv, TypeInv, TypeOK, KernelTypeOK
  <1>u. /\ token' = token \ {c}
        /\ Set(c, [kernel[c] EXCEPT !.pc = kernel[c].then, !.then = "idle"])
        /\ UNCHANGED <<cmds, entries, armed, bits, starting, cached, held, load>>
        /\ UNCHANGED <<sup, stoken, tokick, free, started, result>>
    BY DEF ParkReturns, Returned, shared, scheduler, memory
  <1>1. PICK p \in Thens : p = kernel[c].then
    BY <1>t, StepTo, Zenon
  <1>3. Went(c, p, kernel[c].cmd, kernel[c].at, "idle")
    BY <1>t, <1>u, <1>1, StepTo, Zenon DEF Places, PCs, Thens
  <1>4. TypeInv' /\ SlotInv' /\ StartInv'
    <2>1. PushAt(p, "idle") <=> Pushing(c)
      BY <1>1 DEF PushAt, Pushing, Thens
    <2>2. SameFrees /\ (PushAt(p, "idle") /\ kernel[c].cmd.kind = "StartNextAp" <=> Asks(c))
      BY <1>3, <2>1, KeepsFrees
    <2>3. OnlyLaunchedBits /\ stoken' \in BOOLEAN
      BY <1>t, <1>u DEF OnlyLaunchedBits, TypeOK
    <2>4. p \notin {"off", "launch", "notify"}
      BY <1>1 DEF Thens
    <2> QED
      BY <1>t, <1>u, <1>3, <2>2, <2>3, <2>4, LaunchedStep
  <1>5. WakeInv'
    <2>1. KeepsKicking /\ KeepsNotified
      BY <1>3, KeepsWakers
    <2>2. ~Awaits(c)'
      BY <1>1, <1>3 DEF Awaits, Went, pc, Thens
    <2>3. ASSUME NEW e \in VCPU, e # c, Awaits(e)'
          PROVE  Awaits(e) /\ (pc(e)' = "parked" => pc(e) = "parked")
      BY <1>3, <1>u, <2>3 DEF Went, Awaits, pc
    <2>4. WaitsCovered /\ KeepsToken
      BY <1>u, <2>2, <2>3 DEF WaitsCovered, KeepsToken
    <2> QED
      BY <1>t, <1>u, <2>1, <2>4, SameCommands, WakeFrame
  <1> QED
    BY <1>4, <1>5 DEF IInv

(* or begins to run, which only the vCPU that was started last does. *)
LEMMA FirstRunKeeps ==
  ASSUME IInv, NEW c \in VCPU, ParkReturns(c), pc(c) = "off"
  PROVE  IInv'
  <1>t. TypeInv /\ TypeOK /\ SlotInv /\ StartInv /\ WakeInv /\ bits \subseteq VCPU /\ c \in token
    BY DEF ParkReturns, IInv, TypeInv, TypeOK, KernelTypeOK
  <1>u. /\ token' = token \ {c} /\ Set(c, At("launch"))
        /\ UNCHANGED <<cmds, entries, armed, bits, starting, cached, held, load>>
        /\ UNCHANGED <<sup, stoken, tokick, free, started, result>>
    BY DEF ParkReturns, shared, scheduler, memory
  <1>2. Went(c, "launch", U, 0, "idle")
    BY <1>t, <1>u, StepTo, Zenon DEF Places, PCs, Thens
  <1>3. ~(c >= started)
    <2>1. c < started /\ c \in Nat /\ started \in Nat
      BY <1>t, StartTypes DEF StartInv, InOrder
    <2> QED
      BY <2>1
  <1>4. TypeInv'
    <2>1. kernel' \in [VCPU -> [pc : PCs \cup {"parked"}, cmd : Command, at : Nat,
                           then : {"idle", "arm", "parm", "resume", "halted"}]]
      BY <1>2 DEF Went, KState, Places, Thens
    <2>2. TypeOK'
      BY <1>t, <1>u, <2>1 DEF TypeOK, KernelTypeOK
    <2>3. \A d \in VCPU : pc(d)' = "notify" => kernel'[d].at \in VCPU
      BY <1>t, <1>2 DEF Went, TypeInv, pc
    <2> QED
      BY <1>t, <1>u, <2>2, <2>3 DEF TypeInv
  <1>5. SlotInv'
    <2>1. SameFrees
      BY <1>2, StepFrees DEF Pushing, PushAt
    <2> QED
      BY <1>t, <1>u, <2>1, SlotFrame
  <1>6. StartInv'
    <2>1. SameAsks
      <3>1. ~Asks(c) /\ ~Asks(c)'
        BY <1>2, AfterStep DEF PushAt, Asks, Pushing
      <3> QED
        BY <1>2, <3>1, AfterStep DEF SameAsks
    <2>2. SameLaunches
      BY <1>2, <1>3, AfterStep DEF SameLaunches, Launched
    <2>3. OnlyLaunchedBits
      BY <1>t, <1>u DEF OnlyLaunchedBits
    <2>4. OnlyLaunchedWoken
      BY <1>u, <1>2, StepWoken
    <2> QED
      BY <1>t, <1>u, <2>1, <2>2, <2>3, <2>4, SameCommands, StartFrame
  <1>7. WakeInv'
    <2>1. KeepsKicking /\ KeepsNotified
      BY <1>2, KeepsWakers
    <2>2. ~Awaits(c)'
      BY <1>2 DEF Awaits, Went, pc
    <2>3. ASSUME NEW e \in VCPU, e # c, Awaits(e)'
          PROVE  Awaits(e) /\ (pc(e)' = "parked" => pc(e) = "parked")
      BY <1>2, <1>u, <2>3 DEF Went, Awaits, pc
    <2>4. WaitsCovered /\ KeepsToken
      BY <1>u, <2>2, <2>3 DEF WaitsCovered, KeepsToken
    <2> QED
      BY <1>t, <1>u, <2>1, <2>4, SameCommands, WakeFrame
  <1> QED
    BY <1>4, <1>5, <1>6, <1>7 DEF IInv

-----------------------------------------------------------------------------
(* Commands are pushed. *)

Appended(n, m) ==
  /\ cmds' \in Seq(Command) /\ Len(cmds') <= CAPACITY /\ cmds' # <<>>
  /\ DOMAIN cmds = 1 .. n /\ DOMAIN cmds' = 1 .. n + 1
  /\ cmds'[n + 1] = m
  /\ \A i \in 1 .. n : i \in 1 .. n + 1 /\ i # n + 1 /\ cmds'[i] = cmds[i]
  /\ \A i \in 1 .. n + 1 : i \in 1 .. n \/ i = n + 1
  /\ n + 1 \in 1 .. n + 1
  /\ cmds # <<>> => cmds'[1] = cmds[1]

LEMMA AppendedTo ==
  ASSUME TypeOK, HasRoom, NEW m \in Command, cmds' = Append(cmds, m)
  PROVE  \E n \in Nat : Appended(n, m)
  <1>1. cmds \in Seq(Command) /\ Len(cmds) < CAPACITY /\ CAPACITY \in Nat
    BY ServicesAssumption DEF TypeOK, KernelTypeOK, HasRoom
  <1>2. PICK n \in Nat : n = Len(cmds)
    BY <1>1
  <1>3. /\ cmds' \in Seq(Command) /\ Len(cmds') = n + 1 /\ cmds'[n + 1] = m
        /\ DOMAIN cmds = 1 .. n /\ DOMAIN cmds' = 1 .. n + 1
        /\ \A i \in 1 .. n : cmds'[i] = cmds[i]
    BY <1>1, <1>2
  <1>4. n + 1 <= CAPACITY
    BY <1>1, <1>2
  <1>5. /\ \A i \in 1 .. n : i \in 1 .. n + 1 /\ i # n + 1
        /\ \A i \in 1 .. n + 1 : i \in 1 .. n \/ i = n + 1
        /\ n + 1 \in 1 .. n + 1
    OBVIOUS
  <1>6. cmds' # <<>>
    BY <1>3
  <1>7. cmds # <<>> => 1 \in 1 .. n
    BY <1>1, <1>2
  <1> QED
    BY <1>2, <1>3, <1>4, <1>5, <1>6, <1>7 DEF Appended

(* try_push_command pushes the command: a slot goes from the vCPU into the *)
(* command, and the request for a vCPU from the vCPU into the buffer.      *)
LEMMA PushKeeps ==
  ASSUME IInv, NEW c \in VCPU, UNCHANGED hvars, TryPush(c), HasRoom
  PROVE  IInv'
  <1>t. TypeInv /\ TypeOK /\ SlotInv /\ StartInv /\ WakeInv /\ pc(c) \in {"push", "retry"} /\ bits \subseteq VCPU
    BY DEF TryPush, IInv, TypeInv, TypeOK, KernelTypeOK
  <1>1. PICK m \in Command : m = kernel[c].cmd
    BY <1>t, StepTo, Zenon
  <1>u. /\ cmds' = Append(cmds, m) /\ Set(c, Pushed(c))
        /\ UNCHANGED <<entries, armed, bits, starting, cached, held, load>>
        /\ UNCHANGED <<sup, stoken, token, tokick, free, started, result>>
    BY <1>1 DEF TryPush, scheduler, memory, hvars
  <1>2. PICK p \in {"idle", "kick"}, mm \in Command, a \in Nat, t \in Thens :
          Went(c, p, mm, a, t) /\ (p = "idle" <=> m.kind = "UpdateOutput")
    <2>1. CASE m.kind = "UpdateOutput"
      <3>1. Went(c, "idle", U, 0, "idle")
        BY <1>t, <1>u, <1>1, <2>1, StepTo, Zenon DEF Pushed
      <3>2. U \in Command
        BY CommandTypes DEF U
      <3> QED
        BY <2>1, <3>1, <3>2 DEF Thens
    <2>2. CASE m.kind # "UpdateOutput"
      <3>1. Set(c, [kernel[c] EXCEPT !.pc = "kick"])
        BY <1>u, <1>1, <2>2 DEF Pushed
      <3>2. Went(c, "kick", kernel[c].cmd, kernel[c].at, kernel[c].then)
        BY <1>t, <3>1, StepTo, Zenon DEF Places, PCs
      <3>3. kernel[c].cmd \in Command /\ kernel[c].at \in Nat /\ kernel[c].then \in Thens
        BY <1>t, StepTo, Zenon
      <3> QED
        BY <2>2, <3>2, <3>3
    <2> QED
      BY <2>1, <2>2
  <1>3. PICK n \in Nat : Appended(n, m)
    BY <1>t, <1>u, AppendedTo DEF TryPush
  <1>4. /\ \A s \in Slot : (Frees(c, s) <=> m.slot = s) /\ ~Frees(c, s)'
        /\ (Asks(c) <=> m.kind = "StartNextAp") /\ ~Asks(c)'
        /\ \A d \in VCPU : d # c => (Asks(d)' <=> Asks(d)) /\ \A s \in Slot : Frees(d, s)' <=> Frees(d, s)
    <2>1. Pushing(c) /\ ~PushAt(p, t)
      BY <1>t DEF PushAt, Pushing
    <2>2. (\A s \in Slot : Frees(c, s) <=> m.slot = s) /\ (Asks(c) <=> m.kind = "StartNextAp")
      BY <1>1, <2>1 DEF Frees, Asks
    <2>3. (\A s \in Slot : ~Frees(c, s)') /\ ~Asks(c)'
      BY <1>2, <2>1, AfterStep
    <2> QED
      BY <1>2, <2>2, <2>3, AfterStep
  <1>5. TypeInv'
    <2>1. kernel' \in [VCPU -> [pc : PCs \cup {"parked"}, cmd : Command, at : Nat,
                           then : {"idle", "arm", "parm", "resume", "halted"}]]
      BY <1>2 DEF Went, KState, Places, Thens
    <2>2. TypeOK'
      BY <1>t, <1>u, <1>3, <2>1 DEF TypeOK, KernelTypeOK, Appended
    <2>3. \A d \in VCPU : pc(d)' = "notify" => kernel'[d].at \in VCPU
      BY <1>t, <1>2 DEF Went, TypeInv, pc
    <2>4. sup'.pc = "fill" => cmds' # <<>> /\ cmds'[1].kind = "AllocateMemory"
      BY <1>t, <1>u, <1>3 DEF TypeInv, Appended
    <2> QED
      BY <2>2, <2>3, <2>4 DEF TypeInv
  <1>6. SlotInv'
    <2>1. m.slot \in Slot \/ m.slot = EMPTY
      BY CommandTypes
    <2>2. m.slot \in Slot => InPush(m.slot) /\ ~InCommand(m.slot)
      <3>1. m.slot \in Slot => InPush(m.slot)
        BY <1>4 DEF InPush
      <3> QED
        BY <1>t, <3>1 DEF SlotInv, OneKind
    <2>3. \A i, j \in 1 .. n + 1 : cmds'[i].slot = cmds'[j].slot /\ cmds'[i].slot # EMPTY => i = j
      <3>1. \A i, j \in 1 .. n : cmds[i].slot = cmds[j].slot /\ cmds[i].slot # EMPTY => i = j
        BY <1>t, <1>3 DEF SlotInv, EachOnce, Appended
      <3>2. \A i \in 1 .. n : cmds[i].slot = m.slot => m.slot = EMPTY
        BY <1>3, <2>1, <2>2 DEF InCommand, Appended
      <3>3. /\ \A i \in 1 .. n + 1 : i = n + 1 \/ i \in 1 .. n
            /\ cmds'[n + 1] = m /\ \A i \in 1 .. n : cmds'[i] = cmds[i]
        BY <1>3 DEF Appended
      <3> QED
        BY <3>1, <3>2, <3>3
    <2>4. \A d, e \in VCPU, s \in Slot : Frees(d, s)' /\ Frees(e, s)' => d = e
      <3>1. \A d, e \in VCPU, s \in Slot : Frees(d, s) /\ Frees(e, s) => d = e
        BY <1>t DEF SlotInv, EachOnce
      <3> QED
        BY <1>4, <3>1
    <2>5. EachOnce'
      BY <1>t, <1>u, <1>3, <2>3, <2>4 DEF SlotInv, EachOnce, Appended
    <2>6. ASSUME NEW s \in Slot PROVE InPush(s)' <=> InPush(s) /\ s # m.slot
      BY <1>t, <1>4 DEF InPush, SlotInv, EachOnce
    <2>7. ASSUME NEW s \in Slot PROVE InCommand(s)' <=> InCommand(s) \/ s = m.slot
      BY <1>3 DEF InCommand, Appended
    <2>8. ASSUME NEW s \in Slot PROVE (InEntry(s)' <=> InEntry(s)) /\ (InCache(s)' <=> InCache(s))
      BY <1>u DEF InEntry, InCache
    <2>9. OneKind'
      BY <1>t, <1>u, <2>2, <2>6, <2>7, <2>8 DEF SlotInv, OneKind
    <2> QED
      BY <2>5, <2>9 DEF SlotInv
  <1>7. StartInv'
    <2>1. InOrder'
      <3>1. KeepsLaunched
        BY <1>t, <1>2, AfterStep DEF KeepsLaunched, Launched
      <3>2. OnlyLaunchedWoken
        BY <1>u, <1>2, StepWoken
      <3> QED
        BY <1>t, <1>u, <3>1, <3>2, OrderFrame
    <2>2. OneOnItsWay'
      <3>1. Last' = Last /\ Last \in VCPU
        BY <1>t, <1>u, StartTypes DEF Last
      <3>2. Launched(Last)' <=> Launched(Last)
        <4>1. PICK l \in VCPU : l = Last /\ l = Last'
          BY <3>1
        <4>2. pc(l)' \in {"off", "launch"} <=> pc(l) \in {"off", "launch"}
          BY <1>t, <1>2, AfterStep
        <4> QED
          BY <4>1, <4>2 DEF Launched, pc
      <3>3. \A i \in 1 .. n : Asked(i)' <=> Asked(i)
        BY <1>3 DEF Asked, Appended
      <3>4. Asked(n + 1)' <=> Asks(c)
        BY <1>3, <1>4 DEF Asked, Appended
      <3>5. DOMAIN cmds = 1 .. n /\ DOMAIN cmds' = 1 .. n + 1 /\ \A i \in 1 .. n + 1 : i \in 1 .. n \/ i = n + 1
        BY <1>3 DEF Appended
      <3>6. /\ \A d \in VCPU : Asks(d)' => starting' /\ Launched(Last)' /\ started' \in bits'
            /\ \A d, e \in VCPU : Asks(d)' /\ Asks(e)' => d = e
        BY <1>t, <1>u, <1>4, <3>2 DEF StartInv, OneOnItsWay
      <3>7. /\ \A i \in DOMAIN cmds' : Asked(i)' => starting' /\ Launched(Last)' /\ started' \in bits'
            /\ \A i, j \in DOMAIN cmds' : Asked(i)' /\ Asked(j)' => i = j
            /\ \A d \in VCPU, i \in DOMAIN cmds' : ~(Asks(d)' /\ Asked(i)')
        BY <1>t, <1>u, <1>4, <3>2, <3>3, <3>4, <3>5 DEF StartInv, OneOnItsWay
      <3> QED
        BY <1>t, <1>u, <3>1, <3>2, <3>6, <3>7 DEF StartInv, OneOnItsWay
    <2> QED
      BY <2>1, <2>2 DEF StartInv
  <1>8. WakeInv'
    <2>1. ~AwaitAt(c, p, t) /\ p # "wait"
      BY DEF AwaitAt
    <2>2. CommandsKicked
      <3>1. p = "kick" => Kicking'
        BY <1>2 DEF Kicking, Went, pc
      <3> QED
        BY <1>2, <1>3, <3>1 DEF CommandsKicked, Appended
    <2> QED
      BY <1>t, <1>u, <1>2, <2>1, <2>2, StepWake
  <1> QED
    BY <1>5, <1>6, <1>7, <1>8 DEF IInv

(* allocate asks for memory if there is room, and waits in any case. *)
LEMMA AskMemoryKeeps ==
  ASSUME IInv, NEW c \in VCPU, UNCHANGED hvars, AskMemory(c)
  PROVE  IInv'
  <1>t. TypeInv /\ TypeOK /\ SlotInv /\ StartInv /\ WakeInv /\ pc(c) = "ask" /\ bits \subseteq VCPU
    BY DEF AskMemory, IInv, TypeInv, TypeOK, KernelTypeOK
  <1>u. /\ UNCHANGED <<entries, armed, bits, starting, cached, held, load>>
        /\ UNCHANGED <<sup, stoken, token, tokick, free, started, result>>
    BY DEF AskMemory, scheduler, memory, hvars
  <1>2. Went(c, "wait", U, 0, "parm")
    BY <1>t, StepTo, Zenon DEF AskMemory, Places, PCs, Thens
  <1>3. CASE ~HasRoom
    <2>1. SameAt(c, "wait", U, "parm")
      BY <1>t DEF SameAt, PushAt, AwaitAt, Awaits, Frees, Asks, Pushing
    <2>2. UNCHANGED <<shared, scheduler, memory, hvars>>
      BY <1>3 DEF AskMemory, shared
    <2> QED
      BY <1>t, <1>2, <2>1, <2>2, QuietStep
  <1>4. CASE HasRoom
    <2>1. PICK m \in Command : m = Cmd("AllocateMemory") /\ m.kind = "AllocateMemory" /\ m.slot = EMPTY
      BY CommandTypes
    <2>2. PICK n \in Nat : Appended(n, m)
      BY <1>t, <1>4, <2>1, AppendedTo DEF AskMemory
    <2>3. SameFrees
      BY <1>t, <1>2, StepFrees DEF Pushing, PushAt
    <2>4. TypeInv'
      <3>1. kernel' \in [VCPU -> [pc : PCs \cup {"parked"}, cmd : Command, at : Nat,
                             then : {"idle", "arm", "parm", "resume", "halted"}]]
        BY <1>2 DEF Went, KState, Places, Thens
      <3>2. TypeOK'
        BY <1>t, <1>u, <2>2, <3>1 DEF TypeOK, KernelTypeOK, Appended
      <3>3. \A d \in VCPU : pc(d)' = "notify" => kernel'[d].at \in VCPU
        BY <1>t, <1>2 DEF Went, TypeInv, pc
      <3>4. sup'.pc = "fill" => cmds' # <<>> /\ cmds'[1].kind = "AllocateMemory"
        BY <1>t, <1>u, <2>2 DEF TypeInv, Appended
      <3> QED
        BY <3>2, <3>3, <3>4 DEF TypeInv
    <2>5. SlotInv'
      <3>1. \A i, j \in 1 .. n + 1 : cmds'[i].slot = cmds'[j].slot /\ cmds'[i].slot # EMPTY => i = j
        <4>1. /\ \A i \in 1 .. n + 1 : i = n + 1 \/ i \in 1 .. n
              /\ cmds'[n + 1].slot = EMPTY /\ \A i \in 1 .. n : cmds'[i] = cmds[i]
          BY <2>1, <2>2 DEF Appended
        <4>2. \A i, j \in 1 .. n : cmds[i].slot = cmds[j].slot /\ cmds[i].slot # EMPTY => i = j
          BY <1>t, <2>2 DEF SlotInv, EachOnce, Appended
        <4> QED
          BY <4>1, <4>2
      <3>2. EachOnce'
        BY <1>t, <1>u, <2>2, <2>3, <3>1 DEF SlotInv, EachOnce, Appended, SameFrees
      <3>3. ASSUME NEW s \in Slot
            PROVE  /\ InCommand(s)' <=> InCommand(s)
                   /\ InPush(s)' <=> InPush(s)
                   /\ InEntry(s)' <=> InEntry(s)
                   /\ InCache(s)' <=> InCache(s)
        <4>1. s # EMPTY
          BY CommandTypes
        <4>2. InCommand(s)' <=> InCommand(s)
          BY <2>1, <2>2, <4>1 DEF InCommand, Appended
        <4> QED
          BY <1>u, <2>3, <4>2 DEF InPush, InEntry, InCache, SameFrees
      <3>4. OneKind'
        BY <1>t, <1>u, <3>3 DEF SlotInv, OneKind
      <3> QED
        BY <3>2, <3>4 DEF SlotInv
    <2>6. StartInv'
      <3>1. PushAt("wait", "parm") /\ U.kind = "StartNextAp" <=> Asks(c)
        BY <1>t DEF PushAt, Asks, Pushing
      <3>2. OnlyLaunchedBits
        BY <1>t, <1>u DEF OnlyLaunchedBits
      <3>3. NoNewAsked
        <4>1. /\ DOMAIN cmds = 1 .. n /\ DOMAIN cmds' = 1 .. n + 1
              /\ \A i \in 1 .. n + 1 : i = n + 1 \/ i \in 1 .. n
              /\ cmds'[n + 1].kind # "StartNextAp"
              /\ \A i \in 1 .. n : cmds'[i].kind = "StartNextAp" <=> Asked(i)
          BY <2>1, <2>2 DEF Appended, Asked
        <4> QED
          BY <1>t, <4>1 DEF NoNewAsked, StartInv, OneOnItsWay
      <3> QED
        BY <1>t, <1>u, <1>2, <3>1, <3>2, <3>3, StepStart
    <2>7. WakeInv'
      <3>1. CommandsKicked
        BY <1>2 DEF CommandsKicked, Kicking, Went, pc
      <3>2. Awaits(c)
        BY <1>t DEF Awaits
      <3> QED
        BY <1>t, <1>u, <1>2, <3>1, <3>2, StepWake
    <2> QED
      BY <2>4, <2>5, <2>6, <2>7 DEF IInv
  <1> QED
    BY <1>3, <1>4

=============================================================================
