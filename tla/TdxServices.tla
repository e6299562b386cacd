---------------------------- MODULE TdxServices -----------------------------
(***************************************************************************)
(* The TDX supervisor: there is no supervisor thread.  A vCPU whose kernel *)
(* executes HLT enters the supervisor on that vCPU, and handles commands   *)
(* for all of them if it gets the lock                                     *)
(* (tee/supervisor-tdx/src/services.rs).  Waiting is a HLT that a WAKEUP   *)
(* interrupt ends; the interrupt's handler does nothing, so one that       *)
(* arrives while the vCPU runs its kernel leaves no trace                  *)
(* (exception.rs, vcpu.rs).                                                *)
(***************************************************************************)
EXTENDS KernelServices

CONSTANT Nobody  \* nobody holds HANDLER

VARIABLES
  tdx,      \* every vCPU's place in the supervisor, and its local variables
  handler,  \* who holds the lock of HANDLER
  ipi,      \* vCPUs with a pending WAKEUP interrupt
  free,     \* slots HostAllocator has not handed out
  ready,    \* READY
  result    \* what the supervisor did with the output

tvars == <<tdx, handler, ipi, free, ready, result>>
vars == <<kvars, tvars>>

(* The kernel runs on the vCPU, or an AP is about to look at READY. *)
Guest == [pc |-> "guest", at |-> 1, ids |-> {}, self |-> FALSE]
In(l) == [Guest EXCEPT !.pc = l]
Enter(c, l) == tdx' = [tdx EXCEPT ![c] = In(l)]

TypeOK ==
  /\ KernelTypeOK({})
  /\ tdx \in [VCPU -> [pc : {"guest", "drain", "fill", "unlock", "reset", "notify", "hlt", "done"},
                       at : 1 .. ALLOCATIONS + 1, ids : SUBSET VCPU, self : BOOLEAN]]
  /\ handler \in VCPU \cup {Nobody} /\ ipi \subseteq VCPU
  /\ free \subseteq Slot /\ ready \in Nat
  /\ result \in {"running", "finished", "failed"}

Init ==
  /\ KernelInit
  /\ tdx = [c \in VCPU |-> Guest] /\ handler = Nobody /\ ipi = {}
  /\ free = Slot /\ ready = 0 /\ result = "running"

-----------------------------------------------------------------------------
WaitForStartUnchecked(c) ==
  /\ pc(c) = "off" /\ tdx[c].pc = "guest"
  /\ Set(c, At("launch"))
  /\ UNCHANGED <<shared, scheduler, memory, tvars>>

(* wait_for_vcpu_start: look at READY with interrupts disabled, or else HLT. *)
WaitForStart(c) ==
  /\ pc(c) = "off" /\ tdx[c].pc = "guest"
  /\ \/ ready = c /\ Set(c, At("launch")) /\ UNCHANGED tdx
     \/ ready # c /\ Enter(c, "hlt") /\ UNCHANGED kernel
  /\ UNCHANGED <<shared, scheduler, memory, handler, ipi, free, ready, result>>

(* wakeup_handler: the interrupt arrives while the vCPU runs the kernel. *)
Wakeup(c) ==
  /\ tdx[c].pc = "guest" /\ c \in ipi
  /\ ipi' = ipi \ {c}
  /\ UNCHANGED <<kvars, tdx, handler, free, ready, result>>

(* handle returns to the kernel, or waits for an interrupt. *)
Leave(c, return) ==
  IF return
  THEN tdx' = [tdx EXCEPT ![c] = Guest] /\ Set(c, Returned(c))
  ELSE Enter(c, "hlt") /\ UNCHANGED kernel

(* handle: interrupts::disable and HANDLER.try_lock *)
TryLock(c) ==
  /\ pc(c) \in {"kick", "wait"} /\ tdx[c].pc = "guest"
  /\ \/ handler = Nobody /\ handler' = c /\ Enter(c, "drain") /\ UNCHANGED kernel
     \/ handler # Nobody /\ Leave(c, pc(c) = "kick") /\ UNCHANGED handler
  /\ UNCHANGED <<shared, scheduler, memory, ipi, free, ready, result>>

(* instruction_hlt returns: a WAKEUP interrupt is or becomes pending. *)
HltReturns(c) ==
  /\ tdx[c].pc = "hlt" /\ c \in ipi
  /\ ipi' = ipi \ {c}
  /\ tdx' = [tdx EXCEPT ![c] = Guest]
  /\ IF pc(c) = "off" THEN UNCHANGED kernel ELSE Set(c, Returned(c))
  /\ UNCHANGED <<shared, scheduler, memory, handler, free, ready, result>>

(* A FLUSH_VECTOR interrupt (TlbShootdown) ends a HLT as well: the kernel    *)
(* on another vCPU asked for a flush, and this one has run its kernel.      *)
FlushInterrupt(c) ==
  /\ tdx[c].pc = "hlt" /\ pc(c) # "off" /\ \E d \in VCPU \ {c} : tdx[d].pc = "guest" /\ pc(d) # "off"
  /\ tdx' = [tdx EXCEPT ![c] = Guest]
  /\ Set(c, Returned(c))
  /\ UNCHANGED <<shared, scheduler, memory, handler, ipi, free, ready, result>>

-----------------------------------------------------------------------------
(* The vCPU that holds HANDLER *)

Complete == cmds' = Tail(cmds)

(* vcpu::start_next; pick_any asks for no more vCPUs than there are *)
Start ==
  /\ ready' = ready + 1 /\ ipi' = ipi \cup ({ready + 1} \cap VCPU)
  /\ Complete
  /\ UNCHANGED <<tdx, free, result>>

(* deallocate_memory *)
Dealloc(s) ==
  /\ free' = free \cup {s}
  /\ Complete
  /\ UNCHANGED <<tdx, ipi, ready, result>>

(* finish_output and fail_output: neither returns, the lock stays taken. *)
Conclude(c, r) ==
  /\ result' = r
  /\ Enter(c, "done")
  /\ UNCHANGED <<cmds, ipi, free, ready>>

(* CommandBufferReader::handle *)
Handle(c) ==
  /\ tdx[c].pc = "drain" /\ cmds # <<>>
  /\ CASE Head(cmds).kind = "StartNextAp" -> Start
       [] Head(cmds).kind = "AllocateMemory" -> Enter(c, "fill") /\ UNCHANGED <<cmds, ipi, free, ready, result>>
       [] Head(cmds).kind = "DeallocateMemory" -> Dealloc(Head(cmds).slot)
       [] Head(cmds).kind = "UpdateOutput" -> Complete /\ UNCHANGED <<tdx, ipi, free, ready, result>>
       [] Head(cmds).kind = "FinishOutput" -> Conclude(c, "finished")
       [] Head(cmds).kind = "FailOutput" -> Conclude(c, "failed")
  /\ UNCHANGED <<entries, armed, scheduler, memory, kernel, handler>>

(* allocate_memory: a free entry gets a slot, and the search starts again. *)
Fill(c) ==
  /\ tdx[c].pc = "fill" /\ tdx[c].at \in Entry /\ entries[tdx[c].at] = EMPTY
  /\ \E s \in free : /\ entries' = [entries EXCEPT ![tdx[c].at] = s]
                     /\ free' = free \ {s}
  /\ Enter(c, "fill")
  /\ UNCHANGED <<cmds, armed, scheduler, memory, kernel, handler, ipi, ready, result>>

(* find_free_entry passes an entry in use. *)
FillNext(c) ==
  /\ tdx[c].pc = "fill" /\ tdx[c].at \in Entry /\ entries[tdx[c].at] # EMPTY
  /\ tdx' = [tdx EXCEPT ![c].at = @ + 1]
  /\ UNCHANGED <<kvars, handler, ipi, free, ready, result>>

(* No entry or no slot is left. *)
FillDone(c) ==
  /\ tdx[c].pc = "fill"
  /\ tdx[c].at \in Entry => entries[tdx[c].at] = EMPTY /\ free = {}
  /\ Enter(c, "drain")
  /\ Complete
  /\ UNCHANGED <<entries, armed, scheduler, memory, kernel, handler, ipi, free, ready, result>>

(* handle found pending_index = completed_index. *)
Drained(c) ==
  /\ tdx[c].pc = "drain" /\ cmds = <<>>
  /\ Enter(c, "unlock")
  /\ UNCHANGED <<kvars, handler, ipi, free, ready, result>>

(* drop(handler) *)
Unlock(c) ==
  /\ tdx[c].pc = "unlock"
  /\ handler' = Nobody
  /\ Enter(c, "reset")
  /\ UNCHANGED <<kvars, ipi, free, ready, result>>

(* notification_buffer.reset() *)
Reset(c) ==
  /\ tdx[c].pc = "reset"
  /\ tdx' = [tdx EXCEPT ![c] = [In("notify") EXCEPT !.ids = armed \ {c}, !.self = c \in armed]]
  /\ armed' = {}
  /\ UNCHANGED <<cmds, entries, scheduler, memory, kernel, handler, ipi, free, ready, result>>

(* send_ipi to the armed vCPUs in the order of their indices *)
SendIpi(c) ==
  /\ tdx[c].pc = "notify"
  /\ \E d \in tdx[c].ids : /\ \A e \in tdx[c].ids : d <= e
                           /\ ipi' = ipi \cup {d}
                           /\ tdx' = [tdx EXCEPT ![c].ids = @ \ {d}]
  /\ UNCHANGED <<kvars, handler, free, ready, result>>

(* handle returns if the vCPU saw its own bit or was asked to resume. *)
Notified(c) ==
  /\ tdx[c].pc = "notify" /\ tdx[c].ids = {}
  /\ Leave(c, tdx[c].self \/ pc(c) = "kick")
  /\ UNCHANGED <<shared, scheduler, memory, handler, ipi, free, ready, result>>

SupervisorStep(c) ==
  \/ WaitForStart(c) \/ Wakeup(c) \/ TryLock(c) \/ HltReturns(c)
  \/ Handle(c) \/ Fill(c) \/ FillNext(c) \/ FillDone(c)
  \/ Drained(c) \/ Unlock(c) \/ Reset(c) \/ SendIpi(c) \/ Notified(c)

(* The supervisor is done; the vCPUs run until the host tears the VM down. *)
Finished == result # "running" /\ UNCHANGED vars

Next ==
  \/ \E c \in VCPU : \/ tdx[c].pc = "guest" /\ KernelStep(c) /\ UNCHANGED tvars
                     \/ SupervisorStep(c) \/ FlushInterrupt(c)
  \/ Finished

Spec == Init /\ [][Next]_vars

(* The host schedules every vCPU and delivers every interrupt. *)
FairSpec ==
  /\ Spec
  /\ \A c \in VCPU : /\ WF_vars((tdx[c].pc = "guest" /\ KernelProgress(c) /\ UNCHANGED tvars) \/ SupervisorStep(c))
                     /\ SF_vars(Drained(c))

-----------------------------------------------------------------------------
Owners(s) == KernelOwners(s) \cup {<<"free", t>> : t \in free \cap {s}}

(* Every slot has exactly one owner, whichever vCPU holds HANDLER and       *)
(* handles AllocateMemory and DeallocateMemory: none is handed out twice    *)
(* and none is lost.                                                        *)
SlotsOwnedOnce == \A s \in Slot : \E o \in Owners(s) : Owners(s) = {o}

(* wait_for_vcpu_start lets a vCPU into the kernel only when pick_any set   *)
(* its scheduler bit, though StartNextAp does not name the vCPU.            *)
StartsTheScheduled == \A c \in VCPU : pc(c) = "launch" => c \in bits /\ starting

Waiting(c) == pc(c) = "wait" /\ tdx[c].pc = "hlt"

(* A vCPU that armed itself and waits for room in the command buffer or for *)
(* memory is woken: "Tell the supervisor to wake up the vCPU after it's     *)
(* done processing commands" (NotificationBuffer::arm).                     *)
WaitEnds ==
  \A c \in VCPU : Waiting(c) /\ kernel[c].then \in {"arm", "parm"} ~> ~Waiting(c) \/ result # "running"

(* A FinishOutput or FailOutput in the command buffer is acted upon: "Tell  *)
(* to supervisor to commit the output" (commit_output).                     *)
VerdictReached ==
  (\E i \in DOMAIN cmds : cmds[i].kind \in {"FinishOutput", "FailOutput"}) ~> result # "running"
=============================================================================
