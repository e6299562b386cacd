--------------------------- MODULE HostAllocator ---------------------------
(***************************************************************************)
(* The supervisors' allocator of 2 MiB slots                               *)
(* (tee/supervisor-snp/src/dynamic.rs) and the host's table of the slots   *)
(* that are enabled (host/mushroom/src/snp.rs).  A request is handled by   *)
(* the supervisor and the host in one go: the vCPU exits to the host and   *)
(* waits.  The bitmap is the set of its set bits.                          *)
(***************************************************************************)
EXTENDS Integers, FiniteSetsExt

CONSTANTS BITMAP_SIZE,   \* bytes of the bitmap; 2^12 in the code
          BYTE,          \* bits of a byte; 8 in the code
          MAX            \* u16::MAX, one less than twice the slots

SlotAssumption == BITMAP_SIZE \in Nat \ {0} /\ BYTE \in Nat \ {0} /\ MAX \in Nat
ASSUME SlotConstants == SlotAssumption

SLOTS == BITMAP_SIZE * BYTE

VARIABLES bitmap, start_offset,   \* HostAllocator
          memory_slots,           \* the host's enabled slots
          granted,                \* the slots the kernel was given and still has
          failed                  \* the assertion that stopped the program

slotVars == <<bitmap, start_offset, memory_slots, granted, failed>>

SlotInit ==
  /\ bitmap = {} /\ start_offset = 0
  /\ memory_slots = {}
  /\ granted = {}
  /\ failed = "none"

(* The byte that is looked at in the k-th place: from start_offset to the   *)
(* end, then from the beginning.                                            *)
NthByte(k) == (start_offset + k) % BITMAP_SIZE
(* The byte's clear bits, as slots. *)
ClearBits(i) == {i * BYTE + bit : bit \in 0 .. BYTE - 1} \ bitmap

(* SlotIndex::new asserts value < u16::MAX / 2. *)
ValidSlotIndex(slot) == slot < MAX \div 2

(* update_slot_status and the host's answer to it: which assertion fails. *)
EnableFails(slot) == IF slot \in memory_slots THEN "already enabled" ELSE "none"
DisableFails(slot) ==
  CASE slot \notin memory_slots -> "already disabled"
    [] slot \in memory_slots /\ slot \notin bitmap -> "bit clear"
    [] OTHER -> "none"

(* allocate_frame: find a clear bit, set it, make a SlotIndex of it and     *)
(* have the host enable the slot; None when every bit is set.               *)
AllocateFrame ==
  /\ failed = "none"
  /\ LET found == {k \in 0 .. BITMAP_SIZE - 1 : ClearBits(NthByte(k)) # {}}
         i == NthByte(Min(found))
         slot == Min(ClearBits(i))
     IN  IF found = {} THEN UNCHANGED slotVars
         ELSE /\ bitmap' = bitmap \cup {slot}
              /\ start_offset' = i
              /\ failed' = IF ValidSlotIndex(slot) THEN EnableFails(slot) ELSE "SlotIndex::new"
              /\ IF failed' = "none"
                 THEN memory_slots' = memory_slots \cup {slot} /\ granted' = granted \cup {slot}
                 ELSE UNCHANGED <<memory_slots, granted>>

ClearedByte(slot) == bitmap \ {(slot \div BYTE) * BYTE + bit : bit \in 0 .. BYTE - 1}
(* deallocate_slot_id *)
Cleared(slot) == bitmap \ {(slot \div BYTE) * BYTE + (slot % BYTE)}

(* deallocate_frame: have the host disable the slot, then clear its bit. *)
DeallocateFrame(slot) ==
  /\ failed = "none"
  /\ slot \in granted
  /\ granted' = granted \ {slot}
  /\ failed' = DisableFails(slot)
  /\ memory_slots' = memory_slots \ {slot}
  /\ bitmap' = IF failed' = "none" THEN Cleared(slot) ELSE bitmap
  /\ UNCHANGED start_offset

SlotNext == AllocateFrame \/ \E slot \in granted : DeallocateFrame(slot)

SlotSpec == SlotInit /\ [][SlotNext]_slotVars

-----------------------------------------------------------------------------
SlotTypeOK ==
  /\ bitmap \subseteq 0 .. SLOTS - 1 /\ start_offset \in 0 .. BITMAP_SIZE - 1
  /\ memory_slots \subseteq 0 .. SLOTS - 1 /\ granted \subseteq 0 .. SLOTS - 1
  /\ failed \in {"none", "SlotIndex::new", "already enabled", "already disabled", "bit clear"}

(* The host never stops a supervisor over a slot ("tried to enable slot     *)
(* that's already enabled", "... disable slot that's already disabled") and *)
(* the bit of a slot that is given back is set: after any calls the bitmap, *)
(* the host's table and what the kernel holds agree.                        *)
HostAgrees ==
  /\ failed \in {"none", "SlotIndex::new"}
  /\ granted = memory_slots
  /\ failed = "none" => bitmap = memory_slots

(* The slot bitmap (supervisor-snp dynamic.rs) agrees with the host's table. *)
SlotsAgree == SlotTypeOK /\ HostAgrees
=============================================================================
