-------------------------- MODULE MCCommandBuffer ---------------------------
(* A ring of 7 bytes and commands of 1, 2 and 4 bytes: a command wraps     *)
(* around the end at every offset, fills the ring exactly and is refused.  *)
EXTENDS CommandBuffer

CONSTANTS StartNextAp, DeallocateMemory, UpdateOutput

MCPayloadSize == [c \in Command |->
  CASE c = StartNextAp -> 0 [] c = DeallocateMemory -> 1 [] c = UpdateOutput -> 3]
=============================================================================
