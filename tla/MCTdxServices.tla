--------------------------- MODULE MCTdxServices ----------------------------
(***************************************************************************)
(* An instance of TdxServices for TLC: two vCPUs, a command buffer of one  *)
(* command and an allocation buffer of one entry; a workload that only     *)
(* takes memory and gives it back.                                         *)
(***************************************************************************)
EXTENDS TdxServices

CONSTANT s1
MCVcpu == {0, 1}
MCMemory == {[calls |-> {"memory"}, cache |-> 0]}
=============================================================================
