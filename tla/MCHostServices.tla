--------------------------- MODULE MCHostServices ---------------------------
(***************************************************************************)
(* Instances of HostServices for TLC: two vCPUs, a command buffer of one   *)
(* command and an allocation buffer of one entry, so that both are often   *)
(* full and often empty.  One workload does everything; liveness is        *)
(* checked for three smaller ones.                                         *)
(***************************************************************************)
EXTENDS HostServices

CONSTANT s1
MCVcpu == {0, 1}
MCEverything == {[calls |-> {"output", "memory", "halt", "commit"}, cache |-> 0]}
MCSeparate == {[calls |-> {"memory"}, cache |-> 1], [calls |-> {"output"}, cache |-> 0],
               [calls |-> {"halt", "commit"}, cache |-> 0]}
=============================================================================
