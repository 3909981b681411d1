--------------------------- MODULE MCEventChannel ---------------------------
(* EventChannel for TLC. *)
EXTENDS EventChannelInv, TLC

CONSTANT Small      \* the domains with a port table of one bucket

TableSize == [d \in Domains |-> IF d \in Small THEN BucketSize ELSE NrPorts]

CpuSymmetry == Permutations(Cpus)
=============================================================================
