--------------------------- MODULE MCProvisioning ---------------------------
(* Instances of Provisioning for TLC.                                      *)
EXTENDS Provisioning

CONSTANTS main, command, scanner, u1, u2, p1, p2, p3

MCLatency == [u \in Uri |-> IF u = u1 THEN 1 ELSE 2]

PidSymmetry == Permutations(Pid)

=============================================================================
