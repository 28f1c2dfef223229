-------------------------- MODULE MCConfigDatabase --------------------------
(* Small instances of ConfigDatabase for TLC.                              *)
EXTENDS ConfigDatabase

CONSTANTS u1, u2, u3, k1, k2

(* u2 and u3 name the same endpoint: they share a record.                  *)
SharedKey == [u \in {u1, u2, u3} |-> IF u = u1 THEN k1 ELSE k2]

=============================================================================
