----------------------------- MODULE MCNetwork -----------------------------
(* An instance of Network for TLC: a circuit opens after two failures, the *)
(* network changes twice.                                                  *)
EXTENDS Network

=============================================================================
