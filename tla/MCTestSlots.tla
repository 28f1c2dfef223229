---------------------------- MODULE MCTestSlots ----------------------------
(* Instances of TestSlots for TLC.                                         *)
EXTENDS TestSlots

CONSTANTS t1, t2, t3

=============================================================================
