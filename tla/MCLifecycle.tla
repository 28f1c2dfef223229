----------------------------- MODULE MCLifecycle -----------------------------
(* A small instance of Lifecycle for TLC.                                   *)
EXTENDS Lifecycle, TLC

CONSTANTS scanner, validator
==============================================================================
