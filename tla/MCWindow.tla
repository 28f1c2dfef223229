----------------------------- MODULE MCWindow -----------------------------
(* An instance of Window for TLC: two standard sources and one of the      *)
(* user's; a small and a large machine with memory free and gone; a ring   *)
(* of four lines.                                                          *)
EXTENDS Window
=============================================================================
