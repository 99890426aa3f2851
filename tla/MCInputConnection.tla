------------------------- MODULE MCInputConnection -------------------------
(* A small instance of InputConnection for TLC. *)
EXTENDS InputConnection

CONSTANTS attack, heavy, dodge
=============================================================================
