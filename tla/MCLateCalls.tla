---------------------------- MODULE MCLateCalls ----------------------------
(***************************************************************************)
(* A small instance of LateCalls.                                          *)
(***************************************************************************)
EXTENDS MCBudgetController, LateCalls
=============================================================================
