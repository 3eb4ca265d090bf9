------------------------------ MODULE MCCatchUp ------------------------------
(***************************************************************************)
(* Instance of CatchUp for TLC: three notifications, the last forged.      *)
(***************************************************************************)
EXTENDS CatchUp

CONSTANTS n1, n2, n3

TwoPages == <<n1, n2, n3>>

=============================================================================
