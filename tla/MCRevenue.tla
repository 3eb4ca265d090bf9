----------------------------- MODULE MCRevenue ------------------------------
(***************************************************************************)
(* Instance of Revenue for TLC.                                            *)
(***************************************************************************)
EXTENDS Revenue

=============================================================================
