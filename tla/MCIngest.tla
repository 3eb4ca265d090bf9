------------------------------ MODULE MCIngest ------------------------------
(***************************************************************************)
(* Instance of Ingest for TLC.                                             *)
(***************************************************************************)
EXTENDS Ingest

=============================================================================
