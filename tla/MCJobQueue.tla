----------------------------- MODULE MCJobQueue -----------------------------
(***************************************************************************)
(* Instances of JobQueue for TLC; the constants are in the .cfg files.     *)
(***************************************************************************)
EXTENDS JobQueue

=============================================================================
