---------------------------- MODULE MCAppAccess ----------------------------
(***************************************************************************)
(* Instance of AppAccess for TLC.  Rows, links, requests and the two users *)
(* are interchangeable: nothing in the module orders or names them, and    *)
(* runs check no liveness.                                                 *)
(***************************************************************************)
EXTENDS AppAccess, TLC

CONSTANTS ann, bob

Interchangeable == Permutations(Invites) \cup Permutations(Tokens) \cup Permutations(Requests)
                     \cup Permutations({ann, bob})

=============================================================================
