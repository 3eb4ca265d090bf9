------------------------------ MODULE MCSignIn ------------------------------
(***************************************************************************)
(* Instance of SignIn for TLC: the invitation is for ann.  Subjects,       *)
(* transactions, sessions and requests are interchangeable: nothing in the *)
(* module orders or names them, and its runs check no liveness.            *)
(***************************************************************************)
EXTENDS SignIn, TLC

CONSTANTS ann

ForAnn == [i \in Invitations |-> ann]

Interchangeable == Permutations(Subjects) \cup Permutations(Txns) \cup Permutations(Sessions)
                     \cup Permutations(Requests)

=============================================================================
