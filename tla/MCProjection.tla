---------------------------- MODULE MCProjection ----------------------------
(***************************************************************************)
(* Instance of Projection for TLC: the life of one subscription, with two  *)
(* events of the same provider time, one of them a refund that names the   *)
(* purchase only, and one payload that maps to nothing.                    *)
(***************************************************************************)
EXTENDS Projection, TLC

CONSTANTS e1, e2, e3, e4, e5, t1, s1, p1, c1, x1, x2, l1, l2

Subscription(type, at) ==
  [type |-> type, at |-> at, txn |-> t1, sub |-> s1, product |-> p1, kind |-> "subscription",
   customer |-> None, renews |-> None, live |-> TRUE]

Lifecycle ==
  [e \in Events |->
     CASE e = e1 -> [Subscription("purchase", 1) EXCEPT !.customer = c1]
       [] e = e2 -> [Subscription("partial_refund", 2) EXCEPT !.kind = "other"]
       [] e = e3 -> Subscription("renewal", 2)
       [] e = e4 -> [Subscription("cancellation", 3) EXCEPT !.txn = None]
       [] e = e5 -> [Subscription("none", 1) EXCEPT !.product = None, !.kind = "other"]]

Interchangeable == Permutations({x1, x2}) \cup Permutations({l1, l2})

=============================================================================
