----------------------------- MODULE Membership -----------------------------
(***************************************************************************)
(* What inviting promises, whatever the interleaving of managers, guests   *)
(* and lost requests: a person has at most one open offer, a seat begins   *)
(* by taking that offer while it is valid, with the role it names, and     *)
(* uses it up; a link that has been replaced, withdrawn or used opens      *)
(* nothing again.  A seat may be changed or ended at any time.             *)
(***************************************************************************)
CONSTANTS People, Admins, Roles, Links, NoRole

VARIABLES
  seat,     \* the role of each person, or NoRole
  offer,    \* what each person is offered: nothing ({}) or one offer
  issued    \* links handed out so far

membershipVars == <<seat, offer, issued>>

Init ==
  /\ seat = [p \in People |-> NoRole]
  /\ offer = [p \in People |-> {}]
  /\ issued = {}

\* A new offer replaces the open one and its link.
Offer(p, r, l) ==
  /\ p \notin Admins /\ l \notin issued
  /\ offer' = [offer EXCEPT ![p] = {[role |-> r, link |-> l, lapsed |-> FALSE]}]
  /\ issued' = issued \cup {l}
  /\ UNCHANGED seat

Lapse(p) ==
  /\ \E o \in offer[p] :
       offer' = [offer EXCEPT ![p] = {[role |-> o.role, link |-> o.link, lapsed |-> TRUE]}]
  /\ UNCHANGED <<seat, issued>>

Withdraw(p) ==
  /\ offer' = [offer EXCEPT ![p] = {}]
  /\ UNCHANGED <<seat, issued>>

Take(p) ==
  /\ \E o \in offer[p] : ~o.lapsed /\ seat' = [seat EXCEPT ![p] = o.role]
  /\ offer' = [offer EXCEPT ![p] = {}]
  /\ UNCHANGED issued

\* Another role, or none.
Change(p, r) ==
  /\ seat[p] # NoRole
  /\ seat' = [seat EXCEPT ![p] = r]
  /\ UNCHANGED <<offer, issued>>

Next ==
  \E p \in People :
    \/ \E r \in Roles, l \in Links : Offer(p, r, l)
    \/ Lapse(p) \/ Withdraw(p) \/ Take(p)
    \/ \E r \in Roles \cup {NoRole} : Change(p, r)

Spec == Init /\ [][Next]_membershipVars

=============================================================================
