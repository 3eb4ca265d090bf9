----------------------------- MODULE NewestWins -----------------------------
(***************************************************************************)
(* What a projection of provider events promises of each row, whatever the *)
(* order in which events arrive and however often one is applied again:    *)
(* the row shows the state some newest event, by provider time, has given  *)
(* it.  Events of the same time are not ordered.                           *)
(***************************************************************************)
EXTENDS Naturals

CONSTANTS Keys, Events, NoEvent,
          Time   \* when each event occurred

VARIABLES
  seen,    \* the events applied to each row
  lead     \* the event whose state each row shows

registerVars == <<seen, lead>>

Newest(S) == {e \in S : \A f \in S : Time[f] <= Time[e]}

Init ==
  /\ seen = [k \in Keys |-> {}]
  /\ lead = [k \in Keys |-> NoEvent]

Apply(k, e) ==
  /\ seen' = [seen EXCEPT ![k] = @ \cup {e}]
  /\ \E f \in Newest(seen[k] \cup {e}) :
       /\ f \in {e, lead[k]}
       /\ lead' = [lead EXCEPT ![k] = f]

Next == \E k \in Keys, e \in Events : Apply(k, e)

Spec == Init /\ [][Next]_registerVars

=============================================================================
