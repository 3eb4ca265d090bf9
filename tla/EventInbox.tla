----------------------------- MODULE EventInbox -----------------------------
(***************************************************************************)
(* What ingestion promises, whatever the interleaving of deliveries,       *)
(* pollers, retries and faults: an event is answered only once it is       *)
(* stored, it is normalized only once it is stored, and neither fact is    *)
(* ever taken back.                                                        *)
(***************************************************************************)
CONSTANT Events

VARIABLES
  stored,      \* events whose payload Revtern keeps
  answered,    \* events whose delivery was answered with success
  normalized   \* events whose normalization has succeeded

inboxVars == <<stored, answered, normalized>>

Init == stored = {} /\ answered = {} /\ normalized = {}

Store(e) ==
  /\ e \notin stored
  /\ stored' = stored \cup {e}
  /\ UNCHANGED <<answered, normalized>>

Answer(e) ==
  /\ e \in stored
  /\ answered' = answered \cup {e}
  /\ UNCHANGED <<stored, normalized>>

Normalize(e) ==
  /\ e \in stored
  /\ normalized' = normalized \cup {e}
  /\ UNCHANGED <<stored, answered>>

Next == \E e \in Events : Store(e) \/ Answer(e) \/ Normalize(e)

Spec == Init /\ [][Next]_inboxVars

=============================================================================
