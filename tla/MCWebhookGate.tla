--------------------------- MODULE MCWebhookGate ---------------------------
(***************************************************************************)
(* Instance of WebhookGate for TLC.                                        *)
(***************************************************************************)
EXTENDS WebhookGate

\* A source of the kind "other" has four settings, so four updates are all there are.
Edits == [k \in Kinds |-> IF k = "google_play" THEN 1 ELSE 4]

=============================================================================
