SPECIFICATION Spec
CONSTANTS
  Kinds = {"google_play", "app_store", "other"}
  Secrets = {w1}
  Packages = {p1, p2}
  Fields = {f1}
  Account = f1
  Keys = {k1, k2}
  First = {k1}
  Ttls = {1}
  Backoff = 2
  MaxEdits <- Edits
  Others = {q1}
  Pubsub = pubsub
  None = None
INVARIANTS
  TypeOK
  WithdrawnKeyDies
  OnceSecuredStaysSecured
PROPERTIES
  PushAccepted
CHECK_DEADLOCK FALSE
