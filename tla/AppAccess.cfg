SPECIFICATION Spec
CONSTANTS
  ann = ann
  bob = bob
  Emails = {owner, ann, bob}
  Admins = {owner}
  Offered = {"viewer", "manager"}
  Registration = "open"
  Invites = {i1, i2}
  Tokens = {t1, t2}
  Requests = {q1, q2}
  None = None
SYMMETRY Interchangeable
INVARIANTS
  TypeOK
  MembersWereInvited
  OnePendingPerEmail
  LinkKeepsItsOffer
PROPERTIES
  ImplementsMembership
  OutcomeIsFinal
CHECK_DEADLOCK FALSE
