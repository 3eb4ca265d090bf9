SPECIFICATION Spec
CONSTANTS
  ann = ann
  Users = {ann, bob}
  Subjects = {s1}
  Invitations = {i1}
  Invited <- ForAnn
  Modes = {"closed", "invite_only", "open"}
  Txns = {t1, t2}
  Sessions = {x1}
  Requests = {q1, q2}
  Idle = 1
  Absolute = 2
  None = None
SYMMETRY Interchangeable
INVARIANT
  MobileSessionsLast
CHECK_DEADLOCK FALSE
