----------------------------- MODULE AppAccess -----------------------------
(***************************************************************************)
(* Shared access to one app (routes.rs, access.rs, migration 5): roles and *)
(* their permissions, invitations, registration with an invitation, change *)
(* of a role, removal, and the audit trail.  A handler checks its caller's *)
(* permission, reads, writes and audits in separate statements; accepting  *)
(* an invitation and registering are transactions, which lock the          *)
(* invitation's row and are one step here.                                 *)
(*                                                                         *)
(* A user is its e-mail address (users.email is unique and never changes), *)
(* an invitation link is its token.                                        *)
(***************************************************************************)
EXTENDS FiniteSets

CONSTANTS
  Emails,
  Admins,       \* the app's owner and the administrators of its workspace; fixed
  Offered,      \* roles that requests name
  Registration, \* the registration mode
  Invites,      \* ids of app_invitations rows
  Tokens,       \* links; BOUND: invitations that are written
  Requests,     \* concurrent requests
  None

Viewer  == {"app.read", "ledger.read"}
Analyst == Viewer \cup {"events.sensitive.read", "export.run"}
Editor  == Analyst \cup {"app.write", "catalog.write", "source.write", "jobs.run"}
Manager == Editor \cup {"source.credentials.write", "members.manage"}

RolePermissions == [viewer |-> Viewer, analyst |-> Analyst, editor |-> Editor, manager |-> Manager]

Roles == DOMAIN RolePermissions

ASSUME AccessAssumption ==
  /\ Admins \subseteq Emails
  /\ Offered \subseteq Roles
  /\ Registration \in {"closed", "invite_only", "open"}
  /\ None \notin Emails \cup Invites \cup Tokens \cup Roles

VARIABLES
  accounts,   \* users
  guests,     \* workspace_users rows with role "guest" in the app's workspace
  member,     \* app_memberships: the role of each user, or None
  invites,    \* app_invitations
  links,      \* history: what the invitation said when each link was handed out
  req,        \* where each request is, and its locals
  audit       \* audit_events on invitations; those on roles and removals are not kept

vars == <<accounts, guests, member, invites, links, req, audit>>

NoInvite == [state |-> "absent", email |-> None, role |-> None, token |-> None,
             expired |-> FALSE, acceptedBy |-> None]

NoLink == [email |-> None, role |-> None]

\* The caller is not kept: after its permission has been checked it only names the
\* author of what is written.
Free == [step |-> "free", subject |-> None, role |-> None, action |-> None]

Init ==
  /\ accounts = Admins
  /\ guests = {}
  /\ member = [e \in Emails |-> None]
  /\ invites = [i \in Invites |-> NoInvite]
  /\ links = [t \in Tokens |-> NoLink]
  /\ req = [q \in Requests |-> Free]
  /\ audit = {}

\* effective_app_permissions: owner and administrators have all, others what
\* their membership's role has.
Permissions(u) ==
  UNION {IF u \in Admins THEN Manager ELSE {},
         IF member[u] # None THEN RolePermissions[member[u]] ELSE {}}

\* require_app for a caller with a session.
Allowed(u, permission) == u \in accounts /\ permission \in Permissions(u)

At(q, step) == req[q].step = step

Leave(q) == req' = [req EXCEPT ![q] = Free]

\* The change is made: what is left is to audit it.
ToAudit(q, action, subject) ==
  req' = [req EXCEPT ![q] = [step |-> "audit", subject |-> subject, role |-> None,
                             action |-> action]]

Start(q, step, subject, role) ==
  /\ At(q, "free")
  /\ req' = [req EXCEPT ![q] = [step |-> step, subject |-> subject, role |-> role,
                                action |-> None]]
  /\ UNCHANGED <<accounts, guests, member, invites, links, audit>>

StartInvite(q, u, e, r) ==
  /\ Allowed(u, "members.manage") /\ e # u
  /\ Start(q, "access", e, r)

\* Whoever can already read the app is not invited.
CheckAccess(q) ==
  /\ At(q, "access")
  /\ IF Allowed(req[q].subject, "app.read")
     THEN Leave(q)
     ELSE req' = [req EXCEPT ![q].step = "insert"]
  /\ UNCHANGED <<accounts, guests, member, invites, links, audit>>

Pending(i, e) == invites[i].state = "pending" /\ invites[i].email = e

\* Mutant: the insert without its conflict clause.
TargetAlwaysNew(i, e) == invites[i].state = "absent"

\* The row the upsert writes: the pending one of that address, expired or not,
\* or else a new one.
Target(i, e) ==
  \/ Pending(i, e)
  \/ invites[i].state = "absent" /\ ~\E j \in Invites : Pending(j, e)

\* Mutant: renewing keeps the role of the first invitation.
WrittenKeepsRole(i, e, r, t) ==
  [state |-> "pending", email |-> e, token |-> t, expired |-> FALSE, acceptedBy |-> None,
   role |-> IF invites[i].state = "pending" THEN invites[i].role ELSE r]

\* The row after the upsert.
Written(i, e, r, t) ==
  [state |-> "pending", email |-> e, role |-> r, token |-> t,
   expired |-> FALSE, acceptedBy |-> None]

InsertInvite(q, i, t) ==
  /\ At(q, "insert") /\ Target(i, req[q].subject) /\ links[t] = NoLink
  /\ invites' = [invites EXCEPT ![i] = Written(i, req[q].subject, req[q].role, t)]
  /\ links' = [links EXCEPT ![t] = [email |-> req[q].subject, role |-> req[q].role]]
  /\ ToAudit(q, "invited", i)
  /\ UNCHANGED <<accounts, guests, member, audit>>

InviteEvents == {"invited", "accepted", "revoked"} \X (Emails \cup Invites)

\* Seven days pass.
Expire(i) ==
  /\ invites[i].state = "pending" /\ ~invites[i].expired
  /\ invites' = [invites EXCEPT ![i].expired = TRUE]
  /\ UNCHANGED <<accounts, guests, member, links, req, audit>>

\* Mutants: the invitation of another address, or one that has expired, is accepted.
UsableByAnyone(i, t, e) ==
  invites[i].token = t /\ invites[i].state = "pending" /\ ~invites[i].expired

UsableForEver(i, t, e) ==
  invites[i].token = t /\ invites[i].state = "pending" /\ invites[i].email = e

\* The invitation that user e accepts with link t.
Usable(i, t, e) ==
  /\ invites[i].token = t /\ invites[i].state = "pending" /\ ~invites[i].expired
  /\ invites[i].email = e

\* accept_invitation_in_transaction.
TakeSeat(i, e) ==
  /\ guests' = guests \cup ({e} \ Admins)
  /\ member' = [member EXCEPT ![e] = invites[i].role]
  /\ invites' = [invites EXCEPT ![i].state = "accepted", ![i].acceptedBy = e]
  /\ UNCHANGED links

Accept(q, u, i, t) ==
  /\ At(q, "free") /\ u \in accounts /\ Usable(i, t, u)
  /\ TakeSeat(i, u)
  /\ req' = [req EXCEPT ![q].step = "reread", ![q].subject = u]
  /\ UNCHANGED <<accounts, audit>>

\* The answer names the app, read again after the commit: not found if the
\* member has been removed meanwhile.
Reread(q) ==
  /\ At(q, "reread")
  /\ IF Allowed(req[q].subject, "app.read")
     THEN ToAudit(q, "accepted", req[q].subject)
     ELSE Leave(q)
  /\ UNCHANGED <<accounts, guests, member, invites, links, audit>>

RegisterInvited(e, i, t) ==
  /\ Registration # "closed" /\ e \notin accounts /\ Usable(i, t, e)
  /\ accounts' = accounts \cup {e}
  /\ TakeSeat(i, e)
  /\ UNCHANGED <<req, audit>>

Register(e) ==
  /\ Registration = "open" /\ e \notin accounts
  /\ accounts' = accounts \cup {e}
  /\ UNCHANGED <<guests, member, invites, links, req, audit>>

\* ensure_manageable_app_member only reads what never changes.
StartMember(q, u, step, e, r) ==
  /\ Allowed(u, "members.manage") /\ e \notin Admins
  /\ Start(q, step, e, r)

\* Mutant: the role is stored under the name shown for administrators.
ChangeRoleUnchecked(q) ==
  /\ At(q, "role") /\ member[req[q].subject] # None
  /\ member' = [member EXCEPT ![req[q].subject] = "workspace_admin"]
  /\ ToAudit(q, "role_changed", req[q].subject)
  /\ UNCHANGED <<accounts, guests, invites, links, audit>>

ChangeRole(q) ==
  /\ At(q, "role")
  /\ IF member[req[q].subject] = None
     THEN Leave(q) /\ UNCHANGED member
     ELSE /\ member' = [member EXCEPT ![req[q].subject] = req[q].role]
          /\ ToAudit(q, "role_changed", req[q].subject)
  /\ UNCHANGED <<accounts, guests, invites, links, audit>>

Remove(q) ==
  /\ At(q, "remove")
  /\ IF member[req[q].subject] = None
     THEN Leave(q) /\ UNCHANGED member
     ELSE /\ member' = [member EXCEPT ![req[q].subject] = None]
          /\ ToAudit(q, "removed", req[q].subject)
  /\ UNCHANGED <<accounts, guests, invites, links, audit>>

StartRevoke(q, u, i) ==
  /\ Allowed(u, "members.manage") /\ invites[i].state # "absent"
  /\ Start(q, "revoke", i, None)

\* Mutants: the update revokes an accepted invitation too, or the number of rows it
\* changed is not looked at.
RevokeAny(q) ==
  /\ At(q, "revoke")
  /\ invites' = [invites EXCEPT ![req[q].subject].state = "revoked"]
  /\ ToAudit(q, "revoked", req[q].subject)
  /\ UNCHANGED <<accounts, guests, member, links, audit>>

RevokeBlindly(q) ==
  /\ At(q, "revoke")
  /\ IF invites[req[q].subject].state = "pending"
     THEN invites' = [invites EXCEPT ![req[q].subject].state = "revoked"]
     ELSE UNCHANGED invites
  /\ ToAudit(q, "revoked", req[q].subject)
  /\ UNCHANGED <<accounts, guests, member, links, audit>>

Revoke(q) ==
  /\ At(q, "revoke")
  /\ IF invites[req[q].subject].state = "pending"
     THEN /\ invites' = [invites EXCEPT ![req[q].subject].state = "revoked"]
          /\ ToAudit(q, "revoked", req[q].subject)
     ELSE Leave(q) /\ UNCHANGED invites
  /\ UNCHANGED <<accounts, guests, member, links, audit>>

Audit(q) ==
  /\ At(q, "audit")
  /\ audit' = audit \cup ({<<req[q].action, req[q].subject>>} \cap InviteEvents)
  /\ Leave(q)
  /\ UNCHANGED <<accounts, guests, member, invites, links>>

\* The client disconnects, the process dies or a statement fails.
Lose(q) ==
  /\ req[q].step # "free"
  /\ Leave(q)
  /\ UNCHANGED <<accounts, guests, member, invites, links, audit>>

Step(q) ==
  \/ CheckAccess(q) \/ Reread(q) \/ ChangeRole(q) \/ Remove(q) \/ Revoke(q) \/ Audit(q) \/ Lose(q)
  \/ \E i \in Invites, t \in Tokens : InsertInvite(q, i, t)

Call(q, u) ==
  \/ \E e \in Emails, r \in Offered : StartInvite(q, u, e, r)
  \/ \E e \in Emails, r \in Offered : StartMember(q, u, "role", e, r)
  \/ \E e \in Emails : StartMember(q, u, "remove", e, None)
  \/ \E i \in Invites : StartRevoke(q, u, i)
  \/ \E i \in Invites, t \in Tokens : Accept(q, u, i, t)

Next ==
  \/ \E q \in Requests : Step(q)
  \/ \E q \in Requests, u \in Emails : Call(q, u)
  \/ \E i \in Invites : Expire(i)
  \/ \E e \in Emails : Register(e)
  \/ \E e \in Emails, i \in Invites, t \in Tokens : RegisterInvited(e, i, t)

Spec == Init /\ [][Next]_vars

Members == {e \in Emails : member[e] # None}

Requested == [step : {"free", "access", "insert", "role", "remove", "revoke", "reread", "audit"},
              subject : Emails \cup Invites \cup {None},
              role : Roles \cup {None},
              action : {"invited", "accepted", "role_changed", "removed", "revoked", None}]

\* The types of all variables; a role is one that migration 5 inserts.
TypeOK ==
  /\ accounts \subseteq Emails /\ guests \subseteq Emails
  /\ member \in [Emails -> Roles \cup {None}]
  /\ invites \in [Invites -> [state : {"absent", "pending", "accepted", "revoked"},
                              email : Emails \cup {None}, role : Roles \cup {None},
                              token : Tokens \cup {None}, expired : BOOLEAN,
                              acceptedBy : Emails \cup {None}]]
  /\ links \in [Tokens -> [email : Emails \cup {None}, role : Roles \cup {None}]]
  /\ req \in [Requests -> Requested]
  /\ audit \subseteq InviteEvents

\* Whoever has a membership is a registered guest, no administrator, and has
\* accepted an invitation to that very address, whatever invitations, renewals,
\* revocations, changes and removals overlapped.
MembersWereInvited ==
  \A e \in Members :
    /\ e \in accounts /\ e \in guests /\ e \notin Admins
    /\ \E i \in Invites : invites[i].acceptedBy = e /\ invites[i].email = e

\* No address has two pending invitations (the partial unique index), also when
\* two managers invite it at once or renew an expired invitation.
OnePendingPerEmail ==
  \A i, j \in Invites :
    invites[i].state = "pending" /\ invites[j].state = "pending"
      /\ invites[i].email = invites[j].email => i = j

\* A link that still opens an invitation offers what it offered when it was handed
\* out: renewing an invitation with another role also replaces its token, so no
\* one accepts a role other than the one that was shown, and no two open
\* invitations share a link.
LinkKeepsItsOffer ==
  \A i \in Invites : invites[i].state # "absent" =>
    /\ links[invites[i].token] = [email |-> invites[i].email, role |-> invites[i].role]
    /\ \A j \in Invites \ {i} : invites[j].token # invites[i].token

\* The audit trail tells only what happened: a revocation or an acceptance that
\* lost a race with its counterpart leaves no trace.
AuditIsTrue ==
  /\ \A i \in Invites : <<"revoked", i>> \in audit => invites[i].state = "revoked"
  /\ \A i \in Invites : <<"invited", i>> \in audit => invites[i].state # "absent"
  /\ \A e \in Emails : <<"accepted", e>> \in audit =>
       e \in accounts /\ \E i \in Invites : invites[i].acceptedBy = e

\* Access begins only with an invitation: a user gains a membership in the step
\* that turns a pending, unexpired invitation to this address into an accepted
\* one, with its role.
AccessBeginsByInvitation ==
  [][\A e \in Emails : member[e] = None /\ member'[e] # None =>
       \E i \in Invites :
         /\ invites[i].state = "pending" /\ ~invites[i].expired /\ invites[i].email = e
         /\ invites'[i].state = "accepted" /\ member'[e] = invites[i].role]_vars

\* An accepted or revoked invitation is never changed, so revoking and accepting
\* exclude each other and an invitation serves once.
OutcomeIsFinal ==
  [][\A i \in Invites :
       invites[i].state \in {"accepted", "revoked"} => invites'[i] = invites[i]]_vars

\* What the tables of an app offer each address: the rows of its pending invitations, of
\* which OnePendingPerEmail leaves one.
OpenOffers ==
  [e \in Emails |-> {[role |-> invites[i].role, link |-> invites[i].token,
                      lapsed |-> invites[i].expired] : i \in {j \in Invites : Pending(j, e)}}]

Issued == {t \in Tokens : links[t] # NoLink}

Shared == INSTANCE Membership
  WITH People <- Emails, Links <- Tokens, NoRole <- None,
       seat <- member, offer <- OpenOffers, issued <- Issued

\* Invitations keep the promise of Membership: with concurrent inviters, renewals,
\* revocations, acceptances and registrations, a seat begins only by taking the one
\* open, unexpired offer to this address, with its role, and a spent link stays spent.
ImplementsMembership == Shared!Spec

\* docs/authentication.md:123: changes to membership and invitations create audit
\* rows.  While no request runs, every revoked or written invitation and every
\* acceptance has its row.
ChangesAreAudited ==
  (\A q \in Requests : At(q, "free")) =>
    \A i \in Invites : invites[i].state # "absent" =>
      /\ <<"invited", i>> \in audit
      /\ invites[i].state = "revoked" => <<"revoked", i>> \in audit

=============================================================================
