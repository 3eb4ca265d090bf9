--------------------------- MODULE AppAccessProofs ---------------------------
(***************************************************************************)
(* Theorems about AppAccess, for any users, administrators, requests,      *)
(* invitations and links, and every registration mode.                     *)
(***************************************************************************)
EXTENDS AppAccess, TLAPS

USE AccessAssumption

\* What an audit row, written or about to be written, says.
Happened(action, s) ==
  /\ action = "revoked" => s \in Invites /\ invites[s].state = "revoked"
  /\ action = "invited" => s \in Invites /\ invites[s].state # "absent"
  /\ action = "accepted" => s \in accounts /\ \E i \in Invites : invites[i].acceptedBy = s

\* What the locals of a request say at each step.
Fits(row) ==
  /\ row.step \in {"access", "insert", "role"} => row.subject \in Emails /\ row.role \in Roles
  /\ row.step = "insert" => row.subject \notin Admins
  /\ row.step = "remove" => row.subject \in Emails
  /\ row.step = "revoke" => row.subject \in Invites
  /\ row.step = "reread" => Happened("accepted", row.subject)
  /\ row.step = "audit" => Happened(row.action, row.subject)

RequestsFit == \A q \in Requests : Fits(req[q])

\* An invitation that exists is complete and addressed to somebody who is no
\* administrator; one that has been taken is accepted.
InvitesFit ==
  \A i \in Invites :
    /\ invites[i].state # "absent" =>
         /\ invites[i].email \in Emails \ Admins
         /\ invites[i].role \in Roles /\ invites[i].token \in Tokens
    /\ invites[i].state = "absent" => invites[i].token = None
    /\ invites[i].acceptedBy # None => invites[i].state = "accepted"

\* The part of the inductive invariant that requests do not appear in, and the whole.
Rows ==
  /\ Admins \subseteq accounts
  /\ InvitesFit /\ MembersWereInvited /\ OnePendingPerEmail /\ LinkKeepsItsOffer

IInv == TypeOK /\ Rows /\ RequestsFit /\ AuditIsTrue

\* The direction in which the tables move.
Progress ==
  /\ accounts \subseteq accounts'
  /\ \A i \in Invites :
       /\ invites[i].state \in {"accepted", "revoked"} => invites'[i] = invites[i]
       /\ invites[i].state # "absent" => invites'[i].state # "absent"

InviteType == [state : {"absent", "pending", "accepted", "revoked"},
               email : Emails \cup {None}, role : Roles \cup {None}, token : Tokens \cup {None},
               expired : BOOLEAN, acceptedBy : Emails \cup {None}]

\* TypeOK without the requests and the trail.
TablesOK ==
  /\ accounts \subseteq Emails /\ guests \subseteq Emails
  /\ member \in [Emails -> Roles \cup {None}]
  /\ invites \in [Invites -> InviteType]
  /\ links \in [Tokens -> [email : Emails \cup {None}, role : Roles \cup {None}]]

tables == <<accounts, guests, member, invites, links>>

-----------------------------------------------------------------------------
\* The tables, action by action.

\* The invariant holds before the first request.
THEOREM InitIInv == Init => IInv
<1> SUFFICES ASSUME Init PROVE IInv OBVIOUS
<1>1. TypeOK
  BY DEF Init, TypeOK, NoInvite, NoLink, Free, Requested
<1>2. Rows
  BY DEF Init, Rows, InvitesFit, MembersWereInvited, Members, OnePendingPerEmail,
         LinkKeepsItsOffer, NoInvite
<1>3. RequestsFit /\ AuditIsTrue
  BY DEF Init, RequestsFit, Fits, Free, AuditIsTrue
<1> QED BY <1>1, <1>2, <1>3 DEF IInv

\* Steps that write no table.
LEMMA SameTables ==
  ASSUME IInv, UNCHANGED tables
  PROVE  TablesOK' /\ Rows' /\ Progress
<1>1. TablesOK'
  BY DEF IInv, TypeOK, TablesOK, InviteType, tables
<1>2. Rows'
  BY DEF IInv, Rows, InvitesFit, MembersWereInvited, Members, OnePendingPerEmail,
         LinkKeepsItsOffer, tables
<1>3. Progress
  BY DEF Progress, tables
<1> QED BY <1>1, <1>2, <1>3

\* A new or renewed invitation: its link is fresh, so no other row has it.
LEMMA WrittenRow ==
  ASSUME IInv, NEW q \in Requests, NEW i \in Invites, NEW t \in Tokens, InsertInvite(q, i, t)
  PROVE  TablesOK' /\ Rows' /\ Progress
<1> DEFINE e == req[q].subject
           r == req[q].role
<1>1. e \in Emails \ Admins /\ r \in Roles
  BY DEF IInv, RequestsFit, Fits, InsertInvite, At
<1>2. /\ invites' = [invites EXCEPT ![i] = Written(i, e, r, t)]
      /\ links' = [links EXCEPT ![t] = [email |-> e, role |-> r]]
      /\ links[t] = NoLink /\ Target(i, e)
      /\ UNCHANGED <<accounts, guests, member>>
  BY DEF InsertInvite
<1> HIDE DEF e, r
<1>3. TablesOK'
  BY <1>1, <1>2 DEF IInv, TypeOK, TablesOK, InviteType, Written
<1>4. /\ invites'[i] = Written(i, e, r, t)
      /\ \A j \in Invites \ {i} : invites'[j] = invites[j]
      /\ links'[t] = [email |-> e, role |-> r]
      /\ \A u \in Tokens \ {t} : links'[u] = links[u]
  BY <1>2 DEF IInv, TypeOK
<1>5. invites[i].state \in {"absent", "pending"} /\ invites[i].acceptedBy = None
  BY <1>2 DEF Target, Pending, IInv, Rows, InvitesFit
<1>6. InvitesFit'
  BY <1>1, <1>4 DEF InvitesFit, IInv, Rows, Written
<1>7. MembersWereInvited'
  <2>1. \A j \in Invites : invites[j].acceptedBy # None => j # i /\ invites'[j] = invites[j]
    BY <1>4, <1>5
  <2> QED BY <1>2, <2>1 DEF MembersWereInvited, Members, IInv, Rows
<1>8. OnePendingPerEmail'
  <2>1. ASSUME NEW j \in Invites \ {i}, invites[j].state = "pending" PROVE invites[j].email # e
    BY <2>1, <1>2 DEF Target, Pending, IInv, Rows, OnePendingPerEmail
  <2> QED BY <2>1, <1>4 DEF OnePendingPerEmail, IInv, Rows, Written
<1>9. LinkKeepsItsOffer'
  <2>1. ASSUME NEW j \in Invites \ {i}, invites[j].state # "absent" PROVE invites[j].token \in Tokens \ {t}
    <3>1. invites[j].token \in Tokens /\ invites[j].email \in Emails
          /\ links[invites[j].token] = [email |-> invites[j].email, role |-> invites[j].role]
      BY <2>1 DEF IInv, Rows, InvitesFit, LinkKeepsItsOffer
    <3>2. links[invites[j].token].email # NoLink.email
      BY <3>1 DEF NoLink
    <3> QED BY <1>2, <3>1, <3>2
  <2>2. ASSUME NEW j \in Invites \ {i}, invites'[j].state # "absent"
        PROVE  /\ links'[invites'[j].token] = [email |-> invites'[j].email, role |-> invites'[j].role]
               /\ \A k \in Invites \ {j} : invites'[k].token # invites'[j].token
    <3>1. invites'[j] = invites[j] /\ invites[j].state # "absent"
      BY <1>4, <2>2
    <3>2. /\ links[invites[j].token] = [email |-> invites[j].email, role |-> invites[j].role]
          /\ \A k \in Invites \ {j} : invites[k].token # invites[j].token
      BY <3>1 DEF IInv, Rows, LinkKeepsItsOffer
    <3>3. links'[invites[j].token] = links[invites[j].token]
      BY <1>4, <2>1, <3>1
    <3>4. invites'[i].token = t /\ invites[j].token # t
      BY <1>4, <2>1, <3>1 DEF Written
    <3> QED BY <1>4, <3>1, <3>2, <3>3, <3>4
  <2>3. /\ links'[invites'[i].token] = [email |-> invites'[i].email, role |-> invites'[i].role]
        /\ invites'[i].token = t
    BY <1>4 DEF Written
  <2>4. \A k \in Invites \ {i} : invites'[k].token # t
    <3> SUFFICES ASSUME NEW k \in Invites \ {i}, invites[k].token = t PROVE FALSE
      BY <1>4
    <3>1. invites[k].state = "absent"
      BY <2>1
    <3> QED BY <3>1 DEF IInv, Rows, InvitesFit
  <2> QED BY <2>2, <2>3, <2>4 DEF LinkKeepsItsOffer
<1>10. Progress
  BY <1>2, <1>4, <1>5 DEF Progress, Written
<1> QED BY <1>1, <1>2, <1>3, <1>6, <1>7, <1>8, <1>9, <1>10 DEF Rows, IInv

LEMMA InviteRow ==
  ASSUME IInv, NEW i \in Invites
  PROVE  invites[i] \in InviteType
  BY DEF IInv, TypeOK, InviteType

\* One field of an invitation changes, none of those that other invitations see.
LEMMA ExpiredOrRevokedRow ==
  ASSUME IInv, NEW i \in Invites, NEW row,
         invites[i].state = "pending",
         row \in InviteType, row.state \in {"pending", "revoked"},
         row.email = invites[i].email, row.role = invites[i].role,
         row.token = invites[i].token, row.acceptedBy = invites[i].acceptedBy,
         invites' = [invites EXCEPT ![i] = row],
         UNCHANGED <<accounts, guests, member, links>>
  PROVE  TablesOK' /\ Rows' /\ Progress
<1>3. TablesOK'
  BY DEF IInv, TypeOK, TablesOK, InviteType
<1>4. /\ invites'[i] = row
      /\ \A j \in Invites \ {i} : invites'[j] = invites[j]
  BY DEF IInv, TypeOK
<1>5. InvitesFit'
  BY <1>4 DEF InvitesFit, IInv, Rows
<1>6. MembersWereInvited'
  <2>1. \A j \in Invites : invites'[j].acceptedBy = invites[j].acceptedBy
                         /\ invites'[j].email = invites[j].email
    BY <1>4
  <2> QED BY <2>1 DEF MembersWereInvited, Members, IInv, Rows
<1>7. OnePendingPerEmail'
  <2>1. \A j \in Invites : /\ invites'[j].email = invites[j].email
                           /\ invites'[j].state = "pending" => invites[j].state = "pending"
    BY <1>4
  <2> QED BY <2>1 DEF OnePendingPerEmail, IInv, Rows
<1>8. LinkKeepsItsOffer'
  <2>1. \A j \in Invites : /\ invites'[j].email = invites[j].email
                           /\ invites'[j].role = invites[j].role
                           /\ invites'[j].token = invites[j].token
                           /\ invites'[j].state # "absent" => invites[j].state # "absent"
    BY <1>4
  <2> QED BY <2>1 DEF LinkKeepsItsOffer, IInv, Rows
<1>9. Progress
  BY <1>4 DEF Progress
<1> QED BY <1>3, <1>5, <1>6, <1>7, <1>8, <1>9 DEF Rows, IInv

LEMMA ExpiredRow ==
  ASSUME IInv, NEW i \in Invites, Expire(i)
  PROVE  TablesOK' /\ Rows' /\ Progress
<1> DEFINE row == [invites[i] EXCEPT !.expired = TRUE]
<1>1. /\ invites' = [invites EXCEPT ![i] = row] /\ invites[i].state = "pending"
      /\ UNCHANGED <<accounts, guests, member, links>>
  BY DEF Expire, IInv, TypeOK
<1>2. /\ row \in InviteType /\ row.state = "pending"
      /\ row.email = invites[i].email /\ row.role = invites[i].role
      /\ row.token = invites[i].token /\ row.acceptedBy = invites[i].acceptedBy
  BY <1>1, InviteRow DEF InviteType
<1> HIDE DEF row
<1> QED BY <1>1, <1>2, ExpiredOrRevokedRow

LEMMA RevokedRow ==
  ASSUME IInv, NEW q \in Requests, Revoke(q)
  PROVE  TablesOK' /\ Rows' /\ Progress
<1> DEFINE i == req[q].subject
           row == [invites[i] EXCEPT !.state = "revoked"]
<1>1. i \in Invites
  BY DEF IInv, RequestsFit, Fits, Revoke, At
<1>2. CASE invites[i].state = "pending"
  <2>1. invites' = [invites EXCEPT ![i] = row] /\ UNCHANGED <<accounts, guests, member, links>>
    BY <1>1, <1>2 DEF Revoke, IInv, TypeOK
  <2>2. /\ row \in InviteType /\ row.state = "revoked"
        /\ row.email = invites[i].email /\ row.role = invites[i].role
        /\ row.token = invites[i].token /\ row.acceptedBy = invites[i].acceptedBy
    BY <1>1, InviteRow DEF InviteType
  <2> HIDE DEF i, row
  <2> QED BY <1>1, <1>2, <2>1, <2>2, ExpiredOrRevokedRow
<1>3. CASE invites[i].state # "pending"
  BY <1>3, SameTables DEF Revoke, tables
<1> QED BY <1>2, <1>3

\* A seat is taken by a user who is, or becomes in the same transaction, registered.
LEMMA TakenSeat ==
  ASSUME IInv, NEW i \in Invites, NEW t \in Tokens, NEW e \in Emails,
         Usable(i, t, e), TakeSeat(i, e), e \in accounts', accounts \subseteq accounts',
         accounts' \subseteq Emails
  PROVE  TablesOK' /\ Rows' /\ Progress
<1> DEFINE row == [invites[i] EXCEPT !.state = "accepted", !.acceptedBy = e]
<1>1. /\ invites[i].state = "pending" /\ invites[i].email = e /\ invites[i].acceptedBy = None
      /\ e \notin Admins /\ invites[i].role \in Roles
  BY DEF Usable, IInv, Rows, InvitesFit
<1>2. /\ invites' = [invites EXCEPT ![i] = row]
      /\ guests' = guests \cup ({e} \ Admins)
      /\ member' = [member EXCEPT ![e] = invites[i].role]
      /\ UNCHANGED links
  BY DEF TakeSeat, IInv, TypeOK
<1>3. /\ row \in InviteType
      /\ row.email = invites[i].email /\ row.role = invites[i].role
      /\ row.token = invites[i].token /\ row.acceptedBy = e /\ row.state = "accepted"
  BY InviteRow DEF InviteType
<1> HIDE DEF row
<1>4. TablesOK'
  BY <1>2, <1>3 DEF IInv, TypeOK, TablesOK, InviteType
<1>5. /\ invites'[i] = row
      /\ \A j \in Invites \ {i} : invites'[j] = invites[j]
      /\ member'[e] = invites[i].role
      /\ \A f \in Emails \ {e} : member'[f] = member[f]
  BY <1>2 DEF IInv, TypeOK
<1>6. InvitesFit'
  BY <1>1, <1>3, <1>5 DEF InvitesFit, IInv, Rows
<1>7. MembersWereInvited'
  <2>1. ASSUME NEW f \in Members', f # e
        PROVE  f \in accounts' /\ f \in guests' /\ f \notin Admins
               /\ \E j \in Invites : invites'[j].acceptedBy = f /\ invites'[j].email = f
    <3>1. f \in Members
      BY <1>5, <2>1 DEF Members
    <3>2. PICK j \in Invites : invites[j].acceptedBy = f /\ invites[j].email = f
      BY <3>1 DEF IInv, Rows, MembersWereInvited
    <3>3. f # None
      BY <2>1 DEF Members
    <3>4. invites'[j] = invites[j]
      BY <1>1, <1>5, <3>2, <3>3
    <3> QED BY <1>2, <3>1, <3>2, <3>4 DEF IInv, Rows, MembersWereInvited
  <2>2. e \in accounts' /\ e \in guests' /\ e \notin Admins
        /\ invites'[i].acceptedBy = e /\ invites'[i].email = e
    BY <1>1, <1>2, <1>3, <1>5
  <2> QED BY <2>1, <2>2 DEF MembersWereInvited, Members
<1>8. OnePendingPerEmail'
  BY <1>3, <1>5 DEF OnePendingPerEmail, IInv, Rows
<1>9. LinkKeepsItsOffer'
  <2>1. \A j \in Invites : /\ invites'[j].email = invites[j].email
                           /\ invites'[j].role = invites[j].role
                           /\ invites'[j].token = invites[j].token
                           /\ invites'[j].state # "absent" => invites[j].state # "absent"
    BY <1>1, <1>3, <1>5
  <2>2. LinkKeepsItsOffer /\ links' = links
    BY <1>2 DEF IInv, Rows
  <2> QED BY <2>1, <2>2 DEF LinkKeepsItsOffer
<1>10. Progress
  BY <1>1, <1>3, <1>5 DEF Progress
<1>11. (Admins \subseteq accounts)'
  BY DEF IInv, Rows
<1> QED BY <1>4, <1>6, <1>7, <1>8, <1>9, <1>10, <1>11 DEF Rows

LEMMA NewAccount ==
  ASSUME IInv, NEW e \in Emails, Register(e)
  PROVE  TablesOK' /\ Rows' /\ Progress
<1>1. accounts' = accounts \cup {e} /\ UNCHANGED <<guests, member, invites, links>>
  BY DEF Register
<1>2. TablesOK'
  BY <1>1 DEF IInv, TypeOK, TablesOK, InviteType
<1>3. Rows'
  BY <1>1 DEF IInv, Rows, InvitesFit, MembersWereInvited, Members, OnePendingPerEmail,
              LinkKeepsItsOffer
<1>4. Progress
  BY <1>1 DEF Progress
<1> QED BY <1>2, <1>3, <1>4

\* A membership is changed or ended, never begun, by these.
LEMMA ManagedMember ==
  ASSUME IInv, NEW e \in Emails, NEW r \in Roles \cup {None}, member[e] # None,
         member' = [member EXCEPT ![e] = r], UNCHANGED <<accounts, guests, invites, links>>
  PROVE  TablesOK' /\ Rows' /\ Progress
<1>1. TablesOK'
  BY DEF IInv, TypeOK, TablesOK, InviteType
<1>2. Members' \subseteq Members
  BY DEF IInv, TypeOK, Members
<1>3. Rows'
  BY <1>2 DEF IInv, Rows, InvitesFit, MembersWereInvited, OnePendingPerEmail, LinkKeepsItsOffer
<1>4. Progress
  BY DEF Progress
<1> QED BY <1>1, <1>3, <1>4

-----------------------------------------------------------------------------
\* The requests, and the trail.

LEMMA TypeParts == TypeOK <=> TablesOK /\ req \in [Requests -> Requested] /\ audit \subseteq InviteEvents
  BY DEF TypeOK, TablesOK, InviteType

LEMMA HappenedStays ==
  ASSUME IInv, Progress, NEW a, NEW s, Happened(a, s)
  PROVE  Happened(a, s)'
<1>1. a = "accepted" => (\E i \in Invites : invites[i].acceptedBy = s)'
  <2> SUFFICES ASSUME a = "accepted" PROVE \E i \in Invites : invites'[i].acceptedBy = s
    OBVIOUS
  <2>1. s \in Emails
    BY DEF Happened, IInv, TypeOK
  <2>2. PICK i \in Invites : invites[i].acceptedBy = s
    BY DEF Happened
  <2>3. invites'[i] = invites[i]
    BY <2>1, <2>2 DEF IInv, Rows, InvitesFit, Progress
  <2> QED BY <2>2, <2>3
<1>2. a = "revoked" => s \in Invites /\ invites'[s].state = "revoked"
  BY DEF Happened, Progress
<1> QED BY <1>1, <1>2 DEF Happened, Progress

LEMMA FitsStays ==
  ASSUME IInv, Progress, NEW row, Fits(row)
  PROVE  Fits(row)'
<1>1. \A a, s : Happened(a, s) => Happened(a, s)'
  BY HappenedStays
<1> QED BY <1>1 DEF Fits

\* A request gets a new row that fits, and the others keep theirs.
LEMMA NewLocals ==
  ASSUME IInv, Progress, NEW q \in Requests, NEW row \in Requested,
         req' = [req EXCEPT ![q] = row], Fits(row)'
  PROVE  req' \in [Requests -> Requested] /\ RequestsFit'
<1>1. req \in [Requests -> Requested]
  BY DEF IInv, TypeOK
<1>2. req'[q] = row /\ \A p \in Requests \ {q} : req'[p] = req[p]
  BY <1>1
<1>3. \A p \in Requests : Fits(req[p])'
  <2>1. ASSUME NEW p \in Requests \ {q} PROVE Fits(req[p])'
    <3>1. PICK locals : locals = req[p] /\ locals = req'[p]
      BY <1>2
    <3>2. Fits(locals)
      BY <3>1 DEF IInv, RequestsFit
    <3>3. Fits(locals)'
      BY <3>2, FitsStays
    <3> QED BY <3>1, <3>3 DEF Fits, Happened
  <2>2. Fits(req[q])'
    BY <1>2 DEF Fits, Happened
  <2> QED BY <2>1, <2>2
<1> QED BY <1>1, <1>3 DEF RequestsFit
\* The rows that requests get.
LEMMA FreeRow == Free \in Requested /\ Fits(Free) /\ Fits(Free)'
  BY DEF Free, Requested, Fits

LEMMA Left ==
  ASSUME IInv, Progress, NEW q \in Requests, Leave(q)
  PROVE  req' \in [Requests -> Requested] /\ RequestsFit'
  BY FreeRow, NewLocals DEF Leave

LEMMA Noted ==
  ASSUME IInv, Progress, NEW q \in Requests,
         NEW a \in {"invited", "accepted", "role_changed", "removed", "revoked"},
         NEW s \in Emails \cup Invites, Happened(a, s)', ToAudit(q, a, s)
  PROVE  req' \in [Requests -> Requested] /\ RequestsFit'
<1> DEFINE row == [step |-> "audit", subject |-> s, role |-> None, action |-> a]
<1>1. row \in Requested
  BY DEF Requested
<1>2. req' = [req EXCEPT ![q] = row]
  BY DEF ToAudit
<1>3. Fits(row)'
  BY DEF Fits
<1> HIDE DEF row
<1> QED BY <1>1, <1>2, <1>3, NewLocals

LEMMA Started ==
  ASSUME IInv, Progress, NEW q \in Requests, NEW step \in {"access", "role", "remove", "revoke"},
         NEW s \in Emails \cup Invites, NEW r \in Roles \cup {None},
         step = "revoke" => s \in Invites,
         step # "revoke" => s \in Emails,
         step \in {"access", "role"} => r \in Roles,
         Start(q, step, s, r)
  PROVE  req' \in [Requests -> Requested] /\ RequestsFit'
<1> DEFINE row == [step |-> step, subject |-> s, role |-> r, action |-> None]
<1>1. row \in Requested /\ req' = [req EXCEPT ![q] = row]
  BY DEF Requested, Start
<1>2. Fits(row)'
  BY DEF Fits
<1> HIDE DEF row
<1> QED BY <1>1, <1>2, NewLocals

\* What a step has to show for the invariant, once its tables are done.
LEMMA Assembled ==
  ASSUME IInv, TablesOK', Rows', Progress, req' \in [Requests -> Requested], RequestsFit',
         UNCHANGED audit
  PROVE  IInv'
<1>1. TypeOK'
  BY DEF IInv, TypeOK, TablesOK, InviteType
<1>2. AuditIsTrue'
  <2>1. \A a, s : Happened(a, s) => Happened(a, s)'
    BY HappenedStays
  <2>2. \A a, s : <<a, s>> \in audit /\ (a \in {"revoked", "invited"} => s \in Invites)
                   /\ (a = "accepted" => s \in Emails) => Happened(a, s)
    BY DEF IInv, AuditIsTrue, Happened
  <2>3. /\ \A i \in Invites : <<"revoked", i>> \in audit => Happened("revoked", i)'
        /\ \A i \in Invites : <<"invited", i>> \in audit => Happened("invited", i)'
        /\ \A e \in Emails : <<"accepted", e>> \in audit => Happened("accepted", e)'
    BY <2>1, <2>2
  <2> QED BY <2>3 DEF AuditIsTrue, Happened
<1> QED BY <1>1, <1>2 DEF IInv

\* Every action keeps the invariant and moves the tables forward only.
LEMMA CallKeeps ==
  ASSUME IInv, NEW q \in Requests, NEW u \in Emails, Call(q, u)
  PROVE  IInv' /\ Progress
<1>1. CASE \E e \in Emails, r \in Offered : StartInvite(q, u, e, r)
  <2>1. PICK e \in Emails, r \in Offered : StartInvite(q, u, e, r)
    BY <1>1
  <2>2. Start(q, "access", e, r) /\ UNCHANGED tables /\ UNCHANGED audit
    BY <2>1 DEF StartInvite, Start, tables
  <2> QED BY <2>2, SameTables, Started, Assembled
<1>2. CASE \E e \in Emails, r \in Offered : StartMember(q, u, "role", e, r)
  <2>1. PICK e \in Emails, r \in Offered : StartMember(q, u, "role", e, r)
    BY <1>2
  <2>2. Start(q, "role", e, r) /\ UNCHANGED tables /\ UNCHANGED audit
    BY <2>1 DEF StartMember, Start, tables
  <2> QED BY <2>2, SameTables, Started, Assembled
<1>3. CASE \E e \in Emails : StartMember(q, u, "remove", e, None)
  <2>1. PICK e \in Emails : StartMember(q, u, "remove", e, None)
    BY <1>3
  <2>2. Start(q, "remove", e, None) /\ UNCHANGED tables /\ UNCHANGED audit
    BY <2>1 DEF StartMember, Start, tables
  <2> QED BY <2>2, SameTables, Started, Assembled
<1>4. CASE \E i \in Invites : StartRevoke(q, u, i)
  <2>1. PICK i \in Invites : StartRevoke(q, u, i)
    BY <1>4
  <2>2. Start(q, "revoke", i, None) /\ UNCHANGED tables /\ UNCHANGED audit
    BY <2>1 DEF StartRevoke, Start, tables
  <2> QED BY <2>2, SameTables, Started, Assembled
<1>5. CASE \E i \in Invites, t \in Tokens : Accept(q, u, i, t)
  <2>1. PICK i \in Invites, t \in Tokens : Accept(q, u, i, t)
    BY <1>5
  <2>2. /\ Usable(i, t, u) /\ TakeSeat(i, u) /\ u \in accounts /\ UNCHANGED <<accounts, audit>>
        /\ req' = [req EXCEPT ![q].step = "reread", ![q].subject = u]
    BY <2>1 DEF Accept
  <2>3. TablesOK' /\ Rows' /\ Progress
    <3>1. u \in accounts' /\ accounts \subseteq accounts' /\ accounts' \subseteq Emails
      BY <2>2 DEF IInv, TypeOK
    <3> QED BY <2>2, <3>1, TakenSeat
  <2> DEFINE row == [req[q] EXCEPT !.step = "reread", !.subject = u]
  <2>4. row \in Requested /\ row.step = "reread" /\ row.subject = u
        /\ req' = [req EXCEPT ![q] = row]
    BY <2>2 DEF IInv, TypeOK, Requested
  <2> HIDE DEF row
  <2>5. Happened("accepted", u)'
    BY <2>2 DEF TakeSeat, Happened, IInv, TypeOK
  <2>6. PICK locals \in Requested : locals.step = "reread" /\ locals.subject = u
                                    /\ req' = [req EXCEPT ![q] = locals]
    BY <2>4
  <2>7. Fits(locals)'
    BY <2>5, <2>6 DEF Fits
  <2> QED BY <2>2, <2>3, <2>6, <2>7, NewLocals, Assembled
<1> QED BY <1>1, <1>2, <1>3, <1>4, <1>5 DEF Call

LEMMA StepKeeps ==
  ASSUME IInv, NEW q \in Requests, Step(q)
  PROVE  IInv' /\ Progress
<1> DEFINE s == req[q].subject
<1>1. CASE CheckAccess(q)
  <2>1. UNCHANGED tables /\ UNCHANGED audit
    BY <1>1 DEF CheckAccess, tables
  <2>2. TablesOK' /\ Rows' /\ Progress
    BY <2>1, SameTables
  <2>3. CASE Leave(q)
    BY <2>1, <2>2, <2>3, Left, Assembled
  <2>4. CASE ~Allowed(s, "app.read") /\ req' = [req EXCEPT ![q].step = "insert"]
    <3> DEFINE row == [req[q] EXCEPT !.step = "insert"]
    <3>1. /\ row \in Requested /\ row.step = "insert" /\ row.subject = s
          /\ row.role = req[q].role /\ req' = [req EXCEPT ![q] = row]
      BY <2>4 DEF IInv, TypeOK, Requested
    <3>2. s \in Emails /\ req[q].role \in Roles
      BY <1>1 DEF CheckAccess, At, IInv, RequestsFit, Fits
    <3>3. s \notin Admins
      BY <2>4, <3>2 DEF Allowed, Permissions, Manager, Editor, Analyst, Viewer, IInv, Rows
    <3> HIDE DEF row
    <3>4. PICK locals \in Requested :
             /\ locals.step = "insert" /\ locals.subject \in Emails \ Admins
             /\ locals.role \in Roles /\ req' = [req EXCEPT ![q] = locals]
      BY <3>1, <3>2, <3>3
    <3>5. Fits(locals)'
      BY <3>4 DEF Fits
    <3> QED BY <2>1, <2>2, <3>4, <3>5, NewLocals, Assembled
  <2> QED BY <1>1, <2>3, <2>4 DEF CheckAccess
<1>2. CASE Reread(q)
  <2>1. UNCHANGED tables /\ UNCHANGED audit
    BY <1>2 DEF Reread, tables
  <2>2. TablesOK' /\ Rows' /\ Progress
    BY <2>1, SameTables
  <2>3. CASE Leave(q)
    BY <2>1, <2>2, <2>3, Left, Assembled
  <2>4. CASE ToAudit(q, "accepted", s)
    <3>1. Happened("accepted", s) /\ s \in Emails
      BY <1>2 DEF Reread, At, IInv, RequestsFit, Fits, Happened, TypeOK
    <3>2. PICK e \in Emails : e = s
      BY <3>1
    <3>3. Happened("accepted", e)'
      BY <2>2, <3>1, <3>2, HappenedStays
    <3>4. ToAudit(q, "accepted", e)
      BY <2>4, <3>2
    <3> QED BY <2>1, <2>2, <3>3, <3>4, Noted, Assembled
  <2> QED BY <1>2, <2>3, <2>4 DEF Reread
<1>3. CASE ChangeRole(q)
  <2>1. s \in Emails /\ req[q].role \in Roles
    BY <1>3 DEF ChangeRole, At, IInv, RequestsFit, Fits
  <2>2. UNCHANGED <<accounts, guests, invites, links, audit>>
    BY <1>3 DEF ChangeRole
  <2>3. CASE member[s] = None
    <3>1. Leave(q) /\ UNCHANGED tables
      BY <1>3, <2>2, <2>3 DEF ChangeRole, tables
    <3> QED BY <2>2, <3>1, SameTables, Left, Assembled
  <2>4. CASE member[s] # None
    <3>1. /\ member' = [member EXCEPT ![s] = req[q].role]
          /\ ToAudit(q, "role_changed", s)
      BY <1>3, <2>4 DEF ChangeRole
    <3>2. PICK e \in Emails, r \in Roles : e = s /\ r = req[q].role
      BY <2>1
    <3>3. member[e] # None /\ member' = [member EXCEPT ![e] = r] /\ ToAudit(q, "role_changed", e)
      BY <2>4, <3>1, <3>2
    <3>4. TablesOK' /\ Rows' /\ Progress
      BY <2>2, <3>3, ManagedMember
    <3>5. Happened("role_changed", e)'
      BY DEF Happened
    <3> QED BY <2>2, <3>3, <3>4, <3>5, Noted, Assembled
  <2> QED BY <2>3, <2>4
<1>4. CASE Remove(q)
  <2>1. s \in Emails
    BY <1>4 DEF Remove, At, IInv, RequestsFit, Fits
  <2>2. UNCHANGED <<accounts, guests, invites, links, audit>>
    BY <1>4 DEF Remove
  <2>3. CASE member[s] = None
    <3>1. Leave(q) /\ UNCHANGED tables
      BY <1>4, <2>2, <2>3 DEF Remove, tables
    <3> QED BY <2>2, <3>1, SameTables, Left, Assembled
  <2>4. CASE member[s] # None
    <3>1. member' = [member EXCEPT ![s] = None] /\ ToAudit(q, "removed", s)
      BY <1>4, <2>4 DEF Remove
    <3>2. PICK e \in Emails : e = s
      BY <2>1
    <3>3. member[e] # None /\ member' = [member EXCEPT ![e] = None] /\ ToAudit(q, "removed", e)
      BY <2>4, <3>1, <3>2
    <3>4. TablesOK' /\ Rows' /\ Progress
      BY <2>2, <3>3, ManagedMember
    <3>5. Happened("removed", e)'
      BY DEF Happened
    <3> QED BY <2>2, <3>3, <3>4, <3>5, Noted, Assembled
  <2> QED BY <2>3, <2>4
<1>5. CASE Revoke(q)
  <2>1. s \in Invites
    BY <1>5 DEF Revoke, At, IInv, RequestsFit, Fits
  <2>2. TablesOK' /\ Rows' /\ Progress /\ UNCHANGED audit
    BY <1>5, RevokedRow DEF Revoke
  <2>3. CASE Leave(q)
    BY <2>2, <2>3, Left, Assembled
  <2>4. CASE invites' = [invites EXCEPT ![s].state = "revoked"] /\ ToAudit(q, "revoked", s)
    <3>1. PICK i \in Invites : i = s
      BY <2>1
    <3>2. ToAudit(q, "revoked", i) /\ invites' = [invites EXCEPT ![i].state = "revoked"]
      BY <2>4, <3>1
    <3>3. Happened("revoked", i)'
      BY <3>2, InviteRow DEF Happened, IInv, TypeOK
    <3> QED BY <2>2, <3>2, <3>3, Noted, Assembled
  <2> QED BY <1>5, <2>3, <2>4 DEF Revoke
<1>6. CASE Audit(q)
  <2>1. UNCHANGED tables /\ Leave(q)
    BY <1>6 DEF Audit, tables
  <2>2. TablesOK' /\ Rows' /\ Progress
    BY <2>1, SameTables
  <2>3. req' \in [Requests -> Requested] /\ RequestsFit'
    BY <2>1, <2>2, Left
  <2>4. Happened(req[q].action, s)
    BY <1>6 DEF Audit, At, IInv, RequestsFit, Fits
  <2>5. audit' = audit \cup ({<<req[q].action, s>>} \cap InviteEvents)
    BY <1>6 DEF Audit
  <2>6. TypeOK'
    BY <2>2, <2>3, <2>5 DEF IInv, TypeOK, TablesOK, InviteType
  <2>7. AuditIsTrue'
    <3>1. \A a, x : <<a, x>> \in audit' => <<a, x>> \in audit \/ (a = req[q].action /\ x = s)
      BY <2>5
    <3>2. \A a, x : (<<a, x>> \in audit /\ (a \in {"revoked", "invited"} => x \in Invites)
                      /\ (a = "accepted" => x \in Emails)) => Happened(a, x)
      BY DEF IInv, AuditIsTrue, Happened
    <3>3. \A a, x : (<<a, x>> \in audit' /\ (a \in {"revoked", "invited"} => x \in Invites)
                      /\ (a = "accepted" => x \in Emails)) => Happened(a, x)
      BY <2>4, <3>1, <3>2
    <3>4. \A a, x : Happened(a, x) => Happened(a, x)'
      BY <2>2, HappenedStays
    <3>5. /\ \A i \in Invites : <<"revoked", i>> \in audit' => Happened("revoked", i)'
          /\ \A i \in Invites : <<"invited", i>> \in audit' => Happened("invited", i)'
          /\ \A e \in Emails : <<"accepted", e>> \in audit' => Happened("accepted", e)'
      BY <3>3, <3>4
    <3> QED BY <3>5 DEF AuditIsTrue, Happened
  <2> QED BY <2>2, <2>3, <2>6, <2>7 DEF IInv
<1>7. CASE Lose(q)
  <2>1. UNCHANGED tables /\ UNCHANGED audit /\ Leave(q)
    BY <1>7 DEF Lose, tables
  <2> QED BY <2>1, SameTables, Left, Assembled
<1>8. CASE \E i \in Invites, t \in Tokens : InsertInvite(q, i, t)
  <2>1. PICK i \in Invites, t \in Tokens : InsertInvite(q, i, t)
    BY <1>8
  <2>2. TablesOK' /\ Rows' /\ Progress /\ UNCHANGED audit
    BY <2>1, WrittenRow DEF InsertInvite
  <2>3. ToAudit(q, "invited", i) /\ invites' = [invites EXCEPT ![i] = Written(i, s, req[q].role, t)]
    BY <2>1 DEF InsertInvite
  <2>4. Happened("invited", i)'
    BY <2>3 DEF Happened, Written, IInv, TypeOK
  <2> QED BY <2>2, <2>3, <2>4, Noted, Assembled
<1> HIDE DEF s
<1> QED BY <1>1, <1>2, <1>3, <1>4, <1>5, <1>6, <1>7, <1>8 DEF Step

LEMMA SameRequests ==
  ASSUME IInv, Progress, UNCHANGED req
  PROVE  req' \in [Requests -> Requested] /\ RequestsFit'
<1>1. ASSUME NEW q \in Requests PROVE Fits(req[q])'
  <2>1. PICK locals : locals = req[q] /\ locals = req'[q]
    OBVIOUS
  <2>2. Fits(locals)'
    BY <2>1, FitsStays DEF IInv, RequestsFit
  <2> QED BY <2>1, <2>2
<1> QED BY <1>1 DEF RequestsFit, IInv, TypeOK

LEMMA NextKeeps == IInv /\ [Next]_vars => IInv' /\ Progress
<1> SUFFICES ASSUME IInv, [Next]_vars PROVE IInv' /\ Progress OBVIOUS
<1>1. CASE \E q \in Requests : Step(q)
  BY <1>1, StepKeeps
<1>2. CASE \E q \in Requests, u \in Emails : Call(q, u)
  BY <1>2, CallKeeps
<1>3. CASE \E i \in Invites : Expire(i)
  <2>1. PICK i \in Invites : Expire(i)
    BY <1>3
  <2>2. TablesOK' /\ Rows' /\ Progress /\ UNCHANGED req /\ UNCHANGED audit
    BY <2>1, ExpiredRow DEF Expire
  <2> QED BY <2>2, SameRequests, Assembled
<1>4. CASE \E e \in Emails : Register(e)
  <2>1. PICK e \in Emails : Register(e)
    BY <1>4
  <2>2. TablesOK' /\ Rows' /\ Progress /\ UNCHANGED req /\ UNCHANGED audit
    BY <2>1, NewAccount DEF Register
  <2> QED BY <2>2, SameRequests, Assembled
<1>5. CASE \E e \in Emails, i \in Invites, t \in Tokens : RegisterInvited(e, i, t)
  <2>1. PICK e \in Emails, i \in Invites, t \in Tokens : RegisterInvited(e, i, t)
    BY <1>5
  <2>2. /\ Usable(i, t, e) /\ TakeSeat(i, e) /\ accounts' = accounts \cup {e}
        /\ UNCHANGED req /\ UNCHANGED audit
    BY <2>1 DEF RegisterInvited
  <2>3. e \in accounts' /\ accounts \subseteq accounts' /\ accounts' \subseteq Emails
    BY <2>2 DEF IInv, TypeOK
  <2>4. TablesOK' /\ Rows' /\ Progress
    BY <2>2, <2>3, TakenSeat
  <2> QED BY <2>2, <2>4, SameRequests, Assembled
<1>6. CASE UNCHANGED vars
  <2>1. UNCHANGED tables /\ UNCHANGED req /\ UNCHANGED audit
    BY <1>6 DEF vars, tables
  <2> QED BY <2>1, SameTables, SameRequests, Assembled
<1> QED BY <1>1, <1>2, <1>3, <1>4, <1>5, <1>6 DEF Next

\* IInv is an invariant of the module.
THEOREM Invariance == Spec => []IInv
<1>1. IInv /\ [Next]_vars => IInv'
  BY NextKeeps
<1> QED BY <1>1, InitIInv, PTL DEF Spec

-----------------------------------------------------------------------------
\* Access begins only in a step that takes a seat.
LEMMA SeatBegins ==
  ASSUME IInv, NEW i \in Invites, NEW t \in Tokens, NEW u \in Emails, NEW e \in Emails,
         Usable(i, t, u), TakeSeat(i, u), member[e] = None, member'[e] # None
  PROVE  /\ invites[i].state = "pending" /\ ~invites[i].expired /\ invites[i].email = e
         /\ invites'[i].state = "accepted" /\ member'[e] = invites[i].role
<1>1. e = u
  BY DEF TakeSeat, IInv, TypeOK
<1>2. invites[i].state = "pending" /\ ~invites[i].expired /\ invites[i].email = u
  BY DEF Usable
<1>3. invites'[i].state = "accepted" /\ member'[u] = invites[i].role
  BY InviteRow DEF TakeSeat, IInv, TypeOK
<1> QED BY <1>1, <1>2, <1>3

LEMMA MembersKept ==
  ASSUME IInv, NEW q \in Requests, Step(q), NEW e \in Emails, member[e] = None
  PROVE  member'[e] = None
<1>1. CASE ChangeRole(q)
  BY <1>1 DEF ChangeRole, At, IInv, TypeOK, RequestsFit, Fits
<1>2. CASE Remove(q)
  BY <1>2 DEF Remove, At, IInv, TypeOK, RequestsFit, Fits
<1>3. CASE UNCHANGED member
  BY <1>3
<1> QED BY <1>1, <1>2, <1>3
        DEF Step, CheckAccess, Reread, Revoke, Audit, Lose, InsertInvite

LEMMA GrantStep ==
  ASSUME IInv, [Next]_vars, NEW e \in Emails, member[e] = None, member'[e] # None
  PROVE  \E i \in Invites :
           /\ invites[i].state = "pending" /\ ~invites[i].expired /\ invites[i].email = e
           /\ invites'[i].state = "accepted" /\ member'[e] = invites[i].role
<1>1. CASE \E q \in Requests : Step(q)
  BY <1>1, MembersKept
<1>2. CASE \E q \in Requests, u \in Emails, i \in Invites, t \in Tokens : Accept(q, u, i, t)
  <2>1. PICK q \in Requests, u \in Emails, i \in Invites, t \in Tokens : Accept(q, u, i, t)
    BY <1>2
  <2>2. Usable(i, t, u) /\ TakeSeat(i, u)
    BY <2>1 DEF Accept
  <2> QED BY <2>2, SeatBegins
<1>3. CASE \E u \in Emails, i \in Invites, t \in Tokens : RegisterInvited(u, i, t)
  <2>1. PICK u \in Emails, i \in Invites, t \in Tokens : RegisterInvited(u, i, t)
    BY <1>3
  <2>2. Usable(i, t, u) /\ TakeSeat(i, u)
    BY <2>1 DEF RegisterInvited
  <2> QED BY <2>2, SeatBegins
<1>4. CASE UNCHANGED member
  BY <1>4
<1>5. ASSUME NEW q \in Requests, NEW u \in Emails, Call(q, u)
      PROVE  UNCHANGED member \/ \E i \in Invites, t \in Tokens : Accept(q, u, i, t)
  BY <1>5 DEF Call, StartInvite, StartMember, StartRevoke, Start
<1>6. UNCHANGED vars \/ (\E i \in Invites : Expire(i)) \/ (\E u \in Emails : Register(u))
        => UNCHANGED member
  BY DEF vars, Expire, Register
<1> QED BY <1>1, <1>2, <1>3, <1>4, <1>5, <1>6 DEF Next

-----------------------------------------------------------------------------
\* Membership is implemented: one lemma per table that a step writes.

OfferIn(row) == [role |-> row.role, link |-> row.token, lapsed |-> row.expired]

LEMMA OffersAre ==
  ASSUME NEW e \in Emails
  PROVE  /\ OpenOffers[e] = {OfferIn(invites[i]) : i \in {j \in Invites : Pending(j, e)}}
         /\ OpenOffers'[e] = {OfferIn(invites'[i]) : i \in {j \in Invites : Pending(j, e)'}}
  BY DEF OpenOffers, OfferIn

\* A step that writes row i, about address e only, while no other row offers e anything.
LEMMA RowOffers ==
  ASSUME IInv, NEW i \in Invites, NEW e \in Emails, NEW row,
         invites' = [invites EXCEPT ![i] = row],
         invites[i].state = "pending" => invites[i].email = e,
         row.state = "pending" => row.email = e,
         \A j \in Invites \ {i} : ~Pending(j, e)
  PROVE  OpenOffers' = [OpenOffers EXCEPT ![e] = IF row.state = "pending" THEN {OfferIn(row)} ELSE {}]
<1>1. invites'[i] = row /\ \A j \in Invites \ {i} : invites'[j] = invites[j]
  BY DEF IInv, TypeOK
<1>2. ASSUME NEW d \in Emails, d # e PROVE OpenOffers'[d] = OpenOffers[d]
  <2>1. \A j \in Invites : Pending(j, d)' <=> Pending(j, d)
    BY <1>1, <1>2 DEF Pending
  <2>2. \A j \in Invites : Pending(j, d) => invites'[j] = invites[j]
    BY <1>1, <1>2 DEF Pending
  <2>3. {OfferIn(invites'[j]) : j \in {k \in Invites : Pending(k, d)'}}
          = {OfferIn(invites[j]) : j \in {k \in Invites : Pending(k, d)}}
    BY <2>1, <2>2
  <2> QED BY <2>3, OffersAre
<1>3. \A j \in Invites : Pending(j, e)' <=> (j = i /\ row.state = "pending")
  BY <1>1 DEF Pending
<1>4. OpenOffers'[e] = IF row.state = "pending" THEN {OfferIn(row)} ELSE {}
  <2>1. {OfferIn(invites'[j]) : j \in {k \in Invites : Pending(k, e)'}}
          = IF row.state = "pending" THEN {OfferIn(row)} ELSE {}
    BY <1>1, <1>3
  <2> QED BY <2>1, OffersAre
<1> QED BY <1>2, <1>4 DEF OpenOffers

\* The other pending invitations are of other addresses.
LEMMA OnlyPending ==
  ASSUME IInv, NEW i \in Invites, invites[i].state = "pending"
  PROVE  /\ invites[i].email \in Emails
         /\ \A j \in Invites \ {i} : ~Pending(j, invites[i].email)
         /\ OpenOffers[invites[i].email] = {OfferIn(invites[i])}
<1>1. invites[i].email \in Emails
  BY DEF IInv, Rows, InvitesFit
<1>2. \A j \in Invites : Pending(j, invites[i].email) <=> j = i
  BY DEF IInv, Rows, OnePendingPerEmail, Pending
<1>3. {OfferIn(invites[k]) : k \in {j \in Invites : Pending(j, invites[i].email)}} = {OfferIn(invites[i])}
  BY <1>2
<1> QED BY <1>1, <1>2, <1>3, OffersAre

\* An invitation or its renewal is an offer with a fresh link.
LEMMA InviteOffers ==
  ASSUME IInv, NEW q \in Requests, NEW i \in Invites, NEW t \in Tokens, InsertInvite(q, i, t)
  PROVE  Shared!Next
<1>1. PICK e \in Emails \ Admins, r \in Roles : e = req[q].subject /\ r = req[q].role
  BY DEF IInv, RequestsFit, Fits, InsertInvite, At
<1>2. /\ invites' = [invites EXCEPT ![i] = Written(i, e, r, t)]
      /\ links' = [links EXCEPT ![t] = [email |-> e, role |-> r]]
      /\ links[t] = NoLink /\ Target(i, e) /\ UNCHANGED member
  BY <1>1 DEF InsertInvite
<1>3. \A j \in Invites \ {i} : ~Pending(j, e)
  BY <1>2 DEF Target, Pending, IInv, Rows, OnePendingPerEmail
<1>4. PICK row : row = Written(i, e, r, t)
  OBVIOUS
<1>5. OpenOffers' = [OpenOffers EXCEPT ![e] = {[role |-> r, link |-> t, lapsed |-> FALSE]}]
  <2>1. /\ row.state = "pending" /\ row.email = e
        /\ OfferIn(row) = [role |-> r, link |-> t, lapsed |-> FALSE]
    BY <1>4 DEF Written, OfferIn
  <2>2. invites' = [invites EXCEPT ![i] = row]
    BY <1>2, <1>4
  <2>3. invites[i].state = "pending" => invites[i].email = e
    BY <1>2 DEF Target, Pending
  <2>4. OpenOffers' = [OpenOffers EXCEPT ![e] = {OfferIn(row)}]
    BY <1>3, <2>1, <2>2, <2>3, RowOffers
  <2> QED BY <2>1, <2>4
<1>6. t \notin Issued /\ Issued' = Issued \cup {t}
  <2>1. [email |-> e, role |-> r] # NoLink
    BY DEF NoLink
  <2>2. \A u \in Tokens : links'[u] = IF u = t THEN [email |-> e, role |-> r] ELSE links[u]
    BY <1>2 DEF IInv, TypeOK
  <2> QED BY <1>2, <2>1, <2>2 DEF Issued, NoLink
<1>7. Shared!Offer(e, r, t)
  BY <1>1, <1>2, <1>5, <1>6 DEF Shared!Offer
<1> QED BY <1>7 DEF Shared!Next

LEMMA ExpiryLapses ==
  ASSUME IInv, NEW i \in Invites, Expire(i)
  PROVE  Shared!Next
<1>1. invites[i].state = "pending" /\ UNCHANGED <<member, links>>
  BY DEF Expire
<1>2. PICK e \in Emails : e = invites[i].email
  BY <1>1, OnlyPending
<1>3. /\ OpenOffers[e] = {OfferIn(invites[i])}
      /\ \A j \in Invites \ {i} : ~Pending(j, e)
  BY <1>1, <1>2, OnlyPending
<1>4. PICK row : row = [invites[i] EXCEPT !.expired = TRUE]
  OBVIOUS
<1>5. /\ row.state = "pending" /\ row.email = e /\ row.expired = TRUE
      /\ row.role = invites[i].role /\ row.token = invites[i].token
  BY <1>1, <1>2, <1>4, InviteRow DEF InviteType
<1>6. OfferIn(row) = [role |-> OfferIn(invites[i]).role, link |-> OfferIn(invites[i]).link,
                      lapsed |-> TRUE]
  BY <1>5, Zenon DEF OfferIn
<1>7. invites' = [invites EXCEPT ![i] = row]
  BY <1>4 DEF Expire
<1>8. OpenOffers' = [OpenOffers EXCEPT ![e] = {OfferIn(row)}]
  BY <1>2, <1>3, <1>5, <1>7, RowOffers
<1>9. Issued' = Issued
  BY <1>1 DEF Issued
<1>10. Shared!Lapse(e)
  BY <1>1, <1>3, <1>6, <1>8, <1>9 DEF Shared!Lapse
<1> QED BY <1>10 DEF Shared!Next

LEMMA RevocationWithdraws ==
  ASSUME IInv, NEW q \in Requests, Revoke(q)
  PROVE  [Shared!Next]_Shared!membershipVars
<1>1. PICK i \in Invites : i = req[q].subject
  BY DEF IInv, RequestsFit, Fits, Revoke, At
<1>2. CASE invites[i].state = "pending"
  <2> DEFINE e == invites[i].email
             row == [invites[i] EXCEPT !.state = "revoked"]
  <2>1. invites' = [invites EXCEPT ![i] = row] /\ UNCHANGED <<member, links>>
    BY <1>1, <1>2 DEF Revoke, IInv, TypeOK
  <2>2. e \in Emails /\ \A j \in Invites \ {i} : ~Pending(j, e)
    BY <1>2, OnlyPending
  <2>3. row.state = "revoked"
    BY InviteRow DEF InviteType
  <2> HIDE DEF e, row
  <2>4. OpenOffers' = [OpenOffers EXCEPT ![e] = {}]
    BY <2>1, <2>2, <2>3, RowOffers DEF e
  <2>5. Issued' = Issued
    BY <2>1 DEF Issued
  <2>6. Shared!Withdraw(e)
    BY <2>1, <2>4, <2>5 DEF Shared!Withdraw
  <2> QED BY <2>2, <2>6 DEF Shared!Next
<1>3. CASE invites[i].state # "pending"
  <2>1. UNCHANGED <<invites, member, links>>
    BY <1>1, <1>3 DEF Revoke
  <2> QED BY <2>1 DEF Shared!membershipVars, OpenOffers, Issued, Pending
<1> QED BY <1>2, <1>3

\* Accepting, also while registering, takes the offer.
LEMMA SeatTakes ==
  ASSUME IInv, NEW i \in Invites, NEW t \in Tokens, NEW e \in Emails,
         Usable(i, t, e), TakeSeat(i, e)
  PROVE  Shared!Next
<1> DEFINE row == [invites[i] EXCEPT !.state = "accepted", !.acceptedBy = e]
<1>1. /\ invites' = [invites EXCEPT ![i] = row]
      /\ member' = [member EXCEPT ![e] = invites[i].role] /\ UNCHANGED links
  BY DEF TakeSeat, IInv, TypeOK
<1>2. invites[i].state = "pending" /\ ~invites[i].expired /\ invites[i].email = e
  BY DEF Usable
<1>3. /\ OpenOffers[e] = {OfferIn(invites[i])}
      /\ \A j \in Invites \ {i} : ~Pending(j, e)
  BY <1>2, OnlyPending
<1>4. row.state = "accepted"
  BY InviteRow DEF InviteType
<1> HIDE DEF row
<1>5. OpenOffers' = [OpenOffers EXCEPT ![e] = {}]
  BY <1>1, <1>2, <1>3, <1>4, RowOffers
<1>6. OfferIn(invites[i]).role = invites[i].role /\ ~OfferIn(invites[i]).lapsed
  BY <1>2 DEF OfferIn
<1>7. Issued' = Issued
  BY <1>1 DEF Issued
<1>8. Shared!Take(e)
  BY <1>1, <1>3, <1>5, <1>6, <1>7 DEF Shared!Take
<1> QED BY <1>8 DEF Shared!Next

LEMMA ManagerChanges ==
  ASSUME IInv, NEW q \in Requests, ChangeRole(q) \/ Remove(q)
  PROVE  [Shared!Next]_Shared!membershipVars
<1>1. OpenOffers' = OpenOffers /\ Issued' = Issued
  BY DEF ChangeRole, Remove, OpenOffers, Issued, Pending
<1>2. PICK e \in Emails, r \in Roles \cup {None} :
        UNCHANGED member \/ (member[e] # None /\ member' = [member EXCEPT ![e] = r])
  BY DEF ChangeRole, Remove, At, IInv, RequestsFit, Fits
<1>3. CASE UNCHANGED member
  BY <1>1, <1>3 DEF Shared!membershipVars
<1>4. CASE member[e] # None /\ member' = [member EXCEPT ![e] = r]
  <2>1. Shared!Change(e, r)
    BY <1>1, <1>4 DEF Shared!Change
  <2> QED BY <2>1 DEF Shared!Next
<1> QED BY <1>2, <1>3, <1>4

LEMMA NextShares == IInv /\ [Next]_vars => [Shared!Next]_Shared!membershipVars
<1> SUFFICES ASSUME IInv, [Next]_vars PROVE [Shared!Next]_Shared!membershipVars
  OBVIOUS
<1>1. ASSUME UNCHANGED <<member, invites, links>> PROVE [Shared!Next]_Shared!membershipVars
  BY <1>1 DEF Shared!membershipVars, OpenOffers, Issued, Pending
<1>2. CASE \E q \in Requests : Step(q)
  <2>1. PICK q \in Requests : Step(q)
    BY <1>2
  <2>2. CASE CheckAccess(q) \/ Reread(q) \/ Audit(q) \/ Lose(q)
    BY <1>1, <2>2 DEF CheckAccess, Reread, Audit, Lose
  <2>3. CASE ChangeRole(q) \/ Remove(q)
    BY <2>3, ManagerChanges
  <2>4. CASE Revoke(q)
    BY <2>4, RevocationWithdraws
  <2>5. CASE \E i \in Invites, t \in Tokens : InsertInvite(q, i, t)
    BY <2>5, InviteOffers
  <2> QED BY <2>1, <2>2, <2>3, <2>4, <2>5 DEF Step
<1>3. CASE \E q \in Requests, u \in Emails : Call(q, u)
  <2>1. PICK q \in Requests, u \in Emails : Call(q, u)
    BY <1>3
  <2>2. CASE \E i \in Invites, t \in Tokens : Accept(q, u, i, t)
    BY <2>2, SeatTakes DEF Accept
  <2>3. CASE UNCHANGED <<member, invites, links>>
    BY <1>1, <2>3
  <2> QED BY <2>1, <2>2, <2>3 DEF Call, StartInvite, StartMember, StartRevoke, Start
<1>4. CASE \E i \in Invites : Expire(i)
  BY <1>4, ExpiryLapses
<1>5. CASE \E e \in Emails : Register(e)
  BY <1>1, <1>5 DEF Register
<1>6. CASE \E e \in Emails, i \in Invites, t \in Tokens : RegisterInvited(e, i, t)
  BY <1>6, SeatTakes DEF RegisterInvited
<1>7. CASE UNCHANGED vars
  BY <1>1, <1>7 DEF vars
<1> QED BY <1>2, <1>3, <1>4, <1>5, <1>6, <1>7 DEF Next

(***************************************************************************)
(* The theorems.                                                           *)
(***************************************************************************)

\* The tables and the requests' locals keep their types: in particular the roles
\* stored are roles of migration 5, whatever was requested.
THEOREM TypeCorrect == Spec => []TypeOK
<1>1. IInv => TypeOK
  BY DEF IInv
<1> QED BY <1>1, Invariance, PTL

\* Whoever has a membership is registered, a guest of the workspace, none of its
\* administrators, and was invited under this very address.
THEOREM MembersAreInvited == Spec => []MembersWereInvited
<1>1. IInv => MembersWereInvited
  BY DEF IInv, Rows
<1> QED BY <1>1, Invariance, PTL

\* No address ever has two pending invitations.
THEOREM OneInvitation == Spec => []OnePendingPerEmail
<1>1. IInv => OnePendingPerEmail
  BY DEF IInv, Rows
<1> QED BY <1>1, Invariance, PTL

\* An invitation that a link opens offers what it offered when the link was made.
THEOREM OffersAreKept == Spec => []LinkKeepsItsOffer
<1>1. IInv => LinkKeepsItsOffer
  BY DEF IInv, Rows
<1> QED BY <1>1, Invariance, PTL

\* Audit rows on invitations tell what happened.
THEOREM TrailIsTrue == Spec => []AuditIsTrue
<1>1. IInv => AuditIsTrue
  BY DEF IInv
<1> QED BY <1>1, Invariance, PTL

\* A membership begins only by accepting a pending, unexpired invitation to this
\* address, with the role it offers.
THEOREM AccessIsGranted == Spec => AccessBeginsByInvitation
<1>1. IInv /\ [Next]_vars =>
        [\A e \in Emails : member[e] = None /\ member'[e] # None =>
           \E i \in Invites :
             /\ invites[i].state = "pending" /\ ~invites[i].expired /\ invites[i].email = e
             /\ invites'[i].state = "accepted" /\ member'[e] = invites[i].role]_vars
  BY GrantStep
<1> QED BY <1>1, Invariance, PTL DEF Spec, AccessBeginsByInvitation

\* Acceptance and revocation are final and exclude each other.
THEOREM OutcomesAreFinal == Spec => OutcomeIsFinal
<1>1. IInv /\ [Next]_vars =>
        [\A i \in Invites :
           invites[i].state \in {"accepted", "revoked"} => invites'[i] = invites[i]]_vars
  BY NextKeeps DEF Progress
<1> QED BY <1>1, Invariance, PTL DEF Spec, OutcomeIsFinal

\* The tables of invitations, links and memberships implement Membership: whatever
\* requests overlap, a seat begins by taking the one valid offer to this address.
THEOREM MembershipIsImplemented == Spec => ImplementsMembership
<1>1. Init => Shared!Init
  <2> SUFFICES ASSUME Init PROVE Shared!Init
    OBVIOUS
  <2>1. \A i \in Invites, e \in Emails : ~Pending(i, e)
    BY DEF Init, NoInvite, Pending
  <2>2. OpenOffers = [e \in Emails |-> {}]
    BY <2>1 DEF OpenOffers
  <2>3. Issued = {}
    BY DEF Init, Issued
  <2> QED BY <2>2, <2>3 DEF Init, Shared!Init
<1> QED
  BY <1>1, NextShares, Invariance, PTL DEF Spec, ImplementsMembership, Shared!Spec

=============================================================================
