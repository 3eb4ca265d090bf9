---------------------------- MODULE SignInProofs ----------------------------
(***************************************************************************)
(* Theorems about SignIn, for any users, subjects, invitations, login      *)
(* transactions, sessions and concurrent requests, any lifetimes and every *)
(* registration mode.                                                      *)
(***************************************************************************)
EXTENDS SignIn, TLAPS

USE SignInAssumption

\* What the locals of a request say at each step, with the identities as they are: a
\* callback that has its user has the one its subject is bound to, and a linking the one
\* who began it.
Fits(r, bound) ==
  /\ r.step \in {"free", "setup", "refresh", "authorized"} => r.txn = None
  /\ r.step \in {"exchange", "link", "accept", "check", "create"} => r.txn # None
  /\ r.step \in {"link", "accept", "check", "create"} => r.subject # None
  /\ r.step = "session" /\ r.subject # None => r.txn # None
  /\ r.step \in {"link", "accept", "check", "create", "session"} => r.user # None
  /\ r.step = "link" => r.link = r.user
  /\ r.step \in {"check", "create"} => r.link = None
  /\ r.step \in {"accept", "session"} => r.link \in {None, r.user}
  /\ r.step \in {"accept", "session"} /\ r.subject # None => bound[r.subject] = r.user

RequestsFit == \A q \in Requests : Fits(req[q], identity)

\* An account about to be created is one the registration mode allows.
CreatesFit == \A q \in Requests : At(q, "create") => RegistrationAllows(req[q].invitation)

\* A login transaction is pending, or in the hands of one request, or behind one session.
TxnsApart ==
  /\ \A q, r \in Requests : req[q].txn # None /\ req[q].txn = req[r].txn => q = r
  /\ \A q \in Requests, x \in Sessions : req[q].txn # None => session[x].txn # req[q].txn
  /\ \A x, y \in Sessions : session[x].txn # None /\ session[x].txn = session[y].txn => x = y
  /\ \A t \in Txns : txn[t].state = "pending" =>
       /\ \A q \in Requests : req[q].txn # t
       /\ \A x \in Sessions : session[x].txn # t

\* The two clocks of a session's row.
Clocks(r) ==
  /\ r.left >= 1 /\ r.age = Absolute - r.left
  /\ r.idle > 0 => \/ r.unused + r.idle <= Idle
                   \/ r.kind = "bearer" /\ r.unused = r.age

SessionFits(r, bound) ==
  /\ r.state = "absent" => r = NoSession
  /\ r.state = "row" => Clocks(r)
  /\ r.identity # None => r.txn # None /\ r.user # None /\ bound[r.identity] = r.user

SessionsFit == \A x \in Sessions : SessionFits(session[x], identity)

\* The advisory lock is held by the setup that is running, which found no account.
LockFits ==
  /\ \A q \in Requests : At(q, "setup") <=> setupLock = q
  /\ setupLock # None => \A u \in Users : account[u] # "setup"

IInv ==
  TypeOK /\ RequestsFit /\ CreatesFit /\ TxnsApart /\ SessionsFit /\ LockFits
    /\ AccountsAreAllowed

-----------------------------------------------------------------------------
\* The moves the tables and the requests may make, and what follows from them.

\* The invariant holds before the first request.
THEOREM InitIInv == Init => IInv
<1> SUFFICES ASSUME Init PROVE IInv OBVIOUS
<1>1. TypeOK
  BY DEF Init, TypeOK, TxnRows, SessionRows, RequestRows, NoTxn, NoSession, Free
<1>2. RequestsFit /\ TxnsApart
  BY DEF Init, RequestsFit, Fits, TxnsApart, NoTxn, NoSession, Free
<1>3. CreatesFit /\ SessionsFit /\ LockFits /\ AccountsAreAllowed
  BY DEF Init, CreatesFit, SessionsFit, SessionFits, NoSession, LockFits, AccountsAreAllowed, At, Free
<1> QED BY <1>1, <1>2, <1>3 DEF IInv

Others(q) == \A r \in Requests \ {q} : req'[r] = req[r]

\* Identities and accounts, once bound or created, and invitations, once accepted or
\* closed, stay what they are.
Progress ==
  /\ mode' = mode
  /\ \A s \in Subjects : identity[s] # None => identity'[s] = identity[s]
  /\ \A u \in Users : account[u] # None => account'[u] = account[u]
  /\ \A i \in Invitations : acceptedBy[i] # "open" => acceptedBy'[i] = acceptedBy[i]

\* A request that has put a row in the place of its own is in that row.
LEMMA OneRow ==
  ASSUME NEW q \in Requests, NEW row \in RequestRows, TypeOK, req' = [req EXCEPT ![q] = row]
  PROVE  req' \in [Requests -> RequestRows] /\ req'[q] = row /\ Others(q)
BY DEF TypeOK, Others

\* Another request's step leaves the locals of the rest fitting.
LEMMA OwnSuffices ==
  ASSUME TypeOK, RequestsFit, Progress, NEW q \in Requests, Others(q),
         Fits(req'[q], identity')
  PROVE  RequestsFit'
<1> SUFFICES ASSUME NEW r \in Requests, r # q PROVE Fits(req[r], identity')
  BY DEF RequestsFit, Others
<1>1. Fits(req[r], identity) /\ req[r].subject \in Subjects \cup {None}
  BY DEF RequestsFit, TypeOK, RequestRows
<1> QED BY <1>1 DEF Fits, Progress

\* Transactions stay apart if nobody gets one that was not already there.
LEMMA ApartKept ==
  ASSUME TxnsApart, NEW q \in Requests, Others(q), req'[q].txn \in {None, req[q].txn},
         \A x \in Sessions : session'[x].txn \in {None, session[x].txn},
         \A t \in Txns : txn'[t].state = "pending" => txn[t].state = "pending",
         TypeOK
  PROVE  TxnsApart'
<1>1. \A r \in Requests : req'[r].txn \in {None, req[r].txn}
  BY DEF Others
<1>2. None \notin Txns
  OBVIOUS
<1> QED BY <1>1, <1>2 DEF TxnsApart

\* Sessions that are left alone keep fitting.
LEMMA SessionsKept ==
  ASSUME TypeOK, SessionsFit, Progress, UNCHANGED session
  PROVE  SessionsFit'
<1> SUFFICES ASSUME NEW x \in Sessions PROVE SessionFits(session[x], identity')
  BY DEF SessionsFit
<1>1. SessionFits(session[x], identity) /\ session[x].identity \in Subjects \cup {None}
  BY DEF SessionsFit, TypeOK, SessionRows
<1> QED BY <1>1 DEF SessionFits, Progress

\* The lock, and the accounts there are, keep fitting if only invitations move.
LEMMA AccountsKept ==
  ASSUME TypeOK, LockFits, AccountsAreAllowed, Progress, UNCHANGED <<account, setupLock>>,
         NEW q \in Requests, Others(q), ~At(q, "setup"), req'[q].step # "setup"
  PROVE  LockFits' /\ AccountsAreAllowed'
<1>1. LockFits'
  BY DEF LockFits, Others, At
<1>2. \A i \in Invitations, u \in Users : acceptedBy[i] = u => acceptedBy'[i] = u
  BY DEF Progress
<1>3. AccountsAreAllowed'
  BY <1>2 DEF AccountsAreAllowed, Progress
<1> QED BY <1>1, <1>3

\* A request that ends.
LEMMA LeaveRow ==
  ASSUME TypeOK, NEW q \in Requests, Leave(q)
  PROVE  /\ req' \in [Requests -> RequestRows] /\ Others(q) /\ req'[q] = Free
         /\ Fits(req'[q], identity') /\ req'[q].txn = None
         /\ req'[q].step \notin {"setup", "create"}
<1>1. Free \in RequestRows
  BY DEF Free, RequestRows
<1>2. req' \in [Requests -> RequestRows] /\ Others(q) /\ req'[q] = Free
  BY <1>1, OneRow DEF Leave
<1> QED BY <1>2 DEF Fits, Free

\* A request that goes on to create a session.
LEMMA ToSessionRow ==
  ASSUME TypeOK, NEW q \in Requests, NEW u \in Users, NEW kind \in {"cookie", "bearer"},
         ToSession(q, u, kind)
  PROVE  /\ req' \in [Requests -> RequestRows] /\ Others(q)
         /\ Fits(req'[q], identity') /\ req'[q].txn = None /\ req'[q].step = "session"
<1> DEFINE row == [Free EXCEPT !.step = "session", !.user = u, !.kind = kind]
<1>1. row \in RequestRows
  BY DEF Free, RequestRows
<1>2. req' \in [Requests -> RequestRows] /\ Others(q) /\ req'[q] = row
  BY <1>1, OneRow DEF ToSession
<1>3. Fits(row, identity') /\ row.txn = None /\ row.step = "session"
  BY DEF Fits, Free
<1> QED BY <1>2, <1>3

\* A callback that goes on with a user and a subject.
LEMMA ContinueRow ==
  ASSUME TypeOK, NEW q \in Requests, NEW u \in Users, NEW s \in Subjects,
         NEW step \in {"link", "accept", "check", "create", "session"},
         Continue(q, step, u, s), req[q].txn # None,
         step = "link" => req[q].link = u,
         step \in {"check", "create"} => req[q].link = None,
         step \in {"accept", "session"} => req[q].link \in {None, u} /\ identity'[s] = u
  PROVE  /\ req' \in [Requests -> RequestRows] /\ Others(q) /\ Fits(req'[q], identity')
         /\ req'[q].txn = req[q].txn /\ req'[q].step = step
         /\ req'[q].invitation = req[q].invitation
<1> DEFINE row == [req[q] EXCEPT !.step = step, !.user = u, !.kind = "cookie", !.subject = s]
<1>1. req[q] \in RequestRows
  BY DEF TypeOK
<1>2. row \in RequestRows
  BY <1>1 DEF RequestRows
<1>3. req' \in [Requests -> RequestRows] /\ Others(q) /\ req'[q] = row
  BY <1>2, OneRow DEF Continue
<1>4. /\ row.txn = req[q].txn /\ row.link = req[q].link /\ row.step = step
      /\ row.user = u /\ row.subject = s /\ row.kind = "cookie"
      /\ row.invitation = req[q].invitation
  BY <1>1 DEF RequestRows
<1>5. Fits(row, identity')
  BY <1>4 DEF Fits
<1> QED BY <1>3, <1>4, <1>5

\* A step that writes requests and takes login transactions away, and no other table.
LEMMA QuietStep ==
  ASSUME IInv, NEW q \in Requests, req' \in [Requests -> RequestRows], Others(q),
         UNCHANGED <<mode, users, session, setupLock>>,
         txn' \in [Txns -> TxnRows],
         \A t \in Txns : txn'[t].state = "pending" => txn[t].state = "pending",
         Fits(req'[q], identity'), req'[q].txn \in {None, req[q].txn},
         ~At(q, "setup"), req'[q].step # "setup",
         req'[q].step = "create" => RegistrationAllows(req'[q].invitation)
  PROVE  IInv'
<1>1. Progress
  BY DEF Progress, users
<1>2. TypeOK'
  BY DEF IInv, TypeOK, users
<1>3. RequestsFit'
  BY <1>1, OwnSuffices DEF IInv
<1>4. CreatesFit'
  BY DEF IInv, CreatesFit, At, Others, RegistrationAllows
<1>5. TxnsApart'
  BY ApartKept DEF IInv
<1>6. SessionsFit'
  BY <1>1, SessionsKept DEF IInv
<1>7. LockFits' /\ AccountsAreAllowed'
  BY <1>1, AccountsKept DEF IInv, users
<1> QED BY <1>2, <1>3, <1>4, <1>5, <1>6, <1>7 DEF IInv

-----------------------------------------------------------------------------
\* Every step keeps the invariant: the steps of a request, one by one.

LEMMA SetupCountStep ==
  ASSUME IInv, NEW q \in Requests, SetupCount(q)
  PROVE  IInv'
<1> DEFINE row == [req[q] EXCEPT !.step = "setup"]
<1>1. req[q] \in RequestRows /\ req[q].step = "free" /\ req[q].txn = None
  BY DEF IInv, TypeOK, RequestsFit, Fits, SetupCount, At
<1>2. row \in RequestRows /\ row.step = "setup" /\ row.txn = None
  BY <1>1 DEF RequestRows
<1>3. req' \in [Requests -> RequestRows] /\ Others(q) /\ req'[q] = row
  BY <1>2, OneRow DEF SetupCount, IInv, TypeOK
<1>4. Progress
  BY DEF SetupCount, users, Progress
<1>5. TypeOK'
  BY <1>3 DEF SetupCount, IInv, TypeOK, users
<1>6. RequestsFit'
  BY <1>2, <1>3, <1>4, OwnSuffices DEF IInv, Fits
<1>7. CreatesFit'
  BY <1>2, <1>3 DEF SetupCount, IInv, CreatesFit, At, Others, RegistrationAllows
<1>8. TxnsApart'
  BY <1>2, <1>3, ApartKept DEF SetupCount, IInv
<1>9. SessionsFit'
  BY <1>4, SessionsKept DEF SetupCount, IInv
<1>10. LockFits'
  BY <1>2, <1>3 DEF SetupCount, IInv, LockFits, At, Others, Accounts, users
<1>11. AccountsAreAllowed'
  BY DEF SetupCount, IInv, AccountsAreAllowed, users
<1> QED BY <1>5, <1>6, <1>7, <1>8, <1>9, <1>10, <1>11 DEF IInv

LEMMA SetupCommitStep ==
  ASSUME IInv, NEW q \in Requests, SetupCommit(q)
  PROVE  IInv'
<1>1. PICK u \in Users :
        IF u \in Accounts
        THEN Leave(q) /\ UNCHANGED account
        ELSE account' = [account EXCEPT ![u] = "setup"] /\ ToSession(q, u, "cookie")
  BY DEF SetupCommit
<1>2. /\ req' \in [Requests -> RequestRows] /\ Others(q) /\ Fits(req'[q], identity')
      /\ req'[q].txn = None /\ req'[q].step \notin {"setup", "create"}
  BY <1>1, LeaveRow, ToSessionRow DEF IInv
<1>3. \/ account' = account
      \/ account[u] = None /\ account' = [account EXCEPT ![u] = "setup"]
  BY <1>1 DEF Accounts
<1>4. setupLock = q /\ setupLock' = None /\ UNCHANGED <<mode, identity, acceptedBy, txn, session>>
  BY DEF SetupCommit, IInv, LockFits
<1>5. Progress
  BY <1>3, <1>4 DEF Progress, IInv, TypeOK
<1>6. TypeOK'
  BY <1>2, <1>3, <1>4 DEF IInv, TypeOK
<1>7. RequestsFit'
  BY <1>2, <1>5, OwnSuffices DEF IInv
<1>8. CreatesFit'
  BY <1>2, <1>4 DEF IInv, CreatesFit, At, Others, RegistrationAllows
<1>9. TxnsApart'
  BY <1>2, <1>4, ApartKept DEF IInv
<1>10. SessionsFit'
  BY <1>4, <1>5, SessionsKept DEF IInv
<1>11. LockFits'
  BY <1>2, <1>4 DEF IInv, LockFits, At, Others
<1>12. AccountsAreAllowed'
  <2>1. \A v \in Users : account[v] # "setup"
    BY <1>4 DEF IInv, LockFits
  <2>2. \A v \in Users : account'[v] = account[v] \/ (v = u /\ account'[v] = "setup")
    BY <1>3 DEF IInv, TypeOK
  <2> QED BY <2>1, <2>2, <1>4 DEF IInv, AccountsAreAllowed
<1> QED BY <1>6, <1>7, <1>8, <1>9, <1>10, <1>11, <1>12 DEF IInv

\* An account that the registration mode allows is added, with its invitation.
LEMMA NewAccount ==
  ASSUME IInv, NEW u \in Users, account[u] = None, NEW i \in Invitations \cup {None},
         NEW how \in {"registered", "oidc"}, RegistrationAllows(i), MayAccept(i, u),
         account' = [account EXCEPT ![u] = how], Accept(i, u), UNCHANGED mode
  PROVE  /\ account' \in [Users -> {None, "setup", "registered", "oidc"}]
         /\ acceptedBy' \in [Invitations -> Users \cup {"open", "closed"}]
         /\ \A v \in Users : account[v] # None => account'[v] = account[v]
         /\ \A j \in Invitations : acceptedBy[j] # "open" => acceptedBy'[j] = acceptedBy[j]
         /\ \A v \in Users : account'[v] = "setup" => account[v] = "setup"
         /\ AccountsAreAllowed'
<1>1. \A v \in Users : account'[v] = IF v = u THEN how ELSE account[v]
  BY DEF IInv, TypeOK
<1>2. \A j \in Invitations : acceptedBy[j] # "open" => acceptedBy'[j] = acceptedBy[j]
  BY DEF IInv, TypeOK, Accept, MayAccept, Acceptable
<1>3. i # None => Invited[i] = u /\ acceptedBy'[i] = u
  BY DEF IInv, TypeOK, Accept, MayAccept, Acceptable
<1>4. \A j \in Invitations, v \in Users : acceptedBy[j] = v => acceptedBy'[j] = v
  BY <1>2
<1>5. AccountsAreAllowed'
  BY <1>1, <1>3, <1>4 DEF IInv, AccountsAreAllowed, RegistrationAllows
<1> QED BY <1>1, <1>2, <1>5 DEF IInv, TypeOK, Accept

LEMMA RegisterStep ==
  ASSUME IInv, NEW q \in Requests, NEW u \in Users, NEW i \in Invitations \cup {None},
         Register(q, u, i)
  PROVE  IInv'
<1>1. /\ req' \in [Requests -> RequestRows] /\ Others(q) /\ Fits(req'[q], identity')
      /\ req'[q].txn = None /\ req'[q].step = "session"
  BY ToSessionRow DEF Register, IInv
<1>2. /\ account' \in [Users -> {None, "setup", "registered", "oidc"}]
      /\ acceptedBy' \in [Invitations -> Users \cup {"open", "closed"}]
      /\ \A v \in Users : account[v] # None => account'[v] = account[v]
      /\ \A j \in Invitations : acceptedBy[j] # "open" => acceptedBy'[j] = acceptedBy[j]
      /\ \A v \in Users : account'[v] = "setup" => account[v] = "setup"
      /\ AccountsAreAllowed'
  <2>1. account[u] = None
    BY DEF Register, Accounts
  <2> QED BY <2>1, NewAccount DEF Register
<1>3. UNCHANGED <<mode, identity, txn, session, setupLock>> /\ ~At(q, "setup")
  BY DEF Register, At
<1>4. Progress
  BY <1>2, <1>3 DEF Progress
<1>5. TypeOK'
  BY <1>1, <1>2, <1>3 DEF IInv, TypeOK
<1>6. RequestsFit'
  BY <1>1, <1>4, OwnSuffices DEF IInv
<1>7. CreatesFit'
  BY <1>1, <1>3 DEF IInv, CreatesFit, At, Others, RegistrationAllows
<1>8. TxnsApart'
  BY <1>1, <1>3, ApartKept DEF IInv
<1>9. SessionsFit'
  BY <1>3, <1>4, SessionsKept DEF IInv
<1>10. LockFits'
  BY <1>1, <1>2, <1>3 DEF IInv, LockFits, At, Others
<1> QED BY <1>2, <1>5, <1>6, <1>7, <1>8, <1>9, <1>10 DEF IInv

LEMMA LoginStep ==
  ASSUME IInv, NEW q \in Requests, NEW u \in Users, NEW kind \in {"cookie", "bearer"},
         Login(q, u, kind)
  PROVE  IInv'
<1>1. /\ req' \in [Requests -> RequestRows] /\ Others(q) /\ Fits(req'[q], identity')
      /\ req'[q].txn = None /\ req'[q].step = "session"
  BY ToSessionRow DEF Login, IInv
<1> QED BY <1>1, QuietStep DEF Login, At, IInv, TypeOK

\* A step that writes a request and sessions, and no other table.
LEMMA SessionStep ==
  ASSUME IInv, NEW q \in Requests, req' \in [Requests -> RequestRows], Others(q),
         Fits(req'[q], identity), ~At(q, "setup"), req'[q].step \notin {"setup", "create"},
         session' \in [Sessions -> SessionRows], SessionsFit', TxnsApart',
         UNCHANGED <<mode, users, txn, setupLock>>
  PROVE  IInv'
<1>1. Progress
  BY DEF Progress, users
<1>2. TypeOK'
  BY DEF IInv, TypeOK, users
<1>3. RequestsFit'
  BY <1>1, OwnSuffices DEF IInv, users
<1>4. CreatesFit'
  BY DEF IInv, CreatesFit, At, Others, RegistrationAllows
<1>5. LockFits' /\ AccountsAreAllowed'
  BY <1>1, AccountsKept DEF IInv, users
<1> QED BY <1>2, <1>3, <1>4, <1>5 DEF IInv

LEMMA CreateSessionStep ==
  ASSUME IInv, NEW q \in Requests, CreateSession(q)
  PROVE  IInv'
<1>1. PICK x \in Sessions :
        FreshSession(x) /\ session' = [session EXCEPT ![x] = NewSession(req[q])]
  BY DEF CreateSession
<1>2. /\ req' \in [Requests -> RequestRows] /\ Others(q) /\ req'[q].txn = None
      /\ Fits(req'[q], identity') /\ req'[q].step \notin {"setup", "create"}
  BY LeaveRow DEF CreateSession, IInv
<1> DEFINE row == NewSession(req[q])
<1>3. req[q] \in RequestRows /\ req[q].step = "session" /\ req[q].user # None
  BY DEF CreateSession, IInv, TypeOK, RequestsFit, Fits, At
<1>4. /\ row.state = "row" /\ row.user = req[q].user /\ row.kind = req[q].kind
      /\ row.identity = req[q].subject /\ row.txn = req[q].txn
      /\ row.left = Absolute /\ row.age = 0 /\ row.unused = 0
      /\ row.idle = (IF req[q].kind = "bearer" THEN Absolute ELSE Idle)
  BY DEF NewSession
<1>5. row \in SessionRows
  BY <1>3 DEF NewSession, SessionRows, RequestRows
<1>6. session' \in [Sessions -> SessionRows] /\ session'[x] = row
        /\ \A y \in Sessions \ {x} : session'[y] = session[y]
  BY <1>1, <1>5 DEF IInv, TypeOK
<1>7. UNCHANGED <<mode, users, txn, setupLock>> /\ UNCHANGED identity
  BY DEF CreateSession, users
<1>8. SessionsFit'
  <2>1. SessionFits(row, identity)
    <3>1. Clocks(row)
      BY <1>4 DEF Clocks
    <3>2. Fits(req[q], identity)
      BY DEF IInv, RequestsFit
    <3> QED BY <1>3, <1>4, <3>1, <3>2 DEF SessionFits, Fits
  <2> QED BY <2>1, <1>6, <1>7 DEF IInv, SessionsFit
<1>9. TxnsApart'
  <2>1. \A r \in Requests \ {q} : req'[r] = req[r]
    BY <1>2 DEF Others
  <2> QED BY <2>1, <1>2, <1>4, <1>6, <1>7 DEF IInv, TxnsApart
<1>10. ~At(q, "setup")
  BY DEF CreateSession, At
<1> QED BY <1>2, <1>6, <1>7, <1>8, <1>9, <1>10, SessionStep

LEMMA AuthenticateStep ==
  ASSUME IInv, NEW q \in Requests, NEW x \in Sessions, Authenticate(q, x)
  PROVE  IInv'
<1> DEFINE row == [Free EXCEPT !.step = "refresh", !.user = session[x].user, !.session = x]
<1>1. row \in RequestRows
  BY DEF IInv, TypeOK, SessionRows, RequestRows, Free
<1>2. req' \in [Requests -> RequestRows] /\ Others(q) /\ req'[q] = row
  BY <1>1, OneRow DEF Authenticate, IInv
<1>3. Fits(row, identity') /\ row.txn = None /\ row.step = "refresh"
  BY DEF Fits, Free
<1> QED BY <1>2, <1>3, QuietStep DEF Authenticate, At, IInv, TypeOK

\* A use of a session keeps its clocks in step.
LEMMA RefreshedFits ==
  ASSUME NEW r \in SessionRows, r.state = "row", Clocks(r)
  PROVE  /\ Refreshed(r) \in SessionRows /\ Clocks(Refreshed(r))
         /\ Refreshed(r).state = "row" /\ Refreshed(r).identity = r.identity
         /\ Refreshed(r).user = r.user /\ Refreshed(r).txn = r.txn
<1>1. Refreshed(r) \in SessionRows
  BY DEF Refreshed, SessionRows
<1>2. Clocks(Refreshed(r))
  BY DEF Refreshed, SessionRows, Clocks
<1> QED BY <1>1, <1>2 DEF Refreshed

LEMMA RefreshStep ==
  ASSUME IInv, NEW q \in Requests, Refresh(q)
  PROVE  IInv'
<1> DEFINE row == [req[q] EXCEPT !.step = "authorized"]
<1>1. req[q] \in RequestRows /\ req[q].step = "refresh" /\ req[q].txn = None
  BY DEF IInv, TypeOK, RequestsFit, Fits, Refresh, At
<1>2. row \in RequestRows /\ row.step = "authorized" /\ row.txn = None
  BY <1>1 DEF RequestRows
<1>3. req' \in [Requests -> RequestRows] /\ Others(q) /\ req'[q] = row
  BY <1>2, OneRow DEF Refresh, IInv
<1>4. \A x \in Sessions :
        session'[x] = IF x = req[q].session /\ session[x].state = "row"
                      THEN Refreshed(session[x]) ELSE session[x]
  BY DEF Refresh
<1>5. \A x \in Sessions :
        /\ session'[x] \in SessionRows /\ session'[x].txn = session[x].txn
        /\ SessionFits(session'[x], identity)
  <2> TAKE x \in Sessions
  <2>1. session[x] \in SessionRows /\ SessionFits(session[x], identity)
    BY DEF IInv, TypeOK, SessionsFit
  <2>2. CASE x = req[q].session /\ session[x].state = "row"
    BY <2>1, <2>2, <1>4, RefreshedFits DEF SessionFits
  <2>3. CASE ~(x = req[q].session /\ session[x].state = "row")
    BY <2>1, <2>3, <1>4
  <2> QED BY <2>2, <2>3
<1>6. session' \in [Sessions -> SessionRows]
  BY <1>5 DEF Refresh
<1>7. SessionsFit'
  BY <1>5 DEF Refresh, SessionsFit, users
<1>8. TxnsApart'
  BY <1>2, <1>3, <1>5, ApartKept DEF Refresh, IInv
<1>9. Fits(req'[q], identity)
  BY <1>2, <1>3 DEF Fits
<1> QED BY <1>2, <1>3, <1>6, <1>7, <1>8, <1>9, SessionStep DEF Refresh, At

\* A session whose row goes.
LEMMA SessionGone ==
  ASSUME IInv, NEW x \in Sessions \cup {None}, UNCHANGED identity,
         session' = session \/ session' = [session EXCEPT ![x] = NoSession]
  PROVE  /\ session' \in [Sessions -> SessionRows] /\ SessionsFit'
         /\ \A y \in Sessions : session'[y].txn \in {None, session[y].txn}
<1>1. NoSession \in SessionRows /\ NoSession.txn = None /\ SessionFits(NoSession, identity)
  BY DEF NoSession, SessionRows, SessionFits
<1>2. session' \in [Sessions -> SessionRows]
  BY <1>1 DEF IInv, TypeOK
<1>3. \A y \in Sessions : session'[y] \in {NoSession, session[y]}
  BY DEF IInv, TypeOK
<1>4. \A y \in Sessions : SessionFits(session[y], identity)
  BY DEF IInv, SessionsFit
<1> QED BY <1>1, <1>2, <1>3, <1>4 DEF SessionsFit

LEMMA LogoutStep ==
  ASSUME IInv, NEW q \in Requests, NEW kind \in {"cookie", "bearer"}, Logout(q, kind)
  PROVE  IInv'
<1>1. /\ req' \in [Requests -> RequestRows] /\ Others(q) /\ req'[q].txn = None
      /\ Fits(req'[q], identity') /\ req'[q].step \notin {"setup", "create"}
  BY LeaveRow DEF Logout, IInv
<1>2. UNCHANGED <<mode, users, txn, setupLock>> /\ UNCHANGED identity
  BY DEF Logout, users
<1>3. req[q].session \in Sessions \cup {None}
  BY DEF IInv, TypeOK, RequestRows
<1>4. session' = session \/ session' = [session EXCEPT ![req[q].session] = NoSession]
  BY DEF Logout
<1>5. /\ session' \in [Sessions -> SessionRows] /\ SessionsFit'
      /\ \A y \in Sessions : session'[y].txn \in {None, session[y].txn}
  BY <1>2, <1>3, <1>4, SessionGone
<1>6. TxnsApart'
  BY <1>1, <1>2, <1>5, ApartKept DEF IInv
<1> QED BY <1>1, <1>2, <1>5, <1>6, SessionStep DEF Logout, At

LEMMA BeginOidcStep ==
  ASSUME IInv, NEW q \in Requests, NEW t \in Txns, NEW i \in Invitations \cup {None},
         BeginOidc(q, t, i)
  PROVE  IInv'
<1>1. /\ req' \in [Requests -> RequestRows] /\ Others(q) /\ req'[q].txn = None
      /\ Fits(req'[q], identity') /\ req'[q].step \notin {"setup", "create"}
  BY LeaveRow DEF BeginOidc, IInv
<1>2. UNCHANGED <<mode, users, session, setupLock>> /\ UNCHANGED <<account, identity>>
        /\ FreshTxn(t) /\ ~At(q, "setup")
  BY DEF BeginOidc, users, At
<1>3. PICK row \in TxnRows : txn' = [txn EXCEPT ![t] = row]
  <2> DEFINE r == [state |-> "pending", invitation |-> i,
                   link |-> IF At(q, "authorized") THEN req[q].user ELSE None]
  <2>1. r \in TxnRows
    BY DEF TxnRows, IInv, TypeOK, RequestRows
  <2> QED BY <2>1 DEF BeginOidc
<1>4. txn' \in [Txns -> TxnRows] /\ \A s \in Txns \ {t} : txn'[s] = txn[s]
  BY <1>3 DEF IInv, TypeOK
<1>5. Progress
  BY <1>2 DEF Progress, users
<1>6. TypeOK'
  BY <1>1, <1>2, <1>4 DEF IInv, TypeOK, users
<1>7. RequestsFit'
  BY <1>1, <1>5, OwnSuffices DEF IInv
<1>8. CreatesFit'
  BY <1>1, <1>2 DEF IInv, CreatesFit, At, Others, RegistrationAllows
<1>9. TxnsApart'
  <2>1. \A r \in Requests : req'[r].txn \in {None, req[r].txn}
    BY <1>1 DEF Others
  <2>2. /\ \A r \in Requests : req'[r].txn # t
        /\ \A x \in Sessions : session[x].txn # t
    BY <1>2, <2>1 DEF FreshTxn
  <2> QED BY <1>2, <1>4, <2>1, <2>2 DEF IInv, TxnsApart
<1>10. SessionsFit'
  BY <1>2, <1>5, SessionsKept DEF IInv
<1>11. LockFits' /\ AccountsAreAllowed'
  BY <1>1, <1>2, <1>5, AccountsKept DEF IInv
<1> QED BY <1>6, <1>7, <1>8, <1>9, <1>10, <1>11 DEF IInv

LEMMA ClaimTxnStep ==
  ASSUME IInv, NEW q \in Requests, NEW t \in Txns, ClaimTxn(q, t)
  PROVE  IInv'
<1> DEFINE row == [Free EXCEPT !.step = "exchange", !.txn = t, !.link = txn[t].link,
                               !.invitation = txn[t].invitation]
<1>1. row \in RequestRows
  BY DEF IInv, TypeOK, TxnRows, RequestRows, Free
<1>2. req' \in [Requests -> RequestRows] /\ Others(q) /\ req'[q] = row
  BY <1>1, OneRow DEF ClaimTxn, ToExchange, IInv
<1>3. Fits(row, identity') /\ row.txn = t /\ row.step = "exchange"
  BY DEF Fits, Free
<1>4. /\ UNCHANGED <<mode, users, session, setupLock>> /\ UNCHANGED <<account, identity>>
      /\ txn[t].state = "pending" /\ ~At(q, "setup") /\ txn' = [txn EXCEPT ![t] = NoTxn]
  BY DEF ClaimTxn, users, At
<1>5. /\ txn' \in [Txns -> TxnRows] /\ \A s \in Txns \ {t} : txn'[s] = txn[s]
      /\ txn'[t].state = "absent"
  BY <1>4 DEF IInv, TypeOK, NoTxn, TxnRows
<1>6. Progress
  BY <1>4 DEF Progress, users
<1>7. TypeOK'
  BY <1>2, <1>4, <1>5 DEF IInv, TypeOK, users
<1>8. RequestsFit'
  BY <1>2, <1>3, <1>6, OwnSuffices DEF IInv
<1>9. CreatesFit'
  BY <1>2, <1>3, <1>4 DEF IInv, CreatesFit, At, Others, RegistrationAllows
<1>10. TxnsApart'
  <2>1. \A r \in Requests : req'[r].txn = IF r = q THEN t ELSE req[r].txn
    BY <1>2, <1>3 DEF Others
  <2>2. /\ \A r \in Requests : req[r].txn # t
        /\ \A x \in Sessions : session[x].txn # t
    BY <1>4 DEF IInv, TxnsApart
  <2>3. \A s \in Txns : txn'[s].state = "pending" => s # t /\ txn[s].state = "pending"
    BY <1>5
  <2> QED BY <1>4, <2>1, <2>2, <2>3 DEF IInv, TxnsApart
<1>11. SessionsFit'
  BY <1>4, <1>6, SessionsKept DEF IInv
<1>12. LockFits' /\ AccountsAreAllowed'
  BY <1>2, <1>3, <1>4, <1>6, AccountsKept DEF IInv
<1> QED BY <1>7, <1>8, <1>9, <1>10, <1>11, <1>12 DEF IInv

LEMMA ResolveStep ==
  ASSUME IInv, NEW q \in Requests, NEW s \in Subjects, NEW e \in Users \cup {None},
         Resolve(q, s, e)
  PROVE  IInv'
<1>1. /\ req[q].txn # None /\ identity[s] \in Users \cup {None}
      /\ req[q].link \in Users \cup {None} /\ req[q].step = "exchange"
      /\ UNCHANGED <<mode, users, txn, session, setupLock>> /\ identity' = identity
  BY DEF IInv, TypeOK, RequestsFit, Fits, RequestRows, Resolve, At, users
<1> DEFINE Own == /\ req' \in [Requests -> RequestRows] /\ Others(q)
                  /\ Fits(req'[q], identity') /\ req'[q].txn \in {None, req[q].txn}
                  /\ req'[q].step \notin {"setup", "create"}
<1>2. CASE identity[s] # None /\ req[q].link \in {None, identity[s]}
  <2>1. Continue(q, "accept", identity[s], s)
    BY <1>2 DEF Resolve
  <2>2. Own
    BY <1>1, <1>2, <2>1, ContinueRow DEF IInv
  <2> QED BY <1>1, <2>2, QuietStep DEF At, IInv, TypeOK
<1>3. CASE identity[s] = None /\ req[q].link # None
  <2>1. Continue(q, "link", req[q].link, s)
    BY <1>3 DEF Resolve
  <2>2. Own
    BY <1>1, <1>3, <2>1, ContinueRow DEF IInv
  <2> QED BY <1>1, <2>2, QuietStep DEF At, IInv, TypeOK
<1>4. CASE identity[s] = None /\ req[q].link = None /\ e # None
  <2>1. Continue(q, "check", e, s)
    BY <1>4 DEF Resolve
  <2>2. Own
    BY <1>1, <1>4, <2>1, ContinueRow DEF IInv
  <2> QED BY <1>1, <2>2, QuietStep DEF At, IInv, TypeOK
<1>5. CASE Leave(q)
  <2>1. Own
    BY <1>5, LeaveRow DEF IInv
  <2> QED BY <1>1, <2>1, QuietStep DEF At, IInv, TypeOK
<1> QED BY <1>2, <1>3, <1>4, <1>5 DEF Resolve

LEMMA CheckEmailStep ==
  ASSUME IInv, NEW q \in Requests, CheckEmail(q)
  PROVE  IInv'
<1>1. /\ req[q].txn # None /\ req[q].user \in Users /\ req[q].subject \in Subjects
      /\ req[q].link = None /\ req[q].step = "check"
      /\ UNCHANGED <<mode, users, txn, session, setupLock>> /\ identity' = identity
  BY DEF IInv, TypeOK, RequestsFit, Fits, RequestRows, CheckEmail, At, users
<1>2. CASE RegistrationAllows(req[q].invitation)
             /\ Continue(q, "create", req[q].user, req[q].subject)
  <2>1. /\ req' \in [Requests -> RequestRows] /\ Others(q) /\ Fits(req'[q], identity')
        /\ req'[q].txn = req[q].txn /\ req'[q].step = "create"
        /\ req'[q].invitation = req[q].invitation
    BY <1>1, <1>2, ContinueRow DEF IInv
  <2> QED BY <1>1, <1>2, <2>1, QuietStep DEF At, IInv, TypeOK
<1>3. CASE Leave(q)
  BY <1>1, <1>3, LeaveRow, QuietStep DEF At, IInv, TypeOK
<1> QED BY <1>2, <1>3 DEF CheckEmail

LEMMA LinkIdentityStep ==
  ASSUME IInv, NEW q \in Requests, LinkIdentity(q)
  PROVE  IInv'
<1> DEFINE s == req[q].subject
           u == req[q].user
<1>1. /\ req[q].txn # None /\ u \in Users /\ s \in Subjects
      /\ req[q].link = u /\ req[q].step = "link" /\ ~At(q, "setup")
      /\ UNCHANGED <<mode, account, acceptedBy, txn, session, setupLock>>
  BY DEF IInv, TypeOK, RequestsFit, Fits, RequestRows, LinkIdentity, At
<1>2. CASE Leave(q) /\ UNCHANGED identity
  BY <1>1, <1>2, LeaveRow, QuietStep DEF At, IInv, TypeOK, users
<1>3. CASE /\ identity[s] = None /\ identity' = [identity EXCEPT ![s] = u]
           /\ Continue(q, "accept", u, s)
  <2>1. identity' \in [Subjects -> Users \cup {None}] /\ identity'[s] = u
          /\ \A r \in Subjects \ {s} : identity'[r] = identity[r]
    BY <1>1, <1>3 DEF IInv, TypeOK
  <2>2. /\ req' \in [Requests -> RequestRows] /\ Others(q) /\ Fits(req'[q], identity')
        /\ req'[q].txn = req[q].txn /\ req'[q].step = "accept"
    BY <1>1, <1>3, <2>1, ContinueRow DEF IInv
  <2>3. Progress
    BY <1>1, <1>3, <2>1 DEF Progress
  <2>4. TypeOK'
    BY <1>1, <2>1, <2>2 DEF IInv, TypeOK
  <2>5. RequestsFit'
    BY <2>2, <2>3, OwnSuffices DEF IInv
  <2>6. CreatesFit'
    BY <1>1, <2>2 DEF IInv, CreatesFit, At, Others, RegistrationAllows
  <2>7. TxnsApart'
    BY <1>1, <2>2, ApartKept DEF IInv
  <2>8. SessionsFit'
    BY <1>1, <2>3, SessionsKept DEF IInv
  <2>9. LockFits' /\ AccountsAreAllowed'
    BY <1>1, <2>2, <2>3, AccountsKept DEF IInv
  <2> QED BY <2>4, <2>5, <2>6, <2>7, <2>8, <2>9 DEF IInv
<1> QED BY <1>2, <1>3 DEF LinkIdentity

LEMMA AcceptOidcStep ==
  ASSUME IInv, NEW q \in Requests, AcceptOidc(q)
  PROVE  IInv'
<1> DEFINE s == req[q].subject
           u == req[q].user
           i == req[q].invitation
<1>1. /\ req[q].txn # None /\ u \in Users /\ s \in Subjects
      /\ req[q].link \in {None, u} /\ identity[s] = u
      /\ req[q].step = "accept" /\ ~At(q, "setup")
      /\ UNCHANGED <<mode, account, identity, txn, session, setupLock>>
  BY DEF IInv, TypeOK, RequestsFit, Fits, RequestRows, AcceptOidc, At
<1>2. CASE Leave(q) /\ UNCHANGED acceptedBy
  BY <1>1, <1>2, LeaveRow, QuietStep DEF At, IInv, TypeOK, users
<1>3. CASE MayAccept(i, u) /\ Accept(i, u) /\ Continue(q, "session", u, s)
  <2>1. /\ acceptedBy' \in [Invitations -> Users \cup {"open", "closed"}]
        /\ \A j \in Invitations : acceptedBy[j] # "open" => acceptedBy'[j] = acceptedBy[j]
    BY <1>1, <1>3 DEF IInv, TypeOK, Accept, MayAccept, Acceptable
  <2>2. /\ req' \in [Requests -> RequestRows] /\ Others(q) /\ Fits(req'[q], identity')
        /\ req'[q].txn = req[q].txn /\ req'[q].step = "session"
    BY <1>1, <1>3, ContinueRow DEF IInv
  <2>3. Progress
    BY <1>1, <2>1 DEF Progress
  <2>4. TypeOK'
    BY <1>1, <2>1, <2>2 DEF IInv, TypeOK
  <2>5. RequestsFit'
    BY <2>2, <2>3, OwnSuffices DEF IInv
  <2>6. CreatesFit'
    BY <1>1, <2>2 DEF IInv, CreatesFit, At, Others, RegistrationAllows
  <2>7. TxnsApart'
    BY <1>1, <2>2, ApartKept DEF IInv
  <2>8. SessionsFit'
    BY <1>1, <2>3, SessionsKept DEF IInv
  <2>9. LockFits' /\ AccountsAreAllowed'
    BY <1>1, <2>2, <2>3, AccountsKept DEF IInv
  <2> QED BY <2>4, <2>5, <2>6, <2>7, <2>8, <2>9 DEF IInv
<1> QED BY <1>2, <1>3 DEF AcceptOidc

LEMMA CreateOidcUserStep ==
  ASSUME IInv, NEW q \in Requests, CreateOidcUser(q)
  PROVE  IInv'
<1> DEFINE s == req[q].subject
           u == req[q].user
           i == req[q].invitation
<1>1. /\ req[q].txn # None /\ u \in Users /\ s \in Subjects /\ req[q].link = None
      /\ i \in Invitations \cup {None} /\ RegistrationAllows(i)
      /\ req[q].step = "create" /\ ~At(q, "setup")
      /\ UNCHANGED <<mode, txn, session, setupLock>>
  BY DEF IInv, TypeOK, RequestsFit, CreatesFit, Fits, RequestRows, CreateOidcUser, At
<1>2. CASE Leave(q) /\ UNCHANGED users
  BY <1>1, <1>2, LeaveRow, QuietStep DEF At, IInv, TypeOK
<1>3. CASE /\ u \notin Accounts /\ identity[s] = None /\ MayAccept(i, u)
           /\ account' = [account EXCEPT ![u] = "oidc"]
           /\ identity' = [identity EXCEPT ![s] = u]
           /\ Accept(i, u) /\ Continue(q, "session", u, s)
  <2>1. identity' \in [Subjects -> Users \cup {None}] /\ identity'[s] = u
          /\ \A r \in Subjects \ {s} : identity'[r] = identity[r]
    BY <1>1, <1>3 DEF IInv, TypeOK
  <2>2. /\ account' \in [Users -> {None, "setup", "registered", "oidc"}]
        /\ acceptedBy' \in [Invitations -> Users \cup {"open", "closed"}]
        /\ \A v \in Users : account[v] # None => account'[v] = account[v]
        /\ \A j \in Invitations : acceptedBy[j] # "open" => acceptedBy'[j] = acceptedBy[j]
        /\ \A v \in Users : account'[v] = "setup" => account[v] = "setup"
        /\ AccountsAreAllowed'
    <3>1. account[u] = None
      BY <1>1, <1>3 DEF Accounts
    <3> QED BY <1>1, <1>3, <3>1, NewAccount
  <2>3. /\ req' \in [Requests -> RequestRows] /\ Others(q) /\ Fits(req'[q], identity')
        /\ req'[q].txn = req[q].txn /\ req'[q].step = "session"
    BY <1>1, <1>3, <2>1, ContinueRow DEF IInv
  <2>4. Progress
    BY <1>1, <1>3, <2>1, <2>2 DEF Progress
  <2>5. TypeOK'
    BY <1>1, <2>1, <2>2, <2>3 DEF IInv, TypeOK
  <2>6. RequestsFit'
    BY <2>3, <2>4, OwnSuffices DEF IInv
  <2>7. CreatesFit'
    BY <1>1, <2>3 DEF IInv, CreatesFit, At, Others, RegistrationAllows
  <2>8. TxnsApart'
    BY <1>1, <2>3, ApartKept DEF IInv
  <2>9. SessionsFit'
    BY <1>1, <2>4, SessionsKept DEF IInv
  <2>10. LockFits'
    BY <1>1, <2>2, <2>3 DEF IInv, LockFits, At, Others
  <2> QED BY <2>2, <2>5, <2>6, <2>7, <2>8, <2>9, <2>10 DEF IInv
<1> QED BY <1>2, <1>3 DEF CreateOidcUser

LEMMA AbandonStep ==
  ASSUME IInv, NEW q \in Requests, Abandon(q)
  PROVE  IInv'
<1>1. /\ req' \in [Requests -> RequestRows] /\ Others(q) /\ req'[q].txn = None
      /\ Fits(req'[q], identity') /\ req'[q].step \notin {"setup", "create"}
  BY LeaveRow DEF Abandon, IInv
<1>2. /\ setupLock' = (IF setupLock = q THEN None ELSE setupLock)
      /\ UNCHANGED <<mode, users, txn, session>> /\ UNCHANGED <<account, identity, acceptedBy>>
  BY DEF Abandon, users
<1>3. Progress
  BY <1>2 DEF Progress
<1>4. TypeOK'
  BY <1>1, <1>2 DEF IInv, TypeOK
<1>5. RequestsFit'
  BY <1>1, <1>3, OwnSuffices DEF IInv
<1>6. CreatesFit'
  BY <1>1, <1>2 DEF IInv, CreatesFit, At, Others, RegistrationAllows
<1>7. TxnsApart'
  BY <1>1, <1>2, ApartKept DEF IInv
<1>8. SessionsFit'
  BY <1>2, <1>3, SessionsKept DEF IInv
<1>9. LockFits'
  BY <1>1, <1>2 DEF IInv, LockFits, At, Others
<1>10. AccountsAreAllowed'
  BY <1>2 DEF IInv, AccountsAreAllowed
<1> QED BY <1>4, <1>5, <1>6, <1>7, <1>8, <1>9, <1>10 DEF IInv

-----------------------------------------------------------------------------
\* The steps of nobody's request.

LEMMA CloseInvitationStep ==
  ASSUME IInv, NEW i \in Invitations, CloseInvitation(i)
  PROVE  IInv'
<1>1. /\ acceptedBy' \in [Invitations -> Users \cup {"open", "closed"}]
      /\ \A j \in Invitations : acceptedBy[j] # "open" => acceptedBy'[j] = acceptedBy[j]
  BY DEF CloseInvitation, IInv, TypeOK
<1>2. TypeOK'
  BY <1>1 DEF CloseInvitation, IInv, TypeOK
<1>3. RequestsFit' /\ TxnsApart' /\ SessionsFit'
  BY DEF CloseInvitation, IInv, RequestsFit, TxnsApart, SessionsFit
<1>4. CreatesFit' /\ LockFits'
  BY DEF CloseInvitation, IInv, CreatesFit, RegistrationAllows, LockFits, At
<1>5. AccountsAreAllowed'
  <2>1. \A j \in Invitations, u \in Users : acceptedBy[j] = u => acceptedBy'[j] = u
    BY <1>1
  <2> QED BY <2>1 DEF CloseInvitation, IInv, AccountsAreAllowed
<1> QED BY <1>2, <1>3, <1>4, <1>5 DEF IInv

LEMMA ExpireTxnStep ==
  ASSUME IInv, NEW t \in Txns, ExpireTxn(t)
  PROVE  IInv'
<1>1. /\ txn' \in [Txns -> TxnRows]
      /\ \A s \in Txns : txn'[s].state = "pending" => txn[s].state = "pending"
  BY DEF ExpireTxn, IInv, TypeOK, TxnRows, NoTxn
<1>2. TypeOK'
  BY <1>1 DEF ExpireTxn, IInv, TypeOK, users
<1>3. RequestsFit' /\ SessionsFit'
  BY DEF ExpireTxn, IInv, RequestsFit, SessionsFit, users
<1>4. TxnsApart'
  BY <1>1 DEF ExpireTxn, IInv, TxnsApart
<1>5. CreatesFit' /\ LockFits' /\ AccountsAreAllowed'
  BY DEF ExpireTxn, IInv, CreatesFit, RegistrationAllows, LockFits, AccountsAreAllowed, At, users
<1> QED BY <1>2, <1>3, <1>4, <1>5 DEF IInv

LEMMA TickStep ==
  ASSUME IInv, Tick
  PROVE  IInv'
<1>1. \A x \in Sessions :
        /\ session'[x] \in SessionRows /\ session'[x].txn \in {None, session[x].txn}
        /\ SessionFits(session'[x], identity)
  <2> TAKE x \in Sessions
  <2> DEFINE r == session[x]
             older == [state |-> r.state, user |-> r.user, kind |-> r.kind,
                       identity |-> r.identity, txn |-> r.txn, left |-> Less(r.left),
                       idle |-> Less(r.idle), age |-> Older(r.age), unused |-> Older(r.unused)]
  <2>1. r \in SessionRows /\ SessionFits(r, identity)
    BY DEF IInv, TypeOK, SessionsFit
  <2>2. CASE r.left = 1
    <3>1. session'[x] = NoSession
      BY <2>2 DEF Tick
    <3> QED BY <3>1 DEF NoSession, SessionRows, SessionFits
  <2>3. CASE r.left # 1 /\ r.state = "row"
    <3>1. session'[x] = older
      BY <2>3 DEF Tick
    <3>2. older \in SessionRows
      BY <2>1 DEF SessionRows, Less, Older
    <3>3. Clocks(older)
      BY <2>1, <2>3 DEF SessionRows, SessionFits, Clocks, Less, Older
    <3> QED BY <2>1, <2>3, <3>1, <3>2, <3>3 DEF SessionFits
  <2>4. CASE r.left # 1 /\ r.state # "row"
    <3>1. session'[x] = r
      BY <2>4 DEF Tick
    <3> QED BY <2>1, <3>1
  <2> QED BY <2>2, <2>3, <2>4
<1>2. session' \in [Sessions -> SessionRows]
  BY <1>1 DEF Tick
<1>3. TypeOK'
  BY <1>2 DEF Tick, IInv, TypeOK, users
<1>4. SessionsFit'
  BY <1>1 DEF Tick, SessionsFit, users
<1>5. TxnsApart'
  <2>1. \A x \in Sessions : session'[x].txn \in {None, session[x].txn}
    BY <1>1
  <2>2. req' = req /\ txn' = txn /\ None \notin Txns
    BY DEF Tick
  <2> QED BY <2>1, <2>2 DEF IInv, TxnsApart
<1>6. RequestsFit'
  BY DEF Tick, IInv, RequestsFit, users
<1>7. CreatesFit' /\ LockFits' /\ AccountsAreAllowed'
  BY DEF Tick, IInv, CreatesFit, RegistrationAllows, LockFits, AccountsAreAllowed, At, users
<1> QED BY <1>3, <1>4, <1>5, <1>6, <1>7 DEF IInv

-----------------------------------------------------------------------------
\* The theorems.

LEMMA NextStep == IInv /\ [Next]_vars => IInv'
<1> SUFFICES ASSUME IInv, [Next]_vars PROVE IInv' OBVIOUS
<1>1. CASE \E q \in Requests : RequestStep(q)
  <2> SUFFICES ASSUME NEW q \in Requests, RequestStep(q) PROVE IInv'
    BY <1>1
  <2>1. CASE SetupCount(q)
    BY <2>1, SetupCountStep
  <2>2. CASE SetupCommit(q)
    BY <2>2, SetupCommitStep
  <2>3. CASE \E u \in Users, i \in Invitations \cup {None} : Register(q, u, i)
    BY <2>3, RegisterStep
  <2>4. CASE \E u \in Users, kind \in {"cookie", "bearer"} : Login(q, u, kind)
    BY <2>4, LoginStep
  <2>5. CASE CreateSession(q)
    BY <2>5, CreateSessionStep
  <2>6. CASE \E x \in Sessions : Authenticate(q, x)
    BY <2>6, AuthenticateStep
  <2>7. CASE Refresh(q)
    BY <2>7, RefreshStep
  <2>8. CASE \E kind \in {"cookie", "bearer"} : Logout(q, kind)
    BY <2>8, LogoutStep
  <2>9. CASE \E t \in Txns, i \in Invitations \cup {None} : BeginOidc(q, t, i)
    BY <2>9, BeginOidcStep
  <2>10. CASE \E t \in Txns : ClaimTxn(q, t)
    BY <2>10, ClaimTxnStep
  <2>11. CASE \E s \in Subjects, e \in Users \cup {None} : Resolve(q, s, e)
    BY <2>11, ResolveStep
  <2>12. CASE LinkIdentity(q)
    BY <2>12, LinkIdentityStep
  <2>13. CASE AcceptOidc(q)
    BY <2>13, AcceptOidcStep
  <2>14. CASE CheckEmail(q)
    BY <2>14, CheckEmailStep
  <2>15. CASE CreateOidcUser(q)
    BY <2>15, CreateOidcUserStep
  <2>16. CASE Abandon(q)
    BY <2>16, AbandonStep
  <2> QED BY <2>1, <2>2, <2>3, <2>4, <2>5, <2>6, <2>7, <2>8, <2>9, <2>10, <2>11, <2>12,
             <2>13, <2>14, <2>15, <2>16 DEF RequestStep
<1>2. CASE \E i \in Invitations : CloseInvitation(i)
  BY <1>2, CloseInvitationStep
<1>3. CASE \E t \in Txns : ExpireTxn(t)
  BY <1>3, ExpireTxnStep
<1>4. CASE Tick
  BY <1>4, TickStep
<1>5. CASE UNCHANGED vars
  <2>1. TypeOK' /\ RequestsFit' /\ TxnsApart' /\ SessionsFit'
    BY <1>5 DEF IInv, TypeOK, RequestsFit, TxnsApart, SessionsFit, vars
  <2>2. CreatesFit' /\ LockFits' /\ AccountsAreAllowed'
    BY <1>5 DEF IInv, CreatesFit, RegistrationAllows, LockFits, AccountsAreAllowed, At, vars
  <2> QED BY <2>1, <2>2 DEF IInv
<1> QED BY <1>1, <1>2, <1>3, <1>4, <1>5 DEF Next

\* The inductive invariant holds throughout.
THEOREM Invariance == Spec => []IInv
<1> QED BY InitIInv, NextStep, PTL DEF Spec

\* The tables and the locals of the requests are well formed.
THEOREM TypeCorrect == Spec => []TypeOK
<1>1. IInv => TypeOK
  BY DEF IInv
<1> QED BY <1>1, Invariance, PTL

\* The accounts are those that setup and the registration mode allow, with any number of
\* setups, registrations and sign-ins overlapping.
THEOREM AccountsAllowed == Spec => []AccountsAreAllowed
<1>1. IInv => AccountsAreAllowed
  BY DEF IInv
<1> QED BY <1>1, Invariance, PTL

\* A login transaction yields at most one session, of the right user, with any number of
\* callbacks for it.
THEOREM TxnsAreSingleUse == Spec => []OneSessionPerTxn
<1>1. ASSUME IInv, NEW x \in Rows, session[x].identity # None
      PROVE  /\ identity[session[x].identity] = session[x].user
             /\ \A y \in Rows : session[y].txn = session[x].txn => x = y
  BY <1>1 DEF IInv, SessionsFit, SessionFits, TxnsApart, Rows
<1>2. ASSUME IInv, NEW q \in Requests, At(q, "session"), req[q].txn # None
      PROVE  /\ req[q].link \in {None, req[q].user}
             /\ \A x \in Rows : session[x].txn # req[q].txn
  BY <1>2 DEF IInv, RequestsFit, Fits, TxnsApart, Rows, At
<1>3. IInv => OneSessionPerTxn
  BY <1>1, <1>2 DEF OneSessionPerTxn
<1> QED BY <1>3, Invariance, PTL

\* Sessions are refused once the absolute lifetime, or an idle one since their last use,
\* has passed, for any lifetimes.
THEOREM SessionsEnd == Spec => []SessionLifetime
<1>1. ASSUME IInv, NEW x \in Sessions, Live(x)
      PROVE  /\ session[x].age < Absolute
             /\ \/ session[x].unused < Idle
                \/ session[x].kind = "bearer" /\ session[x].unused = session[x].age
  <2>1. session[x] \in SessionRows /\ Clocks(session[x])
    BY <1>1 DEF IInv, TypeOK, SessionsFit, SessionFits, Live
  <2> QED BY <1>1, <2>1 DEF SessionRows, Clocks, Live
<1>2. IInv => SessionLifetime
  BY <1>1 DEF SessionLifetime
<1> QED BY <1>2, Invariance, PTL

\* The action behind IdentityBinding.
BoundAsIntended ==
  \A s \in Subjects : identity'[s] # identity[s] =>
    /\ identity[s] = None
    /\ LET u == identity'[s]
       IN \/ u \notin Accounts /\ account'[u] = "oidc"
          \/ \E q \in Requests : At(q, "link") /\ req[q].link = u

\* Only two steps of a request write identities.
LEMMA IdentityWriters ==
  ASSUME [Next]_vars, identity' # identity
  PROVE  \E q \in Requests : LinkIdentity(q) \/ CreateOidcUser(q)
BY DEF Next, RequestStep, SetupCount, SetupCommit, Register, Login, CreateSession,
       Authenticate, Refresh, Logout, BeginOidc, ClaimTxn, Resolve, AcceptOidc, CheckEmail,
       Abandon, CloseInvitation, ExpireTxn, Tick, vars, users

\* An identity is bound once: by the sign-in that creates its account, or by a linking,
\* to the user who began it; with any number of concurrent callbacks.
THEOREM IdentitiesAreBound == Spec => IdentityBinding
<1>1. IInv /\ [Next]_vars => [BoundAsIntended]_vars
  <2> SUFFICES ASSUME IInv, [Next]_vars, NEW s \in Subjects, identity'[s] # identity[s]
               PROVE  /\ identity[s] = None
                      /\ LET u == identity'[s]
                         IN \/ u \notin Accounts /\ account'[u] = "oidc"
                            \/ \E q \in Requests : At(q, "link") /\ req[q].link = u
    BY DEF BoundAsIntended
  <2>1. PICK q \in Requests : LinkIdentity(q) \/ CreateOidcUser(q)
    BY IdentityWriters
  <2>2. CASE LinkIdentity(q)
    <3>1. identity[req[q].subject] = None
            /\ identity' = [identity EXCEPT ![req[q].subject] = req[q].user]
      BY <2>2 DEF LinkIdentity
    <3>2. s = req[q].subject /\ identity'[s] = req[q].user
      BY <3>1 DEF IInv, TypeOK
    <3>3. At(q, "link") /\ req[q].link = req[q].user
      BY <2>2 DEF LinkIdentity, IInv, RequestsFit, Fits, At
    <3> QED BY <3>1, <3>2, <3>3
  <2>3. CASE CreateOidcUser(q)
    <3> DEFINE u == req[q].user
    <3>1. /\ u \notin Accounts /\ identity[req[q].subject] = None
          /\ identity' = [identity EXCEPT ![req[q].subject] = u]
          /\ account' = [account EXCEPT ![u] = "oidc"]
      BY <2>3 DEF CreateOidcUser, users
    <3>2. s = req[q].subject /\ identity'[s] = u
      BY <3>1 DEF IInv, TypeOK
    <3>3. u \in Users
      BY <2>3 DEF CreateOidcUser, IInv, RequestsFit, Fits, At, TypeOK, RequestRows
    <3>4. account'[u] = "oidc"
      BY <3>1, <3>3 DEF IInv, TypeOK
    <3> QED BY <3>1, <3>2, <3>4
  <2> QED BY <2>1, <2>2, <2>3
<1>2. Spec => [][BoundAsIntended]_vars
  BY <1>1, Invariance, PTL DEF Spec
<1> QED BY <1>2 DEF BoundAsIntended, IdentityBinding

=============================================================================
