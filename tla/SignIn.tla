------------------------------- MODULE SignIn -------------------------------
(***************************************************************************)
(* Accounts, sessions and OIDC sign-in in the local auth mode (auth.rs,    *)
(* oidc.rs, routes.rs): owner setup, registration, password login, the     *)
(* OIDC redirect and its callback, linking an identity, the refresh of a   *)
(* session on every use, logout.  A transaction of the database is one     *)
(* step; a handler that runs several is one step for each, and any of them *)
(* may fail.                                                               *)
(*                                                                         *)
(* A user is its normalised e-mail address (users.email is unique), an     *)
(* identity its subject (unique per provider, and there is one provider),  *)
(* an invitation, a login transaction and a session their token.  One unit *)
(* of time is the twelve hours of an idle session; login transactions last *)
(* ten minutes, so they may expire at any moment and none outlives a unit. *)
(***************************************************************************)
EXTENDS Integers, FiniteSets

CONSTANTS
  Users,
  Subjects,
  Invitations,
  Invited,      \* the address each invitation was issued to
  Modes,        \* registration modes to start in
  Txns,         \* BOUND: login transactions at a time
  Sessions,     \* BOUND: sessions at a time
  Requests,     \* concurrent requests
  Idle,         \* idle lifetime of a session, and
  Absolute,     \* its lifetime in all
  None

ASSUME SignInAssumption ==
  /\ Invited \in [Invitations -> Users]
  /\ Modes \subseteq {"closed", "invite_only", "open"}
  /\ Idle \in Nat \ {0} /\ Absolute \in Nat /\ Idle <= Absolute
  /\ None \notin Users \cup Subjects \cup Invitations \cup Txns \cup Sessions \cup Requests
  /\ {"open", "closed"} \cap Users = {} /\ None \notin {"setup", "registered", "oidc"}

VARIABLES
  mode,         \* registration_mode
  account,      \* users: how each was created, or None
  identity,     \* auth_identities: the user of each subject, or None
  acceptedBy,   \* app_invitations: who accepted, "open", or "closed"
  txn,          \* oidc_transactions
  session,      \* sessions
  setupLock,    \* the holder of the advisory lock of setup_owner
  req           \* where each request is, and its locals

vars == <<mode, account, identity, acceptedBy, txn, session, setupLock, req>>

users == <<account, identity, acceptedBy>>

NoTxn == [state |-> "absent", link |-> None, invitation |-> None]

NoSession == [state |-> "absent", user |-> None, kind |-> None, identity |-> None,
              txn |-> None, left |-> 0, idle |-> 0, age |-> 0, unused |-> 0]

Free == [step |-> "free", user |-> None, kind |-> None, session |-> None,
         subject |-> None, txn |-> None, link |-> None, invitation |-> None]

Init ==
  /\ mode \in Modes
  /\ account = [u \in Users |-> None]
  /\ identity = [s \in Subjects |-> None]
  /\ acceptedBy = [i \in Invitations |-> "open"]
  /\ txn = [t \in Txns |-> NoTxn]
  /\ session = [x \in Sessions |-> NoSession]
  /\ setupLock = None
  /\ req = [q \in Requests |-> Free]

Accounts == {u \in Users : account[u] # None}

At(q, step) == req[q].step = step

Leave(q) == req' = [req EXCEPT ![q] = Free]

\* The handler goes on to create a session of u.
ToSession(q, u, kind) ==
  req' = [req EXCEPT ![q] = [Free EXCEPT !.step = "session", !.user = u, !.kind = kind]]

(***************************************************************************)
(* Accounts with a password.                                               *)
(***************************************************************************)

\* setup_owner: the advisory lock, then the count of users, in one transaction.
\* An insert that another transaction commits meanwhile is not seen.
SetupCount(q) ==
  /\ At(q, "free") /\ setupLock = None /\ Accounts = {}
  /\ setupLock' = q
  /\ req' = [req EXCEPT ![q].step = "setup"]
  /\ UNCHANGED <<mode, users, txn, session>>

\* The inserts and the commit; users.email refuses an address that a registration
\* took since the count.
SetupCommit(q) ==
  /\ At(q, "setup")
  /\ setupLock' = None
  /\ \E u \in Users :
       IF u \in Accounts
       THEN /\ Leave(q) /\ UNCHANGED account
       ELSE /\ account' = [account EXCEPT ![u] = "setup"]
            /\ ToSession(q, u, "cookie")
  /\ UNCHANGED <<mode, identity, acceptedBy, txn, session>>

\* accept_invitation_in_transaction: an open invitation to this very address.  The
\* membership it grants is AppAccess's.
Acceptable(i, u) == acceptedBy[i] = "open" /\ Invited[i] = u

\* An invitation is optional, and accepted in the transaction of its caller.
MayAccept(i, u) == i # None => Acceptable(i, u)

Accept(i, u) ==
  acceptedBy' = IF i = None THEN acceptedBy ELSE [acceptedBy EXCEPT ![i] = u]

\* What the registration mode asks of a request for a new account: in invite_only
\* an invitation, whose validity only the transaction finds out.
RegistrationAllows(i) == mode # "closed" /\ (mode = "invite_only" => i # None)

\* register_user, with or without an invitation: the checks and one transaction.
Register(q, u, i) ==
  /\ At(q, "free")
  /\ RegistrationAllows(i) /\ u \notin Accounts /\ MayAccept(i, u)
  /\ account' = [account EXCEPT ![u] = "registered"]
  /\ Accept(i, u)
  /\ ToSession(q, u, "cookie")
  /\ UNCHANGED <<mode, identity, txn, session, setupLock>>

\* create_session, create_mobile_session: whoever has a password can log in; the
\* users OIDC created have none.
Login(q, u, kind) ==
  /\ At(q, "free")
  /\ account[u] \in {"setup", "registered"}
  /\ ToSession(q, u, kind)
  /\ UNCHANGED <<mode, users, txn, session, setupLock>>

(***************************************************************************)
(* Sessions.                                                               *)
(***************************************************************************)

\* Mutant: a mobile session idles out later than it expires.
NewSessionLong(r) ==
  [state |-> "row", user |-> r.user, kind |-> r.kind, identity |-> r.subject, txn |-> r.txn,
   left |-> Absolute, idle |-> IF r.kind = "bearer" THEN Absolute + 1 ELSE Idle,
   age |-> 0, unused |-> 0]

\* A row: expires_at and idle_expires_at as what is left of each, created_at and
\* last_seen_at as the time since.  A cookie's session idles out first, a bearer's has
\* its whole lifetime.
NewSession(r) ==
  [state |-> "row", user |-> r.user, kind |-> r.kind, identity |-> r.subject, txn |-> r.txn,
   left |-> Absolute, idle |-> IF r.kind = "bearer" THEN Absolute ELSE Idle,
   age |-> 0, unused |-> 0]

\* Tokens are random: one no row and no running request has stands for a new one.
FreshSession(x) ==
  session[x].state = "absent" /\ \A q \in Requests : req[q].session # x

CreateSession(q) ==
  /\ At(q, "session")
  /\ \E x \in Sessions :
       /\ FreshSession(x)
       /\ session' = [session EXCEPT ![x] = NewSession(req[q])]
  /\ Leave(q)
  /\ UNCHANGED <<mode, users, txn, setupLock>>

Live(x) ==
  session[x].state = "row" /\ session[x].left > 0 /\ session[x].idle > 0

\* current_from_session, first statement: the session is looked up.
Authenticate(q, x) ==
  /\ At(q, "free") /\ Live(x)
  /\ req' = [req EXCEPT ![q] = [Free EXCEPT !.step = "refresh", !.user = session[x].user,
                                            !.session = x]]
  /\ UNCHANGED <<mode, users, txn, session, setupLock>>

\* Mutant: a used session gets its whole lifetime anew.
Renewed(r) ==
  [state |-> r.state, user |-> r.user, kind |-> r.kind, identity |-> r.identity,
   txn |-> r.txn, left |-> Absolute, idle |-> Idle, age |-> r.age, unused |-> 0]

\* What a use makes of its session's row: idle_expires_at = least(expires_at, 12 h
\* from now), whatever the kind.
Refreshed(r) ==
  [state |-> r.state, user |-> r.user, kind |-> r.kind, identity |-> r.identity,
   txn |-> r.txn, left |-> r.left, idle |-> IF r.left < Idle THEN r.left ELSE Idle,
   age |-> r.age, unused |-> 0]

\* Second statement: the update, of a row that a logout may have deleted meanwhile.
Refresh(q) ==
  /\ At(q, "refresh")
  /\ session' = [x \in Sessions |->
                   IF x = req[q].session /\ session[x].state = "row"
                   THEN Refreshed(session[x]) ELSE session[x]]
  /\ req' = [req EXCEPT ![q].step = "authorized"]
  /\ UNCHANGED <<mode, users, txn, setupLock>>

\* delete_session clears the session of the cookie, delete_mobile_session that of
\* the bearer; called with the other, both answer and delete nothing.
Logout(q, kind) ==
  /\ At(q, "authorized")
  /\ LET x == req[q].session
     IN session' = IF (session[x].kind = "bearer") = (kind = "bearer")
                   THEN [session EXCEPT ![x] = NoSession] ELSE session
  /\ Leave(q)
  /\ UNCHANGED <<mode, users, txn, setupLock>>

(***************************************************************************)
(* OIDC sign-in.                                                           *)
(***************************************************************************)

FreshTxn(t) ==
  /\ txn[t].state = "absent"
  /\ \A q \in Requests : req[q].txn # t
  /\ \A x \in Sessions : session[x].txn # t

\* begin_oidc, for a login or, with a session, for linking an identity to its user.
\* An invitation must be open; whom it addresses is not looked at yet.
BeginOidc(q, t, i) ==
  /\ At(q, "free") \/ At(q, "authorized")
  /\ FreshTxn(t)
  /\ i # None => acceptedBy[i] = "open"
  /\ txn' = [txn EXCEPT ![t] = [state |-> "pending", invitation |-> i,
                link |-> IF At(q, "authorized") THEN req[q].user ELSE None]]
  /\ Leave(q)
  /\ UNCHANGED <<mode, users, session, setupLock>>

ToExchange(q, t) ==
  req' = [req EXCEPT ![q] = [Free EXCEPT !.step = "exchange", !.txn = t,
                                         !.link = txn[t].link,
                                         !.invitation = txn[t].invitation]]

\* Mutant: the row is read here and left for a later cleanup.
ReadTxn(q, t) ==
  /\ At(q, "free") /\ txn[t].state = "pending"
  /\ ToExchange(q, t)
  /\ UNCHANGED <<mode, users, txn, session, setupLock>>

\* oidc_callback, first statement: the row is deleted and returned, whatever comes
\* of the rest.
ClaimTxn(q, t) ==
  /\ At(q, "free") /\ txn[t].state = "pending"
  /\ txn' = [txn EXCEPT ![t] = NoTxn]
  /\ ToExchange(q, t)
  /\ UNCHANGED <<mode, users, session, setupLock>>

\* The callback goes on with what it has learnt.
Continue(q, step, u, s) ==
  req' = [req EXCEPT ![q] = [req[q] EXCEPT !.step = step, !.user = u, !.kind = "cookie",
                                           !.subject = s]]

\* Mutant: an identity not seen before is linked to the account with its e-mail.
ResolveByEmail(q, s, e) ==
  /\ At(q, "exchange")
  /\ CASE identity[s] # None -> Continue(q, "accept", identity[s], s)
       [] identity[s] = None /\ e \in Accounts -> Continue(q, "link", e, s)
       [] OTHER -> Leave(q)
  /\ UNCHANGED <<mode, users, txn, session, setupLock>>

\* The provider is discovered, the code exchanged and the ID token validated (any
\* failure is Abandon), which names subject s and the verified address e, or none;
\* then resolve_identity's select: a known identity is its user's, which must be
\* the one a link names; an unknown one is linked, or becomes an account if its
\* address is verified.
Resolve(q, s, e) ==
  /\ At(q, "exchange")
  /\ CASE identity[s] # None /\ req[q].link \in {None, identity[s]} ->
            Continue(q, "accept", identity[s], s)
       [] identity[s] = None /\ req[q].link # None -> Continue(q, "link", req[q].link, s)
       [] identity[s] = None /\ req[q].link = None /\ e # None -> Continue(q, "check", e, s)
       [] OTHER -> Leave(q)
  /\ UNCHANGED <<mode, users, txn, session, setupLock>>

\* insert_identity: a subject that another callback bound meanwhile is refused.
LinkIdentity(q) ==
  /\ At(q, "link")
  /\ LET s == req[q].subject
     IN IF identity[s] # None
        THEN Leave(q) /\ UNCHANGED identity
        ELSE /\ identity' = [identity EXCEPT ![s] = req[q].user]
             /\ Continue(q, "accept", req[q].user, s)
  /\ UNCHANGED <<mode, account, acceptedBy, txn, session, setupLock>>

\* accept_oidc_invitation, a transaction of its own: if it fails the identity stays
\* linked and no session is created.
AcceptOidc(q) ==
  /\ At(q, "accept")
  /\ IF MayAccept(req[q].invitation, req[q].user)
     THEN /\ Accept(req[q].invitation, req[q].user)
          /\ Continue(q, "session", req[q].user, req[q].subject)
     ELSE Leave(q) /\ UNCHANGED acceptedBy
  /\ UNCHANGED <<mode, account, identity, txn, session, setupLock>>

\* A new account: its address must be free, and the registration mode allow it.
CheckEmail(q) ==
  /\ At(q, "check")
  /\ IF req[q].user \notin Accounts /\ RegistrationAllows(req[q].invitation)
     THEN Continue(q, "create", req[q].user, req[q].subject)
     ELSE Leave(q)
  /\ UNCHANGED <<mode, users, txn, session, setupLock>>

\* Mutant: an invitation that cannot be accepted does not undo the account.
CreateAnyway(q) ==
  /\ At(q, "create")
  /\ LET r == req[q] IN
       IF r.user \in Accounts \/ identity[r.subject] # None
       THEN Leave(q) /\ UNCHANGED users
       ELSE /\ account' = [account EXCEPT ![r.user] = "oidc"]
            /\ identity' = [identity EXCEPT ![r.subject] = r.user]
            /\ Continue(q, "accept", r.user, r.subject)
            /\ UNCHANGED acceptedBy
  /\ UNCHANGED <<mode, txn, session, setupLock>>

\* create_oidc_user: user, identity and invitation in one transaction, which an
\* address or a subject taken meanwhile, or a closed invitation, rolls back.
CreateOidcUser(q) ==
  /\ At(q, "create")
  /\ LET r == req[q] IN
       IF r.user \in Accounts \/ identity[r.subject] # None \/ ~MayAccept(req[q].invitation, r.user)
       THEN Leave(q) /\ UNCHANGED users
       ELSE /\ account' = [account EXCEPT ![r.user] = "oidc"]
            /\ identity' = [identity EXCEPT ![r.subject] = r.user]
            /\ Accept(req[q].invitation, r.user)
            /\ Continue(q, "session", r.user, r.subject)
  /\ UNCHANGED <<mode, txn, session, setupLock>>

(***************************************************************************)
(* The rest.                                                               *)
(***************************************************************************)

\* The handler answers, or fails at any point: an error of the database, of the
\* provider, or a restart.  A transaction it was in is rolled back and its lock
\* released.
Abandon(q) ==
  /\ ~At(q, "free")
  /\ Leave(q)
  /\ setupLock' = IF setupLock = q THEN None ELSE setupLock
  /\ UNCHANGED <<mode, users, txn, session>>

\* An invitation is revoked, expires, or is accepted by a logged-in user.
CloseInvitation(i) ==
  /\ acceptedBy[i] = "open"
  /\ acceptedBy' = [acceptedBy EXCEPT ![i] = "closed"]
  /\ UNCHANGED <<mode, account, identity, txn, session, setupLock, req>>

\* The ten minutes of a login transaction pass.
ExpireTxn(t) ==
  /\ txn[t].state = "pending"
  /\ txn' = [txn EXCEPT ![t] = NoTxn]
  /\ UNCHANGED <<mode, users, session, setupLock, req>>

Older(n) == IF n < Absolute THEN n + 1 ELSE n

Less(n) == IF n > 0 THEN n - 1 ELSE n

\* Twelve hours pass, in the middle of a request too.  A row past its absolute lifetime
\* is not followed any more: nothing reads it again.
Tick ==
  /\ \A t \in Txns : txn[t].state # "pending"
  /\ session' = [x \in Sessions |->
       LET r == session[x]
       IN IF r.left = 1 THEN NoSession
          ELSE IF r.state = "row"
          THEN [state |-> r.state, user |-> r.user, kind |-> r.kind, identity |-> r.identity,
                txn |-> r.txn, left |-> Less(r.left), idle |-> Less(r.idle),
                age |-> Older(r.age), unused |-> Older(r.unused)]
          ELSE r]
  /\ UNCHANGED <<mode, users, txn, setupLock, req>>

RequestStep(q) ==
  \/ SetupCount(q)
  \/ SetupCommit(q)
  \/ \E u \in Users, i \in Invitations \cup {None} : Register(q, u, i)
  \/ \E u \in Users, kind \in {"cookie", "bearer"} : Login(q, u, kind)
  \/ CreateSession(q)
  \/ \E x \in Sessions : Authenticate(q, x)
  \/ Refresh(q)
  \/ \E kind \in {"cookie", "bearer"} : Logout(q, kind)
  \/ \E t \in Txns, i \in Invitations \cup {None} : BeginOidc(q, t, i)
  \/ \E t \in Txns : ClaimTxn(q, t)
  \/ \E s \in Subjects, e \in Users \cup {None} : Resolve(q, s, e)
  \/ LinkIdentity(q)
  \/ AcceptOidc(q)
  \/ CheckEmail(q)
  \/ CreateOidcUser(q)
  \/ Abandon(q)

Next ==
  \/ \E q \in Requests : RequestStep(q)
  \/ \E i \in Invitations : CloseInvitation(i)
  \/ \E t \in Txns : ExpireTxn(t)
  \/ Tick

Spec == Init /\ [][Next]_vars

(***************************************************************************)
(* Properties.                                                             *)
(***************************************************************************)

TxnRows == [state : {"absent", "pending"}, link : Users \cup {None},
            invitation : Invitations \cup {None}]

SessionRows ==
  [state : {"absent", "row"}, user : Users \cup {None}, kind : {None, "cookie", "bearer"},
   identity : Subjects \cup {None}, txn : Txns \cup {None}, left : 0 .. Absolute,
   idle : 0 .. Absolute, age : 0 .. Absolute, unused : 0 .. Absolute]

RequestRows ==
  [step : {"free", "setup", "session", "refresh", "authorized", "exchange", "link",
           "accept", "check", "create"},
   user : Users \cup {None}, kind : {None, "cookie", "bearer"},
   session : Sessions \cup {None}, subject : Subjects \cup {None},
   txn : Txns \cup {None}, link : Users \cup {None}, invitation : Invitations \cup {None}]

TypeOK ==
  /\ mode \in Modes
  /\ account \in [Users -> {None, "setup", "registered", "oidc"}]
  /\ identity \in [Subjects -> Users \cup {None}]
  /\ acceptedBy \in [Invitations -> Users \cup {"open", "closed"}]
  /\ txn \in [Txns -> TxnRows]
  /\ session \in [Sessions -> SessionRows]
  /\ setupLock \in Requests \cup {None}
  /\ req \in [Requests -> RequestRows]

\* docs/authentication.md:112: an identity is never linked automatically.  A subject
\* is bound once, either to the account its own sign-in creates, or to the user whose
\* session began the linking; with callbacks for one subject overlapping and accounts
\* being registered between the steps of a sign-in.
IdentityBinding ==
  [][\A s \in Subjects : identity'[s] # identity[s] =>
       /\ identity[s] = None
       /\ LET u == identity'[s]
          IN \/ u \notin Accounts /\ account'[u] = "oidc"
             \/ \E q \in Requests : At(q, "link") /\ req[q].link = u]_vars

Rows == {x \in Sessions : session[x].state = "row"}

\* A login transaction yields at most one session, also when its callback is delivered
\* twice: of the user its identity is bound to and, if it was a linking, of the user
\* who began it, so that linking never switches the browser to another account.
OneSessionPerTxn ==
  /\ \A x \in Rows : session[x].identity # None =>
       /\ identity[session[x].identity] = session[x].user
       /\ \A y \in Rows : session[y].txn = session[x].txn => x = y
  /\ \A q \in Requests : At(q, "session") /\ req[q].txn # None =>
       /\ req[q].link \in {None, req[q].user}
       /\ \A x \in Rows : session[x].txn # req[q].txn

\* What the registration mode promises of the accounts there are: setup made one of
\* them at most; if registration is closed there is no other, and if it is by
\* invitation each of the others accepted one that was issued to its address.
AccountsAreAllowed ==
  /\ \A u, v \in Users : account[u] = "setup" /\ account[v] = "setup" => u = v
  /\ \A u \in Users : account[u] \in {"registered", "oidc"} =>
       /\ mode # "closed"
       /\ mode = "invite_only" => \E i \in Invitations : Invited[i] = u /\ acceptedBy[i] = u

\* A session that still opens requests is younger than its absolute lifetime, and was
\* used within the idle lifetime unless it is a mobile session never used since it was
\* created; whatever logouts and refreshes overlapped.
SessionLifetime ==
  \A x \in Sessions : Live(x) =>
    /\ session[x].age < Absolute
    /\ \/ session[x].unused < Idle
       \/ session[x].kind = "bearer" /\ session[x].unused = session[x].age

\* docs/api.md:116: a mobile session is a 30-day session.
MobileSessionsLast ==
  \A x \in Sessions :
    session[x].state = "row" /\ session[x].kind = "bearer"
      /\ session[x].age < Absolute => Live(x)

=============================================================================
