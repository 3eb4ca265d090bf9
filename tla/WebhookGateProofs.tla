------------------------- MODULE WebhookGateProofs -------------------------
(***************************************************************************)
(* Theorems about WebhookGate, for any secrets, keys, lifetimes of the key *)
(* document, refresh backoff and concurrent requests.                      *)
(***************************************************************************)
EXTENDS WebhookGate, TLAPS

USE GateAssumption

\* What the locals of a request say: the keys Google answered were withdrawn after that
\* at the earliest, and a delivery is accepted for a key that is not dead, or for a
\* secret the source has had.
Fits(q) ==
  /\ req[q].step \in {"key", "fetch", "answer"} => req[q].key \in Keys
  /\ At(q, "answer") => \A k \in req[q].keys : gone[k] <= 1
  /\ At(q, "accepted") => req[q].stale <= MaxTtl
  /\ At(q, "accepted") /\ req[q].guarded /\ kind # "app_store" /\ req[q].key = None =>
       req[q].secret \in secrets

RequestsFit == \A q \in Requests : Fits(q)

\* What is left of the cached document's lifetime bounds how long ago one of its keys
\* can have been withdrawn.
CacheFits == cache.left > 0 => \A k \in cache.keys : gone[k] <= 1 + MaxTtl - cache.left

PublishedFits == \A k \in published : gone[k] = 0

\* A source that has had a secret has one.
SecretsFit ==
  /\ source.secret \in secrets \cup {None}
  /\ secrets # {} => source.secret \in secrets

IInv == TypeOK /\ RequestsFit /\ CacheFits /\ PublishedFits /\ SecretsFit

-----------------------------------------------------------------------------
\* What the steps of a request have in common.

\* The longest lifetime.
LEMMA MaxTtlFacts == MaxTtl \in Nat \ {0} /\ \A t \in Ttls : t <= MaxTtl
<1> DEFINE Longest(t) == t \in Ttls /\ \A u \in Ttls : u <= t
<1>1. \E t : Longest(t)
  OBVIOUS
<1>2. MaxTtl = CHOOSE t : Longest(t)
  BY DEF MaxTtl
<1>3. Longest(MaxTtl)
  BY <1>1, <1>2
<1> QED BY <1>3

\* A merge of settings is settings.
LEMMA MergedType ==
  ASSUME NEW old \in Settings, NEW secret \in Secrets \cup {None},
         NEW field \in Fields \cup {None}, appPackage \in Packages
  PROVE  Merged(old, secret, field) \in Settings /\ Merged(old, secret, field).secret = secret
BY DEF Merged, Settings

\* The invariant holds of a new source.
THEOREM InitIInv == Init => IInv
<1> SUFFICES ASSUME Init PROVE IInv OBVIOUS
<1>1. PICK secret \in Secrets \cup {None}, field \in Fields \cup {None} :
        source = Merged(NoSettings, secret, field) /\ secrets = {secret} \ {None}
  BY DEF Init
<1>2. NoSettings \in Settings
  BY DEF NoSettings, Settings
<1>3. source \in Settings /\ source.secret = secret
  BY <1>1, <1>2, MergedType DEF Init
<1>4. TypeOK
  <2>1. Free \in RequestRows /\ Free.step = "free"
    BY MaxTtlFacts DEF Free, RequestRows
  <2>2. req \in [Requests -> RequestRows] /\ \A q \in Requests : req[q].step = "free"
    BY <2>1 DEF Init
  <2>3. gone \in [Keys -> 0 .. MaxTtl + 2]
    BY MaxTtlFacts DEF Init
  <2>4. cache \in [keys : SUBSET Keys, left : 0 .. MaxTtl, attempt : 0 .. Backoff]
    BY MaxTtlFacts DEF Init
  <2> QED BY <1>1, <1>3, <2>2, <2>3, <2>4 DEF Init, TypeOK, Requests
<1>5. RequestsFit
  BY DEF Init, RequestsFit, Fits, At, Free
<1>6. CacheFits /\ PublishedFits
  BY DEF Init, CacheFits, PublishedFits
<1>7. SecretsFit
  BY <1>1, <1>3 DEF SecretsFit
<1> QED BY <1>4, <1>5, <1>6, <1>7 DEF IInv

RestSame(q) == \A r \in Requests \ {q} : req'[r] = req[r]

\* A request's row, and that of nobody else, is written.
Own(q) ==
  /\ req' \in [Requests -> RequestRows] /\ RestSame(q)
  /\ Fits(q)'
  /\ lock' = q <=> req'[q].step \in {"fetch", "answer"}

\* Such a step keeps the invariant if it writes nothing else that the invariant reads,
\* or the cache as CacheFits says.
LEMMA OwnSuffices ==
  ASSUME IInv, NEW q \in Requests, Own(q), UNCHANGED <<settings, google>>,
         cache' \in [keys : SUBSET Keys, left : 0 .. MaxTtl, attempt : 0 .. Backoff],
         CacheFits', pending' \in BOOLEAN,
         \/ lock' = lock
         \/ lock = None /\ lock' = q
         \/ lock = q /\ lock' = None
  PROVE  IInv'
<1>1. UNCHANGED <<kind, appPackage, source, edits, secrets, published, gone>>
  BY DEF settings, google
<1>2. TypeOK'
  <2>1. \A r \in Requests : lock' = r <=> req'[r].step \in {"fetch", "answer"}
    <3> TAKE r \in Requests
    <3>1. r # None
      BY DEF Requests
    <3>2. lock = r <=> req[r].step \in {"fetch", "answer"}
      BY DEF IInv, TypeOK
    <3>3. CASE r = q
      BY <3>3 DEF Own
    <3>4. CASE r # q
      <4>1. req'[r] = req[r] /\ (lock' = r <=> lock = r)
        BY <3>1, <3>4 DEF Own, RestSame
      <4> QED BY <3>2, <4>1
    <3> QED BY <3>3, <3>4
  <2> QED BY <1>1, <2>1 DEF IInv, TypeOK, Own
<1>3. RequestsFit'
  BY <1>1 DEF IInv, RequestsFit, Fits, Own, RestSame, At
<1>4. PublishedFits' /\ SecretsFit'
  BY <1>1 DEF IInv, PublishedFits, SecretsFit
<1> QED BY <1>2, <1>3, <1>4 DEF IInv

\* The cache as it was still fits.
LEMMA SameCache ==
  ASSUME IInv, UNCHANGED <<cache, gone>>
  PROVE  CacheFits' /\ cache' \in [keys : SUBSET Keys, left : 0 .. MaxTtl, attempt : 0 .. Backoff]
BY DEF IInv, TypeOK, CacheFits

\* A request that ends owns its row, and no lock if it had none.
LEMMA LeaveOwn ==
  ASSUME IInv, NEW q \in Requests, Leave(q), lock' # q
  PROVE  Own(q)
<1>2. Free \in RequestRows /\ Free.step = "free"
  BY MaxTtlFacts DEF Free, RequestRows
<1>3. req' \in [Requests -> RequestRows] /\ RestSame(q) /\ req'[q] = Free
  BY <1>2 DEF IInv, TypeOK, Leave, RestSame
<1> QED BY <1>2, <1>3 DEF Own, Fits, At

\* A token that is judged by a key that was withdrawn no longer ago than MaxTtl.
LEMMA JudgeOwn ==
  ASSUME IInv, NEW q \in Requests, Judge(q), lock' # q, UNCHANGED <<settings, google>>,
         req[q].key \in Keys, gone[req[q].key] <= MaxTtl
  PROVE  Own(q)
<1>1. CASE Leave(q)
  BY <1>1, LeaveOwn
<1>2. CASE req' = [req EXCEPT ![q].step = "accepted", ![q].stale = gone[req[q].key],
                              ![q].keys = {}]
  <2> DEFINE row == [req[q] EXCEPT !.step = "accepted", !.stale = gone[req[q].key], !.keys = {}]
  <2>1. req[q] \in RequestRows /\ gone[req[q].key] \in 0 .. MaxTtl + 2
    BY DEF IInv, TypeOK
  <2>2. /\ row \in RequestRows /\ row.step = "accepted" /\ row.key = req[q].key
        /\ row.stale = gone[req[q].key]
    BY <2>1 DEF RequestRows
  <2>3. req' \in [Requests -> RequestRows] /\ RestSame(q) /\ req'[q] = row
    BY <1>2, <2>2 DEF IInv, TypeOK, RestSame
  <2>4. Fits(q)'
    BY <2>2, <2>3 DEF Fits, At
  <2> QED BY <2>2, <2>3, <2>4 DEF Own
<1> QED BY <1>1, <1>2 DEF Judge

-----------------------------------------------------------------------------
\* Every step keeps the invariant.

LEMMA RenameAppStep ==
  ASSUME IInv, NEW p \in Packages, RenameApp(p)
  PROVE  IInv'
<1>1. /\ appPackage' = p
      /\ UNCHANGED <<kind, source, edits, secrets, published, gone, cache, lock, pending, req>>
  BY DEF RenameApp, google
<1>2. TypeOK'
  BY <1>1 DEF IInv, TypeOK
<1>3. RequestsFit' /\ CacheFits' /\ PublishedFits' /\ SecretsFit'
  BY <1>1 DEF IInv, RequestsFit, Fits, At, CacheFits, PublishedFits, SecretsFit
<1> QED BY <1>2, <1>3 DEF IInv

LEMMA UpdateReadStep ==
  ASSUME IInv, NEW secret \in Secrets \cup {None}, NEW field \in Fields \cup {None},
         UpdateRead(secret, field)
  PROVE  IInv'
<1>1. Merged(source, secret, field) \in Settings
  BY MergedType DEF IInv, TypeOK
<1>2. /\ edits' = edits \cup {Merged(source, secret, field)}
      /\ UNCHANGED <<kind, appPackage, source, secrets, published, gone, cache, lock,
                     pending, req>>
  BY DEF UpdateRead, google
<1>3. TypeOK'
  BY <1>1, <1>2 DEF IInv, TypeOK
<1>4. RequestsFit' /\ CacheFits' /\ PublishedFits' /\ SecretsFit'
  BY <1>2 DEF IInv, RequestsFit, Fits, At, CacheFits, PublishedFits, SecretsFit
<1> QED BY <1>3, <1>4 DEF IInv

\* What is written has a secret if the source has one, whatever was read and however
\* long ago.
LEMMA UpdateStep ==
  ASSUME IInv, NEW new \in edits, Update(new)
  PROVE  IInv'
<1> DEFINE secret == IF new.secret = None THEN source.secret ELSE new.secret
<1>1. UNCHANGED <<kind, appPackage, published, gone, cache, lock, pending, req>>
  BY DEF Update, google
<1>2. new \in Settings /\ source \in Settings /\ edits' \in SUBSET Settings
  BY DEF Update, IInv, TypeOK
<1>3. source' \in Settings /\ source'.secret = secret
  BY <1>2 DEF Update, Settings
<1>4. secrets' = secrets \cup ({new.secret} \ {None}) /\ secrets' \subseteq Secrets
  BY <1>2 DEF Update, IInv, TypeOK, Settings
<1>5. TypeOK'
  BY <1>1, <1>2, <1>3, <1>4 DEF IInv, TypeOK
<1>6. RequestsFit'
  BY <1>1, <1>4 DEF IInv, RequestsFit, Fits, At
<1>7. CacheFits' /\ PublishedFits'
  BY <1>1 DEF IInv, CacheFits, PublishedFits
<1>8. SecretsFit'
  BY <1>3, <1>4 DEF IInv, SecretsFit
<1> QED BY <1>5, <1>6, <1>7, <1>8 DEF IInv

\* A delivery accepted on receipt for no signature presents the source's secret, if the
\* source has ever had one.
LEMMA ReceiveStep ==
  ASSUME IInv, NEW q \in Requests, NEW d \in Deliveries, Receive(q, d)
  PROVE  IInv'
<1> DEFINE step == Outcome(source, d)
           row == [step |-> step, stale |-> 0, keys |-> {},
                   guarded |-> step = "accepted" /\ secrets # {},
                   secret |-> IF step = "accepted" THEN d.secret ELSE None,
                   key |-> IF step = "key" THEN d.key ELSE None,
                   matches |-> TokenMatches(source, d)]
<1>1. step # "free" /\ req' = [req EXCEPT ![q] = row]
  BY DEF Receive
<1>2. step \in {"accepted", "key"} /\ (step = "key" => d.key # None)
  <2>1. kind \in {"google_play", "app_store", "other"}
    BY DEF IInv, TypeOK
  <2> QED BY <1>1, <2>1 DEF Outcome, HasToken
<1>3. step = "accepted" /\ secrets # {} /\ kind # "app_store" => d.secret \in secrets
  <2>1. kind \in {"google_play", "app_store", "other"}
    BY DEF IInv, TypeOK
  <2>2. None \notin secrets
    BY DEF IInv, TypeOK
  <2> QED BY <2>1, <2>2 DEF Outcome, SecretMatches, IInv, SecretsFit
<1>4. row \in RequestRows
  <2>1. d.secret \in Secrets \cup {None} /\ d.key \in Keys \cup {None}
    BY DEF Deliveries
  <2>2. TokenMatches(source, d) \in BOOLEAN
    BY DEF TokenMatches, PackageMatches
  <2> QED BY <1>2, <2>1, <2>2, MaxTtlFacts DEF RequestRows
<1>5. req' \in [Requests -> RequestRows] /\ RestSame(q) /\ req'[q] = row
  BY <1>1, <1>4 DEF IInv, TypeOK, RestSame
<1>6. lock' = lock /\ lock # q /\ UNCHANGED <<kind, secrets>>
  BY DEF Receive, IInv, TypeOK, At, settings
<1>7. Fits(q)'
  <2>1. d.key \in Keys \cup {None} /\ 0 <= MaxTtl
    BY MaxTtlFacts DEF Deliveries
  <2>2. /\ row.step = step /\ row.stale = 0 /\ row.guarded = (step = "accepted" /\ secrets # {})
        /\ row.secret = (IF step = "accepted" THEN d.secret ELSE None)
        /\ row.key = (IF step = "key" THEN d.key ELSE None)
    OBVIOUS
  <2> HIDE DEF row, step
  <2> QED BY <1>2, <1>3, <1>5, <1>6, <2>1, <2>2 DEF Fits, At
<1>8. Own(q)
  BY <1>2, <1>5, <1>6, <1>7 DEF Own
<1> QED BY <1>6, <1>8, OwnSuffices, SameCache DEF Receive, google, IInv, TypeOK

LEMMA PushStep ==
  ASSUME IInv, Push
  PROVE  IInv'
<1>1. PICK k \in published :
        Receive(Pubsub, [secret |-> None, key |-> k, field |-> Account,
                         package |-> appPackage, sandbox |-> FALSE])
  BY DEF Push
<1>2. [secret |-> None, key |-> k, field |-> Account, package |-> appPackage,
       sandbox |-> FALSE] \in Deliveries
  BY DEF Deliveries, IInv, TypeOK
<1> QED BY <1>1, <1>2, ReceiveStep DEF Requests

LEMMA UseCachedStep ==
  ASSUME IInv, NEW q \in Requests, UseCached(q)
  PROVE  IInv'
<1>1. lock = None /\ lock' = lock /\ q # None
  BY DEF UseCached, AtKey, Requests
<1>2. req[q].key \in Keys
  BY DEF UseCached, AtKey, At, IInv, RequestsFit, Fits
<1>3. gone[req[q].key] <= MaxTtl
  <2>1. cache.left > 0 /\ cache.left \in 0 .. MaxTtl
          /\ gone[req[q].key] <= 1 + MaxTtl - cache.left
    BY DEF UseCached, Cached, IInv, TypeOK, CacheFits
  <2>2. gone[req[q].key] \in 0 .. MaxTtl + 2
    BY <1>2 DEF IInv, TypeOK
  <2> QED BY <2>1, <2>2, MaxTtlFacts
<1>4. Own(q)
  BY <1>1, <1>2, <1>3, JudgeOwn DEF UseCached
<1> QED BY <1>1, <1>4, OwnSuffices, SameCache DEF UseCached, google, IInv, TypeOK

LEMMA SuppressStep ==
  ASSUME IInv, NEW q \in Requests, Suppress(q)
  PROVE  IInv'
<1>1. lock = None /\ lock' = lock /\ q # None
  BY DEF Suppress, AtKey, Requests
<1>2. Own(q)
  BY <1>1, LeaveOwn DEF Suppress
<1> QED BY <1>1, <1>2, OwnSuffices, SameCache DEF Suppress, google, IInv, TypeOK

LEMMA StartFetchStep ==
  ASSUME IInv, NEW q \in Requests, StartFetch(q)
  PROVE  IInv'
<1> DEFINE row == [req[q] EXCEPT !.step = "fetch"]
<1>1. req[q] \in RequestRows /\ req[q].key \in Keys
  BY DEF IInv, TypeOK, RequestsFit, Fits, StartFetch, AtKey, At
<1>2. row \in RequestRows /\ row.step = "fetch" /\ row.key = req[q].key
  BY <1>1 DEF RequestRows
<1>3. req' \in [Requests -> RequestRows] /\ RestSame(q) /\ req'[q] = row
  BY <1>2 DEF StartFetch, IInv, TypeOK, RestSame
<1>4. lock = None /\ lock' = q
  BY DEF StartFetch, AtKey
<1>5. Own(q)
  BY <1>1, <1>2, <1>3, <1>4 DEF Own, Fits, At
<1>6. cache' \in [keys : SUBSET Keys, left : 0 .. MaxTtl, attempt : 0 .. Backoff] /\ CacheFits'
  BY DEF StartFetch, google, IInv, TypeOK, CacheFits
<1> QED BY <1>4, <1>5, <1>6, OwnSuffices DEF StartFetch, IInv, TypeOK

LEMMA FetchAnswerStep ==
  ASSUME IInv, NEW q \in Requests, FetchAnswer(q)
  PROVE  IInv'
<1> DEFINE row == [req[q] EXCEPT !.step = "answer", !.keys = published]
<1>1. req[q] \in RequestRows /\ req[q].key \in Keys /\ published \in SUBSET Keys
  BY DEF IInv, TypeOK, RequestsFit, Fits, FetchAnswer, At
<1>2. /\ row \in RequestRows /\ row.step = "answer" /\ row.key = req[q].key
      /\ row.keys = published
  BY <1>1 DEF RequestRows
<1>3. req' \in [Requests -> RequestRows] /\ RestSame(q) /\ req'[q] = row
  BY <1>2 DEF FetchAnswer, IInv, TypeOK, RestSame
<1>4. lock' = q /\ lock' = lock /\ gone' = gone
  BY DEF FetchAnswer, IInv, TypeOK, At, google
<1>5. \A k \in published : gone[k] <= 1
  BY DEF IInv, PublishedFits
<1>6. Own(q)
  BY <1>1, <1>2, <1>3, <1>4, <1>5 DEF Own, Fits, At
<1> QED BY <1>4, <1>6, OwnSuffices, SameCache DEF FetchAnswer, IInv, TypeOK

\* The keys that are cached were current when Google answered.
LEMMA FetchDoneStep ==
  ASSUME IInv, NEW q \in Requests, NEW ttl \in Ttls, FetchDone(q, ttl)
  PROVE  IInv'
<1>1. /\ lock = q /\ lock' = None /\ q # None /\ req[q].key \in Keys
      /\ req[q].keys \in SUBSET Keys /\ \A k \in req[q].keys : gone[k] <= 1
      /\ gone' = gone
  BY DEF FetchDone, IInv, TypeOK, RequestsFit, Fits, At, RequestRows, google, Requests
<1>2. Own(q)
  <2>1. CASE req[q].key \in req[q].keys /\ Judge(q)
    <3>1. gone[req[q].key] <= MaxTtl
      <4>1. gone[req[q].key] <= 1 /\ gone[req[q].key] \in 0 .. MaxTtl + 2
        BY <1>1, <2>1 DEF IInv, TypeOK
      <4> QED BY <4>1, MaxTtlFacts
    <3> QED BY <1>1, <2>1, <3>1, JudgeOwn DEF FetchDone
  <2>2. CASE Leave(q)
    BY <1>1, <2>2, LeaveOwn
  <2> QED BY <2>1, <2>2 DEF FetchDone
<1>3. cache' = [keys |-> req[q].keys, left |-> ttl, attempt |-> cache.attempt]
  BY DEF FetchDone, IInv, TypeOK
<1>4. ttl \in 1 .. MaxTtl
  BY MaxTtlFacts
<1>5. cache' \in [keys : SUBSET Keys, left : 0 .. MaxTtl, attempt : 0 .. Backoff]
  BY <1>1, <1>3, <1>4 DEF IInv, TypeOK
<1>6. CacheFits'
  <2>1. \A k \in req[q].keys : gone[k] \in 0 .. MaxTtl + 2 /\ gone[k] <= 1
    BY <1>1 DEF IInv, TypeOK
  <2> QED BY <1>1, <1>3, <1>4, <2>1, MaxTtlFacts DEF CacheFits
<1> QED BY <1>1, <1>2, <1>5, <1>6, OwnSuffices DEF FetchDone, IInv, TypeOK

LEMMA AnswerStep ==
  ASSUME IInv, NEW q \in Requests, Answer(q)
  PROVE  IInv'
<1>1. lock' = lock /\ lock # q
  BY DEF Answer, IInv, TypeOK, At
<1>2. Own(q)
  BY <1>1, LeaveOwn DEF Answer
<1> QED BY <1>1, <1>2, OwnSuffices, SameCache DEF Answer, google, IInv, TypeOK

LEMMA DropStep ==
  ASSUME IInv, NEW q \in Requests, Drop(q)
  PROVE  IInv'
<1>1. (lock = q /\ lock' = None) \/ (lock # q /\ lock' = lock)
  BY DEF Drop
<1>2. q # None
  BY DEF Requests
<1>3. Own(q)
  BY <1>1, <1>2, LeaveOwn DEF Drop
<1> QED BY <1>1, <1>3, OwnSuffices, SameCache DEF Drop, google, IInv, TypeOK

LEMMA PublishStep ==
  ASSUME IInv, NEW k \in Keys, Publish(k)
  PROVE  IInv'
<1>1. /\ published' = published \cup {k} /\ gone[k] = 0
      /\ UNCHANGED <<kind, appPackage, source, edits, secrets, gone, cache, lock, pending, req>>
  BY DEF Publish, settings
<1>2. TypeOK'
  BY <1>1 DEF IInv, TypeOK
<1>3. RequestsFit' /\ CacheFits' /\ PublishedFits' /\ SecretsFit'
  BY <1>1 DEF IInv, RequestsFit, Fits, At, CacheFits, PublishedFits, SecretsFit
<1> QED BY <1>2, <1>3 DEF IInv

LEMMA WithdrawStep ==
  ASSUME IInv, NEW k \in Keys, Withdraw(k)
  PROVE  IInv'
<1>1. /\ k \in published /\ published # {k} /\ published' = published \ {k}
      /\ gone' = [gone EXCEPT ![k] = 1]
      /\ UNCHANGED <<kind, appPackage, source, edits, secrets, cache, lock, pending, req>>
  BY DEF Withdraw, settings
<1>2. gone' \in [Keys -> 0 .. MaxTtl + 2]
  BY <1>1, MaxTtlFacts DEF IInv, TypeOK
<1>3. /\ \A j \in Keys : gone'[j] = IF j = k THEN 1 ELSE gone[j]
      /\ \A j \in Keys : gone[j] \in 0 .. MaxTtl + 2
  BY <1>1 DEF IInv, TypeOK
<1>4. published \subseteq Keys /\ cache.keys \subseteq Keys /\ cache.left \in 0 .. MaxTtl
        /\ \A q \in Requests : req[q].keys \subseteq Keys
  BY DEF IInv, TypeOK, RequestRows
<1>5. TypeOK'
  BY <1>1, <1>2, <1>4 DEF IInv, TypeOK
<1>6. RequestsFit'
  BY <1>1, <1>3, <1>4 DEF IInv, RequestsFit, Fits, At
<1>7. CacheFits'
  BY <1>1, <1>3, <1>4, MaxTtlFacts DEF IInv, CacheFits
<1>8. PublishedFits' /\ SecretsFit'
  BY <1>1, <1>3, <1>4 DEF IInv, PublishedFits, SecretsFit
<1> QED BY <1>5, <1>6, <1>7, <1>8 DEF IInv

LEMMA TickStep ==
  ASSUME IInv, Tick
  PROVE  IInv'
<1>1. /\ lock = None
      /\ UNCHANGED <<kind, appPackage, source, edits, secrets, published, lock, pending, req>>
  BY DEF Tick, settings
<1>2. /\ cache.keys \subseteq Keys /\ cache.left \in 0 .. MaxTtl
      /\ cache.attempt \in 0 .. Backoff /\ published \subseteq Keys
      /\ gone \in [Keys -> 0 .. MaxTtl + 2]
  BY DEF IInv, TypeOK
<1>3. \A k \in Keys :
        gone'[k] = IF gone[k] \in 1 .. MaxTtl + 1 THEN gone[k] + 1 ELSE gone[k]
  BY DEF Tick
<1>4. gone' \in [Keys -> 0 .. MaxTtl + 2]
  BY <1>2, MaxTtlFacts DEF Tick
<1>5. /\ cache'.keys = cache.keys
      /\ cache'.left = (IF cache.left > 0 THEN cache.left - 1 ELSE 0)
  BY DEF Tick
<1>6. cache' \in [keys : SUBSET Keys, left : 0 .. MaxTtl, attempt : 0 .. Backoff]
  BY <1>2, MaxTtlFacts DEF Tick
<1>7. TypeOK'
  BY <1>1, <1>4, <1>6 DEF IInv, TypeOK
<1>8. \A q \in Requests : ~At(q, "answer")
  BY <1>1 DEF IInv, TypeOK, At, Requests
<1>9. RequestsFit'
  BY <1>1, <1>8 DEF IInv, RequestsFit, Fits, At
<1>10. CacheFits'
  <2> SUFFICES ASSUME cache'.left > 0, NEW k \in cache.keys
               PROVE  gone'[k] <= 1 + MaxTtl - cache'.left
    BY <1>5 DEF CacheFits
  <2>1. cache'.left = cache.left - 1 /\ gone[k] <= 1 + MaxTtl - cache.left
    BY <1>2, <1>5 DEF IInv, CacheFits
  <2>2. k \in Keys /\ gone[k] \in 0 .. MaxTtl + 2 /\ gone'[k] <= gone[k] + 1
    BY <1>2, <1>3, MaxTtlFacts
  <2>3. gone'[k] \in 0 .. MaxTtl + 2
    BY <1>4, <2>2
  <2> QED BY <1>2, <2>1, <2>2, <2>3, MaxTtlFacts
<1>11. PublishedFits' /\ SecretsFit'
  BY <1>1, <1>2, <1>3 DEF IInv, PublishedFits, SecretsFit
<1> QED BY <1>7, <1>9, <1>10, <1>11 DEF IInv

-----------------------------------------------------------------------------
\* The theorems.

LEMMA NextStep == IInv /\ [Next]_vars => IInv'
<1> SUFFICES ASSUME IInv, [Next]_vars PROVE IInv' OBVIOUS
<1>1. CASE \E p \in Packages : RenameApp(p)
  BY <1>1, RenameAppStep
<1>2. CASE \/ \E secret \in Secrets \cup {None}, field \in Fields \cup {None} :
                UpdateRead(secret, field)
           \/ \E new \in edits : Update(new)
           \/ \E q \in Others, d \in Deliveries : Receive(q, d)
  BY <1>2, UpdateReadStep, UpdateStep, ReceiveStep DEF Requests
<1>3. CASE Push
  BY <1>3, PushStep
<1>4. ASSUME NEW q \in Requests,
             \/ UseCached(q) \/ Suppress(q)
             \/ StartFetch(q) \/ FetchAnswer(q)
             \/ \E ttl \in Ttls : FetchDone(q, ttl)
             \/ Answer(q)
             \/ Drop(q)
      PROVE  IInv'
  BY <1>4, UseCachedStep, SuppressStep, StartFetchStep, FetchAnswerStep, FetchDoneStep,
     AnswerStep, DropStep
<1>5. CASE \E k \in Keys : Publish(k) \/ Withdraw(k)
  BY <1>5, PublishStep, WithdrawStep
<1>6. CASE Tick
  BY <1>6, TickStep
<1>7. CASE UNCHANGED vars
  <2>1. TypeOK'
    BY <1>7 DEF IInv, TypeOK, vars
  <2>2. RequestsFit' /\ CacheFits' /\ PublishedFits' /\ SecretsFit'
    BY <1>7 DEF IInv, RequestsFit, Fits, At, CacheFits, PublishedFits, SecretsFit, vars
  <2> QED BY <2>1, <2>2 DEF IInv
<1> QED BY <1>1, <1>2, <1>3, <1>4, <1>5, <1>6, <1>7 DEF Next

\* The inductive invariant holds throughout.
THEOREM Invariance == Spec => []IInv
<1> QED BY InitIInv, NextStep, PTL DEF Spec

\* Settings, cache and the locals of the requests are well formed, and the mutex is held
\* exactly by the request that fetches.
THEOREM TypeCorrect == Spec => []TypeOK
<1>1. IInv => TypeOK
  BY DEF IInv
<1> QED BY <1>1, Invariance, PTL

\* A key is not accepted longer after its withdrawal than the longest lifetime that
\* Google gives its key document.
THEOREM WithdrawnKeysDie == Spec => []WithdrawnKeyDies
<1>1. IInv => WithdrawnKeyDies
  BY DEF IInv, RequestsFit, Fits, WithdrawnKeyDies
<1> QED BY <1>1, Invariance, PTL

\* No number of overlapping credential updates, in any order, opens a source that has had
\* a secret.
THEOREM SecuredStaysSecured == Spec => []OnceSecuredStaysSecured
<1>1. IInv => OnceSecuredStaysSecured
  BY DEF IInv, RequestsFit, Fits, OnceSecuredStaysSecured
<1> QED BY <1>1, Invariance, PTL

=============================================================================
