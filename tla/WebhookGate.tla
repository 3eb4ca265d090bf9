---------------------------- MODULE WebhookGate ----------------------------
(***************************************************************************)
(* What a delivery must show before anything of it is stored               *)
(* (process_webhook, webhook_verification.rs): the secret of its source, a *)
(* Google Pub/Sub token or an Apple signature, against the settings the    *)
(* source's row had when the delivery was read.  Operators change the      *)
(* settings meanwhile (routes.rs), and Google rotates the keys that the    *)
(* process caches behind one mutex.  Signatures, hashes and encodings are  *)
(* taken as what they stand for: who signed, and which value was meant.    *)
(*                                                                         *)
(* A unit of time is shorter than the refresh backoff (thirty seconds) and *)
(* longer than a fetch, which times out after five.                        *)
(***************************************************************************)
EXTENDS Integers, FiniteSets

CONSTANTS
  Kinds,        \* source types to check: Google Play, App Store, and the rest ("other")
  Secrets,      \* webhook secrets
  Packages,     \* package names or bundle ids
  Fields,       \* service account e-mails, or App Store app ids
  Account,      \* the one Google's genuine pushes carry
  Keys,         \* Google's signing keys
  First,        \* those published to begin with
  Ttls,         \* lifetimes that Cache-Control gives the key document
  Backoff,      \* between two refreshes
  MaxEdits,     \* bound, for each kind: different updates that are in flight at once
  Others,       \* concurrent requests, besides
  Pubsub,       \* the one that brings the pending Pub/Sub message
  None

ASSUME GateAssumption ==
  /\ Kinds \subseteq {"google_play", "app_store", "other"}
  /\ Account \in Fields /\ First \subseteq Keys /\ First # {}
  /\ Ttls \subseteq Nat \ {0} /\ \E t \in Ttls : \A u \in Ttls : u <= t
  /\ Backoff \in Nat \ {0}
  /\ MaxEdits \in [Kinds -> Nat]
  /\ Pubsub \notin Others
  /\ None \notin Secrets \cup Packages \cup Fields \cup Keys \cup Others \cup {Pubsub}

Requests == Others \cup {Pubsub}

MaxTtl == CHOOSE t \in Ttls : \A u \in Ttls : u <= t

VARIABLES
  kind,         \* the source's source_type, which never changes
  appPackage,   \* apps.google_package_name or apple_bundle_id
  source,       \* the columns of data_sources that verification reads
  edits,        \* what the updates in flight have merged and not written yet
  published,    \* Google's current keys
  gone,         \* history: how long ago each key was withdrawn, 0 if it was not
  cache,        \* GOOGLE_JWKS_CACHE
  lock,         \* the holder of its mutex
  pending,      \* a genuine Pub/Sub message that is not acknowledged
  secrets,      \* history: the webhook secrets the source has had
  req           \* where each request is, and its locals

vars == <<kind, appPackage, source, edits, published, gone, cache, lock, pending, secrets, req>>

settings == <<kind, appPackage, source, edits, secrets>>
google == <<published, gone>>

\* A delivery: the secret it presents, the key that signed it (None: no trusted one),
\* the account or app id it names, its package, and the store's environment.
Deliveries == [secret : Secrets \cup {None}, key : Keys \cup {None}, field : Fields,
               package : Packages, sandbox : BOOLEAN]

NoSettings == [secret |-> None, field |-> None, package |-> None]

\* What a request keeps: the secret or the key its delivery is accepted for, whether the
\* rest of it matches the settings that were read, whether the source had had a secret
\* when it was accepted at once, how long the key had been withdrawn when it was
\* accepted; the keys that Google answered.
Free == [step |-> "free", secret |-> None, key |-> None, matches |-> FALSE,
         guarded |-> FALSE, stale |-> 0, keys |-> {}]

\* merge_source_credentials and prepare_source_credentials: what is blank in the
\* request keeps the value read from the row, the package is the app's of this moment
\* (no other source type has one), and a secret leaves the encrypted part.
Merged(old, secret, field) ==
  [secret |-> secret, field |-> IF field = None THEN old.field ELSE field,
   package |-> IF kind = "other" THEN None ELSE appPackage]

\* create_data_source: the settings of a new source are merged into nothing.
Init ==
  /\ kind \in Kinds
  /\ appPackage \in Packages
  /\ \E secret \in Secrets \cup {None}, field \in Fields \cup {None} :
       /\ source = Merged(NoSettings, secret, field)
       /\ secrets = {secret} \ {None}
  /\ edits = {}
  /\ published = First
  /\ gone = [k \in Keys |-> 0]
  /\ cache = [keys |-> {}, left |-> 0, attempt |-> Backoff]
  /\ lock = None
  /\ pending \in {TRUE, FALSE} /\ (pending => kind = "google_play")
  /\ req = [q \in Requests |-> Free]

At(q, step) == req[q].step = step

Leave(q) == req' = [req EXCEPT ![q] = Free]

(***************************************************************************)
(* Settings.                                                               *)
(***************************************************************************)

\* update_app.
RenameApp(p) ==
  /\ p # appPackage
  /\ appPackage' = p
  /\ UNCHANGED <<kind, source, edits, secrets, google, cache, lock, pending, req>>

\* update_data_source_credentials reads the row and the app, and merges.
UpdateRead(secret, field) ==
  /\ edits' = edits \cup {Merged(source, secret, field)}
  /\ Cardinality(edits') <= MaxEdits[kind]
  /\ UNCHANGED <<kind, appPackage, source, secrets, google, cache, lock, pending, req>>

\* Mutant: the secret's hash is written as the request has it.
UpdateWhole(new) ==
  /\ source' = new
  /\ edits' \in {edits, edits \ {new}}
  /\ secrets' = secrets \cup ({new.secret} \ {None})
  /\ UNCHANGED <<kind, appPackage, google, cache, lock, pending, req>>

\* The update: all encrypted fields as they were merged, the secret's hash only if the
\* request had one (coalesce).  Another update that has merged the same may remain.
Update(new) ==
  /\ source' = [secret |-> IF new.secret = None THEN source.secret ELSE new.secret,
                field |-> new.field, package |-> new.package]
  /\ edits' \in {edits, edits \ {new}}
  /\ secrets' = secrets \cup ({new.secret} \ {None})
  /\ UNCHANGED <<kind, appPackage, google, cache, lock, pending, req>>

(***************************************************************************)
(* A delivery.                                                             *)
(***************************************************************************)

\* verify_shared_secret.
SecretMatches(src, d) == src.secret # None /\ d.secret = src.secret

\* verify_app_store_payload, for an environment of "both": the signature leads to
\* Apple, the bundle is the configured one, and for production the app id is too.
AppStoreAccepts(src, d) ==
  d.key # None /\ d.package = src.package /\ (d.sandbox \/ d.field = src.field)

\* verify_google_pubsub_oidc up to the key: the source is configured for it and the
\* push has a token.
HasToken(src, d) == src.package # None /\ src.field # None /\ d.key # None

\* verify_google_pubsub_token and verify_google_play_package, once the key is there.
PackageMatches(src, d) == src.package # None => d.package = src.package
TokenMatches(src, d) == d.field = src.field /\ PackageMatches(src, d)

\* What process_webhook says before it needs a key.
Outcome(src, d) ==
  CASE kind = "google_play" /\ SecretMatches(src, d) ->
         IF PackageMatches(src, d) THEN "accepted" ELSE "free"
    [] kind = "google_play" /\ ~SecretMatches(src, d) ->
         IF HasToken(src, d) THEN "key" ELSE "free"
    [] kind = "app_store" -> IF AppStoreAccepts(src, d) THEN "accepted" ELSE "free"
    [] kind = "other" -> IF src.secret = None \/ SecretMatches(src, d)
                         THEN "accepted" ELSE "free"

\* The row is read once; the settings may change while the key is waited for.
Receive(q, d) ==
  /\ At(q, "free")
  /\ LET step == Outcome(source, d)
     IN /\ step # "free"
        /\ req' = [req EXCEPT ![q] = [step |-> step, stale |-> 0, keys |-> {},
                      guarded |-> step = "accepted" /\ secrets # {},
                      secret |-> IF step = "accepted" THEN d.secret ELSE None,
                      key |-> IF step = "key" THEN d.key ELSE None,
                      matches |-> TokenMatches(source, d)]]
  /\ UNCHANGED <<settings, google, cache, lock, pending>>

\* Pub/Sub pushes the message, again and again until it is acknowledged, with a token
\* signed by a key of the day.
Push ==
  /\ pending
  /\ \E k \in published :
       Receive(Pubsub, [secret |-> None, key |-> k, field |-> Account, package |-> appPackage,
                        sandbox |-> FALSE])

\* The token is checked with its key.
Judge(q) ==
  IF req[q].matches
  THEN req' = [req EXCEPT ![q].step = "accepted", ![q].stale = gone[req[q].key],
                          ![q].keys = {}]
  ELSE Leave(q)

\* Mutant: a key that is cached never expires.
CachedForEver(k) == k \in cache.keys

\* google_decoding_key: what the cache can answer.
Cached(k) == cache.left > 0 /\ k \in cache.keys

RefreshAllowed == cache.attempt >= Backoff

AtKey(q) == At(q, "key") /\ lock = None

UseCached(q) ==
  /\ AtKey(q) /\ Cached(req[q].key)
  /\ Judge(q)
  /\ UNCHANGED <<settings, google, cache, lock, pending>>

\* Mutant: a refresh that is not allowed counts as an attempt.
SuppressAgain(q) ==
  /\ AtKey(q) /\ ~Cached(req[q].key) /\ ~RefreshAllowed
  /\ cache' = [cache EXCEPT !.attempt = 0]
  /\ Leave(q)
  /\ UNCHANGED <<settings, google, lock, pending>>

\* The document has expired or lacks the key, and the last refresh was too recent.
Suppress(q) ==
  /\ AtKey(q) /\ ~Cached(req[q].key) /\ ~RefreshAllowed
  /\ Leave(q)
  /\ UNCHANGED <<settings, google, cache, lock, pending>>

\* Mutant: the mutex is released before the fetch.
StartFetchUnlocked(q) ==
  /\ AtKey(q) /\ ~Cached(req[q].key) /\ RefreshAllowed
  /\ cache' = [cache EXCEPT !.attempt = 0]
  /\ req' = [req EXCEPT ![q].step = "fetch"]
  /\ UNCHANGED <<settings, google, lock, pending>>

\* The mutex stays locked across the fetch.
StartFetch(q) ==
  /\ AtKey(q) /\ ~Cached(req[q].key) /\ RefreshAllowed
  /\ lock' = q
  /\ cache' = [cache EXCEPT !.attempt = 0]
  /\ req' = [req EXCEPT ![q].step = "fetch"]
  /\ UNCHANGED <<settings, google, pending>>

\* Google answers with the keys it has now.
FetchAnswer(q) ==
  /\ At(q, "fetch")
  /\ req' = [req EXCEPT ![q].step = "answer", ![q].keys = published]
  /\ UNCHANGED <<settings, google, cache, lock, pending>>

\* The answer arrives and is cached; the token's key may not be in it.
FetchDone(q, ttl) ==
  /\ At(q, "answer")
  /\ cache' = [cache EXCEPT !.keys = req[q].keys, !.left = ttl]
  /\ lock' = None
  /\ IF req[q].key \in req[q].keys THEN Judge(q) ELSE Leave(q)
  /\ UNCHANGED <<settings, google, pending>>

\* store_webhook_payload (Ingest) and the answer, which acknowledges a push.
Answer(q) ==
  /\ At(q, "accepted")
  /\ pending' = (pending /\ q # Pubsub)
  /\ Leave(q)
  /\ UNCHANGED <<settings, google, cache, lock>>

\* The fetch fails, or the request is lost: its future is dropped with the guard of
\* the mutex, and what it wrote to the cache stays.
Drop(q) ==
  /\ ~At(q, "free")
  /\ lock' = IF lock = q THEN None ELSE lock
  /\ Leave(q)
  /\ UNCHANGED <<settings, google, cache, pending>>

(***************************************************************************)
(* Google and time.                                                        *)
(***************************************************************************)

\* A key that was never in use is published; an older one is withdrawn.  Only a source
\* of Google's reads the keys.
Publish(k) ==
  /\ kind = "google_play" /\ k \notin published /\ gone[k] = 0
  /\ published' = published \cup {k}
  /\ UNCHANGED <<settings, gone, cache, lock, pending, req>>

Withdraw(k) ==
  /\ kind = "google_play" /\ k \in published /\ published # {k}
  /\ published' = published \ {k}
  /\ gone' = [gone EXCEPT ![k] = 1]
  /\ UNCHANGED <<settings, cache, lock, pending, req>>

\* A fetch is over before a unit of time is.
Tick ==
  /\ kind = "google_play" /\ lock = None
  /\ cache' = [keys |-> cache.keys, left |-> IF cache.left > 0 THEN cache.left - 1 ELSE 0,
               attempt |-> IF cache.attempt < Backoff THEN cache.attempt + 1 ELSE Backoff]
  /\ gone' = [k \in Keys |-> IF gone[k] \in 1 .. MaxTtl + 1 THEN gone[k] + 1 ELSE gone[k]]
  /\ UNCHANGED <<settings, published, lock, pending, req>>

Next ==
  \/ \E p \in Packages : RenameApp(p)
  \/ \E secret \in Secrets \cup {None}, field \in Fields \cup {None} :
       UpdateRead(secret, field)
  \/ \E new \in edits : Update(new)
  \/ \E q \in Others, d \in Deliveries : Receive(q, d)
  \/ Push
  \/ \E q \in Requests :
       \/ UseCached(q) \/ Suppress(q)
       \/ StartFetch(q) \/ FetchAnswer(q)
       \/ \E ttl \in Ttls : FetchDone(q, ttl)
       \/ Answer(q)
       \/ Drop(q)
  \/ \E k \in Keys : Publish(k) \/ Withdraw(k)
  \/ Tick

\* A handler that runs takes its next step, or is lost.
Proceed(q) ==
  \/ UseCached(q) \/ Suppress(q) \/ StartFetch(q) \/ FetchAnswer(q)
  \/ \E ttl \in Ttls : FetchDone(q, ttl)
  \/ Answer(q) \/ Drop(q)

\* Time passes and handlers run.  Pub/Sub redelivers, its redeliveries do not keep
\* falling into the gaps in which the cache is refused, fetches that keep being made
\* succeed now and then, and not all of the requests are lost.
Fairness ==
  /\ WF_vars(Tick)
  /\ \A q \in Requests : WF_vars(Proceed(q))
  /\ WF_vars(Push)
  /\ SF_vars(Push /\ lock = None /\ Cached(req'[Pubsub].key))
  /\ SF_vars(UseCached(Pubsub))
  /\ SF_vars(Answer(Pubsub))
  /\ SF_vars(\E q \in Requests : StartFetch(q))
  /\ SF_vars(\E q \in Requests : FetchAnswer(q))
  /\ SF_vars(\E q \in Requests, ttl \in Ttls : FetchDone(q, ttl))

Spec == Init /\ [][Next]_vars /\ Fairness

(***************************************************************************)
(* Properties.                                                             *)
(***************************************************************************)

Settings == [secret : Secrets \cup {None}, field : Fields \cup {None},
             package : Packages \cup {None}]

RequestRows ==
  [step : {"free", "key", "fetch", "answer", "accepted"},
   secret : Secrets \cup {None}, key : Keys \cup {None}, matches : BOOLEAN,
   guarded : BOOLEAN, stale : 0 .. MaxTtl + 2, keys : SUBSET Keys]

TypeOK ==
  /\ kind \in Kinds /\ appPackage \in Packages
  /\ source \in Settings /\ edits \in SUBSET Settings
  /\ published \in SUBSET Keys /\ published # {}
  /\ gone \in [Keys -> 0 .. MaxTtl + 2]
  /\ cache \in [keys : SUBSET Keys, left : 0 .. MaxTtl, attempt : 0 .. Backoff]
  /\ lock \in Requests \cup {None}
  /\ pending \in BOOLEAN
  /\ secrets \subseteq Secrets
  /\ req \in [Requests -> RequestRows]
  /\ \A q \in Requests : lock = q <=> req[q].step \in {"fetch", "answer"}

\* No token is accepted with a key Google withdrew longer ago than the lifetime of the
\* key document, whichever requests fetched, failed or were lost in between, and
\* however the withdrawal falls between a fetch's answer and its arrival.
WithdrawnKeyDies ==
  \A q \in Requests : At(q, "accepted") => req[q].stale <= MaxTtl

\* Once a source has had a webhook secret, a delivery that is read later needs a secret
\* the source has had (or, for a store, its signature): no order of concurrent
\* credential updates, each of which writes what it read, opens the source again.
OnceSecuredStaysSecured ==
  \A q \in Requests :
    At(q, "accepted") /\ req[q].guarded /\ kind # "app_store" /\ req[q].key = None =>
      req[q].secret \in secrets

\* A genuine Pub/Sub message is accepted in the end if the source's settings come to
\* match it and stay so: key rotation, expiry of the cached document, failed fetches and
\* tokens with unknown keys delay it, but do not lock it out for good.
PushAccepted ==
  <>[](source.field = Account /\ source.package = appPackage) => <>(~pending)

=============================================================================
