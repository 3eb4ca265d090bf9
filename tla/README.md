# Revtern in TLA+

TLA+ models of Revtern's server: what it stores, in which order its statements
run, which of them race, and what stays true whatever happens in between. TLC
checks the models on small instances; TLAPS proves the main invariants for every
instance. Every definition names the source lines it stands for in
`PROJECT.json` (`map`), every property the bug that would break it (`mutants`).

Run from this directory: `tlc -config JobQueue.cfg MCJobQueue` (same for the
other `.cfg` files), `tlapm JobQueueProofs.tla`.

## The system

Revtern is one Rust process (axum + sqlx on Postgres) with two kinds of
concurrent actors: HTTP handlers and a background worker loop. The only
in-memory state that matters is the cache of Google's signing keys, behind one
mutex; everything else is in Postgres, and apart from a few
handlers that open a transaction every statement commits by itself. So the
unit of atomicity is the SQL statement, and that is what an action is in
these models. A handler is dropped when its client disconnects (axum drops the
future), the process may die, and a statement may fail: each ends a sequence of
statements half-way.

| Component | State | Operations | Talks to |
|---|---|---|---|
| Job queue (`crates/jobs`) | `jobs` rows: status, attempts, run_after, lock | poll, claim, complete, fail with backoff, lease expiry, operator's retry | projection (runs it), ingestion and retry endpoint (call it) |
| Webhook ingestion (`routes.rs`) | `raw_events`, `data_sources.status` | verify, deduplicate, store, enqueue, run in place, record failure | job queue |
| Event projection (`crates/jobs`, `crates/core`) | `source_products`, `normalized_events`, `transactions`, `subscriptions`, `customers`, `daily_app_metrics` | `process_raw_event`, nine statements | catalog (reads the mapping) |
| Catalog (`routes.rs`) | `logical_products`, `product_mappings`, catalog status of source products | draft, confirm, ignore, demo auto-confirmation | rewrites rows of the projection |
| Catch-up (`catchup.rs`, `routes.rs`) | `sync_runs`, cursor and checkpoint of a source | pull batches from Google Pub/Sub or the App Store history, store, acknowledge | ingestion |
| Webhook verification (`webhook_verification.rs`) | Google's key document, cached in the process behind one mutex | per source type checks, refresh of the keys | ingestion, settings of the data source |
| Purchase lookup (`purchase_lookup.rs`) | none | asks Google Play for order and price of a notification | ingestion |
| Connectors (`crates/connectors`) | none | payload to event type and fields | projection |
| Metrics (`routes.rs`, migration 5) | the `metric_events` view | one event per key across sources, sums, buckets | reads projection |
| Sessions (`auth.rs`) | `sessions` | login, refresh on use, logout, expiry | every handler |
| OIDC (`oidc.rs`) | `oidc_transactions`, `auth_identities` | begin, callback, link, create account | sessions, invitations |
| App access (`access.rs`, `routes.rs`) | users, members, invitations | setup, invite, accept, change role, remove | every handler |
| Apps and data sources (`routes.rs`) | `apps`, `data_sources` | create, configure, test, rotate | ingestion, catch-up |
| Web app, mobile app, API client, configuration, crypto, deployment | none on the server | | |

What is hard, by component:

* **Job queue.** Selecting and claiming are two statements with no lock; the
  final update names the row only, not its holder; the lease (5 minutes) can
  pass while the holder is alive; a request runs the job it has just enqueued
  and races with the poller; an operator may reset any row at any time.
* **Ingestion.** Deduplication by `on conflict do nothing`, then several
  statements that only the inserting request runs: what a lost request leaves
  undone, no redelivery repeats.
* **Projection.** Nine autocommit statements, repeated after any failure,
  concurrently for the same event (expired lease, retry) and for events of the
  same transaction, in any provider order; additive columns under repetition;
  a mapping read once and used later while a transaction that changes the catalog
  scans the same tables one by one.
* **Catch-up.** Cut pages, acknowledgement after storing, one bad item.
* **Verification.** One mutex held across a network call that may fail or be
  dropped; refreshes that are refused for a while; settings read once, merged
  and written whole by concurrent updates.
* **Metrics.** The same charge reported by two sources in any order, with what
  identifies it looked up later, or not at all.
* **Sessions, OIDC, access.** Check-then-act on rows several requests change,
  single use of login transactions whose callback is delivered twice, sign-ins
  of one identity that overlap, two kinds of expiry.

The full list, each with its line and the properties aimed at it, is under
`hazards` in `PROJECT.json`.

## Modules

| Module | Models | Uses |
|---|---|---|
| `JobQueue` | the `jobs` table, pollers and requests that run jobs | |
| `JobQueueProofs` | theorems about it | `JobQueue`, TLAPS |
| `EventInbox` | abstract: what ingestion promises | |
| `Ingest` | `store_webhook_payload`, retry endpoint | `JobQueue`, `EventInbox` (INSTANCE) |
| `IngestProofs` | theorems about it, with those of the queue | `Ingest`, `JobQueueProofs` (INSTANCE), FiniteSetTheorems, TLAPS |
| `NewestWins` | abstract: what a projected row promises | |
| `Projection` | `process_raw_event`, the transaction of `confirm_catalog` for one product | `NewestWins` (INSTANCE) |
| `ProjectionProofs` | theorems about it | `Projection`, TLAPS |
| `CatchUp` | catch-up runs of one source next to live webhooks | |
| `CatchUpProofs` | theorems about it | `CatchUp`, TLAPS |
| `Membership` | abstract: what inviting to an app promises | |
| `AppAccess` | roles, invitations, registration, members and audit of one app | `Membership` (INSTANCE) |
| `AppAccessProofs` | theorems about it | `AppAccess`, TLAPS |
| `SignIn` | setup, registration, login, sessions, OIDC sign-in and linking | |
| `SignInProofs` | theorems about it | `SignIn`, TLAPS |
| `WebhookGate` | what a delivery must show, credentials of its source, Google's keys | |
| `WebhookGateProofs` | theorems about it | `WebhookGate`, TLAPS |
| `Revenue` | connectors, purchase lookup, `metric_events`, revenue sums | |
| `RevenueProofs` | theorems about it | `Revenue`, TLAPS |
| `MC*` | constants of the instances TLC checks | |

### JobQueue

`jobs[j]` is a row. Time is relative: `wait` is what is left until `run_after`,
`age` the time since `locked_at`, `Tick` the clock; `ahead` is the order by
`(run_after, created_at)`, all the polling query needs of the absolute times.
`pc`, `held` and `outcome` are an executor's place, job id and result in
`process_normalization_job`: `Select` (the poller's query), `Claim`/`ClaimMiss`
(the claiming update, or `RowNotFound`), `Normalized`/`NormalizeError` (the
outcome of `process_raw_event`), `Complete`/`Fail` (the final update), `Abandon`
(process death, dropped handler, failed statement). `Enqueue` and `Retry` are
what the two handlers do before they run the job. `attempts` stops counting at
the larger of `max_attempts` and the backoff cap, since it is only compared with
those.

### Ingest

Adds to the queue `raw` (`raw_events.processing_status`), `source`
(`data_sources.status`) and `req`, the handler's place in
`store_webhook_payload`: `Deliver` (insert, on conflict nothing), `Activate`,
`EnqueueJob`, then the inline run through the queue's actions, `MarkFailed`,
`MarkSource`, `Reply`. The last statement of `process_raw_event` writes
`raw_events` too, so `RunJob` does it with the queue's `Normalized`. Whether an
event has a normalized type is the fixed choice `mapped`. `Drop` and
`DropInJob` lose the request between any two statements.

`EventInbox` is the abstract promise: an event is stored before it is normalized
or answered, and neither is ever undone. `ImplementsInbox` is the refinement:
ingestion as a whole behaves like the inbox. Its actions are built from the
queue's own, so what holds of every use of the queue holds here; that is a lemma
of the proofs, not a property of the code. `Forgotten` are the stored events that
have no job and nobody about to enqueue one.

### Projection

One action per statement of `process_raw_event`; `run[x]` is where executor `x`
is, with the locals it carries from one statement to a later one (`logical`, the
mapping it has read; `inserted`, whether it inserted the event; `txn`). What the
connectors read from a payload is the constant `Fact[e]`. Amounts are
represented by the event they come from: `refunds[e]` and `daily[p][e]` count
how often the amount of `e` was added, so "lost" and "added twice" show for any
amounts. `confirm[p]` is an open transaction of `confirm_catalog` for product
`p`, which runs READ COMMITTED: `BeginConfirm` replaces the mapping, `ConfirmTxns`,
`ConfirmSubs` and `ConfirmEvents` are its updates, each of the rows that are
committed when it starts and locks until the end, and `CommitConfirm` or
`RollbackConfirm` ends it. Runs read the old mapping until the commit, and write
rows that the transaction has already scanned past. A run that needs a locked row
waits. `inTxn`, `inSub`, `done`, `lost`, `overtaken`, `raced` are history the
properties read: an event is `overtaken` when a confirmation may have missed one
of its rows, and `raced` once that confirmation has committed.

The refund column is not an exact sum: a refund that is run again after another
event became its transaction's latest is added again. `RefundsCounted` says what
does hold: every refund that was applied is in it, nothing else is, and it is
there once unless an event at least as new was applied to the transaction.

`NewestWins` is the abstract register of which each transaction row is an
instance: applying an event again, late or concurrently leaves the row showing a
newest event, by provider time, of those applied.

`Fact` gives every event a provider time. The connectors fall back to the
current time when a payload has none (`pick_time`), so such an event would carry
another time in every run; that case is not in the model.

### CatchUp

`sync[r]` is the `sync_runs` row of request `r`, `act[a]` where a request is
with its locals, `retained` what the Pub/Sub subscription still holds, `raw[n]`
the request that stored notification `n` (`sync_run_id`), `source` the status of
the data source and whether `last_error` is set. A run is `Begin` (the row, with
the cursor it was given), `FetchHistory` or `FetchMessages` (one call of the
provider), then for each notification `Reject` (verification) or `Insert`,
`Activate` and the inline normalization, and at the end `Acknowledge`,
`Complete`, `Touch`, or after an error `FailRun`, `Blame`. `Audit` is the insert of
the audit row after `Begin`. If it fails, or `Complete`, `Touch`, `FailRun` or
`Blame` does, the handler answers 500 and nothing ends the row (`Abort`, with
`aborted` as history). Live webhooks
(`Receive`) take the same path through `Insert`. The provider is modelled by
what the code relies on: the App Store returns pages of a fixed history with a
token for what follows the page, Pub/Sub returns any retained messages in any
order and forgets those acknowledged. What Ingest says of the job is one step
here, since catch-up looks at neither its row nor its outcome.

### AppAccess

One app's `app_memberships` (`member[e]`), guests of its workspace (`guests`),
`app_invitations` (`invites[i]`) and the `audit_events` about invitations
(`audit`). A user is its e-mail address, which is unique and never changes; an
invitation link is its token. `Admins` (the app's owner and the workspace's
administrators) is a constant because no handler changes it once the first owner
is set up. Accounts a trusted reverse proxy creates get no membership in an app
and are not modelled. `req[q]` is a request between two statements, with the locals it
carries: `StartInvite`, `CheckAccess`, `InsertInvite` for an invitation,
`StartMember` then `ChangeRole` or `Remove`, `StartRevoke` then `Revoke`, and
after each of them `Audit`, a statement of its own that follows the committed
change. The permission is checked in the first step only. `Accept` and
`RegisterInvited` are one step each: the code opens a transaction that locks the
invitation (`for update of ai`) before it looks at it. `Reread` is the lookup of
the app after that commit, which finds nothing if the member has been removed
meanwhile. `Expire` is the passing of seven days. `links[t]` is history: what the
invitation offered when link `t` was handed out. Audit rows about roles and
removals are not kept, as no property reads them.

`Membership` is the abstract promise: a person has at most one open offer, a seat
begins by taking it while it is valid, with the role it names, and that uses it
up; every offer has a new link. The mapping (`OpenOffers`, `Issued`) reads a
person's offer off the pending rows of the address, so that it is one offer at
most is part of what `ImplementsMembership` says.

### SignIn

`account[u]` is a row of `users` and how it came to be, `identity[s]` the user a
subject of the provider is bound to, `acceptedBy[i]` an invitation,
`txn[t]` a row of `oidc_transactions`, `session[x]` one of `sessions` with what
is left of its two lifetimes, and, as history, its age and the time since its
last use. `req[q]` is a request between two statements. `SetupCount` and
`SetupCommit` are the two halves of `setup_owner`'s transaction, since its
advisory lock (`setupLock`) does not keep a registration out. `ClaimTxn` is the
delete-returning with which a callback begins, `Resolve` the exchange and the
select of `resolve_identity`, then `LinkIdentity`, or `CheckEmail` and
`CreateOidcUser`, then `AcceptOidc` and `CreateSession`; each is a transaction of
its own, and `Abandon` ends the request between any two. `Authenticate` and
`Refresh` are the two statements of `current_from_session`. The unit of time is
the twelve hours of an idle session; a login transaction lasts ten minutes, so it
may expire at any moment (`ExpireTxn`) and none outlives a unit (`Tick`). What
discovery, code exchange and token validation establish is their outcome: a
subject, and an address or none. The reverse-proxy and disabled modes keep no
sessions and are not in the model.

### WebhookGate

`source` holds the columns of `data_sources` that verification reads,
`appPackage` the package of the app; `published` are Google's keys of the moment,
`cache` and `lock` are `GOOGLE_JWKS_CACHE` and the holder of its mutex,
`pending` a genuine Pub/Sub message that has not been acknowledged. `Receive`
reads the settings once and decides with `Outcome`, per source type; a Google
token goes on to its key: `UseCached`, `Suppress` (a refresh is not allowed yet),
or `StartFetch`, `FetchAnswer`, `FetchDone`, which hold the mutex. `Drop` loses
the request, which releases the mutex but leaves what it wrote to the cache.
`UpdateRead` and `Update` are the two statements of
`update_data_source_credentials`; `edits` is what the updates in flight have
merged and not written yet, as a set, so that any number of them overlap (one that
is lost stays in it). `RenameApp` changes the package that is merged in. An App
Store notification must name the configured app in production only. `gone` and `secrets` are history. A unit of time is shorter than the thirty
seconds between refreshes and longer than a fetch, which times out after five.
An accepted delivery goes on in `Ingest`; here it is `Answer`.

### Revenue

`purchase[p]` is the world: store, product, charges so far, which were refunded.
`events` are the rows of `normalized_events`: who reported which charge, and the
order a lookup answered, and whether there is a price. `EventType`,
`TransactionKey`, `Environment` and `Confidence` are what the connectors make of a
payload, `MetricEvents` is the view, `Summed` what the queries add up. A Google
notification is looked up when it is received (`LookedUp`), and the answer is the
purchase's latest order, whatever charge the notification was about, or no order,
with or without a price; without credentials, or if the lookup fails, there is
none. Any production report may lack its price (`Gap`). There is one app and one
currency, and a report has the price of its charge or none. `at` is `created_at`,
as far as the view compares it.

A row without a price is not harmless: the store's ranks first in its partition,
hides the mirror's priced one, and the charge is not in the sums at all.
`MoneyCountsOnce` therefore says exactly when a charge counts: once if its most
trusted production report has a price, and else not at all. It says so of each
charge by itself, and leaves open only gross revenue of a charge whose
notification was looked up too late, or whose order such a lookup took
(`InTime`).

## Runs

| Run | Instance | Shows |
|---|---|---|
| `job_queue` | 2 jobs, 1 poller, 1 request, 2 attempts, 2 faults, lease 1 | the queue's invariants, and that every job ends |
| `ingest` | 1 event delivered twice to 2 requests, 1 poller, 2 attempts, 1 fault | stored once, queued once, never un-processed, settled; forgotten only by a lost request; the refinement of `EventInbox` |
| `ingest_lost_event` | same | **violation**: an answered event without a job |
| `projection` | 5 events of one subscription, 2 executors, 3 runs, 2 logical products, 4 runs and confirmations together, 1 crash or rollback | newest wins, exact rollup, no refund lost and when it counts once, complete runs, rows follow the mapping |
| `catch_up` | 2 runs, 1 webhook, 3 notifications (1 forged), pages of 2, 1 fault | stored before acknowledged, exact counters, no gap between cursors, runs end unless lost or aborted |
| `catch_up_short_limit` | 1 run, limit 1 | **violation**: the rest of a page is skipped |
| `app_access` | 3 users, 2 invitations, 2 links, 2 concurrent requests, viewer and manager, open registration | members were invited, one pending invitation per address, links keep their offer, outcomes are final; the refinement of `Membership` |
| `sign_in` | 2 users, 1 subject, 1 invitation, 2 login transactions, 1 session, 2 requests, every registration mode, idle 1 of 2 | identities are bound once and as intended, one session per login transaction, accounts are those the mode allows, sessions end |
| `sign_in_bearer` | same as `sign_in` | **violation**: a mobile session idles out after twelve hours |
| `webhook_gate` | each source type, 1 secret, 2 packages, 2 keys, 1 request besides the push; 1 update in flight for Google Play, up to 4 different ones for the others | withdrawn keys die, a secured source stays secured, a genuine push gets in |
| `revenue` | 1 purchase of either store, 3 charges, RevenueCat, 1 report without price or order | each charge and each refund is summed once, or not at all if its most trusted report has no price |
| `revenue_late_lookup` | same, without such a report | **violation**: two charges under one order |

Why the bounds are enough. *Queue*: the properties relate a row to the two
executors that touch it, and two rows to each other (polling order); a second
attempt reaches `dead`, two faults make both an owner and its successor
disappear, a lease of 1 separates "expired" from "not expired". `MaxAttempts` is
2 for 5 and `BackoffCap` 2 for 6: what matters is that the first failure is
retried with a longer wait than zero and a later one is final. *Ingest*: one
event, since events share nothing but the queue, which `job_queue` checks with
two; two deliveries are the original and a duplicate, two requests let them
overlap; the lease is 0 because lease timing is `job_queue`'s question.
*Projection*: the purchase, a refund and a renewal with the same time, a later
cancellation without a transaction key and an unmapped payload; three runs by
two executors give repetition, overlap and reordering, and the crash a run that
a later one completes. `MaxWork` leaves room for a run with three confirmations or
three runs with one, so that a mapping is confirmed, replaced and rolled back. The
two logical products are symmetric, like the executors. *Catch-up*: three notifications in pages of two make a
cursor that is followed and a batch with a good and a forged item; two runs and a
webhook compete for one insert; one fault ends or fails one of them anywhere. *App
access*: the owner, a manager the owner invites and somebody the manager invites
are the longest chain of rights; two links are an invitation and its renewal, or
the invitations of two users; two requests are an action and the one overtaking
it, also with a caller who loses its right in between; of the roles one manages
members and one does not. Invitations, links, requests and the two invited users
are symmetric: nothing orders or names them and no liveness is checked. *Sign-in*:
two requests are two callbacks, or a callback and the registration or logout that
overtakes one of its statements; two login transactions are a login and a
linking; two users are the one invited and another; a session that idles out
after one unit and ends after two tells its two lifetimes apart. *Webhook gate*:
a second key is what rotation needs, a second package a renamed app; the other
request takes the mutex or the refresh away from the push; a document of one unit
with a backoff of two leaves gaps in which a token can be neither checked nor a
refresh be made. A source of the kind "other" has four settings, so that four
different updates are all there can be; for Google Play one update at a time
keeps the run with the keys small (with two it is 14 million states), and the
keys change for Google Play only. The theorem has no such bound. *Revenue*: purchases share nothing; three charges are a first, a renewal, and the
one whose order a late lookup takes; one gap gives each of two sources the priced
report and the unpriced one in turn. The instance with both mirrors (824 688
states) was run once and is too slow to repeat. In `sign_in`, subjects,
transactions, sessions and requests are symmetric, again without liveness.
`CHECK_DEADLOCK FALSE` is set where the bounded number of
deliveries or runs lets the system stop.

### Disagreements with the documentation

Four runs end in a counterexample that is the code's behaviour (`findings` in
`PROJECT.json`):

1. `docs/architecture.md:163` orders insert, enqueue, return success. A request
   lost between insert and enqueue leaves an event without a job for ever, as
   duplicates return early.
2. `docs/api.md:338` has the App Store catch-up store the pulled history. Only
   the first `limit` notifications of a page are stored, but the cursor returned
   is that of the page's end, so a caller who follows it never gets the rest.
   `CursorSkipsNothing` shows that a limit of at least a page is enough.
3. `docs/api.md:116` promises a 30-day bearer session, and
   `docs/authentication.md:118` gives the 12-hour idle timeout to browser
   sessions. Every use refreshes a session to the earlier of its expiry and
   twelve hours from now, so a mobile session ends twelve hours after a use.
4. `docs/connectors.md:167` has several charges of one purchase token remain
   separate by the order their lookup returned. A notification received after the
   next charge is looked up then, gets that charge's order, and the two are one.

Five more are stated as definitions that do not hold, without a run of their own:
`PollerClaimsDueRow` (`docs/architecture.md:92` has the worker take due rows with
`FOR UPDATE SKIP LOCKED`; the code claims without looking at `run_after` again),
`FailedMeansNotNormalized` (the inline run's `RowNotFound`, when the poller
claimed first, marks a normalized event failed), `RefundsRebuildable` (a refund
run again after another event became the transaction's latest is added again),
`ErrorIsShown` (a completed catch-up clears `last_error`, not the status) and
`ChangesAreAudited` (a request lost after the change leaves no audit row).

Two more ways to count revenue twice were seen while modelling. A Google
revocation and a mirror's refund of the same charge have different event types,
which the view does not match; `MoneyCountsOnce` counts the refunds under each type,
and adds the types up for `OneRefundType` only, without which it fails. Stripe's `invoice.paid` and `invoice.payment_succeeded` of
one invoice become a renewal and a purchase; Stripe is not modelled.

## Fairness

`job_queue`: weak fairness of the poller's select, of an executor's next
statement and of the clock. The loop in `main.rs` polls every two seconds for
as long as the process runs, tokio resumes every task whose statement has
returned, and time passes. Nothing is assumed of requests, retries, answers of
`process_raw_event` (either outcome may always happen) or faults. `ingest` adds
the handler's own next statement. Faults are bounded by `MaxFaults`: without a
bound a job whose executor always dies is claimed for ever, since only the error
path compares `attempts` (listed as a hazard). `projection` claims no liveness:
that a run is repeated is the queue's promise. `catch_up` assumes weak fairness
of a request's next statement (tokio resumes it) and nothing of new requests;
a lost request, or one whose own audit or ending statement fails, leaves its row
`running` for ever, which `RunEnds` excepts by name.
`app_access`, `sign_in` and `revenue` claim no liveness.

`webhook_gate` claims that a genuine push is accepted in the end
(`PushAccepted`), once the settings match it for good. It assumes weak fairness
of the clock, of a handler's next statement (a loss of the request counts as one)
and of Pub/Sub's redelivery. It needs strong fairness as well, because a push is
refused for as long as a refresh is not allowed: redeliveries do not for ever
fall into those gaps (Pub/Sub backs off at its own pace, the gap is thirty
seconds), fetches that keep being made succeed now and then, and the request that
brings the push is not lost each time it could use a key or answer. Without the
first of these the code would allow a push that always arrives just after
another token with an unknown key. `Withdraw` and `Publish` need not happen.

## Proofs

The theorems hold for any sets of jobs, executors, events, keys and products,
any finite set of notifications and any bounds, under the named assumptions of the modules
(bounds are naturals, roles are disjoint, `None` and `Nobody` are not members).

`JobQueueProofs`: `TypeCorrect`, `CompletionIsTrue` (a completed job was
processed), `DeadIffExhausted`, `NoOrphanLock`, `LeaseProtectsOwner`,
`FinishedIsStable`, `PollOrderIsTotal`. None is inductive alone: the inductive
invariant adds that an executor past its claim holds a job that exists, that one
at "succeeded" holds a processed job, and that a lock names a row's executor.

`NoOrphanLock`, `LeaseProtectsOwner` and `PollOrderIsTotal` state properties that
no run checks, as do `NewestIsShown`, `TrailIsTrue` and `AccessIsGranted`
below: the proof covers every instance.

`IngestProofs`: `TypeCorrect`, `OneJob`, `InboxIsImplemented`, `ProcessedStays`, `LossIsBounded`,
`QueueIsSafe`, `QueueStepsAreSafe`. Every step of ingestion is a step of the
queue or leaves it alone (`StepUsesQueue`), so the queue's invariant, which
`JobQueueProofs` proves for any use of it, holds here too (`QueueStep`), and with
it the lemma `Spec => Q!Spec`; the last two theorems are the queue's safety properties in the
tables that ingestion writes. Ingestion's own part adds `WorkIsStored`: what a request
works on, and what has a job, is stored. It is what makes the insert of a raw
event exclude every other request for it, hence one job. `Settled` says what most
steps have in common: nobody comes to a new event and no job appears.
`LossIsBounded` is the other side of the finding on lost events: the stored events
that have no job and nobody about to enqueue one (`Forgotten`) are never more than
the requests lost outside the queue. A step either forgets nothing new
(`NoneForgotten`) or is the loss of one request (`DropForgets`); that a request
inside a job is past its enqueue (`JobsAreCalled`) keeps faults in the job out of
the count.

`ProjectionProofs`: `TypeCorrect`, `NewestIsShown`, `RefundsAreCounted`,
`RollupIsExact`, `DoneMeansProjected`, `SubscriptionsShowNewest`, `RowsFollow`, and
`TransactionsAreRegisters`, the refinement of `NewestWins`.
The invariant (`IInv`) needs `RunConsistent`, what an executor's locals say at
each step, and `EmptyRows`, that a row without events has time 0 so that the
first upsert's guard is true. `LedgerKept` isolates the one action that writes
the columns in question, so the invariants are proved for it and for "everything
else" once. `RollupIsExact` rests on `RollupOwedOnce`: of all runs of an event at
most one has `inserted`, and until it reaches the rollup no cell has the event.
`DoneMeansProjected` rests on `Did`, what a run has stored by the step it is at;
no statement of another run takes that back (`RowsGrow`). `SubscriptionsShowNewest`
follows a row with the event it shows (`SubRows`), which only the upsert changes
(`OnlyUpsertWritesSubs`). `RowsFollow` adds that a row of one product is labelled
with it, and that a run which no confirmation overtook still holds the active
mapping (`Mapped`): a row without a logical product takes the run's, and it is right.
For the open transaction of a confirmation it says that a row which the updates have
not locked holds an event noted as overtaken, as does every run that has read the
mapping (`Noted`), so the commit leaves no row behind that is not excepted.

`CatchUpProofs`: `TypeCorrect`, `NothingIsLost`, `CountersAreExact`,
`CursorsCover`. The invariant follows a run from fetch to completion: every item
of its batch is stored or still to be stored (`BatchAccounted`), the counter lags
the raw events with its id by the one in hand (`Counted`), the batch is the page
(`PageTaken`). A step writes one request's row only (`Frame`), so each action
answers for that request (`OwnSuffices`), and the others' part is proved once.
The set of notifications is assumed finite, as cardinalities are compared.

`AppAccessProofs`: `TypeCorrect`, `MembersAreInvited`, `OneInvitation`,
`OffersAreKept`, `TrailIsTrue`, the action properties `AccessIsGranted` and
`OutcomesAreFinal`, and `MembershipIsImplemented`, the refinement of `Membership`. The invariant has two parts. `Rows` relates the tables (a
written invitation has its link, a used one its user). `RequestsFit` says of a
request's locals what its later statements rely on, although another request may
have run in between: the address about to be invited is no administrator's, and
what is about to be audited has happened. It survives other requests' steps
because the tables only move one way (`Progress`, `FitsStays`), so each action
answers for the tables it writes and for its own request. The refinement adds
nothing to the invariant: all writes of an invitation go through `RowOffers`, which
needs that no other pending row has the address (`OnlyPending`), so an insert or
renewal is an `Offer`, an expiry a `Lapse`, a revocation a `Withdraw`, an acceptance,
also while registering, a `Take`, and everything else a `Change` or a stutter.

`SignInProofs`: `TypeCorrect`, `AccountsAllowed`, `TxnsAreSingleUse`,
`SessionsEnd`, `IdentitiesAreBound`. The invariant says of each request what its
later statements rely on (`Fits`: whose session it holds, that the identity it
goes on with is bound to its user, that a linking names who began it), of each
session what its row shows (`SessionFits`, `Clocks`), and that a login
transaction is in one place only: its row, one request, or one session
(`TxnsApart`). The last is what makes deleting the row before the exchange
enough for single use.

`WebhookGateProofs`: `TypeCorrect`, `WithdrawnKeysDie`, `SecuredStaysSecured`.
The invariant bounds how long ago a key in the cached document can have been
withdrawn: no longer than the document has been cached, and a document in flight
holds only keys withdrawn since the fetch began, during which no unit of time
passes. For the settings it says that a source that has had a secret has one
(`SecretsFit`), and needs nothing of the updates in flight: whatever they have merged
and however many there are, the coalesce writes their secret or keeps the source's.

`RevenueProofs`: `TypeCorrect`, `ViewIsExact` (`metric_events` shows exactly one row
of each partition) and `MoneyIsCountedOnce`. The view sorts a partition by source,
confidence and age, so a first row exists and is the only one if those never tie.
The invariant says why: a purchase is reported by its own store (`SourcesFit`), so
rows of equal rank are one source's, and among those of one confidence (`Class`)
`InOrder` makes the age an order with a first row. A source reports a
charge once (`ReportedOnce`), which bounds such a group by the number of charges
(`GroupBounded`). Only subscriptions are charged again and Google revokes the last
charge (`ChargesFit`), so rows of one partition add the same charge, and rows
that add a charge are one partition (`OneTypeOnce`, then `GrossOnce` and
`RefundsOnce`); the row it shows is of the most trusted source, and counts if that has
a price. The sums are
cardinalities of filtered sets, but of sets shown to be empty or a singleton, so no
induction is needed.

Only model-checked: liveness (`JobsSettle`, `AnsweredSettles`, `RunEnds`,
`PushAccepted`), which the installed back-ends do not cover.

## Plan

What is left, most important first:

1. Stripe and Paddle in `Revenue`, and the subscription counts of the metrics.
2. `Catalog`: draft, confirm, ignore over several sources, and the demo's
   auto-confirmation.
3. The reverse-proxy mode's accounts, on top of `SignIn`; the creation of apps,
   on top of `AppAccess`; source tests.

Not modelled: cryptography and signature formats (a signature is who made it),
JSON field picking, SQL reporting queries without state other than the revenue
sums, the web and mobile screens, the API client, configuration and deployment
manifests. The sources concerned are listed with their reason in `PROJECT.json`.
