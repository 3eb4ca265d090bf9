----------------------------- MODULE Projection -----------------------------
(***************************************************************************)
(* process_raw_event of crates/jobs: one raw event is turned into a source *)
(* product, a normalized event, a transaction, a subscription, customers   *)
(* and a daily rollup by separate autocommit statements, each an action    *)
(* here.  The job queue may run an event again after any statement, and    *)
(* two executors may run the same event, or events of the same             *)
(* transaction, at once (see JobQueue).  confirm_catalog rewrites the      *)
(* product of the rows meanwhile, in one READ COMMITTED transaction: each  *)
(* of its updates sees what is committed when it starts, locks the rows it *)
(* finds, and nobody sees the outcome before the commit.                   *)
(*                                                                         *)
(* What extract_event reads from a payload is the constant Fact[e], so     *)
(* amounts stand for the event they come from: a sum of amounts is the     *)
(* number of times each event was added to it.                             *)
(***************************************************************************)
EXTENDS Naturals

CONSTANTS
  Events, Executors, TxnKeys, SubKeys, Products, Logicals, Customers,
  None,        \* an SQL null, a missing field, a missing row
  Fact,        \* what the payload of each event says
  MaxStarts,   \* BOUND: runs of process_raw_event
  MaxCrashes,  \* BOUND: runs that stop half-way and confirmations rolled back
  MaxWork      \* BOUND: runs and catalog confirmations together

\* Event types the projection tells apart; "none" is a payload without a
\* normalized type, "other" stands for the types no branch mentions.
RevenueTypes == {"purchase", "one_time_purchase", "trial_converted", "renewal"}
RefundTypes  == {"refund", "partial_refund", "revocation"}
StateTypes   == {"trial_started", "renewal", "cancellation", "expiration", "billing_issue",
                 "grace_period_started", "grace_period_ended", "reactivation"}
Types == RevenueTypes \cup RefundTypes \cup StateTypes \cup {"none", "other"}

FactRecord ==
  [type : Types,
   at : Nat \ {0},                      \* occurred_at
   txn : TxnKeys \cup {None},           \* transaction_key
   sub : SubKeys \cup {None},           \* subscription_key, or what replaces it
   product : Products \cup {None},      \* source_product_key
   kind : {"subscription", "other"},
   customer : Customers \cup {None},
   renews : BOOLEAN \cup {None},        \* will_renew
   live : BOOLEAN]                      \* environment = "production"

ASSUME ProjectionAssumption ==
  /\ Fact \in [Events -> FactRecord]
  /\ MaxStarts \in Nat /\ MaxCrashes \in Nat /\ MaxWork \in Nat
  /\ None \notin Events \cup TxnKeys \cup SubKeys \cup Products \cup Logicals \cup Customers
  /\ None \notin BOOLEAN
  /\ Events \cap TxnKeys = {}

VARIABLES
  known,       \* source_products that exist
  mapping,     \* the active product_mapping of each source product
  normalized,  \* events with a row in normalized_events
  logical,     \* logical_product_id of those rows
  txns,        \* the transactions table
  subs,        \* the subscriptions table
  lastSeen,    \* customers.last_seen_at, 0 when there is no row
  daily,       \* daily[p][e]: how often e was added to the rollup of product p
  run,         \* where each executor is in process_raw_event, and its locals
  confirm,     \* the open confirmation of each product, and the rows it has locked
  starts, crashes, confirms,
  \* History, read by the properties only:
  inTxn,       \* events applied to each transaction row
  inSub,       \* events applied to each subscription row
  done,        \* events some run of which returned Ok
  lost,        \* events whose first run stopped before it reached the rollup
  overtaken,   \* events an open confirmation of the product may have missed
  raced        \* events a committed one may have missed

tables == <<known, mapping, normalized, logical, txns, subs, lastSeen, daily>>
history == <<inTxn, inSub, done, lost, overtaken, raced>>
vars == <<tables, run, confirm, starts, crashes, confirms, history>>

Coalesce(a, b) == IF a = None THEN b ELSE a

IsRevenue(type) == type \in RevenueTypes
IsRefund(type) == type \in RefundTypes

TxnStatus(type) ==
  CASE type = "renewal"        -> "renewed"
    [] type = "refund"         -> "refunded"
    [] type = "partial_refund" -> "partially_refunded"
    [] type = "revocation"     -> "revoked"
    [] OTHER                   -> "paid"

\* Mutant of SubStatus: the type's name instead of the table's status.
SubStatusNamed(type) ==
  CASE type = "trial_started" -> "trialing"
    [] type = "cancellation"  -> "cancelled"
    [] type = "expiration"    -> "expired"
    [] OTHER                  -> "active"

SubStatus(type) ==
  CASE type = "trial_started"         -> "trialing"
    [] type = "cancellation"          -> "cancelled_active"
    [] type = "expiration"            -> "expired"
    [] type = "billing_issue"         -> "billing_retry"
    [] type = "grace_period_started"  -> "grace_period"
    [] type \in {"refund", "revocation"} -> "refunded"
    [] OTHER                          -> "active"

\* A payload without a transaction key gets one of its own.
Keys == TxnKeys \cup Events
TxnKey(e) == IF Fact[e].txn = None THEN e ELSE Fact[e].txn

HasTxn(e) == IsRevenue(Fact[e].type) \/ IsRefund(Fact[e].type)

HasSub(e) ==
  /\ Fact[e].type # "none"
  /\ Fact[e].kind = "subscription" \/ Fact[e].type \in StateTypes
  /\ Fact[e].sub # None

NoCounts == [e \in Events |-> 0]

NoTxn == [latest |-> None, status |-> None, at |-> 0, refunds |-> NoCounts,
          product |-> None, logical |-> None, customer |-> None]

NoSub == [status |-> None, at |-> 0, renews |-> FALSE, grace |-> FALSE, retry |-> FALSE,
          latestTxn |-> None, product |-> None, logical |-> None, customer |-> None]

Idle == [step |-> "idle", event |-> None, logical |-> None, inserted |-> FALSE, txn |-> None]

NoConfirm == [step |-> "none", logical |-> None, txns |-> {}, subs |-> {}, events |-> {}]

Init ==
  /\ known = {}
  /\ mapping = [p \in Products |-> None]
  /\ normalized = {}
  /\ logical = [e \in Events |-> None]
  /\ txns = [k \in Keys |-> NoTxn]
  /\ subs = [s \in SubKeys |-> NoSub]
  /\ lastSeen = [c \in Customers |-> 0]
  /\ daily = [p \in Logicals \cup {None} |-> NoCounts]
  /\ run = [x \in Executors |-> Idle]
  /\ confirm = [p \in Products |-> NoConfirm]
  /\ starts = 0 /\ crashes = 0 /\ confirms = 0
  /\ inTxn = [k \in Keys |-> {}]
  /\ inSub = [s \in SubKeys |-> {}]
  /\ done = {} /\ lost = {}
  /\ overtaken = [p \in Products |-> {}] /\ raced = {}

At(x, step) == run[x].step = step
Ev(x) == run[x].event

\* Rows an open confirmation has updated: whoever writes them waits for its end.
TxnLocked(k) == \E p \in Products : k \in confirm[p].txns
SubLocked(s) == \E p \in Products : s \in confirm[p].subs
EventLocked(e) == \E p \in Products : e \in confirm[p].events

Goto(x, step) == run' = [run EXCEPT ![x].step = step]

\* A claimed job runs its raw event.
Start(x, e) ==
  /\ At(x, "idle")
  /\ starts < MaxStarts /\ starts + confirms < MaxWork
  /\ starts' = starts + 1
  /\ run' = [run EXCEPT ![x] = [Idle EXCEPT !.step = "product", !.event = e]]
  /\ UNCHANGED <<tables, confirm, crashes, confirms, history>>

AfterMapping(e) == IF Fact[e].type = "none" THEN "finish" ELSE "event"

\* upsert_source_product: nothing without a product key.  The row of the product
\* is one of those a confirmation locks.
UpsertProduct(x) ==
  /\ At(x, "product")
  /\ LET p == Fact[Ev(x)].product
     IN IF p = None
          THEN Goto(x, AfterMapping(Ev(x))) /\ UNCHANGED known
          ELSE /\ confirm[p].step = "none"
               /\ Goto(x, "mapping") /\ known' = known \cup {p}
  /\ UNCHANGED <<mapping, normalized, logical, txns, subs, lastSeen, daily,
                 confirm, starts, crashes, confirms, history>>

\* The confirmation of p has looked for transactions to update.
Scanning(p) == confirm[p].step \in {"subs", "events", "commit"}

\* active_logical_product: the committed value, used until the end of the run.
ReadMapping(x) ==
  /\ At(x, "mapping")
  /\ LET p == Fact[Ev(x)].product
     IN /\ run' = [run EXCEPT ![x].logical = mapping[p], ![x].step = AfterMapping(Ev(x))]
        /\ overtaken' = IF Scanning(p) THEN [overtaken EXCEPT ![p] = @ \cup {Ev(x)}] ELSE overtaken
  /\ UNCHANGED <<tables, confirm, starts, crashes, confirms, inTxn, inSub, done, lost, raced>>

\* Mutants of InsertEvent: every run counts as the first; a known event is done.
InsertEventAgain(x) ==
  /\ At(x, "event") /\ ~EventLocked(Ev(x))
  /\ LET e == Ev(x)
     IN /\ normalized' = normalized \cup {e}
        /\ logical' = [logical EXCEPT ![e] = Coalesce(@, run[x].logical)]
        /\ run' = [run EXCEPT ![x].inserted = TRUE,
                              ![x].step = IF HasTxn(e) THEN "txn" ELSE "sub"]
  /\ UNCHANGED <<known, mapping, txns, subs, lastSeen, daily, confirm, starts, crashes, confirms, history>>
InsertEventOnce(x) ==
  /\ At(x, "event") /\ ~EventLocked(Ev(x))
  /\ LET e == Ev(x)
     IN /\ normalized' = normalized \cup {e}
        /\ logical' = [logical EXCEPT ![e] = Coalesce(@, run[x].logical)]
        /\ run' = [run EXCEPT ![x].inserted = e \notin normalized,
                              ![x].step = IF e \in normalized THEN "finish"
                                          ELSE IF HasTxn(e) THEN "txn" ELSE "sub"]
  /\ UNCHANGED <<known, mapping, txns, subs, lastSeen, daily, confirm, starts, crashes, confirms, history>>

\* insert_normalized_event: on conflict the row is only completed.
InsertEvent(x) ==
  /\ At(x, "event") /\ ~EventLocked(Ev(x))
  /\ LET e == Ev(x)
     IN /\ normalized' = normalized \cup {e}
        /\ logical' = [logical EXCEPT ![e] = Coalesce(@, run[x].logical)]
        /\ run' = [run EXCEPT ![x].inserted = e \notin normalized,
                              ![x].step = IF HasTxn(e) THEN "txn" ELSE "sub"]
  /\ UNCHANGED <<known, mapping, txns, subs, lastSeen, daily, confirm, starts, crashes, confirms, history>>

\* Mutants of Wins: the last to arrive wins; the first event stays.
WinsAlways(f, row) == TRUE
WinsOnce(f, row) == row.at = 0

\* excluded.status_updated_at >= status_updated_at, the guard of both upserts.
Wins(f, row) == f.at >= row.at

\* Mutant of Refunds: the latest event is added again.
RefundsAgain(row, e) ==
  IF IsRefund(Fact[e].type) THEN [row.refunds EXCEPT ![e] = @ + 1] ELSE row.refunds

\* refund_amount_minor after event e: only the latest event is not added again.
Refunds(row, e) ==
  IF IsRefund(Fact[e].type) /\ row.latest # e
    THEN [row.refunds EXCEPT ![e] = @ + 1] ELSE row.refunds

\* The row after the upsert of project_transaction for event e.
UpsertedTxn(row, e, lp) ==
  LET f == Fact[e]
  IN [latest   |-> IF Wins(f, row) THEN e ELSE row.latest,
      status   |-> IF Wins(f, row) THEN TxnStatus(f.type) ELSE row.status,
      at       |-> IF Wins(f, row) THEN f.at ELSE row.at,
      refunds  |-> Refunds(row, e),
      product  |-> IF row.latest = None THEN f.product ELSE row.product,
      logical  |-> Coalesce(row.logical, lp),
      customer |-> row.customer]

UpsertTxn(x) ==
  /\ At(x, "txn")
  /\ LET e == Ev(x)
         k == TxnKey(e)
     IN /\ ~TxnLocked(k)
        /\ txns' = [txns EXCEPT ![k] = UpsertedTxn(@, e, run[x].logical)]
        /\ inTxn' = [inTxn EXCEPT ![k] = @ \cup {e}]
        /\ run' = [run EXCEPT ![x].txn = k,
                              ![x].step = IF Fact[e].customer = None THEN "sub" ELSE "txn_customer"]
  /\ UNCHANGED <<known, mapping, normalized, logical, subs, lastSeen, daily,
                 confirm, starts, crashes, confirms, inSub, done, lost, overtaken, raced>>

\* upsert_customer: last_seen_at is that of the event at hand.
UpsertCustomer(f) == lastSeen' = [lastSeen EXCEPT ![f.customer] = f.at]

\* upsert_customer, then the row is linked to it.  Customers are never deleted
\* and nothing reads last_seen_at in between, so the two statements are one step.
LinkTxnCustomer(x) ==
  /\ At(x, "txn_customer") /\ ~TxnLocked(run[x].txn)
  /\ LET f == Fact[Ev(x)]
     IN /\ UpsertCustomer(f)
        /\ txns' = [txns EXCEPT ![run[x].txn].customer = f.customer]
  /\ Goto(x, "sub")
  /\ UNCHANGED <<known, mapping, normalized, logical, subs, daily, confirm, starts, crashes, confirms, history>>

\* update_daily_metric is called only by the run that inserted the event, and
\* does nothing outside production.
AfterSub(x) == IF run[x].inserted /\ Fact[Ev(x)].live THEN "metric" ELSE "finish"

\* Mutant of UpsertedSub: the renewal flag is not guarded by the event time.
UpsertedSubRenews(row, e, lp, txn) ==
  LET f == Fact[e]
      wins == Wins(f, row)
  IN [status    |-> IF wins THEN SubStatus(f.type) ELSE row.status,
      at        |-> IF wins THEN f.at ELSE row.at,
      renews    |-> f.type \notin {"cancellation", "expiration"},
      grace     |-> IF wins THEN f.type = "grace_period_started" ELSE row.grace,
      retry     |-> IF wins THEN f.type = "billing_issue" ELSE row.retry,
      latestTxn |-> IF wins THEN Coalesce(txn, row.latestTxn) ELSE row.latestTxn,
      product   |-> Coalesce(row.product, f.product),
      logical   |-> Coalesce(row.logical, lp),
      customer  |-> row.customer]

\* The row after the upsert of project_subscription for event e.
UpsertedSub(row, e, lp, txn) ==
  LET f == Fact[e]
      renews == IF f.renews = None THEN f.type \notin {"cancellation", "expiration"} ELSE f.renews
      wins == Wins(f, row)
  IN [status    |-> IF wins THEN SubStatus(f.type) ELSE row.status,
      at        |-> IF wins THEN f.at ELSE row.at,
      renews    |-> IF wins THEN renews ELSE row.renews,
      grace     |-> IF wins THEN f.type = "grace_period_started" ELSE row.grace,
      retry     |-> IF wins THEN f.type = "billing_issue" ELSE row.retry,
      latestTxn |-> IF wins THEN Coalesce(txn, row.latestTxn) ELSE row.latestTxn,
      product   |-> Coalesce(row.product, f.product),
      logical   |-> Coalesce(row.logical, lp),
      customer  |-> row.customer]

UpsertSub(x) ==
  /\ At(x, "sub") /\ HasSub(Ev(x))
  /\ LET e == Ev(x)
         s == Fact[e].sub
     IN /\ ~SubLocked(s)
        /\ subs' = [subs EXCEPT ![s] = UpsertedSub(@, e, run[x].logical, run[x].txn)]
        /\ inSub' = [inSub EXCEPT ![s] = @ \cup {e}]
        /\ Goto(x, IF Fact[e].customer = None THEN AfterSub(x) ELSE "sub_customer")
  /\ UNCHANGED <<known, mapping, normalized, logical, txns, lastSeen, daily,
                 confirm, starts, crashes, confirms, inTxn, done, lost, overtaken, raced>>

NoSubscription(x) ==
  /\ At(x, "sub") /\ ~HasSub(Ev(x))
  /\ Goto(x, AfterSub(x))
  /\ UNCHANGED <<tables, confirm, starts, crashes, confirms, history>>

LinkSubCustomer(x) ==
  /\ At(x, "sub_customer") /\ ~SubLocked(Fact[Ev(x)].sub)
  /\ LET f == Fact[Ev(x)]
     IN /\ UpsertCustomer(f)
        /\ subs' = [subs EXCEPT ![f.sub].customer = f.customer]
  /\ Goto(x, AfterSub(x))
  /\ UNCHANGED <<known, mapping, normalized, logical, txns, daily, confirm, starts, crashes, confirms, history>>

UpdateDaily(x) ==
  /\ At(x, "metric")
  /\ daily' = [daily EXCEPT ![run[x].logical][Ev(x)] = @ + 1]
  /\ Goto(x, "finish")
  /\ UNCHANGED <<known, mapping, normalized, logical, txns, subs, lastSeen,
                 confirm, starts, crashes, confirms, history>>

\* raw_events.processing_status is written last.
Finish(x) ==
  /\ At(x, "finish")
  /\ done' = done \cup {Ev(x)}
  /\ run' = [run EXCEPT ![x] = Idle]
  /\ UNCHANGED <<tables, confirm, starts, crashes, confirms, inTxn, inSub, lost, overtaken, raced>>

\* The run still has to add its event to the rollup.
OwesRollup(x) ==
  /\ run[x].step \notin {"idle", "finish"}
  /\ run[x].inserted /\ Fact[Ev(x)].live

\* A statement fails, the handler is dropped or the process dies.
Crash(x) ==
  /\ ~At(x, "idle")
  /\ crashes < MaxCrashes
  /\ crashes' = crashes + 1
  /\ lost' = IF OwesRollup(x) THEN lost \cup {Ev(x)} ELSE lost
  /\ run' = [run EXCEPT ![x] = Idle]
  /\ UNCHANGED <<tables, confirm, starts, confirms, inTxn, inSub, done, overtaken, raced>>

\* Executors that have read the mapping of p and will write rows with what they read.
HasRead(x, p) ==
  /\ run[x].step \in {"event", "txn", "txn_customer", "sub"}
  /\ Fact[Ev(x)].product = p

\* confirm_catalog opens a transaction that replaces the active mapping of p; the
\* unique index on active mappings leaves room for one such transaction.
BeginConfirm(p, lp) ==
  /\ p \in known
  /\ confirm[p].step = "none"
  /\ starts + confirms < MaxWork
  /\ confirms' = confirms + 1
  /\ confirm' = [confirm EXCEPT ![p] = [NoConfirm EXCEPT !.step = "txns", !.logical = lp]]
  /\ UNCHANGED <<tables, run, starts, crashes, history>>

\* Its update of the transactions of p.  A run that has read the mapping before may
\* still write a row that this statement does not see.
ConfirmTxns(p) ==
  /\ confirm[p].step = "txns"
  /\ confirm' = [confirm EXCEPT ![p].step = "subs",
                                ![p].txns = {k \in Keys : txns[k].product = p}]
  /\ overtaken' = [overtaken EXCEPT ![p] = {Ev(x) : x \in {y \in Executors : HasRead(y, p)}}]
  /\ UNCHANGED <<tables, run, starts, crashes, confirms, inTxn, inSub, done, lost, raced>>

ConfirmSubs(p) ==
  /\ confirm[p].step = "subs"
  /\ confirm' = [confirm EXCEPT ![p].step = "events",
                                ![p].subs = {s \in SubKeys : subs[s].product = p}]
  /\ UNCHANGED <<tables, run, starts, crashes, confirms, history>>

\* Mutant of ConfirmEvents: the ledger of normalized events is forgotten.
ConfirmNoEvents(p) ==
  /\ confirm[p].step = "events"
  /\ confirm' = [confirm EXCEPT ![p].step = "commit"]
  /\ UNCHANGED <<tables, run, starts, crashes, confirms, history>>

ConfirmEvents(p) ==
  /\ confirm[p].step = "events"
  /\ confirm' = [confirm EXCEPT ![p].step = "commit",
                                ![p].events = {e \in normalized : Fact[e].product = p}]
  /\ UNCHANGED <<tables, run, starts, crashes, confirms, history>>

\* The mapping and the updated rows become visible at once; the rollup stays.
CommitConfirm(p) ==
  /\ confirm[p].step = "commit"
  /\ LET c == confirm[p]
     IN /\ mapping' = [mapping EXCEPT ![p] = c.logical]
        /\ txns' = [k \in Keys |-> IF k \in c.txns THEN [txns[k] EXCEPT !.logical = c.logical] ELSE txns[k]]
        /\ subs' = [s \in SubKeys |-> IF s \in c.subs THEN [subs[s] EXCEPT !.logical = c.logical] ELSE subs[s]]
        /\ logical' = [e \in Events |-> IF e \in c.events THEN c.logical ELSE logical[e]]
  /\ confirm' = [confirm EXCEPT ![p] = NoConfirm]
  /\ overtaken' = [overtaken EXCEPT ![p] = {}]
  /\ raced' = raced \cup overtaken[p]
  /\ UNCHANGED <<known, normalized, lastSeen, daily, run, starts, crashes, confirms, inTxn, inSub, done, lost>>

\* A statement fails, or the handler is dropped: nothing has happened.
RollbackConfirm(p) ==
  /\ confirm[p].step # "none"
  /\ crashes < MaxCrashes
  /\ crashes' = crashes + 1
  /\ confirm' = [confirm EXCEPT ![p] = NoConfirm]
  /\ overtaken' = [overtaken EXCEPT ![p] = {}]
  /\ UNCHANGED <<tables, run, starts, confirms, inTxn, inSub, done, lost, raced>>

Confirm(p) ==
  \/ \E lp \in Logicals : BeginConfirm(p, lp)
  \/ ConfirmTxns(p) \/ ConfirmSubs(p) \/ ConfirmEvents(p)
  \/ CommitConfirm(p) \/ RollbackConfirm(p)

Proceed(x) ==
  \/ UpsertProduct(x) \/ ReadMapping(x) \/ InsertEvent(x)
  \/ UpsertTxn(x) \/ LinkTxnCustomer(x)
  \/ UpsertSub(x) \/ NoSubscription(x) \/ LinkSubCustomer(x)
  \/ UpdateDaily(x) \/ Finish(x)

Next ==
  \/ \E x \in Executors, e \in Events : Start(x, e)
  \/ \E x \in Executors : Proceed(x) \/ Crash(x)
  \/ \E p \in Products : Confirm(p)

Spec == Init /\ [][Next]_vars

-----------------------------------------------------------------------------

RunSteps == {"idle", "product", "mapping", "event", "txn", "txn_customer", "sub",
             "sub_customer", "metric", "finish"}

TxnRecord ==
  [latest : Events \cup {None},
   status : {None, "renewed", "refunded", "partially_refunded", "revoked", "paid"},
   at : Nat, refunds : [Events -> Nat], product : Products \cup {None},
   logical : Logicals \cup {None}, customer : Customers \cup {None}]

SubRecord ==
  [status : {None, "trialing", "cancelled_active", "expired", "billing_retry",
             "grace_period", "refunded", "active"},
   at : Nat, renews : BOOLEAN, grace : BOOLEAN, retry : BOOLEAN,
   latestTxn : Keys \cup {None}, product : Products \cup {None},
   logical : Logicals \cup {None}, customer : Customers \cup {None}]

RunRecord ==
  [step : RunSteps, event : Events \cup {None}, logical : Logicals \cup {None},
   inserted : BOOLEAN, txn : Keys \cup {None}]

ConfirmRecord ==
  [step : {"none", "txns", "subs", "events", "commit"}, logical : Logicals \cup {None},
   txns : SUBSET Keys, subs : SUBSET SubKeys, events : SUBSET Events]

\* Tables, locals and counters keep their shape.
TypeOK ==
  /\ known \subseteq Products
  /\ mapping \in [Products -> Logicals \cup {None}]
  /\ normalized \subseteq Events
  /\ logical \in [Events -> Logicals \cup {None}]
  /\ txns \in [Keys -> TxnRecord]
  /\ subs \in [SubKeys -> SubRecord]
  /\ lastSeen \in [Customers -> Nat]
  /\ daily \in [Logicals \cup {None} -> [Events -> Nat]]
  /\ run \in [Executors -> RunRecord]
  /\ confirm \in [Products -> ConfirmRecord]
  /\ starts \in 0..MaxStarts /\ crashes \in 0..MaxCrashes
  /\ confirms \in 0..MaxWork
  /\ inTxn \in [Keys -> SUBSET Events] /\ inSub \in [SubKeys -> SUBSET Events]
  /\ done \subseteq Events /\ lost \subseteq Events
  /\ overtaken \in [Products -> SUBSET Events] /\ raced \subseteq Events

Newest(S) == {e \in S : \A f \in S : Fact[f].at <= Fact[e].at}

\* A transaction shows the status of a newest event applied to it, in whatever
\* order its events arrive, overlap and are run again; latest_event_id, status
\* and status_updated_at never come from different events.
TxnShowsNewest ==
  \A k \in Keys :
    /\ txns[k].latest = None <=> inTxn[k] = {}
    /\ inTxn[k] # {} =>
         LET e == txns[k].latest
         IN /\ e \in Newest(inTxn[k])
            /\ txns[k].at = Fact[e].at
            /\ txns[k].status = TxnStatus(Fact[e].type)

\* A subscription's status, renewal, grace and billing flags all come from one
\* newest event, so a stale event never leaves an expired subscription that
\* renews or an active one in billing retry; its latest transaction is stored.
SubShowsNewest ==
  \A s \in SubKeys : inSub[s] # {} =>
    /\ \E e \in Newest(inSub[s]) :
         LET f == Fact[e]
         IN /\ subs[s].at = f.at
            /\ subs[s].status = SubStatus(f.type)
            /\ subs[s].grace = (f.type = "grace_period_started")
            /\ subs[s].retry = (f.type = "billing_issue")
            /\ subs[s].renews = IF f.renews = None
                                  THEN f.type \notin {"cancellation", "expiration"} ELSE f.renews
    /\ subs[s].latestTxn # None => txns[subs[s].latestTxn].latest # None

\* Every refund applied to a transaction is in its refund amount, in whatever order
\* it arrives, and nothing that is not a refund is.  The statement that adds it can
\* be repeated: it is added again only where another event at least as new was
\* applied to the row (which then may be its latest event); a refund that is the
\* newest event of its transaction is counted once.
RefundsCounted ==
  \A k \in Keys, e \in Events :
    /\ txns[k].refunds[e] > 0 <=> e \in inTxn[k] /\ IsRefund(Fact[e].type)
    /\ txns[k].refunds[e] > 1 => \E d \in inTxn[k] \ {e} : Fact[d].at >= Fact[e].at

RollupCells(e) == {p \in Logicals \cup {None} : daily[p][e] # 0}

\* The daily rollup counts a production event at most once and under one
\* product, however often and however concurrently it is run.  An event that is
\* missing from it either has a run that will add it, or its first run stopped
\* before that: then no later run ever adds it.
RollupExact ==
  \A e \in Events :
    /\ \A p, q \in RollupCells(e) : p = q /\ daily[p][e] = 1
    /\ RollupCells(e) # {} => e \in normalized /\ Fact[e].live
    /\ e \in lost => RollupCells(e) = {}
    /\ e \in normalized /\ Fact[e].live /\ RollupCells(e) = {} =>
         e \in lost \/ \E x \in Executors : Ev(x) = e /\ OwesRollup(x)

\* When a run returns Ok, everything its event stands for is stored, including
\* what an earlier run that stopped half-way had left out.
DoneIsProjected ==
  \A e \in done : Fact[e].type # "none" =>
    /\ e \in normalized
    /\ Fact[e].product # None => Fact[e].product \in known
    /\ HasTxn(e) => e \in inTxn[TxnKey(e)]
    /\ HasSub(e) => e \in inSub[Fact[e].sub]
    /\ Fact[e].customer # None =>
         /\ HasTxn(e) => txns[TxnKey(e)].customer # None
         /\ HasSub(e) => subs[Fact[e].sub].customer # None

\* After a catalog confirmation commits, every row of the product carries the
\* confirmed logical product, and so do the rows written later, also when it
\* replaces an earlier mapping or another one was rolled back.  Only an event whose
\* run had read the mapping and had rows to write between the confirmation's first
\* scan and its commit can be left with the old one.
RowsFollowMapping ==
  LET Settled(S, p) == S # {} /\ \A e \in S : Fact[e].product = p /\ e \notin raced
  IN \A p \in Products :
       /\ \A e \in normalized : Settled({e}, p) => logical[e] = mapping[p]
       /\ \A k \in Keys : Settled(inTxn[k], p) => txns[k].logical = mapping[p]
       /\ \A s \in SubKeys : Settled(inSub[s], p) => subs[s].logical = mapping[p]

\* docs/architecture.md:219, "Projection should be rebuildable from raw and
\* normalized events.": the refund amount of a transaction is that of its refund
\* events, each counted once.  It does not hold: a refund that is run again after
\* another event of the transaction took its place as the latest is added twice.
RefundsRebuildable ==
  \A k \in Keys, e \in Events : txns[k].refunds[e] <= 1

\* Each transaction row is a register that a newest event wins.
TxnRegister == INSTANCE NewestWins
  WITH Time <- [e \in Events |-> Fact[e].at], NoEvent <- None,
       seen <- inTxn, lead <- [k \in Keys |-> txns[k].latest]

\* The transactions table implements the registers.
ImplementsNewestWins == TxnRegister!Spec

=============================================================================
