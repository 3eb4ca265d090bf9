------------------------------ MODULE Revenue -------------------------------
(***************************************************************************)
(* What the revenue metrics count when the charges of an app are reported  *)
(* by their store and by a mirror of it, RevenueCat or the developer's own *)
(* back end (connectors/src/lib.rs, purchase_lookup.rs, the view           *)
(* metric_events and the queries of routes.rs).  A purchase has one token; *)
(* its charges, the first and the renewals, each have an order.            *)
(*                                                                         *)
(* Google's notifications name neither the charge nor its price: both come *)
(* from a lookup of the purchase as it is when the notification is         *)
(* received, so that the model follows which charges have happened by      *)
(* then.  How a payload is stored once, and normalised by a job, is Ingest *)
(* and Projection: here both are the one step in which a row appears.      *)
(* There is one app and one currency; a report has the price of its charge *)
(* or none.                                                                *)
(***************************************************************************)
EXTENDS Integers, FiniteSets

CONSTANTS
  Purchases,
  Stores,       \* "app_store", "google_play"
  Mirrors,      \* the connected sources that report store purchases too
  MaxCharges,   \* BOUND: charges of a subscription
  MaxGaps       \* BOUND: production reports without a price or an order

ASSUME RevenueAssumption ==
  /\ Stores \subseteq {"app_store", "google_play"}
  /\ Mirrors \subseteq {"revenuecat", "custom_api"}
  /\ MaxCharges \in Nat \ {0}
  /\ MaxGaps \in Nat

VARIABLES
  purchase,     \* the world: store, product, number of charges, which were refunded
  verifies,     \* the Google source has Android Publisher credentials
  events        \* normalized_events

vars == <<purchase, verifies, events>>

Sources == Stores \cup Mirrors

Charges == 1 .. MaxCharges

Kinds == {"initial", "renewal", "refund"}

Init ==
  /\ purchase \in [Purchases -> [store : Stores, product : {"subscription", "one_time"},
                                 charges : {0}, refunded : {{}}]]
  /\ verifies \in BOOLEAN
  /\ events = {}

IsSubscription(p) == purchase[p].product = "subscription"

(***************************************************************************)
(* What is extracted of a payload.  An event's fields purchase, kind and   *)
(* charge say what it is about.  For Google's, verified says whether the   *)
(* lookup succeeded and order what it answered, 0 if no order; the others  *)
(* name the environment and the charge themselves.  priced says whether    *)
(* there is an amount_minor.                                               *)
(***************************************************************************)

\* map_app_store_type: SUBSCRIBED, DID_RENEW, REFUND; the first charge of a one-time
\* product is a type that it does not know, nor does map_common_type.
AppStoreType(p, kind) ==
  CASE kind = "initial" -> IF IsSubscription(p) THEN "purchase" ELSE "unknown"
    [] kind = "renewal" -> "renewal"
    [] kind = "refund" -> "refund"

\* map_google_type.
GoogleType(p, kind) ==
  CASE kind = "initial" -> IF IsSubscription(p) THEN "purchase" ELSE "one_time_purchase"
    [] kind = "renewal" -> "renewal"
    [] kind = "refund" -> IF IsSubscription(p) THEN "revocation" ELSE "cancellation"

\* map_revenuecat_type, map_common_type: INITIAL_PURCHASE, NON_RENEWING_PURCHASE and
\* the like.
MirrorType(kind) == IF kind = "initial" THEN "purchase" ELSE kind

EventType(e) ==
  CASE e.source = "app_store" -> AppStoreType(e.purchase, e.kind)
    [] e.source = "google_play" -> GoogleType(e.purchase, e.kind)
    [] OTHER -> MirrorType(e.kind)

\* transaction_key: the order, or for Google the one that was looked up and else the
\* token (written as order 0), which all charges of the purchase share.
TransactionKey(e) ==
  <<e.purchase, IF e.source = "google_play" THEN e.order ELSE e.charge>>

\* Only a lookup tells Google's production purchases from tests.
Environment(e) == IF e.verified THEN "production" ELSE "unknown"

\* insert_normalized_event: 0.92, or 0.68 for an event with warnings, which App Store
\* payloads always have, Google's have if there is no price, and mirrors' never have.
Confidence(e) ==
  IF e.source = "app_store" \/ (e.source = "google_play" /\ ~e.priced) THEN 68 ELSE 92

(***************************************************************************)
(* The view and the queries.                                               *)
(***************************************************************************)

\* Mutant: whatever else reports the transaction is a duplicate.
SameKey(e) == <<TransactionKey(e)>>

Partition(e) == <<Environment(e), EventType(e), TransactionKey(e)>>

SourceRank(e) ==
  CASE e.source \in Stores -> 0
    [] e.source = "revenuecat" -> 1
    [] e.source = "custom_api" -> 2

\* d comes before e in the order of the view; at is created_at among the rows of one
\* source and partition.
Before(d, e) ==
  \/ SourceRank(d) < SourceRank(e)
  \/ SourceRank(d) = SourceRank(e) /\ Confidence(d) > Confidence(e)
  \/ SourceRank(d) = SourceRank(e) /\ Confidence(d) = Confidence(e) /\ d.at < e.at

\* metric_events: the first row of each partition.
MetricEvents ==
  {e \in events : \A d \in events : Partition(d) = Partition(e) => ~Before(d, e)}

GrossTypes == {"purchase", "one_time_purchase", "trial_converted", "renewal"}

RefundTypes == {"refund", "partial_refund", "revocation"}

\* What a row adds to the production metrics, whose sums skip a row without an amount.
Adds(e, types) == Environment(e) = "production" /\ EventType(e) \in types /\ e.priced

\* The rows that metrics_overview, its time series and the breakdown sum up.
Summed(types) == {e \in MetricEvents : Adds(e, types)}

(***************************************************************************)
(* Steps.                                                                  *)
(***************************************************************************)

\* A charge is made: the purchase, or the next renewal unless Google has revoked the
\* subscription.
Charge(p) ==
  /\ purchase[p].charges < IF IsSubscription(p) THEN MaxCharges ELSE 1
  /\ ~(purchase[p].store = "google_play" /\ purchase[p].refunded # {})
  /\ purchase' = [purchase EXCEPT ![p].charges = purchase[p].charges + 1]
  /\ UNCHANGED <<verifies, events>>

\* A charge is refunded; for Google's subscriptions, the last is revoked.
Refund(p, c) ==
  /\ c \in 1 .. purchase[p].charges \ purchase[p].refunded
  /\ purchase[p].store = "google_play" => c = purchase[p].charges
  /\ purchase' = [purchase EXCEPT ![p].refunded = purchase[p].refunded \cup {c}]
  /\ UNCHANGED <<verifies, events>>

\* What the store and the mirrors have to report of p.
Happened(p, kind, c) ==
  CASE kind = "initial" -> c = 1 /\ purchase[p].charges >= 1
    [] kind = "renewal" -> c \in 2 .. purchase[p].charges
    [] kind = "refund" -> c \in purchase[p].refunded

Report(source, p, kind, c, verified, order, priced) ==
  [source |-> source, purchase |-> p, kind |-> kind, charge |-> c, verified |-> verified,
   order |-> order, priced |-> priced, at |-> 0]

\* A production report without a price, or of a lookup without an order.
Gap(e) == e.verified /\ (~e.priced \/ (e.source = "google_play" /\ e.order = 0))

\* A report arrives, in any order and any time after; a second delivery of it changes
\* nothing.
Store(e) ==
  /\ Happened(e.purchase, e.kind, e.charge)
  /\ \A d \in events :
       <<d.source, d.purchase, d.kind, d.charge>> # <<e.source, e.purchase, e.kind, e.charge>>
  /\ Gap(e) => Cardinality({d \in events : Gap(d)}) < MaxGaps
  /\ events' = events \cup
       {[e EXCEPT !.at = Cardinality({d \in events :
           d.source = e.source /\ Partition(d) = Partition(e)})]}
  /\ UNCHANGED <<purchase, verifies>>

\* summarize_purchase: the latest order of the purchase, if it has one, and a price if
\* the plan of a subscription has one; a one-time product has none.
LookedUp(p, kind, c) ==
  \E order \in {0, purchase[p].charges}, priced \in BOOLEAN :
    /\ priced => IsSubscription(p)
    /\ Store(Report("google_play", p, kind, c, TRUE, order, priced))

\* Mutant of ReceiveGoogle: the lookup does not ask whether there are credentials.
LookUpAlways(p, kind, c) ==
  /\ purchase[p].store = "google_play"
  /\ LookedUp(p, kind, c)

\* google_play_processing_payload on receipt: the lookup is not configured, fails or is
\* denied, or answers.
ReceiveGoogle(p, kind, c) ==
  /\ purchase[p].store = "google_play"
  /\ \/ verifies /\ LookedUp(p, kind, c)
     \/ Store(Report("google_play", p, kind, c, FALSE, 0, FALSE))

\* The price is optional in a transaction of the App Store.
ReceiveAppStore(p, kind, c) ==
  /\ purchase[p].store = "app_store"
  /\ \E priced \in BOOLEAN : Store(Report("app_store", p, kind, c, TRUE, 0, priced))

ReceiveMirror(m, p, kind, c) ==
  \E priced \in BOOLEAN : Store(Report(m, p, kind, c, TRUE, 0, priced))

\* The operator adds the credentials of the Publisher API.
Configure ==
  /\ ~verifies
  /\ verifies' = TRUE
  /\ UNCHANGED <<purchase, events>>

Next ==
  \/ \E p \in Purchases :
       \/ Charge(p)
       \/ \E c \in Charges : Refund(p, c)
       \/ \E kind \in Kinds, c \in Charges :
            \/ ReceiveGoogle(p, kind, c)
            \/ ReceiveAppStore(p, kind, c)
            \/ \E m \in Mirrors : ReceiveMirror(m, p, kind, c)
  \/ Configure

Spec == Init /\ [][Next]_vars

(***************************************************************************)
(* Properties.                                                             *)
(***************************************************************************)

TypeOK ==
  /\ purchase \in [Purchases -> [store : Stores, product : {"subscription", "one_time"},
                                 charges : 0 .. MaxCharges, refunded : SUBSET Charges]]
  /\ verifies \in BOOLEAN
  /\ events \subseteq [source : Sources, purchase : Purchases, kind : Kinds, charge : Charges,
                       verified : BOOLEAN, order : 0 .. MaxCharges, priced : BOOLEAN,
                       at : 0 .. MaxCharges]
  /\ \A e \in events :
       /\ Happened(e.purchase, e.kind, e.charge)
       /\ e.source = "google_play" /\ e.verified =>
            verifies /\ e.order <= purchase[e.purchase].charges

About(rows, p, c) == {e \in rows : e.purchase = p /\ e.charge = c}

\* The lookups of the notifications about charge c answered with it, and no other did.
InTime(p, c) ==
  \A e \in events :
    /\ e.source = "google_play" /\ e.purchase = p /\ e.kind # "refund" /\ e.verified
    /\ c \in {e.charge, e.order}
    => e.order = e.charge

\* The production reports of charge c under one of the types.
Reports(types, p, c) ==
  {e \in About(events, p, c) : Environment(e) = "production" /\ EventType(e) \in types}

\* No source that is trusted more reports the same.
MostTrusted(e) ==
  \A d \in Reports({EventType(e)}, e.purchase, e.charge) : SourceRank(e) <= SourceRank(d)

\* The sums count charge c exactly once if the most trusted report of it has its price,
\* and else not at all.
OnceIfReported(types, p, c) ==
  Cardinality(About(Summed(types), p, c)) =
    IF \E e \in Reports(types, p, c) : e.priced /\ MostTrusted(e) THEN 1 ELSE 0

\* Purchases whose refunds are one event type: not Google's subscriptions if a mirror
\* reports them too, since the view matches no revocation with a refund.
OneRefundType(p) ==
  Mirrors = {} \/ purchase[p].store # "google_play" \/ ~IsSubscription(p)

\* docs/connectors.md:247: a purchase that a store and RevenueCat both report is not
\* counted twice; nor do different charges, or a charge and its refund, count as one.
\* For every order of arrival, with credentials missing, failing or added later: gross
\* revenue has a charge once if its most trusted production report has a price, and not
\* at all if it has none, which hides the price of a mirror; this holds of each charge
\* whose own lookups were in time.  The same holds of the refunds under each event type,
\* and of their sum where refunds have one event type.
MoneyCountsOnce ==
  \A p \in Purchases, c \in Charges :
    /\ InTime(p, c) => OnceIfReported(GrossTypes, p, c)
    /\ \A t \in RefundTypes : OnceIfReported({t}, p, c)
    /\ OneRefundType(p) => OnceIfReported(RefundTypes, p, c)

\* docs/connectors.md:167: the charges of one purchase token remain separate entries
\* of the ledger, by the order their lookup returned.
ChargesStaySeparate ==
  LET lookedUp == {e \in events : e.source = "google_play" /\ e.kind # "refund" /\ e.order # 0}
  IN \A d, e \in lookedUp : TransactionKey(d) = TransactionKey(e) => d = e

=============================================================================
