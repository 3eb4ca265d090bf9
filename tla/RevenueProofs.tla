---------------------------- MODULE RevenueProofs ----------------------------
(***************************************************************************)
(* Theorems about Revenue, for any purchases, any number of charges and    *)
(* any connected stores and mirrors: the view keeps one row of what        *)
(* several sources report, and the sums count it once.                     *)
(***************************************************************************)
EXTENDS Revenue, FiniteSetTheorems, TLAPS

USE RevenueAssumption

\* The rows of e's source that the view compares with it.
Group(e) == {d \in events : d.source = e.source /\ Partition(d) = Partition(e)}

\* Those of them with e's confidence.
Class(e) == {d \in Group(e) : Confidence(d) = Confidence(e)}

\* Only subscriptions are charged again, and Google revokes the last charge of one, after
\* which there is no other.
ChargesFit ==
  \A p \in Purchases :
    /\ purchase[p].charges > 1 => IsSubscription(p)
    /\ purchase[p].store = "google_play" => \A c \in purchase[p].refunded : c = purchase[p].charges

\* A purchase is reported by its own store, and only a Google row depends on a lookup.
SourcesFit ==
  \A e \in events :
    /\ e.source \in Stores => e.source = purchase[e.purchase].store
    /\ e.source # "google_play" => e.verified /\ e.order = 0
    /\ e.source = "google_play" /\ e.priced => e.verified /\ IsSubscription(e.purchase)

\* A source reports a charge or a refund in one row.
ReportedOnce ==
  \A d, e \in events :
    <<d.source, d.purchase, d.kind, d.charge>> = <<e.source, e.purchase, e.kind, e.charge>> => d = e

\* created_at orders the rows of a group, and one of each confidence is the first.
InOrder ==
  /\ IsFiniteSet(events)
  /\ \A e \in events :
       /\ e.at < Cardinality(Group(e))
       /\ \A d \in Group(e) : d.at = e.at => d = e
       /\ \E d \in Class(e) : \A g \in Class(e) : d.at <= g.at

IInv == TypeOK /\ ChargesFit /\ SourcesFit /\ ReportedOnce /\ InOrder

Row == [source : Sources, purchase : Purchases, kind : Kinds, charge : Charges,
        verified : BOOLEAN, order : 0 .. MaxCharges, priced : BOOLEAN, at : 0 .. MaxCharges]

-----------------------------------------------------------------------------
\* What a row says.

LEMMA SourceCases ==
  ASSUME NEW source \in Sources
  PROVE  /\ source \in {"app_store", "google_play", "revenuecat", "custom_api"}
         /\ source \in Stores <=> source \in {"app_store", "google_play"}
         /\ source \in Mirrors <=> source \in {"revenuecat", "custom_api"}
  BY DEF Sources

\* The types each kind of report gets.
LEMMA TypeCases ==
  ASSUME NEW e, e.source \in Sources, e.kind \in Kinds
  PROVE  /\ e.kind = "initial" =>
              EventType(e) = IF e.source \in Mirrors \/ IsSubscription(e.purchase) THEN "purchase"
                             ELSE IF e.source = "app_store" THEN "unknown" ELSE "one_time_purchase"
         /\ e.kind = "renewal" => EventType(e) = "renewal"
         /\ e.kind = "refund" =>
              EventType(e) = IF e.source # "google_play" THEN "refund"
                             ELSE IF IsSubscription(e.purchase) THEN "revocation" ELSE "cancellation"
<1>1. CASE e.source = "app_store"
  BY <1>1, SourceCases DEF EventType, AppStoreType, Kinds
<1>2. CASE e.source = "google_play"
  BY <1>2, SourceCases DEF EventType, GoogleType, Kinds
<1>3. CASE e.source \in Mirrors
  BY <1>3, SourceCases DEF EventType, MirrorType, Kinds
<1> QED
  BY <1>1, <1>2, <1>3, SourceCases

\* Rows of one partition are about one purchase; in one of one source, about one kind of
\* report.
LEMMA PartitionSays ==
  ASSUME NEW d \in Row, NEW e \in Row, Partition(d) = Partition(e)
  PROVE  /\ d.purchase = e.purchase /\ Environment(d) = Environment(e)
         /\ EventType(d) = EventType(e)
         /\ (IF d.source = "google_play" THEN d.order ELSE d.charge) =
              (IF e.source = "google_play" THEN e.order ELSE e.charge)
         /\ d.source = e.source => d.kind = e.kind
<1>1. /\ Environment(d) = Environment(e) /\ EventType(d) = EventType(e)
      /\ TransactionKey(d) = TransactionKey(e)
  BY DEF Partition
<1>2. /\ d.purchase = e.purchase
      /\ (IF d.source = "google_play" THEN d.order ELSE d.charge) =
           (IF e.source = "google_play" THEN e.order ELSE e.charge)
  BY <1>1 DEF TransactionKey
<1>3. ASSUME d.source = e.source PROVE d.kind = e.kind
  BY <1>1, <1>2, <1>3, TypeCases DEF Row, Kinds
<1> QED BY <1>1, <1>2, <1>3

LEMMA RowsAreRows == IInv => events \subseteq Row
  BY DEF IInv, TypeOK, Row

LEMMA Ranks ==
  ASSUME NEW e \in Row
  PROVE  /\ SourceRank(e) \in {0, 1, 2}
         /\ SourceRank(e) = 0 <=> e.source \in Stores
         /\ SourceRank(e) = 1 <=> e.source = "revenuecat"
         /\ SourceRank(e) = 2 <=> e.source = "custom_api"
<1>1. e.source \in Sources
  BY DEF Row
<1> QED BY <1>1, SourceCases DEF SourceRank

\* Rows of one partition and one rank have one source: a purchase has one store.
LEMMA RankIsSource ==
  ASSUME IInv, NEW d \in events, NEW e \in events, Partition(d) = Partition(e),
         SourceRank(d) = SourceRank(e)
  PROVE  d.source = e.source
<1>1. d \in Row /\ e \in Row
  BY RowsAreRows
<1>2. d.purchase = e.purchase
  BY <1>1, PartitionSays
<1>3. CASE SourceRank(e) = 0
  BY <1>1, <1>2, <1>3, Ranks DEF IInv, SourcesFit
<1>4. CASE SourceRank(e) # 0
  BY <1>1, <1>4, Ranks
<1> QED BY <1>3, <1>4

-----------------------------------------------------------------------------
\* What the view shows.

\* metric_events shows exactly one row of each partition, however many sources report it,
\* and it is of the most trusted of them.
LEMMA OneRowShown ==
  ASSUME IInv, NEW e \in events
  PROVE  \E m \in MetricEvents :
           /\ Partition(m) = Partition(e)
           /\ \A n \in MetricEvents : Partition(n) = Partition(e) => n = m
           /\ \A d \in events : Partition(d) = Partition(e) => SourceRank(m) <= SourceRank(d)
<1> DEFINE R == {d \in events : Partition(d) = Partition(e)}
<1>1. R \subseteq events /\ events \subseteq Row /\ e \in R
  BY RowsAreRows
<1>2. \A d \in R : SourceRank(d) \in {0, 1, 2} /\ d.at \in Nat
  BY <1>1, Ranks DEF Row
<1>3. PICK f \in R : \A d \in R : SourceRank(f) <= SourceRank(d)
  <2>1. CASE \E d \in R : SourceRank(d) = 0
    BY <1>2, <2>1
  <2>2. CASE (~ \E d \in R : SourceRank(d) = 0) /\ \E d \in R : SourceRank(d) = 1
    BY <1>2, <2>2
  <2>3. CASE ~ \E d \in R : SourceRank(d) \in {0, 1}
    BY <1>1, <1>2, <2>3
  <2> QED BY <2>1, <2>2, <2>3
<1>4. \A d \in R : Confidence(d) \in {68, 92}
  BY DEF Confidence
<1>5. PICK g \in R : /\ SourceRank(g) = SourceRank(f)
                    /\ \A d \in R : SourceRank(d) = SourceRank(f) => Confidence(d) <= Confidence(g)
  <2>1. CASE \E d \in R : SourceRank(d) = SourceRank(f) /\ Confidence(d) = 92
    BY <1>4, <2>1
  <2>2. CASE ~ \E d \in R : SourceRank(d) = SourceRank(f) /\ Confidence(d) = 92
    BY <1>4, <2>2
  <2> QED BY <2>1, <2>2
<1>6. PICK m \in Class(g) : \A d \in Class(g) : m.at <= d.at
  BY <1>1, <1>5 DEF IInv, InOrder
<1>7. /\ m \in R /\ m.source = g.source /\ Confidence(m) = Confidence(g)
      /\ SourceRank(m) = SourceRank(f)
  BY <1>1, <1>5, <1>6 DEF Class, Group, SourceRank
<1>8. ASSUME NEW d \in R, SourceRank(d) = SourceRank(m), Confidence(d) = Confidence(m)
      PROVE  m.at <= d.at /\ (d.at = m.at => d = m)
  <2>1. Partition(d) = Partition(m) /\ d.source = m.source
    BY <1>1, <1>7, <1>8, RankIsSource
  <2>2. d \in Class(g) /\ d \in Group(m)
    BY <1>1, <1>5, <1>7, <1>8, <2>1 DEF Class, Group
  <2> QED BY <1>1, <1>6, <1>7, <2>2 DEF IInv, InOrder
<1>9. ASSUME NEW d \in R PROVE ~Before(d, m)
  <2>1. SourceRank(m) <= SourceRank(d)
    BY <1>3, <1>7, <1>9
  <2>2. SourceRank(d) = SourceRank(m) => Confidence(d) <= Confidence(m)
    BY <1>5, <1>7, <1>9
  <2>3. SourceRank(d) = SourceRank(m) /\ Confidence(d) = Confidence(m) => m.at <= d.at
    BY <1>8, <1>9
  <2> QED BY <1>2, <1>4, <1>7, <2>1, <2>2, <2>3 DEF Before
<1>10. m \in MetricEvents
  BY <1>1, <1>7, <1>9 DEF MetricEvents
<1>11. ASSUME NEW n \in MetricEvents, Partition(n) = Partition(e) PROVE n = m
  <2>1. n \in R /\ ~Before(m, n) /\ ~Before(n, m)
    BY <1>7, <1>9, <1>11 DEF MetricEvents
  <2>2. SourceRank(n) = SourceRank(m)
    BY <1>2, <1>7, <2>1 DEF Before
  <2>3. Confidence(n) = Confidence(m)
    BY <1>4, <1>7, <2>1, <2>2 DEF Before
  <2>4. n.at = m.at
    BY <1>2, <1>7, <2>1, <2>2, <2>3 DEF Before
  <2> QED BY <1>8, <2>1, <2>2, <2>3, <2>4
<1>12. \A d \in R : SourceRank(m) <= SourceRank(d)
  BY <1>3, <1>7
<1> QED BY <1>7, <1>10, <1>11, <1>12

\* A row's partition is its charge and type, as long as its key is its charge.
KeyFits(t, p, c) ==
  \A d \in Reports({t}, p, c) : \A e \in events :
    Partition(e) = Partition(d) <=> e \in Reports({t}, p, c)

LEMMA ReportsAre ==
  ASSUME NEW types, NEW p, NEW c, NEW e
  PROVE  e \in Reports(types, p, c) <=>
           /\ e \in events /\ e.purchase = p /\ e.charge = c
           /\ Environment(e) = "production" /\ EventType(e) \in types
  BY DEF Reports, About

\* What the sums have of charge c under one type.
LEMMA OneTypeOnce ==
  ASSUME IInv, NEW t, NEW p, NEW c, KeyFits(t, p, c)
  PROVE  OnceIfReported({t}, p, c)
<1> DEFINE shown == About(Summed({t}), p, c)
           R == Reports({t}, p, c)
<1>1. \A n : n \in shown <=> n \in MetricEvents /\ n \in R /\ n.priced
  BY ReportsAre DEF About, Summed, MetricEvents, Adds
<1>2. \A e \in R : e \in events /\ e.purchase = p /\ e.charge = c /\ EventType(e) = t
  BY ReportsAre
<1>3. CASE R = {}
  <2>1. shown = {}
    BY <1>1, <1>3
  <2> QED BY <1>3, <2>1, FS_EmptySet DEF OnceIfReported
<1>4. CASE R # {}
  <2>1. PICK e \in R : TRUE
    BY <1>4
  <2>2. PICK m \in MetricEvents :
          /\ Partition(m) = Partition(e)
          /\ \A n \in MetricEvents : Partition(n) = Partition(e) => n = m
          /\ \A d \in events : Partition(d) = Partition(e) => SourceRank(m) <= SourceRank(d)
    BY <1>2, <2>1, OneRowShown
  <2>3. m \in events /\ m \in R /\ \A d \in R : Partition(d) = Partition(e)
    BY <1>2, <2>1, <2>2 DEF KeyFits, MetricEvents
  <2>4. \A n \in R : n \in MetricEvents => n = m
    BY <2>2, <2>3
  <2>5. MostTrusted(m)
    BY <1>2, <2>2, <2>3 DEF MostTrusted
  <2>6. ASSUME NEW d \in R, MostTrusted(d) PROVE d = m
    <3>1. SourceRank(d) <= SourceRank(m) /\ SourceRank(m) <= SourceRank(d)
      BY <1>2, <2>2, <2>3, <2>6 DEF MostTrusted
    <3>2. d \in Row /\ m \in Row /\ d \in events /\ m \in events
      BY <1>2, <2>3, RowsAreRows
    <3>3. SourceRank(d) = SourceRank(m)
      BY <3>1, <3>2, Ranks
    <3>4. Partition(d) = Partition(m)
      BY <2>2, <2>3
    <3>5. d.source = m.source
      BY <3>2, <3>3, <3>4, RankIsSource
    <3>6. d.kind = m.kind
      BY <3>2, <3>4, <3>5, PartitionSays
    <3> QED BY <1>2, <2>3, <2>6, <3>2, <3>5, <3>6 DEF IInv, ReportedOnce
  <2>7. (\E d \in R : d.priced /\ MostTrusted(d)) <=> m.priced
    BY <2>3, <2>5, <2>6
  <2>8. shown = IF m.priced THEN {m} ELSE {}
    BY <1>1, <2>2, <2>3, <2>4
  <2> QED BY <2>7, <2>8, FS_Singleton, FS_EmptySet DEF OnceIfReported
<1> QED BY <1>3, <1>4

\* If the priced reports of charge c have one of the types, the sum over the types is the
\* sum over that one.
LEMMA OneOfTheTypes ==
  ASSUME NEW types, NEW p, NEW c, NEW t \in types, OnceIfReported({t}, p, c),
         \A e \in Reports(types, p, c) : e.priced => EventType(e) = t
  PROVE  OnceIfReported(types, p, c)
<1>1. \A e : e \in Reports(types, p, c) /\ e.priced <=> e \in Reports({t}, p, c) /\ e.priced
  BY ReportsAre
<1>2. \A types1, e : e \in About(Summed(types1), p, c)
                       <=> e \in MetricEvents /\ e \in Reports(types1, p, c) /\ e.priced
  BY ReportsAre DEF About, Summed, MetricEvents, Adds
<1>3. About(Summed(types), p, c) = About(Summed({t}), p, c)
  BY <1>1, <1>2
<1>4. (\E e \in Reports(types, p, c) : e.priced /\ MostTrusted(e)) <=>
      (\E e \in Reports({t}, p, c) : e.priced /\ MostTrusted(e))
  BY <1>1
<1> QED BY <1>3, <1>4 DEF OnceIfReported

\* The type of a priced report of a charge.
ChargeType(c) == IF c = 1 THEN "purchase" ELSE "renewal"

\* What a report of a charge is.
LEMMA GrossRow ==
  ASSUME IInv, NEW e \in events, EventType(e) \in GrossTypes
  PROVE  /\ e.kind # "refund"
         /\ e.priced => EventType(e) = ChargeType(e.charge)
         /\ EventType(e) = "purchase" => e.kind = "initial" /\ e.charge = 1
         /\ EventType(e) = "renewal" => e.kind = "renewal"
<1>1. e \in Row /\ Happened(e.purchase, e.kind, e.charge)
  BY RowsAreRows DEF IInv, TypeOK
<1>2. EventType(e) \in {"purchase", "one_time_purchase", "renewal"}
  BY <1>1, TypeCases DEF Row, Kinds, GrossTypes
<1>3. e.kind \in Kinds /\ e.source \in Sources
  BY <1>1 DEF Row
<1>4. CASE e.kind = "initial"
  <2>1. e.charge = 1
    BY <1>1, <1>4 DEF Happened
  <2>2. e.priced => EventType(e) = "purchase"
    <3>1. e.source = "google_play" /\ e.priced => IsSubscription(e.purchase)
      BY DEF IInv, SourcesFit
    <3> QED BY <1>2, <1>3, <1>4, <3>1, TypeCases, SourceCases
  <2>3. EventType(e) # "renewal"
    BY <1>3, <1>4, TypeCases
  <2> QED BY <1>4, <2>1, <2>2, <2>3 DEF ChargeType
<1>5. CASE e.kind = "renewal"
  <2>1. e.charge # 1
    BY <1>1, <1>5 DEF Happened
  <2> QED BY <1>3, <1>5, <2>1, TypeCases DEF ChargeType
<1>6. e.kind # "refund"
  BY <1>2, <1>3, TypeCases
<1> QED BY <1>3, <1>4, <1>5, <1>6 DEF Kinds

\* Gross revenue has each charge once.
LEMMA GrossOnce ==
  ASSUME IInv, NEW p \in Purchases, NEW c \in Charges, InTime(p, c)
  PROVE  OnceIfReported(GrossTypes, p, c)
<1> DEFINE t == ChargeType(c)
<1>1. t \in {"purchase", "renewal"} /\ t \in GrossTypes
  BY DEF ChargeType, GrossTypes
<1>2. \A e \in Reports(GrossTypes, p, c) : e.priced => EventType(e) = t
  BY ReportsAre, GrossRow
<1>3. KeyFits(t, p, c)
  <2> HIDE DEF t
  <2> SUFFICES ASSUME NEW d \in Reports({t}, p, c), NEW e \in events
               PROVE  Partition(e) = Partition(d) <=> e \in Reports({t}, p, c)
    BY DEF KeyFits
  <2>1. /\ d \in events /\ d.purchase = p /\ d.charge = c /\ EventType(d) = t
        /\ Environment(d) = "production" /\ d \in Row /\ e \in Row
    BY ReportsAre, RowsAreRows
  <2>2. c \in Nat \ {0} /\ c # 0
    BY DEF Charges
  <2>3. \A f \in events : f.purchase = p /\ EventType(f) = t /\ Environment(f) = "production" =>
          (TransactionKey(f) = <<p, c>> <=> f.charge = c)
    <3> SUFFICES ASSUME NEW f \in events, f.purchase = p, EventType(f) = t,
                        Environment(f) = "production"
                 PROVE  TransactionKey(f) = <<p, c>> <=> f.charge = c
      OBVIOUS
    <3>1. f.kind # "refund"
      BY <1>1, GrossRow
    <3>2. f.verified
      BY DEF Environment
    <3>3. f.source = "google_play" /\ (f.charge = c \/ f.order = c) => f.order = f.charge
      BY <3>1, <3>2 DEF InTime
    <3>4. TransactionKey(f) = <<p, c>> <=>
            (IF f.source = "google_play" THEN f.order ELSE f.charge) = c
      BY DEF TransactionKey
    <3> QED BY <3>3, <3>4
  <2>4. Partition(d) = <<"production", t, <<p, c>>>>
    BY <2>1, <2>3 DEF Partition
  <2>5. ASSUME Partition(e) = Partition(d) PROVE e \in Reports({t}, p, c)
    <3>1. /\ Environment(e) = "production" /\ EventType(e) = t /\ TransactionKey(e) = <<p, c>>
      BY <2>4, <2>5 DEF Partition
    <3>2. e.purchase = p
      BY <2>1, <2>5, PartitionSays
    <3> QED BY <2>3, <3>1, <3>2, ReportsAre
  <2>6. ASSUME e \in Reports({t}, p, c) PROVE Partition(e) = Partition(d)
    <3>1. /\ e.purchase = p /\ e.charge = c /\ EventType(e) = t
          /\ Environment(e) = "production"
      BY <2>6, ReportsAre
    <3>2. TransactionKey(e) = <<p, c>>
      BY <2>3, <3>1
    <3> QED BY <2>4, <3>1, <3>2 DEF Partition
  <2> QED BY <2>5, <2>6
<1> HIDE DEF t
<1> QED BY <1>1, <1>2, <1>3, OneTypeOnce, OneOfTheTypes

\* What a report of a refund is.
LEMMA RefundRow ==
  ASSUME IInv, NEW e \in events, EventType(e) \in RefundTypes
  PROVE  /\ e.kind = "refund"
         /\ IF e.source = "google_play"
               THEN /\ EventType(e) = "revocation"
                    /\ IsSubscription(e.purchase) /\ purchase[e.purchase].store = "google_play"
                    /\ e.charge = purchase[e.purchase].charges
               ELSE EventType(e) = "refund"
<1>1. /\ e \in Row /\ Happened(e.purchase, e.kind, e.charge)
      /\ e.source \in Sources /\ e.kind \in Kinds /\ e.purchase \in Purchases
  BY RowsAreRows DEF IInv, TypeOK, Row
<1>2. e.kind = "refund"
  BY <1>1, TypeCases DEF Kinds, RefundTypes
<1>3. CASE e.source = "google_play"
  <2>1. EventType(e) = "revocation" /\ IsSubscription(e.purchase)
    BY <1>1, <1>2, <1>3, TypeCases DEF RefundTypes
  <2>2. purchase[e.purchase].store = "google_play"
    BY <1>1, <1>3, SourceCases DEF IInv, SourcesFit
  <2>3. e.charge = purchase[e.purchase].charges
    BY <1>1, <1>2, <2>2 DEF Happened, IInv, ChargesFit
  <2> QED BY <1>2, <1>3, <2>1, <2>2, <2>3
<1>4. CASE e.source # "google_play"
  BY <1>1, <1>2, <1>4, TypeCases
<1> QED BY <1>3, <1>4

\* The refunds under one event type have each refund once.
LEMMA RefundTypeOnce ==
  ASSUME IInv, NEW p \in Purchases, NEW c \in Charges, NEW t \in RefundTypes
  PROVE  OnceIfReported({t}, p, c)
<1> SUFFICES ASSUME NEW d \in Reports({t}, p, c), NEW e \in events
             PROVE  Partition(e) = Partition(d) <=> e \in Reports({t}, p, c)
  BY OneTypeOnce DEF KeyFits
<1>1. /\ d \in events /\ d.purchase = p /\ d.charge = c /\ EventType(d) = t
      /\ Environment(d) = "production" /\ d \in Row /\ e \in Row
  BY ReportsAre, RowsAreRows
<1>2. ASSUME Partition(e) = Partition(d) PROVE e \in Reports({t}, p, c)
  <2>1. /\ e.purchase = p /\ EventType(e) = t /\ Environment(e) = "production"
        /\ (IF e.source = "google_play" THEN e.order ELSE e.charge) =
             (IF d.source = "google_play" THEN d.order ELSE d.charge)
    BY <1>1, <1>2, PartitionSays
  <2>2. e.charge = c
    BY <1>1, <2>1, RefundRow
  <2> QED BY <2>1, <2>2, ReportsAre
<1>3. ASSUME e \in Reports({t}, p, c) PROVE Partition(e) = Partition(d)
  <2>1. /\ e.purchase = p /\ e.charge = c /\ EventType(e) = t /\ Environment(e) = "production"
    BY <1>3, ReportsAre
  <2>2. CASE t = "revocation"
    <3>1. e.source = "google_play" /\ d.source = "google_play" /\ e.kind = d.kind
      BY <1>1, <2>1, <2>2, RefundRow
    <3>2. e = d
      BY <1>1, <2>1, <3>1 DEF IInv, ReportedOnce
    <3> QED BY <3>2
  <2>3. CASE t # "revocation"
    <3>1. e.source # "google_play" /\ d.source # "google_play"
      BY <1>1, <2>1, <2>3, RefundRow
    <3> QED BY <1>1, <2>1, <3>1 DEF Partition, TransactionKey
  <2> QED BY <2>2, <2>3
<1> QED BY <1>2, <1>3

\* The refunds have each refund once where they have one event type.
LEMMA RefundsOnce ==
  ASSUME IInv, NEW p \in Purchases, NEW c \in Charges, OneRefundType(p)
  PROVE  OnceIfReported(RefundTypes, p, c)
<1>1. \A e \in Reports(RefundTypes, p, c) :
        e \in events /\ e.purchase = p /\ EventType(e) \in RefundTypes /\ e.source \in Sources
  BY ReportsAre, RowsAreRows DEF Row
<1>2. CASE purchase[p].store = "google_play" /\ IsSubscription(p)
  <2>1. "revocation" \in RefundTypes
    BY DEF RefundTypes
  <2>2. \A e \in Reports(RefundTypes, p, c) : e.source = "google_play"
    BY <1>1, <1>2, SourceCases DEF OneRefundType, Sources, IInv, SourcesFit
  <2>3. \A e \in Reports(RefundTypes, p, c) : EventType(e) = "revocation"
    BY <1>1, <2>2, RefundRow
  <2> QED BY <2>1, <2>3, RefundTypeOnce, OneOfTheTypes
<1>3. CASE ~(purchase[p].store = "google_play" /\ IsSubscription(p))
  <2>1. "refund" \in RefundTypes
    BY DEF RefundTypes
  <2>2. \A e \in Reports(RefundTypes, p, c) : EventType(e) = "refund"
    BY <1>1, <1>3, RefundRow
  <2> QED BY <2>1, <2>2, RefundTypeOnce, OneOfTheTypes
<1> QED BY <1>2, <1>3

LEMMA IInvCounts == IInv => MoneyCountsOnce
  BY GrossOnce, RefundTypeOnce, RefundsOnce DEF MoneyCountsOnce

-----------------------------------------------------------------------------
\* Steps.

LEMMA InitIInv == Init => IInv
<1> SUFFICES ASSUME Init PROVE IInv
  OBVIOUS
<1>1. \A p \in Purchases : /\ purchase[p].store \in Stores /\ purchase[p].charges = 0
                           /\ purchase[p].refunded = {}
  BY DEF Init
<1>2. TypeOK
  BY DEF Init, TypeOK
<1>3. ChargesFit
  BY <1>1 DEF ChargesFit
<1>4. SourcesFit /\ ReportedOnce
  BY DEF Init, SourcesFit, ReportedOnce
<1>5. InOrder
  BY FS_EmptySet DEF Init, InOrder
<1> QED BY <1>2, <1>3, <1>4, <1>5 DEF IInv

\* What a purchase is does not change, nor does what is made of the rows about it.
SamePurchases == \A p \in Purchases : /\ purchase'[p].store = purchase[p].store
                                      /\ purchase'[p].product = purchase[p].product

LEMMA PartitionKept ==
  ASSUME SamePurchases, NEW e \in Row
  PROVE  Partition(e)' = Partition(e)
<1>1. IsSubscription(e.purchase)' = IsSubscription(e.purchase)
  BY DEF SamePurchases, IsSubscription, Row
<1>2. AppStoreType(e.purchase, e.kind)' = AppStoreType(e.purchase, e.kind)
  BY <1>1 DEF AppStoreType
<1>3. GoogleType(e.purchase, e.kind)' = GoogleType(e.purchase, e.kind)
  BY <1>1 DEF GoogleType
<1>4. EventType(e)' = EventType(e)
  BY <1>2, <1>3 DEF EventType, MirrorType
<1> QED BY <1>4 DEF Partition, Environment, TransactionKey

\* A charge or a refund in the world changes no row's standing.
LEMMA WorldStep ==
  ASSUME IInv, SamePurchases, events' = events, ChargesFit'
  PROVE  SourcesFit' /\ ReportedOnce' /\ InOrder'
<1>1. events \subseteq Row
  BY RowsAreRows
<1>2. \A e \in events : Group(e)' = Group(e)
  <2> SUFFICES ASSUME NEW e \in events PROVE Group(e)' = Group(e)
    OBVIOUS
  <2>1. Partition(e)' = Partition(e) /\ \A d \in events : Partition(d)' = Partition(d)
    BY <1>1, PartitionKept
  <2> QED BY <2>1 DEF Group
<1>3. InOrder'
  <2>1. \A e \in events : Confidence(e)' = Confidence(e)
    BY DEF Confidence
  <2>2. \A e \in events : Class(e)' = Class(e)
    BY <1>2, <2>1 DEF Class, Group
  <2> QED BY <1>2, <2>2 DEF IInv, InOrder
<1>4. SourcesFit'
  BY <1>1 DEF IInv, SourcesFit, SamePurchases, Row, IsSubscription
<1>5. ReportedOnce'
  BY DEF IInv, ReportedOnce
<1> QED BY <1>3, <1>4, <1>5

LEMMA HappenedStays ==
  ASSUME NEW p \in Purchases, NEW kind \in Kinds, NEW c \in Charges, Happened(p, kind, c),
         purchase[p].charges \in Nat, purchase'[p].charges \in Nat,
         purchase[p].charges <= purchase'[p].charges,
         purchase[p].refunded \subseteq purchase'[p].refunded
  PROVE  Happened(p, kind, c)'
<1>1. CASE kind = "initial"
  BY <1>1 DEF Happened
<1>2. CASE kind = "renewal"
  BY <1>2 DEF Happened
<1>3. CASE kind = "refund"
  BY <1>3 DEF Happened
<1> QED BY <1>1, <1>2, <1>3 DEF Kinds

\* A step of the world: purchase p is charged or refunded.
LEMMA PurchaseStep ==
  ASSUME IInv, NEW p \in Purchases, NEW n \in 0 .. MaxCharges, NEW S \in SUBSET Charges,
         purchase[p].charges <= n, purchase[p].refunded \subseteq S,
         purchase' = [purchase EXCEPT ![p] = [purchase[p] EXCEPT !.charges = n, !.refunded = S]],
         n > 1 => IsSubscription(p),
         purchase[p].store = "google_play" => \A c \in S : c = n,
         UNCHANGED <<verifies, events>>
  PROVE  IInv'
<1> DEFINE q == [purchase[p] EXCEPT !.charges = n, !.refunded = S]
<1>1. /\ purchase[p] \in [store : Stores, product : {"subscription", "one_time"},
                          charges : 0 .. MaxCharges, refunded : SUBSET Charges]
  BY DEF IInv, TypeOK
<1>2. /\ q \in [store : Stores, product : {"subscription", "one_time"},
                charges : 0 .. MaxCharges, refunded : SUBSET Charges]
      /\ q.store = purchase[p].store /\ q.product = purchase[p].product
      /\ q.charges = n /\ q.refunded = S
  BY <1>1
<1> HIDE DEF q
<1>3. purchase'[p] = q /\ \A r \in Purchases : r # p => purchase'[r] = purchase[r]
  BY DEF IInv, TypeOK, q
<1>4. purchase' \in [Purchases -> [store : Stores, product : {"subscription", "one_time"},
                                   charges : 0 .. MaxCharges, refunded : SUBSET Charges]]
  BY <1>2 DEF IInv, TypeOK, q
<1>5. SamePurchases
  BY <1>2, <1>3 DEF SamePurchases
<1>6. \A r \in Purchases : /\ purchase[r].charges \in Nat /\ purchase'[r].charges \in Nat
                           /\ purchase[r].charges <= purchase'[r].charges
                           /\ purchase[r].refunded \subseteq purchase'[r].refunded
  BY <1>2, <1>3 DEF IInv, TypeOK
<1>7. TypeOK'
  <2>1. \A e \in events : Happened(e.purchase, e.kind, e.charge)'
    BY <1>6, HappenedStays DEF IInv, TypeOK
  <2>2. \A e \in events : e.source = "google_play" /\ e.verified =>
          verifies /\ e.order <= purchase'[e.purchase].charges
    BY <1>6, RowsAreRows DEF IInv, TypeOK, Row
  <2> QED BY <1>4, <2>1, <2>2 DEF IInv, TypeOK
<1>8. ChargesFit'
  BY <1>2, <1>3, <1>5 DEF IInv, ChargesFit, IsSubscription, SamePurchases
<1>9. SourcesFit' /\ ReportedOnce' /\ InOrder'
  BY <1>5, <1>8, WorldStep
<1> QED BY <1>7, <1>8, <1>9 DEF IInv

\* A group has a row for each charge at most.
LEMMA GroupBounded ==
  ASSUME IInv, NEW e \in Row
  PROVE  /\ IsFiniteSet(Group(e)) /\ Cardinality(Group(e)) \in 0 .. MaxCharges
<1> DEFINE f == [d \in Group(e) |-> d.charge]
<1>1. Group(e) \subseteq events /\ events \subseteq Row
  BY RowsAreRows DEF Group
<1>2. ASSUME NEW d1 \in Group(e), NEW d2 \in Group(e), d1.charge = d2.charge
      PROVE  d1 = d2
  <2>1. d1.source = d2.source /\ Partition(d1) = Partition(d2) /\ d1 \in Row /\ d2 \in Row
    BY <1>1 DEF Group
  <2>2. d1.purchase = d2.purchase /\ d1.kind = d2.kind
    BY <2>1, PartitionSays
  <2> QED BY <1>1, <1>2, <2>1, <2>2 DEF IInv, ReportedOnce
<1>3. f \in Injection(Group(e), Charges)
  <2>1. f \in [Group(e) -> Charges]
    BY <1>1 DEF Row
  <2>2. \A d1, d2 \in Group(e) : f[d1] = f[d2] => d1 = d2
    BY <1>2
  <2> QED BY <2>1, <2>2 DEF Injection, IsInjective
<1>4. IsFiniteSet(Charges) /\ Cardinality(Charges) = MaxCharges
  BY FS_Interval DEF Charges
<1>5. IsFiniteSet(Group(e)) /\ Cardinality(Group(e)) <= MaxCharges
  BY <1>3, <1>4, FS_Injection
<1> QED BY <1>5, FS_CardinalityType

LEMMA StoreStep ==
  ASSUME IInv, NEW e \in Row, Store(e),
         e.source \in Stores => e.source = purchase[e.purchase].store,
         e.source # "google_play" => e.verified /\ e.order = 0,
         e.source = "google_play" /\ e.priced => e.verified /\ IsSubscription(e.purchase),
         e.source = "google_play" /\ e.verified =>
           verifies /\ e.order <= purchase[e.purchase].charges
  PROVE  IInv'
<1> DEFINE n == Cardinality(Group(e))
           x == [e EXCEPT !.at = n]
<1>1. /\ Happened(e.purchase, e.kind, e.charge) /\ events' = events \cup {x}
      /\ \A d \in events :
           <<d.source, d.purchase, d.kind, d.charge>> # <<e.source, e.purchase, e.kind, e.charge>>
      /\ UNCHANGED <<purchase, verifies>>
  BY DEF Store, Group
<1>3. IsFiniteSet(Group(e)) /\ n \in 0 .. MaxCharges
  BY GroupBounded
<1>4. /\ x.source = e.source /\ x.purchase = e.purchase /\ x.kind = e.kind
      /\ x.charge = e.charge /\ x.verified = e.verified /\ x.order = e.order
      /\ x.priced = e.priced /\ x.at = n /\ x \in Row
  BY <1>3 DEF Row
<1>5. Partition(x) = Partition(e) /\ Group(x) = Group(e)
  <2>1. Partition(x) = Partition(e)
    BY <1>4 DEF Partition, TransactionKey, EventType, Environment
  <2> QED BY <1>4, <2>1 DEF Group
<1>6. IsFiniteSet(Group(x)) /\ n = Cardinality(Group(x)) /\ n \in Nat
  BY <1>3, <1>5
<1> HIDE DEF n, x
<1>7. SamePurchases /\ events \subseteq Row /\ x \notin events
  BY <1>1, <1>4, RowsAreRows DEF SamePurchases
<1>8. \A d \in Row : Partition(d)' = Partition(d)
  BY <1>7, PartitionKept
<1>9. \A d \in events' : Group(d)' = IF d.source = e.source /\ Partition(d) = Partition(x)
                                      THEN Group(x) \cup {x} ELSE Group(d)
  BY <1>1, <1>4, <1>7, <1>8 DEF Group
<1>10. TypeOK'
  <2>1. events' \subseteq Row
    BY <1>1, <1>4, <1>7
  <2>2. \A d \in events' :
          /\ Happened(d.purchase, d.kind, d.charge)
          /\ d.source = "google_play" /\ d.verified =>
               verifies /\ d.order <= purchase[d.purchase].charges
    BY <1>1, <1>4 DEF IInv, TypeOK
  <2>3. \A d \in events' : Happened(d.purchase, d.kind, d.charge)'
    BY <1>1, <2>2 DEF Happened
  <2> QED BY <1>1, <2>1, <2>2, <2>3 DEF IInv, TypeOK, Row
<1>11. ChargesFit'
  BY <1>1 DEF IInv, ChargesFit, IsSubscription
<1>12. SourcesFit' /\ ReportedOnce'
  <2>1. SourcesFit'
    BY <1>1, <1>4 DEF IInv, SourcesFit, IsSubscription
  <2>2. ReportedOnce'
    BY <1>1, <1>4 DEF IInv, ReportedOnce
  <2> QED BY <2>1, <2>2
<1>13. InOrder'
  <2>1. IsFiniteSet(events')
    BY <1>1, FS_AddElement DEF IInv, InOrder
  <2>2. Cardinality(Group(x) \cup {x}) = n + 1
    BY <1>6, <1>7, FS_AddElement DEF Group
  <2>3. \A d \in Group(x) : d \in events /\ d.at \in Nat /\ d.at < n /\ Group(d) = Group(x)
    <3> SUFFICES ASSUME NEW d \in Group(x)
                 PROVE  d \in events /\ d.at \in Nat /\ d.at < n /\ Group(d) = Group(x)
      OBVIOUS
    <3>1. d \in events /\ d \in Row /\ Group(d) = Group(x)
      BY <1>7 DEF Group
    <3> QED BY <1>6, <3>1 DEF IInv, InOrder, Row
  <2>4. \A d \in Row : Confidence(d)' = Confidence(d)
    BY DEF Confidence
  <2>5. ASSUME NEW d \in events', d.source = e.source, Partition(d) = Partition(x)
        PROVE  /\ d.at < Cardinality(Group(d)')
               /\ \A g \in Group(d)' : g.at = d.at => g = d
               /\ \E f \in Class(d)' : \A g \in Class(d)' : f.at <= g.at
    <3>1. Group(d)' = Group(x) \cup {x}
      BY <1>9, <2>5
    <3>2. d = x \/ d \in Group(x)
      BY <1>1, <1>4, <2>5 DEF Group
    <3>3. d.at < n + 1
      BY <1>4, <1>6, <2>3, <3>2
    <3>4. \A g \in Group(x) \cup {x} : g.at = d.at => g = d
      BY <1>4, <1>6, <2>3, <3>2 DEF IInv, InOrder
    <3> DEFINE Alike == {g \in Group(x) : Confidence(g) = Confidence(d)}
    <3>5. Class(d)' = {g \in Group(x) \cup {x} : Confidence(g) = Confidence(d)}
      <4>1. \A g \in Group(x) \cup {x} \cup {d} : Confidence(g)' = Confidence(g)
        BY DEF Confidence
      <4> QED BY <3>1, <4>1 DEF Class
    <3>6. Alike \subseteq Class(d)' /\ Class(d)' \subseteq Alike \cup {x}
      BY <3>5
    <3>7. \E f \in Class(d)' : \A g \in Class(d)' : f.at <= g.at
      <4>1. CASE Alike = {}
        <5>1. d \in Class(d)' /\ x.at <= x.at
          BY <1>4, <1>6, <3>2, <3>5
        <5>2. Class(d)' = {x}
          BY <3>6, <4>1, <5>1
        <5> QED BY <5>1, <5>2
      <4>2. CASE Alike # {}
        <5>1. PICK h \in Alike : TRUE
          BY <4>2
        <5>2. h \in events /\ Class(h) = Alike
          BY <2>3, <5>1 DEF Class
        <5>3. PICK f \in Alike : \A g \in Alike : f.at <= g.at
          BY <5>2 DEF IInv, InOrder
        <5>4. f.at \in Nat /\ f.at <= x.at
          BY <1>4, <1>6, <2>3, <5>3
        <5> QED BY <3>6, <5>3, <5>4
      <4> QED BY <4>1, <4>2
    <3> QED BY <2>2, <3>1, <3>3, <3>4, <3>7
  <2>6. ASSUME NEW d \in events', ~(d.source = e.source /\ Partition(d) = Partition(x))
        PROVE  /\ d.at < Cardinality(Group(d)')
               /\ \A g \in Group(d)' : g.at = d.at => g = d
               /\ \E f \in Class(d)' : \A g \in Class(d)' : f.at <= g.at
    <3>1. d \in events /\ Group(d)' = Group(d)
      BY <1>1, <1>4, <1>9, <2>6
    <3>2. Class(d)' = Class(d)
      <4>1. \A g \in Group(d) \cup {d} : Confidence(g)' = Confidence(g)
        BY DEF Confidence
      <4> QED BY <3>1, <4>1 DEF Class
    <3> QED BY <3>1, <3>2 DEF IInv, InOrder
  <2> QED BY <2>1, <2>5, <2>6 DEF InOrder
<1> QED BY <1>10, <1>11, <1>12, <1>13 DEF IInv

LEMMA NextIInv == IInv /\ [Next]_vars => IInv'
<1> SUFFICES ASSUME IInv, [Next]_vars PROVE IInv'
  OBVIOUS
<1>1. \A p \in Purchases : /\ purchase[p].store \in Stores /\ purchase[p].charges \in 0 .. MaxCharges
                           /\ purchase[p].refunded \subseteq Charges
  BY DEF IInv, TypeOK
<1>2. ASSUME NEW p \in Purchases, Charge(p) PROVE IInv'
  <2> DEFINE n == purchase[p].charges + 1
             S == purchase[p].refunded
  <2>1. n \in 0 .. MaxCharges /\ S \in SUBSET Charges /\ (n > 1 => IsSubscription(p))
    BY <1>1, <1>2 DEF Charge
  <2>2. purchase[p].store = "google_play" => S = {}
    BY <1>2 DEF Charge
  <2>3. purchase' = [purchase EXCEPT ![p] = [purchase[p] EXCEPT !.charges = n, !.refunded = S]]
    <3>1. purchase[p] = [purchase[p] EXCEPT !.refunded = S]
      BY DEF IInv, TypeOK
    <3>2. purchase' = [purchase EXCEPT ![p] = [purchase[p] EXCEPT !.charges = n]]
      BY <1>2 DEF Charge
    <3>3. [purchase[p] EXCEPT !.charges = n] = [purchase[p] EXCEPT !.charges = n, !.refunded = S]
      BY DEF IInv, TypeOK
    <3> QED BY <3>2, <3>3
  <2>4. UNCHANGED <<verifies, events>> /\ purchase[p].charges <= n
    BY <1>1, <1>2 DEF Charge
  <2> HIDE DEF n, S
  <2> QED BY <2>1, <2>2, <2>3, <2>4, PurchaseStep DEF S
<1>3. ASSUME NEW p \in Purchases, NEW c \in Charges, Refund(p, c) PROVE IInv'
  <2> DEFINE n == purchase[p].charges
             S == purchase[p].refunded \cup {c}
  <2>1. n \in 0 .. MaxCharges /\ S \in SUBSET Charges /\ (n > 1 => IsSubscription(p))
    BY <1>1 DEF IInv, ChargesFit
  <2>2. purchase[p].store = "google_play" => \A d \in S : d = n
    BY <1>3 DEF Refund, IInv, ChargesFit
  <2>3. purchase' = [purchase EXCEPT ![p] = [purchase[p] EXCEPT !.charges = n, !.refunded = S]]
    <3>1. purchase' = [purchase EXCEPT ![p] = [purchase[p] EXCEPT !.refunded = S]]
      BY <1>3 DEF Refund
    <3>2. [purchase[p] EXCEPT !.refunded = S] = [purchase[p] EXCEPT !.charges = n, !.refunded = S]
      BY DEF IInv, TypeOK
    <3> QED BY <3>1, <3>2
  <2>4. UNCHANGED <<verifies, events>> /\ purchase[p].charges <= n /\ purchase[p].refunded \subseteq S
    BY <1>1, <1>3 DEF Refund
  <2> HIDE DEF n, S
  <2> QED BY <2>1, <2>2, <2>3, <2>4, PurchaseStep
<1>4. ASSUME NEW p \in Purchases, NEW kind \in Kinds, NEW c \in Charges, ReceiveGoogle(p, kind, c)
      PROVE  IInv'
  <2>1. "google_play" \in Sources /\ "google_play" = purchase[p].store
    BY <1>1, <1>4 DEF ReceiveGoogle, Sources
  <2>2. CASE verifies /\ LookedUp(p, kind, c)
    <3>1. PICK order \in {0, purchase[p].charges}, priced \in BOOLEAN :
            /\ priced => IsSubscription(p)
            /\ Store(Report("google_play", p, kind, c, TRUE, order, priced))
      BY <2>2 DEF LookedUp
    <3>2. order \in 0 .. MaxCharges /\ order <= purchase[p].charges
      BY <1>1
    <3> DEFINE e == Report("google_play", p, kind, c, TRUE, order, priced)
    <3>3. /\ e \in Row /\ e.source = "google_play" /\ e.purchase = p /\ e.verified
          /\ e.order = order /\ e.priced = priced
      BY <2>1, <3>2 DEF Report, Row
    <3> HIDE DEF e
    <3>4. Store(e)
      BY <3>1 DEF e
    <3> QED BY <2>1, <2>2, <3>1, <3>2, <3>3, <3>4, StoreStep
  <2>3. CASE Store(Report("google_play", p, kind, c, FALSE, 0, FALSE))
    <3> DEFINE e == Report("google_play", p, kind, c, FALSE, 0, FALSE)
    <3>1. /\ e \in Row /\ e.source = "google_play" /\ e.purchase = p /\ ~e.verified
          /\ e.order = 0 /\ ~e.priced
      BY <2>1 DEF Report, Row
    <3> HIDE DEF e
    <3>2. Store(e)
      BY <2>3 DEF e
    <3> QED BY <2>1, <3>1, <3>2, StoreStep
  <2> QED BY <1>4, <2>2, <2>3 DEF ReceiveGoogle
<1>5. ASSUME NEW p \in Purchases, NEW kind \in Kinds, NEW c \in Charges, ReceiveAppStore(p, kind, c)
      PROVE  IInv'
  <2>1. "app_store" \in Sources /\ "app_store" = purchase[p].store
    BY <1>1, <1>5 DEF ReceiveAppStore, Sources
  <2>2. PICK priced \in BOOLEAN : Store(Report("app_store", p, kind, c, TRUE, 0, priced))
    BY <1>5 DEF ReceiveAppStore
  <2> DEFINE e == Report("app_store", p, kind, c, TRUE, 0, priced)
  <2>3. /\ e \in Row /\ e.source = "app_store" /\ e.purchase = p /\ e.verified /\ e.order = 0
    BY <2>1 DEF Report, Row
  <2> HIDE DEF e
  <2>4. Store(e)
    BY <2>2 DEF e
  <2> QED BY <2>1, <2>3, <2>4, StoreStep
<1>6. ASSUME NEW p \in Purchases, NEW kind \in Kinds, NEW c \in Charges, NEW m \in Mirrors,
             ReceiveMirror(m, p, kind, c)
      PROVE  IInv'
  <2>1. m \in Sources /\ m \notin Stores /\ m # "google_play"
    BY SourceCases DEF Sources
  <2>2. PICK priced \in BOOLEAN : Store(Report(m, p, kind, c, TRUE, 0, priced))
    BY <1>6 DEF ReceiveMirror
  <2> DEFINE e == Report(m, p, kind, c, TRUE, 0, priced)
  <2>3. /\ e \in Row /\ e.source = m /\ e.purchase = p /\ e.verified /\ e.order = 0
    BY <2>1 DEF Report, Row
  <2> HIDE DEF e
  <2>4. Store(e)
    BY <2>2 DEF e
  <2> QED BY <2>1, <2>3, <2>4, StoreStep
<1>7. CASE Configure
  <2>1. verifies' = TRUE /\ purchase' = purchase /\ events' = events
    BY <1>7 DEF Configure
  <2>2. SamePurchases /\ ChargesFit'
    BY <2>1 DEF SamePurchases, IInv, ChargesFit, IsSubscription
  <2>3. \A e \in events : Happened(e.purchase, e.kind, e.charge)'
    BY <2>1 DEF Happened, IInv, TypeOK
  <2>4. TypeOK'
    BY <2>1, <2>3 DEF IInv, TypeOK
  <2> QED BY <2>1, <2>2, <2>4, WorldStep DEF IInv
<1>8. CASE UNCHANGED vars
  <2>1. UNCHANGED <<purchase, verifies, events>>
    BY <1>8 DEF vars
  <2>2. SamePurchases /\ ChargesFit'
    BY <2>1 DEF SamePurchases, IInv, ChargesFit, IsSubscription
  <2>3. TypeOK'
    BY <2>1 DEF IInv, TypeOK, Happened
  <2> QED BY <2>1, <2>2, <2>3, WorldStep DEF IInv
<1> QED
  BY <1>2, <1>3, <1>4, <1>5, <1>6, <1>7, <1>8 DEF Next

LEMMA Invariance == Spec => []IInv
  BY InitIInv, NextIInv, PTL DEF Spec

-----------------------------------------------------------------------------

\* Purchases and rows keep their shape; every row is of something that has happened, and a
\* looked-up order is one of a charge made.
THEOREM TypeCorrect == Spec => []TypeOK
<1>1. IInv => TypeOK
  BY DEF IInv
<1> QED BY <1>1, Invariance, PTL

\* Of the rows in which several sources report one transaction, in any order of arrival, the
\* view that every metric reads shows exactly one, of the source it trusts most.
ViewShowsOne ==
  \A e \in events :
    \E m \in MetricEvents :
      /\ Partition(m) = Partition(e)
      /\ \A n \in MetricEvents : Partition(n) = Partition(e) => n = m
      /\ \A d \in events : Partition(d) = Partition(e) => SourceRank(m) <= SourceRank(d)

\* ViewShowsOne holds for any number of rows, sources and lookups.
THEOREM ViewIsExact == Spec => []ViewShowsOne
<1>1. IInv => ViewShowsOne
  BY OneRowShown DEF ViewShowsOne
<1> QED BY <1>1, Invariance, PTL

\* A charge is counted once if its most trusted production report has a price and else not
\* at all, provided its own lookups were in time; likewise a refund under each event type,
\* and under all where they have one; for any purchases, charges, stores and mirrors.
THEOREM MoneyIsCountedOnce == Spec => []MoneyCountsOnce
  BY Invariance, IInvCounts, PTL

=============================================================================
