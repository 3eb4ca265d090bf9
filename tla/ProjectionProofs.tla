-------------------------- MODULE ProjectionProofs --------------------------
(***************************************************************************)
(* Theorems about Projection, for any events, payloads, executors, tables  *)
(* and bounds: the invariants of the transactions and subscriptions        *)
(* tables and of the daily rollup, what a finished run and a catalog       *)
(* confirmation leave, and the refinement of NewestWins.                   *)
(***************************************************************************)
EXTENDS Projection, TLAPS

USE ProjectionAssumption

\* What an executor's locals say at each step of a run.
RunConsistent ==
  \A x \in Executors :
    LET e == run[x].event
        step == run[x].step
    IN /\ step # "idle" => e \in Events
       /\ step = "mapping" => Fact[e].product # None
       /\ step = "txn_customer" => Fact[e].customer # None /\ run[x].txn # None
       /\ step = "sub_customer" => Fact[e].customer # None /\ Fact[e].sub # None
       /\ run[x].inserted => step # "idle" /\ e \in normalized
       /\ step \in {"product", "mapping", "event"} => ~run[x].inserted
       /\ step = "metric" => run[x].inserted /\ Fact[e].live

\* A row without events is the empty row.
EmptyRows == \A k \in Keys : inTxn[k] = {} => txns[k].at = 0

\* The inductive invariant.
IInv ==
  /\ TypeOK
  /\ RunConsistent
  /\ EmptyRows
  /\ TxnShowsNewest
  /\ RefundsCounted

LEMMA KeyTypes ==
  ASSUME NEW e \in Events
  PROVE  /\ Fact[e] \in FactRecord
         /\ TxnKey(e) \in Keys
         /\ Fact[e].at \in Nat /\ Fact[e].at > 0
         /\ Fact[e].product \in Products \cup {None}
         /\ Fact[e].sub \in SubKeys \cup {None}
         /\ Fact[e].customer \in Customers \cup {None}
         /\ Fact[e].live \in BOOLEAN
         /\ Fact[e].renews \in BOOLEAN \cup {None}
<1>1. Fact[e] \in FactRecord
  OBVIOUS
<1> QED
  BY <1>1 DEF FactRecord, TxnKey, Keys

LEMMA StatusTypes ==
  ASSUME NEW type
  PROVE  /\ TxnStatus(type) \in {"renewed", "refunded", "partially_refunded", "revoked", "paid"}
         /\ SubStatus(type) \in {"trialing", "cancelled_active", "expired", "billing_retry",
                                 "grace_period", "refunded", "active"}
  BY DEF TxnStatus, SubStatus

LEMMA RefundsType ==
  ASSUME NEW row \in TxnRecord, NEW e \in Events
  PROVE  Refunds(row, e) \in [Events -> Nat]
  BY DEF Refunds, TxnRecord

\* The upserts write rows of the tables.
LEMMA UpsertedTxnType ==
  ASSUME NEW row \in TxnRecord, NEW e \in Events, NEW lp \in Logicals \cup {None}
  PROVE  UpsertedTxn(row, e, lp) \in TxnRecord
<1> DEFINE f == Fact[e]
<1>1. /\ (IF Wins(f, row) THEN e ELSE row.latest) \in Events \cup {None}
      /\ (IF Wins(f, row) THEN f.at ELSE row.at) \in Nat
      /\ (IF row.latest = None THEN f.product ELSE row.product) \in Products \cup {None}
      /\ row.customer \in Customers \cup {None}
  BY KeyTypes DEF TxnRecord
<1>2. (IF Wins(f, row) THEN TxnStatus(f.type) ELSE row.status)
        \in {None, "renewed", "refunded", "partially_refunded", "revoked", "paid"}
  BY StatusTypes DEF TxnRecord
<1>3. Coalesce(row.logical, lp) \in Logicals \cup {None}
  BY DEF Coalesce, TxnRecord
<1> QED
  BY <1>1, <1>2, <1>3, RefundsType DEF UpsertedTxn, TxnRecord

LEMMA UpsertedSubType ==
  ASSUME NEW row \in SubRecord, NEW e \in Events, NEW lp \in Logicals \cup {None},
         NEW txn \in Keys \cup {None}
  PROVE  UpsertedSub(row, e, lp, txn) \in SubRecord
<1> DEFINE f == Fact[e]
           renews == IF f.renews = None THEN f.type \notin {"cancellation", "expiration"}
                                        ELSE f.renews
           wins == Wins(f, row)
<1>1. /\ renews \in BOOLEAN
      /\ (f.type = "grace_period_started") \in BOOLEAN
      /\ (f.type = "billing_issue") \in BOOLEAN
  BY KeyTypes
<1>2. /\ (IF wins THEN renews ELSE row.renews) \in BOOLEAN
      /\ (IF wins THEN f.type = "grace_period_started" ELSE row.grace) \in BOOLEAN
      /\ (IF wins THEN f.type = "billing_issue" ELSE row.retry) \in BOOLEAN
  BY <1>1 DEF SubRecord
<1>3. (IF wins THEN SubStatus(f.type) ELSE row.status)
        \in {None, "trialing", "cancelled_active", "expired", "billing_retry",
             "grace_period", "refunded", "active"}
  BY StatusTypes DEF SubRecord
<1>4. /\ (IF wins THEN f.at ELSE row.at) \in Nat
      /\ (IF wins THEN Coalesce(txn, row.latestTxn) ELSE row.latestTxn) \in Keys \cup {None}
      /\ Coalesce(row.product, f.product) \in Products \cup {None}
      /\ Coalesce(row.logical, lp) \in Logicals \cup {None}
      /\ row.customer \in Customers \cup {None}
  BY KeyTypes DEF SubRecord, Coalesce
<1> HIDE DEF renews, wins
<1> QED
  BY <1>2, <1>3, <1>4 DEF UpsertedSub, SubRecord, renews, wins

LEMMA EmptyRecords ==
  NoTxn \in TxnRecord /\ NoSub \in SubRecord /\ Idle \in RunRecord /\ NoConfirm \in ConfirmRecord
  BY DEF NoTxn, NoSub, Idle, NoConfirm, NoCounts, TxnRecord, SubRecord, RunRecord, RunSteps,
         ConfirmRecord

\* What no step of a confirmation changes, and what only its commit does.
LEMMA ConfirmKeeps ==
  ASSUME NEW p \in Products, Confirm(p)
  PROVE  /\ UNCHANGED <<known, normalized, lastSeen, daily, run, inTxn, inSub, done, lost>>
         /\ CommitConfirm(p) \/ UNCHANGED <<mapping, logical, txns, subs, raced>>
  BY DEF Confirm, BeginConfirm, ConfirmTxns, ConfirmSubs, ConfirmEvents, CommitConfirm,
         RollbackConfirm, tables, history

LEMMA LinkTypes ==
  ASSUME NEW lp \in Logicals \cup {None}, NEW c \in Customers \cup {None}
  PROVE  /\ \A row \in TxnRecord : [row EXCEPT !.customer = c] \in TxnRecord
         /\ \A row \in TxnRecord : [row EXCEPT !.logical = lp] \in TxnRecord
         /\ \A row \in SubRecord : [row EXCEPT !.customer = c] \in SubRecord
         /\ \A row \in SubRecord : [row EXCEPT !.logical = lp] \in SubRecord
  BY DEF TxnRecord, SubRecord

\* A confirmation writes nothing but the logical product of rows.
LEMMA ConfirmRows ==
  ASSUME TypeOK, NEW p \in Products, Confirm(p)
  PROVE  /\ \A k \in Keys :
              /\ txns'[k].latest = txns[k].latest /\ txns'[k].status = txns[k].status
              /\ txns'[k].at = txns[k].at /\ txns'[k].refunds = txns[k].refunds
              /\ txns'[k].product = txns[k].product /\ txns'[k].customer = txns[k].customer
         /\ \A s \in SubKeys :
              /\ subs'[s].status = subs[s].status /\ subs'[s].at = subs[s].at
              /\ subs'[s].renews = subs[s].renews /\ subs'[s].grace = subs[s].grace
              /\ subs'[s].retry = subs[s].retry /\ subs'[s].latestTxn = subs[s].latestTxn
              /\ subs'[s].product = subs[s].product /\ subs'[s].customer = subs[s].customer
<1>1. CASE CommitConfirm(p)
  <2> DEFINE c == confirm[p]
  <2>1. /\ txns' = [k \in Keys |-> IF k \in c.txns THEN [txns[k] EXCEPT !.logical = c.logical]
                                                  ELSE txns[k]]
        /\ subs' = [s \in SubKeys |-> IF s \in c.subs THEN [subs[s] EXCEPT !.logical = c.logical]
                                                    ELSE subs[s]]
    BY <1>1 DEF CommitConfirm
  <2> HIDE DEF c
  <2>2. \A k \in Keys : txns[k] \in TxnRecord
    BY DEF TypeOK
  <2>3. \A s \in SubKeys : subs[s] \in SubRecord
    BY DEF TypeOK
  <2> QED BY <2>1, <2>2, <2>3 DEF TxnRecord, SubRecord
<1>2. CASE UNCHANGED <<txns, subs>>
  BY <1>2
<1> QED BY <1>1, <1>2, ConfirmKeeps

\* A run that goes to another step, or takes a logical product with it, stays a run.
LEMMA GotoTypes ==
  ASSUME run \in [Executors -> RunRecord], NEW x \in Executors, NEW step \in RunSteps,
         NEW lp \in Logicals \cup {None}
  PROVE  /\ Goto(x, step) => run' \in [Executors -> RunRecord]
         /\ run' = [run EXCEPT ![x].logical = lp, ![x].step = step]
              => run' \in [Executors -> RunRecord]
<1>1. [run[x] EXCEPT !.step = step] \in RunRecord
  BY DEF RunRecord
<1>2. [run[x] EXCEPT !.logical = lp, !.step = step] \in RunRecord
  BY DEF RunRecord
<1>3. ASSUME Goto(x, step) PROVE run' \in [Executors -> RunRecord]
  <2>1. run' = [run EXCEPT ![x] = [run[x] EXCEPT !.step = step]]
    BY <1>3 DEF Goto
  <2> QED BY <1>1, <2>1
<1>4. ASSUME run' = [run EXCEPT ![x].logical = lp, ![x].step = step]
      PROVE  run' \in [Executors -> RunRecord]
  <2> DEFINE r == [run[x] EXCEPT !.logical = lp, !.step = step]
  <2>1. r \in RunRecord
    BY <1>2
  <2>2. run' = [run EXCEPT ![x] = r]
    BY <1>4
  <2> HIDE DEF r
  <2> QED BY <2>1, <2>2
<1> QED BY <1>3, <1>4

LEMMA NextTypeOK == TypeOK /\ RunConsistent /\ [Next]_vars => TypeOK'
<1> SUFFICES ASSUME TypeOK, RunConsistent, [Next]_vars PROVE TypeOK'
  OBVIOUS
<1> USE DEF TypeOK, At, Ev, tables, history
<1>0. \A x \in Executors :
        /\ run[x] \in RunRecord
        /\ run[x].step \in RunSteps /\ run[x].logical \in Logicals \cup {None}
        /\ run[x].txn \in Keys \cup {None} /\ run[x].inserted \in BOOLEAN
        /\ run[x].step # "idle" => run[x].event \in Events
  BY DEF RunConsistent, RunRecord
<1>1. ASSUME NEW x \in Executors, NEW e \in Events, Start(x, e) PROVE TypeOK'
  <2>1. "product" \in RunSteps
    BY DEF RunSteps
  <2>2. [Idle EXCEPT !.step = "product", !.event = e] \in RunRecord
    BY <2>1, EmptyRecords DEF RunRecord
  <2> QED BY <1>1, <2>2 DEF Start
<1>2. ASSUME NEW x \in Executors, UpsertProduct(x) PROVE TypeOK'
  <2>1. PICK step \in RunSteps : Goto(x, step)
    BY <1>2 DEF UpsertProduct, AfterMapping, RunSteps
  <2>2. run' \in [Executors -> RunRecord]
    BY <2>1, GotoTypes
  <2>3. known' \subseteq Products
    BY <1>0, <1>2, KeyTypes DEF UpsertProduct
  <2> QED BY <1>2, <2>2, <2>3 DEF UpsertProduct
<1>3. ASSUME NEW x \in Executors, ReadMapping(x) PROVE TypeOK'
  <2>1. run[x].event \in Events /\ Fact[run[x].event].product \in Products
    BY <1>0, <1>3, KeyTypes DEF ReadMapping, RunConsistent
  <2>2. mapping[Fact[run[x].event].product] \in Logicals \cup {None}
    BY <2>1
  <2>3. AfterMapping(run[x].event) \in RunSteps
    BY DEF AfterMapping, RunSteps
  <2>4. run' \in [Executors -> RunRecord]
    <3> DEFINE lp == mapping[Fact[run[x].event].product]
               step == AfterMapping(run[x].event)
    <3>1. run' = [run EXCEPT ![x].logical = lp, ![x].step = step]
      BY <1>3 DEF ReadMapping
    <3>2. lp \in Logicals \cup {None} /\ step \in RunSteps
      BY <2>2, <2>3
    <3> HIDE DEF lp, step
    <3> QED BY <3>1, <3>2, GotoTypes, Zenon
  <2>5. overtaken' \in [Products -> SUBSET Events]
    BY <1>0, <1>3, <2>1 DEF ReadMapping
  <2> QED BY <1>3, <2>4, <2>5 DEF ReadMapping
<1>4. ASSUME NEW x \in Executors, InsertEvent(x) PROVE TypeOK'
  <2>1. run[x].event \in Events
    BY <1>0, <1>4 DEF InsertEvent
  <2>2. logical' \in [Events -> Logicals \cup {None}] /\ normalized' \subseteq Events
    BY <1>0, <1>4, <2>1 DEF InsertEvent, Coalesce
  <2>3. run' \in [Executors -> RunRecord]
    BY <1>0, <1>4 DEF InsertEvent, RunRecord, RunSteps
  <2> QED BY <1>4, <2>2, <2>3 DEF InsertEvent
<1>5. ASSUME NEW x \in Executors, UpsertTxn(x) PROVE TypeOK'
  <2> DEFINE e == run[x].event
             k == TxnKey(e)
  <2>1. e \in Events /\ k \in Keys
    BY <1>0, <1>5, KeyTypes DEF UpsertTxn
  <2>2. txns' \in [Keys -> TxnRecord]
    <3>1. UpsertedTxn(txns[k], e, run[x].logical) \in TxnRecord
      BY <1>0, <2>1, UpsertedTxnType
    <3> QED BY <1>5, <2>1, <3>1 DEF UpsertTxn
  <2>3. inTxn' \in [Keys -> SUBSET Events]
    BY <1>5, <2>1 DEF UpsertTxn
  <2>4. run' \in [Executors -> RunRecord]
    BY <1>0, <1>5, <2>1 DEF UpsertTxn, RunRecord, RunSteps
  <2> QED BY <1>5, <2>2, <2>3, <2>4 DEF UpsertTxn
<1>6. ASSUME NEW x \in Executors, LinkTxnCustomer(x) PROVE TypeOK'
  <2> DEFINE f == Fact[run[x].event]
  <2>1. f.customer \in Customers /\ f.at \in Nat /\ run[x].txn \in Keys
    BY <1>0, <1>6, KeyTypes DEF LinkTxnCustomer, RunConsistent
  <2>2. txns' \in [Keys -> TxnRecord] /\ lastSeen' \in [Customers -> Nat]
    BY <1>6, <2>1, LinkTypes DEF LinkTxnCustomer, UpsertCustomer
  <2>3. PICK step \in RunSteps : Goto(x, step)
    BY <1>6 DEF LinkTxnCustomer, RunSteps
  <2>4. run' \in [Executors -> RunRecord]
    BY <2>3, GotoTypes
  <2> QED BY <1>6, <2>2, <2>4 DEF LinkTxnCustomer
<1>7. ASSUME NEW x \in Executors, UpsertSub(x) PROVE TypeOK'
  <2> DEFINE e == run[x].event
             s == Fact[e].sub
  <2>1. e \in Events /\ s \in SubKeys
    BY <1>0, <1>7, KeyTypes DEF UpsertSub, HasSub
  <2>2. subs' \in [SubKeys -> SubRecord]
    <3>1. UpsertedSub(subs[s], e, run[x].logical, run[x].txn) \in SubRecord
      BY <1>0, <2>1, UpsertedSubType
    <3> QED BY <1>7, <2>1, <3>1 DEF UpsertSub
  <2>3. inSub' \in [SubKeys -> SUBSET Events]
    BY <1>7, <2>1 DEF UpsertSub
  <2>4. run' \in [Executors -> RunRecord]
    <3>1. PICK step \in RunSteps : Goto(x, step)
      BY <1>7 DEF UpsertSub, AfterSub, RunSteps
    <3> QED BY <3>1, GotoTypes
  <2> QED BY <1>7, <2>2, <2>3, <2>4 DEF UpsertSub
<1>8. ASSUME NEW x \in Executors, NoSubscription(x) PROVE TypeOK'
  <2>1. PICK step \in RunSteps : Goto(x, step)
    BY <1>8 DEF NoSubscription, AfterSub, RunSteps
  <2>2. run' \in [Executors -> RunRecord]
    BY <2>1, GotoTypes
  <2> QED BY <1>8, <2>2 DEF NoSubscription
<1>9. ASSUME NEW x \in Executors, LinkSubCustomer(x) PROVE TypeOK'
  <2> DEFINE f == Fact[run[x].event]
  <2>1. f.customer \in Customers /\ f.at \in Nat /\ f.sub \in SubKeys
    BY <1>0, <1>9, KeyTypes DEF LinkSubCustomer, RunConsistent
  <2>2. subs' \in [SubKeys -> SubRecord] /\ lastSeen' \in [Customers -> Nat]
    BY <1>9, <2>1, LinkTypes DEF LinkSubCustomer, UpsertCustomer
  <2>3. PICK step \in RunSteps : Goto(x, step)
    BY <1>9 DEF LinkSubCustomer, AfterSub, RunSteps
  <2>4. run' \in [Executors -> RunRecord]
    BY <2>3, GotoTypes
  <2> QED BY <1>9, <2>2, <2>4 DEF LinkSubCustomer
<1>10. ASSUME NEW x \in Executors, UpdateDaily(x) PROVE TypeOK'
  <2>1. run[x].event \in Events
    BY <1>0, <1>10 DEF UpdateDaily
  <2>2. daily' \in [Logicals \cup {None} -> [Events -> Nat]]
    BY <1>0, <1>10, <2>1 DEF UpdateDaily
  <2>3. PICK step \in RunSteps : Goto(x, step)
    BY <1>10 DEF UpdateDaily, RunSteps
  <2>4. run' \in [Executors -> RunRecord]
    BY <2>3, GotoTypes
  <2> QED BY <1>10, <2>2, <2>4 DEF UpdateDaily
<1>11. ASSUME NEW x \in Executors, Finish(x) PROVE TypeOK'
  BY <1>0, <1>11, EmptyRecords DEF Finish
<1>12. ASSUME NEW x \in Executors, Crash(x) PROVE TypeOK'
  <2>1. crashes' \in 0..MaxCrashes
    BY <1>12 DEF Crash
  <2>2. lost' \subseteq Events
    BY <1>0, <1>12 DEF Crash
  <2>3. run' \in [Executors -> RunRecord]
    BY <1>12, EmptyRecords DEF Crash
  <2> QED BY <1>12, <2>1, <2>2, <2>3 DEF Crash
<1>13. ASSUME NEW p \in Products, Confirm(p) PROVE TypeOK'
  <2>0. /\ confirm[p] \in ConfirmRecord /\ NoConfirm \in ConfirmRecord
        /\ confirm[p].logical \in Logicals \cup {None}
    BY DEF ConfirmRecord, NoConfirm
  <2>1. ASSUME NEW lp \in Logicals, BeginConfirm(p, lp) PROVE TypeOK'
    <3>1. [NoConfirm EXCEPT !.step = "txns", !.logical = lp] \in ConfirmRecord
      BY DEF ConfirmRecord, NoConfirm
    <3>2. confirms' \in 0..MaxWork
      BY <2>1 DEF BeginConfirm
    <3> QED BY <2>1, <3>1, <3>2 DEF BeginConfirm
  <2>2. ASSUME ConfirmTxns(p) PROVE TypeOK'
    <3> DEFINE rows == {k \in Keys : txns[k].product = p}
               missed == {Ev(x) : x \in {y \in Executors : HasRead(y, p)}}
    <3>1. [confirm[p] EXCEPT !.step = "subs", !.txns = rows] \in ConfirmRecord
      BY <2>0 DEF ConfirmRecord
    <3>2. missed \subseteq Events
      BY <1>0 DEF HasRead
    <3>3. /\ confirm' = [confirm EXCEPT ![p] = [confirm[p] EXCEPT !.step = "subs", !.txns = rows]]
          /\ overtaken' = [overtaken EXCEPT ![p] = missed]
      BY <2>2 DEF ConfirmTxns
    <3> HIDE DEF rows, missed
    <3>4. confirm' \in [Products -> ConfirmRecord] /\ overtaken' \in [Products -> SUBSET Events]
      BY <3>1, <3>2, <3>3
    <3> QED BY <2>2, <3>4 DEF ConfirmTxns
  <2>3. ASSUME ConfirmSubs(p) PROVE TypeOK'
    <3> DEFINE rows == {s \in SubKeys : subs[s].product = p}
    <3>1. [confirm[p] EXCEPT !.step = "events", !.subs = rows] \in ConfirmRecord
      BY <2>0 DEF ConfirmRecord
    <3>2. confirm' = [confirm EXCEPT ![p] = [confirm[p] EXCEPT !.step = "events", !.subs = rows]]
      BY <2>3 DEF ConfirmSubs
    <3> HIDE DEF rows
    <3>3. confirm' \in [Products -> ConfirmRecord]
      BY <3>1, <3>2
    <3> QED BY <2>3, <3>3 DEF ConfirmSubs
  <2>4. ASSUME ConfirmEvents(p) PROVE TypeOK'
    <3> DEFINE rows == {e \in normalized : Fact[e].product = p}
    <3>1. [confirm[p] EXCEPT !.step = "commit", !.events = rows] \in ConfirmRecord
      BY <2>0 DEF ConfirmRecord
    <3>2. confirm' = [confirm EXCEPT ![p] = [confirm[p] EXCEPT !.step = "commit", !.events = rows]]
      BY <2>4 DEF ConfirmEvents
    <3> HIDE DEF rows
    <3>3. confirm' \in [Products -> ConfirmRecord]
      BY <3>1, <3>2
    <3> QED BY <2>4, <3>3 DEF ConfirmEvents
  <2>5. ASSUME CommitConfirm(p) PROVE TypeOK'
    <3>1. txns' \in [Keys -> TxnRecord] /\ subs' \in [SubKeys -> SubRecord]
      BY <2>0, <2>5, LinkTypes DEF CommitConfirm
    <3>2. logical' \in [Events -> Logicals \cup {None}] /\ mapping' \in [Products -> Logicals \cup {None}]
      BY <2>0, <2>5 DEF CommitConfirm
    <3>3. /\ confirm' \in [Products -> ConfirmRecord]
          /\ overtaken' \in [Products -> SUBSET Events] /\ raced' \subseteq Events
      BY <2>0, <2>5 DEF CommitConfirm
    <3> QED BY <2>5, <3>1, <3>2, <3>3 DEF CommitConfirm
  <2>6. ASSUME RollbackConfirm(p) PROVE TypeOK'
    <3>1. confirm' \in [Products -> ConfirmRecord] /\ overtaken' \in [Products -> SUBSET Events]
      BY <2>0, <2>6 DEF RollbackConfirm
    <3>2. crashes' \in 0..MaxCrashes
      BY <2>6 DEF RollbackConfirm
    <3> QED BY <2>6, <3>1, <3>2 DEF RollbackConfirm
  <2> QED BY <1>13, <2>1, <2>2, <2>3, <2>4, <2>5, <2>6 DEF Confirm
<1>14. CASE UNCHANGED vars
  BY <1>14 DEF vars
<1> QED
  BY <1>1, <1>2, <1>3, <1>4, <1>5, <1>6, <1>7, <1>8, <1>9, <1>10, <1>11, <1>12, <1>13, <1>14
  DEF Next, Proceed

LEMMA InitIInv == Init => IInv
<1> SUFFICES ASSUME Init PROVE IInv
  OBVIOUS
<1>1. TypeOK
  BY EmptyRecords DEF Init, TypeOK, NoCounts
<1>2. RunConsistent
  BY DEF Init, RunConsistent, Idle
<1>3. EmptyRows /\ TxnShowsNewest /\ RefundsCounted
  BY DEF Init, EmptyRows, TxnShowsNewest, RefundsCounted, NoTxn, NoCounts
<1> QED BY <1>1, <1>2, <1>3 DEF IInv

\* The locals of the executors agree with their step.
LEMMA NextRunConsistent ==
  TypeOK /\ TypeOK' /\ RunConsistent /\ [Next]_vars => RunConsistent'
<1> SUFFICES ASSUME TypeOK, TypeOK', RunConsistent, [Next]_vars PROVE RunConsistent'
  OBVIOUS
<1> USE DEF At, Ev, tables, history
<1>0. \A x \in Executors : run[x] \in RunRecord /\ (run[x].step # "idle" => run[x].event \in Events)
  BY DEF TypeOK, RunConsistent
<1>1. ASSUME NEW x \in Executors, NEW r, run' = [run EXCEPT ![x] = r], normalized \subseteq normalized',
             LET e == r.event
             IN /\ r.step # "idle" => e \in Events
                /\ r.step = "mapping" => Fact[e].product # None
                /\ r.step = "txn_customer" => Fact[e].customer # None /\ r.txn # None
                /\ r.step = "sub_customer" => Fact[e].customer # None /\ Fact[e].sub # None
                /\ r.inserted => r.step # "idle" /\ e \in normalized'
                /\ r.step \in {"product", "mapping", "event"} => ~r.inserted
                /\ r.step = "metric" => r.inserted /\ Fact[e].live
      PROVE  RunConsistent'
  BY <1>1 DEF RunConsistent, TypeOK
<1>2. ASSUME NEW x \in Executors, NEW e \in Events, Start(x, e) PROVE RunConsistent'
  BY <1>2, <1>1 DEF Start, Idle
\* A step that moves a run on and changes none of its locals.
<1>16. ASSUME NEW x \in Executors, NEW step, Goto(x, step), normalized' = normalized,
              run[x].step # "idle", step \notin {"idle", "product"},
              LET e == run[x].event
              IN /\ step = "mapping" => Fact[e].product # None
                 /\ step = "txn_customer" => Fact[e].customer # None /\ run[x].txn # None
                 /\ step = "sub_customer" => Fact[e].customer # None /\ Fact[e].sub # None
                 /\ step \in {"mapping", "event"} => ~run[x].inserted
                 /\ step = "metric" => run[x].inserted /\ Fact[e].live
       PROVE  RunConsistent'
  <2>1. /\ run'[x].step = step /\ run'[x].event = run[x].event
        /\ run'[x].inserted = run[x].inserted /\ run'[x].txn = run[x].txn
        /\ \A y \in Executors : y # x => run'[y] = run[y]
    BY <1>0, <1>16 DEF Goto, TypeOK, RunRecord
  <2> QED BY <2>1, <1>16 DEF RunConsistent
<1>3. ASSUME NEW x \in Executors, UpsertProduct(x) PROVE RunConsistent'
  BY <1>3, <1>16 DEF UpsertProduct, AfterMapping, RunConsistent
<1>4. ASSUME NEW x \in Executors, ReadMapping(x) PROVE RunConsistent'
  <2> DEFINE lp == mapping[Fact[run[x].event].product]
             step == AfterMapping(run[x].event)
  <2>1. run' = [run EXCEPT ![x].logical = lp, ![x].step = step]
    BY <1>4 DEF ReadMapping
  <2>2. step \in {"finish", "event"} /\ run[x].step = "mapping" /\ normalized' = normalized
    BY <1>4 DEF ReadMapping, AfterMapping
  <2> HIDE DEF lp, step
  <2> QED BY <1>0, <2>1, <2>2 DEF RunConsistent, TypeOK, RunRecord
<1>5. ASSUME NEW x \in Executors, InsertEvent(x) PROVE RunConsistent'
  BY <1>0, <1>5 DEF InsertEvent, RunConsistent, TypeOK, RunRecord
<1>6. ASSUME NEW x \in Executors, UpsertTxn(x) PROVE RunConsistent'
  BY <1>0, <1>6, KeyTypes DEF UpsertTxn, RunConsistent, TypeOK, RunRecord, Keys
<1>7. ASSUME NEW x \in Executors, LinkTxnCustomer(x) PROVE RunConsistent'
  BY <1>7, <1>16 DEF LinkTxnCustomer
<1>8. ASSUME NEW x \in Executors, UpsertSub(x) PROVE RunConsistent'
  <2>1. PICK step \in {"metric", "finish", "sub_customer"} :
          /\ Goto(x, step)
          /\ step = "metric" => run[x].inserted /\ Fact[run[x].event].live
          /\ step = "sub_customer" => Fact[run[x].event].customer # None
    BY <1>8 DEF UpsertSub, AfterSub
  <2>2. run[x].step = "sub" /\ normalized' = normalized /\ Fact[run[x].event].sub # None
    BY <1>8 DEF UpsertSub, HasSub
  <2> QED BY <1>16, <2>1, <2>2
<1>9. ASSUME NEW x \in Executors, NoSubscription(x) \/ LinkSubCustomer(x) PROVE RunConsistent'
  <2>1. PICK step \in {"metric", "finish"} :
          /\ Goto(x, step)
          /\ step = "metric" => run[x].inserted /\ Fact[run[x].event].live
    BY <1>9 DEF NoSubscription, LinkSubCustomer, AfterSub
  <2>2. run[x].step \in {"sub", "sub_customer"} /\ normalized' = normalized
    BY <1>9 DEF NoSubscription, LinkSubCustomer
  <2> QED BY <1>16, <2>1, <2>2
<1>11. ASSUME NEW x \in Executors, UpdateDaily(x) PROVE RunConsistent'
  BY <1>11, <1>16 DEF UpdateDaily
<1>12. ASSUME NEW x \in Executors, Finish(x) PROVE RunConsistent'
  BY <1>1, <1>12 DEF Finish, Idle
<1>13. ASSUME NEW x \in Executors, Crash(x) PROVE RunConsistent'
  BY <1>1, <1>13 DEF Crash, Idle
<1>14. ASSUME NEW p \in Products, Confirm(p) PROVE RunConsistent'
  BY <1>14, ConfirmKeeps DEF RunConsistent
<1>15. CASE UNCHANGED vars
  BY <1>15 DEF vars, RunConsistent
<1> QED
  BY <1>2, <1>3, <1>4, <1>5, <1>6, <1>7, <1>8, <1>9, <1>11, <1>12, <1>13, <1>14, <1>15
  DEF Next, Proceed

-----------------------------------------------------------------------------
\* The rows of the transactions table.

\* A row after an upsert: which event it shows.
LEMMA UpsertedRow ==
  ASSUME NEW row \in TxnRecord, NEW e \in Events, NEW lp \in Logicals \cup {None}
  PROVE  LET new == UpsertedTxn(row, e, lp)
         IN /\ Fact[e].at >= row.at =>
                 new.latest = e /\ new.at = Fact[e].at /\ new.status = TxnStatus(Fact[e].type)
            /\ ~(Fact[e].at >= row.at) =>
                 new.latest = row.latest /\ new.at = row.at /\ new.status = row.status
            /\ new.refunds = Refunds(row, e)
  BY DEF UpsertedTxn, Wins

\* The refund amount after an upsert.
LEMMA RefundsGrow ==
  ASSUME NEW row \in TxnRecord, NEW e \in Events
  PROVE  /\ \A d \in Events : d # e => Refunds(row, e)[d] = row.refunds[d]
         /\ ~IsRefund(Fact[e].type) \/ row.latest = e => Refunds(row, e) = row.refunds
         /\ IsRefund(Fact[e].type) /\ row.latest # e => Refunds(row, e)[e] = row.refunds[e] + 1
         /\ row.refunds[e] \in Nat
<1>1. row.refunds \in [Events -> Nat] /\ row.refunds[e] \in Nat
  BY DEF TxnRecord
<1> QED
  BY <1>1 DEF Refunds

\* The parts of a transaction row that only the upsert writes.
LedgerKept ==
  /\ inTxn' = inTxn
  /\ \A k \in Keys : /\ txns'[k].latest = txns[k].latest /\ txns'[k].at = txns[k].at
                     /\ txns'[k].status = txns[k].status /\ txns'[k].refunds = txns[k].refunds

LEMMA OnlyUpsertWrites ==
  ASSUME TypeOK, RunConsistent, [Next]_vars
  PROVE  LedgerKept \/ \E x \in Executors : UpsertTxn(x)
<1> USE DEF At, Ev, tables, history
<1>1. ASSUME NEW x \in Executors, NEW e \in Events, Start(x, e) PROVE LedgerKept
  BY <1>1 DEF Start, LedgerKept
<1>2. ASSUME NEW x \in Executors, Proceed(x) \/ Crash(x)
      PROVE  LedgerKept \/ UpsertTxn(x)
  <2>1. ASSUME LinkTxnCustomer(x) PROVE LedgerKept
    <3> DEFINE c == Fact[run[x].event].customer
               t == run[x].txn
    <3>1. txns' = [txns EXCEPT ![t].customer = c] /\ inTxn' = inTxn
      BY <2>1 DEF LinkTxnCustomer
    <3> HIDE DEF c, t
    <3> QED BY <3>1 DEF LedgerKept, TypeOK, TxnRecord
  <2> QED
    BY <1>2, <2>1 DEF Proceed, Crash, UpsertProduct, ReadMapping, InsertEvent, UpsertSub,
                      NoSubscription, LinkSubCustomer, UpdateDaily, Finish, LedgerKept
<1>3. ASSUME NEW p \in Products, Confirm(p) PROVE LedgerKept
  BY <1>3, ConfirmRows, ConfirmKeeps DEF LedgerKept
<1>4. ASSUME UNCHANGED vars PROVE LedgerKept
  BY <1>4 DEF vars, LedgerKept
<1> QED
  BY <1>1, <1>2, <1>3, <1>4 DEF Next

TxnRows == EmptyRows /\ TxnShowsNewest /\ RefundsCounted

LEMMA NextTxnRows ==
  TypeOK /\ RunConsistent /\ TxnRows /\ [Next]_vars => TxnRows'
<1> SUFFICES ASSUME TypeOK, RunConsistent, TxnRows, [Next]_vars PROVE TxnRows'
  OBVIOUS
<1>1. CASE LedgerKept
  BY <1>1 DEF LedgerKept, TxnRows, EmptyRows, TxnShowsNewest, RefundsCounted, Newest
<1>2. ASSUME NEW x \in Executors, UpsertTxn(x) PROVE TxnRows'
  <2> DEFINE e == run[x].event
             k == TxnKey(e)
             row == txns[k]
             new == UpsertedTxn(row, e, run[x].logical)
             S == inTxn[k] \cup {e}
  <2>1. e \in Events /\ k \in Keys /\ run[x].logical \in Logicals \cup {None}
    BY <1>2, KeyTypes DEF UpsertTxn, At, RunConsistent, TypeOK, RunRecord
  <2>2. row \in TxnRecord /\ row.at \in Nat /\ Fact[e].at \in Nat /\ Fact[e].at > 0
    BY <2>1, KeyTypes DEF TypeOK, TxnRecord
  <2>3. /\ txns' = [txns EXCEPT ![k] = new]
        /\ inTxn' = [inTxn EXCEPT ![k] = S]
    BY <1>2 DEF UpsertTxn, Ev
  <2>4. /\ txns'[k] = new /\ inTxn'[k] = S
        /\ \A l \in Keys : l # k => txns'[l] = txns[l] /\ inTxn'[l] = inTxn[l]
    BY <2>1, <2>3 DEF TypeOK
  <2>5. /\ Fact[e].at >= row.at =>
             new.latest = e /\ new.at = Fact[e].at /\ new.status = TxnStatus(Fact[e].type)
        /\ ~(Fact[e].at >= row.at) =>
             new.latest = row.latest /\ new.at = row.at /\ new.status = row.status
        /\ new.refunds = Refunds(row, e)
    BY <2>1, <2>2, UpsertedRow
  <2>6. /\ inTxn[k] \subseteq Events /\ \A f \in S : Fact[f].at \in Nat
        /\ row.latest # None => row.latest \in inTxn[k]
        /\ inTxn[k] # {} => row.latest \in Newest(inTxn[k]) /\ row.at = Fact[row.latest].at
                            /\ row.status = TxnStatus(Fact[row.latest].type)
        /\ inTxn[k] = {} => row.at = 0
    BY <2>1, KeyTypes DEF TypeOK, TxnRows, TxnShowsNewest, EmptyRows, Newest
  <2>7. /\ new.latest \in Newest(S) /\ new.latest # None
        /\ new.at = Fact[new.latest].at /\ new.status = TxnStatus(Fact[new.latest].type)
    <3>1. CASE Fact[e].at >= row.at
      <4>1. \A f \in inTxn[k] : Fact[f].at <= Fact[e].at
        BY <3>1, <2>2, <2>6 DEF Newest
      <4>2. e # None
        BY <2>1 DEF ProjectionAssumption
      <4> QED BY <3>1, <4>1, <4>2, <2>2, <2>5 DEF Newest
    <3>2. CASE ~(Fact[e].at >= row.at)
      <4>1. inTxn[k] # {}
        BY <3>2, <2>2, <2>6
      <4>2. row.latest \in Events /\ row.latest # None
        BY <4>1, <2>6 DEF Newest, ProjectionAssumption
      <4>3. row.latest \in Newest(S)
        BY <3>2, <4>1, <2>2, <2>6 DEF Newest
      <4> QED BY <3>2, <4>1, <4>2, <4>3, <2>5, <2>6
    <3> QED BY <3>1, <3>2
  <2>8. \A d \in Events : new.refunds[d] > 0 <=> d \in S /\ IsRefund(Fact[d].type)
    <3>1. \A d \in Events : row.refunds[d] > 0 <=> d \in inTxn[k] /\ IsRefund(Fact[d].type)
      BY <2>1 DEF TxnRows, RefundsCounted
    <3>2. ASSUME NEW d \in Events, d # e
          PROVE  new.refunds[d] > 0 <=> d \in S /\ IsRefund(Fact[d].type)
      BY <3>1, <3>2, <2>1, <2>2, <2>5, RefundsGrow
    <3>3. new.refunds[e] > 0 <=> e \in S /\ IsRefund(Fact[e].type)
      <4>1. CASE IsRefund(Fact[e].type) /\ row.latest # e
        BY <4>1, <2>1, <2>2, <2>5, RefundsGrow
      <4>2. CASE IsRefund(Fact[e].type) /\ row.latest = e
        <5>1. e \in inTxn[k]
          BY <4>2, <2>1, <2>6 DEF ProjectionAssumption
        <5> QED BY <4>2, <5>1, <3>1, <2>1, <2>2, <2>5, RefundsGrow
      <4>3. CASE ~IsRefund(Fact[e].type)
        BY <4>3, <3>1, <2>1, <2>2, <2>5, RefundsGrow
      <4> QED BY <4>1, <4>2, <4>3
    <3> QED BY <3>2, <3>3
  <2>12. \A d \in Events : new.refunds[d] > 1 => \E c \in S \ {d} : Fact[c].at >= Fact[d].at
    <3>1. \A d \in Events : /\ row.refunds[d] > 0 <=> d \in inTxn[k] /\ IsRefund(Fact[d].type)
                            /\ row.refunds[d] > 1 => \E c \in S \ {d} : Fact[c].at >= Fact[d].at
      BY <2>1 DEF TxnRows, RefundsCounted
    <3>2. CASE new.refunds[e] = row.refunds[e] \/ row.refunds[e] = 0
      BY <3>1, <3>2, <2>1, <2>2, <2>5, RefundsGrow
    <3>3. CASE new.refunds[e] # row.refunds[e] /\ row.refunds[e] # 0
      <4>1. row.latest # e /\ e \in inTxn[k]
        BY <3>1, <3>3, <2>1, <2>2, <2>5, RefundsGrow
      <4>2. row.latest \in S \ {e} /\ Fact[row.latest].at >= Fact[e].at
        BY <4>1, <2>1, <2>6 DEF Newest
      <4>3. \A d \in Events : d # e => new.refunds[d] = row.refunds[d]
        BY <2>1, <2>2, <2>5, RefundsGrow
      <4> QED BY <3>1, <4>2, <4>3
    <3> QED BY <3>2, <3>3
  <2> HIDE DEF k, row, new, S
  <2>9. EmptyRows'
    <3>1. S # {}
      BY DEF S
    <3> QED BY <3>1, <2>4 DEF EmptyRows, TxnRows
  <2>10. TxnShowsNewest'
    <3>1. S # {}
      BY DEF S
    <3> QED BY <3>1, <2>4, <2>7 DEF TxnShowsNewest, TxnRows, Newest
  <2>11. RefundsCounted'
    BY <2>4, <2>8, <2>12 DEF RefundsCounted, TxnRows
  <2> QED BY <2>9, <2>10, <2>11 DEF TxnRows
<1> QED
  BY <1>1, <1>2, OnlyUpsertWrites

LEMMA NextIInv == IInv /\ [Next]_vars => IInv'
<1> SUFFICES ASSUME IInv, [Next]_vars PROVE IInv'
  OBVIOUS
<1>1. TypeOK'
  BY NextTypeOK DEF IInv
<1>2. RunConsistent'
  BY <1>1, NextRunConsistent DEF IInv
<1>3. TxnRows'
  BY NextTxnRows DEF IInv, TxnRows
<1> QED
  BY <1>1, <1>2, <1>3 DEF IInv, TxnRows

\* The inductive invariant holds in every state.
THEOREM Invariance == Spec => []IInv
<1> QED BY InitIInv, NextIInv, PTL DEF Spec

\* The tables keep their types.
THEOREM TypeCorrect == Spec => []TypeOK
<1>1. IInv => TypeOK
  BY DEF IInv
<1> QED BY <1>1, Invariance, PTL

\* A transaction always shows a newest of the events applied to it.
THEOREM NewestIsShown == Spec => []TxnShowsNewest
<1>1. IInv => TxnShowsNewest
  BY DEF IInv
<1> QED BY <1>1, Invariance, PTL

\* The refund amount of a transaction holds every refund applied to it and nothing else, and
\* holds it once unless an event at least as new was applied to the same transaction.
THEOREM RefundsAreCounted == Spec => []RefundsCounted
<1>1. IInv => RefundsCounted
  BY DEF IInv
<1> QED BY <1>1, Invariance, PTL

-----------------------------------------------------------------------------
\* The transactions table implements the registers of NewestWins.

\* An upsert applies the event to the register of its row; every other step
\* leaves the registers alone.
LEMMA NextImplements ==
  ASSUME IInv, [Next]_vars
  PROVE  [TxnRegister!Next]_TxnRegister!registerVars
<1> USE DEF TxnRegister!Next, TxnRegister!registerVars
<1>1. CASE LedgerKept
  BY <1>1 DEF LedgerKept
<1>2. ASSUME NEW x \in Executors, UpsertTxn(x) PROVE TxnRegister!Next
  <2> DEFINE e == run[x].event
             k == TxnKey(e)
             row == txns[k]
             new == UpsertedTxn(row, e, run[x].logical)
             S == inTxn[k] \cup {e}
  <2>1. e \in Events /\ k \in Keys /\ run[x].logical \in Logicals \cup {None}
    BY <1>2, KeyTypes DEF UpsertTxn, At, IInv, RunConsistent, TypeOK, RunRecord
  <2>2. /\ txns' = [txns EXCEPT ![k] = new] /\ txns'[k] = new
        /\ inTxn' = [inTxn EXCEPT ![k] = S] /\ inTxn'[k] = S
    BY <1>2, <2>1 DEF UpsertTxn, Ev, IInv, TypeOK
  <2>3. new.latest \in {e, row.latest}
    BY <2>1, UpsertedRow DEF IInv, TypeOK
  <2>4. new.latest \in Newest(S)
    <3>1. TxnShowsNewest'
      BY NextIInv DEF IInv
    <3>2. inTxn'[k] # {}
      BY <2>2
    <3> QED BY <2>1, <2>2, <3>1, <3>2 DEF TxnShowsNewest, Newest
  <2>5. new.latest \in TxnRegister!Newest(S)
    <3>1. S \subseteq Events
      BY <2>1 DEF IInv, TypeOK
    <3> QED BY <2>4, <3>1 DEF Newest, TxnRegister!Newest
  <2>6. [l \in Keys |-> txns'[l].latest]
          = [[l \in Keys |-> txns[l].latest] EXCEPT ![k] = new.latest]
    <3> HIDE DEF new
    <3> QED BY <2>1, <2>2 DEF IInv, TypeOK
  <2>7. TxnRegister!Apply(k, e)
    <3> HIDE DEF new, k
    <3> QED BY <2>1, <2>2, <2>3, <2>5, <2>6 DEF TxnRegister!Apply
  <2>8. PICK d \in Events, l \in Keys : d = e /\ l = k
    BY <2>1
  <2>9. TxnRegister!Apply(l, d)
    BY <2>7, <2>8 DEF TxnRegister!Apply
  <2> QED BY <2>9
<1> QED
  BY <1>1, <1>2, OnlyUpsertWrites DEF IInv

\* The transactions table implements the registers: whatever the order, the
\* overlap and the repetition of runs, each row behaves as a register that a
\* newest event wins.
THEOREM TransactionsAreRegisters == Spec => ImplementsNewestWins
<1>1. Init => TxnRegister!Init
  BY DEF Init, TxnRegister!Init, NoTxn
<1>2. IInv /\ [Next]_vars => [TxnRegister!Next]_TxnRegister!registerVars
  BY NextImplements
<1> QED
  BY <1>1, <1>2, Invariance, PTL DEF Spec, ImplementsNewestWins, TxnRegister!Spec

-----------------------------------------------------------------------------
\* The daily rollup.

\* At most one run has inserted an event, and until it adds the event to the
\* rollup nobody has.
RollupOwedOnce ==
  /\ \A x, y \in Executors :
       run[x].inserted /\ run[y].inserted /\ run[x].event = run[y].event => x = y
  /\ \A x \in Executors :
       OwesRollup(x) => RollupCells(run[x].event) = {} /\ run[x].event \notin lost
  /\ lost \subseteq normalized

Rollup == RollupOwedOnce /\ RollupExact

\* A step that neither writes the rollup nor changes who owes it.
RollupKept ==
  /\ daily' = daily /\ normalized' = normalized /\ lost' = lost
  /\ \A x \in Executors :
       /\ OwesRollup(x)' <=> OwesRollup(x)
       /\ run'[x].inserted => run[x].inserted /\ run'[x].event = run[x].event

LEMMA KeptKeepsRollup == Rollup /\ RollupKept => Rollup'
<1> SUFFICES ASSUME Rollup, RollupKept PROVE Rollup'
  OBVIOUS
<1>1. \A e : RollupCells(e)' = RollupCells(e)
  BY DEF RollupKept, RollupCells
<1>2. \A x \in Executors : /\ OwesRollup(x) => run[x].inserted
                           /\ OwesRollup(x)' => run'[x].inserted
  BY DEF OwesRollup
<1>3. RollupOwedOnce'
  BY <1>1, <1>2 DEF Rollup, RollupOwedOnce, RollupKept
<1>4. RollupExact'
  BY <1>1, <1>2 DEF Rollup, RollupExact, RollupKept, Ev
<1> QED BY <1>3, <1>4 DEF Rollup

LEMMA NextRollup == IInv /\ Rollup /\ [Next]_vars => Rollup'
<1> SUFFICES ASSUME IInv, Rollup, [Next]_vars PROVE Rollup'
  OBVIOUS
<1> USE DEF At, Ev, tables, history
<1>0. TypeOK /\ RunConsistent /\ RunConsistent'
  BY NextIInv DEF IInv
<1>1. ASSUME NEW x \in Executors, NEW r, run' = [run EXCEPT ![x] = r],
             daily' = daily, normalized' = normalized, lost' = lost,
             r.inserted => run[x].inserted /\ r.event = run[x].event,
             r.inserted /\ Fact[r.event].live /\ r.step \notin {"idle", "finish"}
               <=> OwesRollup(x)
      PROVE  Rollup'
  <2>1. run'[x] = r /\ \A y \in Executors : y # x => run'[y] = run[y]
    BY <1>0, <1>1 DEF TypeOK
  <2>2. RollupKept
    BY <1>1, <2>1 DEF RollupKept, OwesRollup
  <2> QED BY <2>2, KeptKeepsRollup
\* A step that moves a run on and keeps its event and what it inserted.
<1>2. ASSUME NEW x \in Executors, NEW s, NEW lp, NEW t,
             run' = [run EXCEPT ![x] = [@ EXCEPT !.step = s, !.logical = lp, !.txn = t]],
             daily' = daily, normalized' = normalized, lost' = lost,
             s = "finish" => ~(run[x].inserted /\ Fact[run[x].event].live),
             s # "idle", run[x].step \notin {"idle", "finish"}
      PROVE  Rollup'
  <2> DEFINE r == [run[x] EXCEPT !.step = s, !.logical = lp, !.txn = t]
  <2>1. run[x] \in RunRecord
    BY <1>0 DEF TypeOK
  <2>2. r.step = s /\ r.inserted = run[x].inserted /\ r.event = run[x].event
    BY <2>1 DEF RunRecord
  <2>3. run' = [run EXCEPT ![x] = r]
    BY <1>2
  <2>4. r.inserted /\ Fact[r.event].live /\ r.step \notin {"idle", "finish"} <=> OwesRollup(x)
    BY <1>2, <2>2 DEF OwesRollup
  <2> HIDE DEF r
  <2> QED BY <1>1, <1>2, <2>2, <2>3, <2>4
<1>3. ASSUME NEW x \in Executors, NEW s, Goto(x, s),
             daily' = daily, normalized' = normalized, lost' = lost,
             s = "finish" => ~(run[x].inserted /\ Fact[run[x].event].live),
             s # "idle", run[x].step \notin {"idle", "finish"}
      PROVE  Rollup'
  <2>1. run' = [run EXCEPT ![x] = [@ EXCEPT !.step = s, !.logical = run[x].logical,
                                            !.txn = run[x].txn]]
    BY <1>0, <1>3 DEF Goto, TypeOK, RunRecord
  <2> QED BY <1>2, <1>3, <2>1
<1>4. ASSUME NEW x \in Executors, NEW e \in Events, Start(x, e) PROVE Rollup'
  BY <1>1, <1>4 DEF Start, Idle, OwesRollup
<1>5. ASSUME NEW x \in Executors, UpsertProduct(x) PROVE Rollup'
  BY <1>0, <1>3, <1>5 DEF UpsertProduct, AfterMapping, RunConsistent
<1>6. ASSUME NEW x \in Executors, ReadMapping(x) PROVE Rollup'
  <2> DEFINE lp == mapping[Fact[run[x].event].product]
             s == AfterMapping(run[x].event)
             t == run[x].txn
  <2>1. run' = [run EXCEPT ![x] = [@ EXCEPT !.step = s, !.logical = lp, !.txn = t]]
    BY <1>0, <1>6 DEF ReadMapping, TypeOK, RunRecord
  <2>2. s \in {"finish", "event"} /\ ~run[x].inserted
    BY <1>0, <1>6 DEF ReadMapping, AfterMapping, RunConsistent
  <2>3. /\ daily' = daily /\ normalized' = normalized /\ lost' = lost
        /\ run[x].step = "mapping"
    BY <1>6 DEF ReadMapping
  <2>4. /\ s = "finish" => ~(run[x].inserted /\ Fact[run[x].event].live)
        /\ s # "idle" /\ run[x].step \notin {"idle", "finish"}
    BY <2>2, <2>3
  <2> HIDE DEF lp, s, t
  <2> QED BY <1>2, <2>1, <2>3, <2>4
<1>7. ASSUME NEW x \in Executors, UpsertTxn(x) PROVE Rollup'
  <2> DEFINE lp == run[x].logical
             s == IF Fact[run[x].event].customer = None THEN "sub" ELSE "txn_customer"
             t == TxnKey(run[x].event)
  <2>1. run' = [run EXCEPT ![x] = [@ EXCEPT !.step = s, !.logical = lp, !.txn = t]]
    BY <1>0, <1>7 DEF UpsertTxn, TypeOK, RunRecord
  <2>2. s \in {"sub", "txn_customer"}
    OBVIOUS
  <2>3. /\ daily' = daily /\ normalized' = normalized /\ lost' = lost
        /\ run[x].step = "txn"
    BY <1>7 DEF UpsertTxn
  <2>4. /\ s = "finish" => ~(run[x].inserted /\ Fact[run[x].event].live)
        /\ s # "idle" /\ run[x].step \notin {"idle", "finish"}
    BY <2>2, <2>3
  <2> HIDE DEF lp, s, t
  <2> QED BY <1>2, <2>1, <2>3, <2>4
<1>8. ASSUME NEW x \in Executors, LinkTxnCustomer(x) PROVE Rollup'
  BY <1>3, <1>8 DEF LinkTxnCustomer
<1>9. ASSUME NEW x \in Executors, UpsertSub(x) PROVE Rollup'
  BY <1>3, <1>9 DEF UpsertSub, AfterSub
<1>10. ASSUME NEW x \in Executors, NoSubscription(x) PROVE Rollup'
  BY <1>3, <1>10 DEF NoSubscription, AfterSub
<1>11. ASSUME NEW x \in Executors, LinkSubCustomer(x) PROVE Rollup'
  BY <1>3, <1>11 DEF LinkSubCustomer, AfterSub
<1>12. ASSUME NEW x \in Executors, Finish(x) PROVE Rollup'
  BY <1>1, <1>12 DEF Finish, Idle, OwesRollup
<1>13. ASSUME NEW p \in Products, Confirm(p) PROVE Rollup'
  BY <1>13, ConfirmKeeps, KeptKeepsRollup DEF RollupKept, OwesRollup
<1>14. CASE UNCHANGED vars
  BY <1>14, KeptKeepsRollup DEF vars, RollupKept, OwesRollup
<1>15. ASSUME NEW x \in Executors, InsertEvent(x) PROVE Rollup'
  <2> DEFINE e == run[x].event
             s == IF HasTxn(e) THEN "txn" ELSE "sub"
  <2>1. /\ e \in Events /\ ~run[x].inserted /\ run[x].step = "event"
        /\ daily' = daily /\ lost' = lost /\ normalized' = normalized \cup {e}
    BY <1>0, <1>15 DEF InsertEvent, RunConsistent
  <2>2. /\ run'[x].event = e /\ run'[x].step \in {"txn", "sub"}
        /\ run'[x].inserted <=> e \notin normalized
        /\ \A y \in Executors : y # x => run'[y] = run[y]
    <3>1. run' = [run EXCEPT ![x].inserted = e \notin normalized, ![x].step = s]
      BY <1>15 DEF InsertEvent
    <3>2. s \in {"txn", "sub"} /\ run \in [Executors -> RunRecord]
      BY <1>0 DEF TypeOK
    <3> HIDE DEF s
    <3> QED BY <3>1, <3>2 DEF RunRecord
  <2>3. \A d : RollupCells(d)' = RollupCells(d)
    BY <2>1 DEF RollupCells
  <2>4. e \notin normalized => RollupCells(e) = {} /\ e \notin lost
    BY <2>1 DEF Rollup, RollupExact, RollupOwedOnce
  <2>5. \A y \in Executors : run[y].inserted => run[y].event \in normalized
    BY <1>0 DEF RunConsistent
  <2> HIDE DEF e
  <2>6. RollupOwedOnce'
    <3>1. \A y, z \in Executors :
            run'[y].inserted /\ run'[z].inserted /\ run'[y].event = run'[z].event => y = z
      BY <2>2, <2>5 DEF Rollup, RollupOwedOnce
    <3>2. \A y \in Executors :
            OwesRollup(y)' => RollupCells(run[y].event)' = {} /\ run'[y].event \notin lost'
      BY <2>1, <2>2, <2>3, <2>4 DEF Rollup, RollupOwedOnce, OwesRollup
    <3> QED BY <3>1, <3>2, <2>1 DEF Rollup, RollupOwedOnce
  <2>7. RollupExact'
    <3>1. \A y \in Executors : OwesRollup(y) => y # x /\ OwesRollup(y)' /\ run'[y].event = run[y].event
      BY <2>1, <2>2 DEF OwesRollup
    <3>2. e \notin normalized /\ Fact[e].live => OwesRollup(x)'
      BY <2>2 DEF OwesRollup
    <3> QED BY <2>1, <2>2, <2>3, <2>4, <3>1, <3>2 DEF Rollup, RollupExact
  <2> QED BY <2>6, <2>7 DEF Rollup
<1>16. ASSUME NEW x \in Executors, UpdateDaily(x) PROVE Rollup'
  <2>0. PICK e \in Events : e = run[x].event
    BY <1>0, <1>16 DEF UpdateDaily, RunConsistent
  <2> DEFINE lp == run[x].logical
  <2>1. /\ run[x].inserted /\ Fact[e].live /\ OwesRollup(x)
        /\ lp \in Logicals \cup {None} /\ e \in normalized
    BY <1>0, <1>16, <2>0 DEF UpdateDaily, RunConsistent, OwesRollup, TypeOK, RunRecord
  <2>2. RollupCells(e) = {} /\ e \notin lost
    BY <2>0, <2>1 DEF Rollup, RollupOwedOnce
  <2>3. \A q \in Logicals \cup {None} : daily[q][e] = 0
    BY <2>2 DEF RollupCells
  <2>4. /\ daily'[lp][e] = 1
        /\ \A q \in Logicals \cup {None} : q # lp => daily'[q][e] = 0
        /\ \A q \in Logicals \cup {None}, d \in Events : d # e => daily'[q][d] = daily[q][d]
    BY <1>0, <1>16, <2>0, <2>1, <2>3 DEF UpdateDaily, TypeOK
  <2>5. /\ normalized' = normalized /\ lost' = lost
        /\ run'[x].step = "finish" /\ run'[x].event = e /\ run'[x].inserted
        /\ \A y \in Executors : y # x => run'[y] = run[y]
    BY <1>0, <1>16, <2>0, <2>1 DEF UpdateDaily, Goto, TypeOK, RunRecord
  <2>6. /\ RollupCells(e)' = {lp}
        /\ \A d \in Events : d # e => RollupCells(d)' = RollupCells(d)
    <3>1. RollupCells(e)' = {q \in Logicals \cup {None} : daily'[q][e] # 0}
      BY DEF RollupCells
    <3>2. ASSUME NEW d \in Events, d # e PROVE RollupCells(d)' = RollupCells(d)
      BY <3>2, <2>4 DEF RollupCells
    <3>3. daily'[lp][e] # 0
      BY <2>4
    <3> HIDE DEF lp
    <3>4. RollupCells(e)' = {lp}
      BY <3>1, <3>3, <2>1, <2>4
    <3> QED BY <3>2, <3>4
  <2>7. \A y \in Executors : y # x /\ run[y].inserted => run[y].event # e
    BY <2>0, <2>1 DEF Rollup, RollupOwedOnce
  <2>8. \A y \in Executors : OwesRollup(y)' => y # x /\ OwesRollup(y) /\ run[y].event # e
    BY <2>5, <2>7 DEF OwesRollup
  <2>9. \A y \in Executors : y # x => OwesRollup(y)' = OwesRollup(y)
    BY <2>5 DEF OwesRollup
  <2>10. \A y \in Executors : run[y].inserted => run[y].event \in Events
    BY <1>0 DEF RunConsistent
  <2> HIDE DEF lp
  <2>11. RollupOwedOnce'
    <3>1. \A y, z \in Executors :
            run'[y].inserted /\ run'[z].inserted /\ run'[y].event = run'[z].event => y = z
      BY <2>5, <2>7 DEF Rollup, RollupOwedOnce
    <3>2. \A y \in Executors :
            OwesRollup(y)' => RollupCells(run[y].event)' = {} /\ run'[y].event \notin lost'
      BY <2>0, <2>5, <2>6, <2>8, <2>10 DEF Rollup, RollupOwedOnce, OwesRollup
    <3> QED BY <3>1, <3>2, <2>5 DEF Rollup, RollupOwedOnce
  <2>12. RollupExact'
    <3>1. ASSUME NEW d \in Events, d # e
          PROVE  /\ \A p, q \in RollupCells(d)' : p = q /\ daily'[p][d] = 1
                 /\ RollupCells(d)' # {} => d \in normalized' /\ Fact[d].live
                 /\ d \in lost' => RollupCells(d)' = {}
                 /\ d \in normalized' /\ Fact[d].live /\ RollupCells(d)' = {} =>
                      d \in lost' \/ \E y \in Executors : run'[y].event = d /\ OwesRollup(y)'
      <4>1. \A p \in RollupCells(d) : daily'[p][d] = daily[p][d]
        BY <3>1, <2>4 DEF RollupCells
      <4>2. \A y \in Executors : run[y].event = d => y # x
        BY <3>1, <2>0
      <4> QED BY <3>1, <4>1, <4>2, <2>5, <2>6, <2>9 DEF Rollup, RollupExact
    <3>2. /\ \A p, q \in RollupCells(e)' : p = q /\ daily'[p][e] = 1
          /\ RollupCells(e)' # {} /\ e \in normalized' /\ Fact[e].live /\ e \notin lost'
      BY <2>1, <2>2, <2>4, <2>5, <2>6
    <3>3. ASSUME NEW d \in Events
          PROVE  /\ \A p, q \in RollupCells(d)' : p = q /\ daily'[p][d] = 1
                 /\ RollupCells(d)' # {} => d \in normalized' /\ Fact[d].live
                 /\ d \in lost' => RollupCells(d)' = {}
                 /\ d \in normalized' /\ Fact[d].live /\ RollupCells(d)' = {} =>
                      d \in lost' \/ \E y \in Executors : run'[y].event = d /\ OwesRollup(y)'
      <4>1. CASE d = e
        BY <4>1, <3>2
      <4> QED BY <4>1, <3>1
    <3> QED BY <3>3 DEF RollupExact
  <2> QED BY <2>11, <2>12 DEF Rollup
<1>17. ASSUME NEW x \in Executors, Crash(x) PROVE Rollup'
  <2> DEFINE e == run[x].event
  <2>1. /\ daily' = daily /\ normalized' = normalized /\ run'[x] = Idle
        /\ \A y \in Executors : y # x => run'[y] = run[y]
    BY <1>0, <1>17 DEF Crash, TypeOK
  <2>2. CASE ~OwesRollup(x)
    BY <2>1, <2>2, <1>1, <1>17 DEF Crash, Idle
  <2>3. CASE OwesRollup(x)
    <3>1. e \in Events /\ e \in normalized /\ run[x].inserted /\ RollupCells(e) = {}
      BY <2>3, <1>0 DEF OwesRollup, RunConsistent, Rollup, RollupOwedOnce
    <3>2. lost' = lost \cup {e}
      BY <1>17, <2>3 DEF Crash
    <3>3. \A d : RollupCells(d)' = RollupCells(d)
      BY <2>1 DEF RollupCells
    <3>4. ~run'[x].inserted
      BY <2>1 DEF Idle
    <3>5. \A y \in Executors : y # x /\ run[y].inserted => run[y].event # e
      BY <3>1 DEF Rollup, RollupOwedOnce
    <3>6. \A y \in Executors : OwesRollup(y)' => y # x /\ OwesRollup(y)
      BY <2>1, <3>4 DEF OwesRollup
    <3>7. \A y \in Executors : y # x => OwesRollup(y)' = OwesRollup(y)
      BY <2>1 DEF OwesRollup
    <3> HIDE DEF e
    <3>8. RollupOwedOnce'
      <4>1. \A y \in Executors : OwesRollup(y) => run[y].inserted
        BY DEF OwesRollup
      <4> QED BY <2>1, <3>1, <3>2, <3>3, <3>4, <3>5, <3>6, <4>1 DEF Rollup, RollupOwedOnce
    <3>9. RollupExact'
      <4>1. \A y \in Executors : run[y].event # e => y # x
        BY DEF e
      <4> QED BY <2>1, <3>1, <3>2, <3>3, <3>7, <4>1 DEF Rollup, RollupExact
    <3> QED BY <3>8, <3>9 DEF Rollup
  <2> QED BY <2>2, <2>3
<1> QED
  BY <1>4, <1>5, <1>6, <1>7, <1>8, <1>9, <1>10, <1>11, <1>12, <1>13, <1>14, <1>15, <1>16, <1>17
  DEF Next, Proceed

\* The daily rollup counts an event at most once and under one product, and
\* misses one only when its first run stopped before the rollup.
THEOREM RollupIsExact == Spec => []RollupExact
<1>1. Init => Rollup
  BY DEF Init, Rollup, RollupOwedOnce, RollupExact, RollupCells, OwesRollup, Idle, NoCounts
<1>2. Rollup => RollupExact
  BY DEF Rollup
<1> QED
  BY <1>1, <1>2, NextRollup, Invariance, PTL DEF Spec

-----------------------------------------------------------------------------
\* What a finished run leaves behind.

\* Rows, and what is written in them once, are not taken back.
LEMMA RowsGrow ==
  ASSUME IInv, [Next]_vars
  PROVE  /\ known \subseteq known' /\ normalized \subseteq normalized' /\ raced \subseteq raced'
         /\ \A k \in Keys : /\ inTxn[k] \subseteq inTxn'[k]
                            /\ txns[k].customer # None => txns'[k].customer # None
         /\ \A s \in SubKeys : /\ inSub[s] \subseteq inSub'[s]
                               /\ subs[s].customer # None => subs'[s].customer # None
<1> DEFINE Grow ==
      /\ known \subseteq known' /\ normalized \subseteq normalized' /\ raced \subseteq raced'
      /\ \A k \in Keys : /\ inTxn[k] \subseteq inTxn'[k]
                         /\ txns[k].customer # None => txns'[k].customer # None
      /\ \A s \in SubKeys : /\ inSub[s] \subseteq inSub'[s]
                            /\ subs[s].customer # None => subs'[s].customer # None
<1> USE DEF At, Ev, tables, history
<1>0. TypeOK /\ RunConsistent
  BY DEF IInv
<1>1. ASSUME NEW x \in Executors, NEW e \in Events, Start(x, e) PROVE Grow
  BY <1>1 DEF Start
<1>2. ASSUME NEW x \in Executors, UpsertTxn(x) PROVE Grow
  <2> DEFINE e == run[x].event
             k == TxnKey(e)
             new == UpsertedTxn(txns[k], e, run[x].logical)
  <2>1. /\ txns' = [txns EXCEPT ![k] = new] /\ inTxn' = [inTxn EXCEPT ![k] = inTxn[k] \cup {e}]
        /\ UNCHANGED <<known, normalized, subs, inSub, raced>>
    BY <1>2 DEF UpsertTxn
  <2>2. new.customer = txns[k].customer
    BY DEF UpsertedTxn
  <2> HIDE DEF new, k, e
  <2> QED BY <1>0, <2>1, <2>2 DEF TypeOK
<1>3. ASSUME NEW x \in Executors, LinkTxnCustomer(x) PROVE Grow
  <2> DEFINE c == Fact[run[x].event].customer
             t == run[x].txn
  <2>1. /\ txns' = [txns EXCEPT ![t].customer = c] /\ c # None
        /\ UNCHANGED <<known, normalized, subs, inTxn, inSub, raced>>
    BY <1>0, <1>3 DEF LinkTxnCustomer, RunConsistent
  <2> HIDE DEF c, t
  <2> QED BY <1>0, <2>1 DEF TypeOK, TxnRecord
<1>4. ASSUME NEW x \in Executors, UpsertSub(x) PROVE Grow
  <2> DEFINE e == run[x].event
             s == Fact[e].sub
             new == UpsertedSub(subs[s], e, run[x].logical, run[x].txn)
  <2>1. /\ subs' = [subs EXCEPT ![s] = new] /\ inSub' = [inSub EXCEPT ![s] = inSub[s] \cup {e}]
        /\ UNCHANGED <<known, normalized, txns, inTxn, raced>>
    BY <1>4 DEF UpsertSub
  <2>2. new.customer = subs[s].customer
    BY DEF UpsertedSub
  <2> HIDE DEF new, s, e
  <2> QED BY <1>0, <2>1, <2>2 DEF TypeOK
<1>5. ASSUME NEW x \in Executors, LinkSubCustomer(x) PROVE Grow
  <2> DEFINE c == Fact[run[x].event].customer
             s == Fact[run[x].event].sub
  <2>1. /\ subs' = [subs EXCEPT ![s].customer = c] /\ c # None
        /\ UNCHANGED <<known, normalized, txns, inTxn, inSub, raced>>
    BY <1>0, <1>5 DEF LinkSubCustomer, RunConsistent
  <2> HIDE DEF c, s
  <2> QED BY <1>0, <2>1 DEF TypeOK, SubRecord
<1>6. ASSUME NEW p \in Products, Confirm(p) PROVE Grow
  <2>1. raced \subseteq raced'
    BY <1>6, ConfirmKeeps DEF CommitConfirm
  <2> QED BY <1>0, <1>6, <2>1, ConfirmRows, ConfirmKeeps
<1>7. ASSUME NEW x \in Executors,
             \/ UpsertProduct(x) \/ ReadMapping(x) \/ InsertEvent(x) \/ NoSubscription(x)
             \/ UpdateDaily(x) \/ Finish(x) \/ Crash(x)
      PROVE  Grow
  BY <1>7 DEF UpsertProduct, ReadMapping, InsertEvent, NoSubscription, UpdateDaily, Finish, Crash
<1>8. CASE UNCHANGED vars
  BY <1>8 DEF vars
<1> QED
  BY <1>1, <1>2, <1>3, <1>4, <1>5, <1>6, <1>7, <1>8 DEF Next, Proceed

\* What a run, given by its locals, has stored by the step it is at.
Did(r) ==
  LET e == r.event
      f == Fact[e]
  IN /\ r.step \notin {"idle", "product"} => f.product \in known \cup {None}
     /\ f.type # "none" =>
          /\ r.step \in {"txn", "txn_customer", "sub", "sub_customer", "metric", "finish"} =>
               e \in normalized
          /\ r.step = "txn_customer" => r.txn = TxnKey(e) /\ e \in inTxn[TxnKey(e)]
          /\ r.step \in {"sub", "sub_customer", "metric", "finish"} /\ HasTxn(e) =>
               /\ e \in inTxn[TxnKey(e)]
               /\ f.customer # None => txns[TxnKey(e)].customer # None
          /\ r.step \in {"sub_customer", "metric", "finish"} /\ HasSub(e) => e \in inSub[f.sub]
          /\ r.step \in {"metric", "finish"} /\ HasSub(e) /\ f.customer # None =>
               subs[f.sub].customer # None

AllDid == (\A x \in Executors : Did(run[x])) /\ DoneIsProjected

LEMMA NextAllDid == IInv /\ AllDid /\ [Next]_vars => AllDid'
<1> SUFFICES ASSUME IInv, AllDid, [Next]_vars PROVE AllDid'
  OBVIOUS
<1> USE DEF At, Ev, tables, history
<1>0. TypeOK /\ RunConsistent
  BY DEF IInv
<1>1. \A e \in Events : TxnKey(e) \in Keys /\ (HasSub(e) => Fact[e].sub \in SubKeys)
  BY KeyTypes DEF HasSub
<1>2. \A x \in Executors : run[x] \in RunRecord /\ (run[x].step # "idle" => run[x].event \in Events)
  BY <1>0 DEF TypeOK, RunConsistent
\* What a run has stored stays stored while others go on.
<1>3. ASSUME NEW x \in Executors, run'[x] = run[x] PROVE Did(run[x])'
  BY <1>1, <1>2, <1>3, RowsGrow DEF AllDid, Did
<1>4. ASSUME done' = done PROVE DoneIsProjected'
  BY <1>0, <1>1, <1>4, RowsGrow DEF AllDid, DoneIsProjected, TypeOK
<1>5. ASSUME NEW x \in Executors, \A y \in Executors \ {x} : run'[y] = run[y],
             Did(run[x])', done' = done
      PROVE  AllDid'
  BY <1>3, <1>4, <1>5 DEF AllDid
\* A run that goes on, and what it has stored more.
<1>6. ASSUME NEW x \in Executors, NEW step, Goto(x, step)
      PROVE  /\ run'[x].step = step /\ run'[x].event = run[x].event /\ run'[x].txn = run[x].txn
             /\ \A y \in Executors \ {x} : run'[y] = run[y]
  BY <1>2, <1>6, <1>0 DEF Goto, TypeOK, RunRecord
<1>7. ASSUME NEW x \in Executors, NEW e \in Events, Start(x, e) PROVE AllDid'
  <2>1. run'[x].step = "product" /\ \A y \in Executors \ {x} : run'[y] = run[y]
    BY <1>0, <1>7 DEF Start, Idle, TypeOK
  <2> QED BY <1>5, <1>7, <2>1 DEF Start, Did
<1>8. ASSUME NEW x \in Executors, UpsertProduct(x) PROVE AllDid'
  <2>1. PICK step \in {"mapping", "event", "finish"} :
          /\ Goto(x, step) /\ (step = "finish" => Fact[run[x].event].type = "none")
    BY <1>8 DEF UpsertProduct, AfterMapping
  <2>2. Fact[run[x].event].product \in known' \cup {None} /\ done' = done
    BY <1>8 DEF UpsertProduct
  <2> QED BY <1>5, <1>6, <2>1, <2>2 DEF Did
<1>9. ASSUME NEW x \in Executors, ReadMapping(x) PROVE AllDid'
  <2> DEFINE lp == mapping[Fact[run[x].event].product]
             step == AfterMapping(run[x].event)
  <2>1. /\ run' = [run EXCEPT ![x].logical = lp, ![x].step = step]
        /\ run[x].step = "mapping" /\ known' = known /\ done' = done
    BY <1>9 DEF ReadMapping
  <2>2. step = "event" \/ (step = "finish" /\ Fact[run[x].event].type = "none")
    BY DEF AfterMapping
  <2> HIDE DEF lp, step
  <2>3. /\ run'[x].step = step /\ run'[x].event = run[x].event
        /\ \A y \in Executors \ {x} : run'[y] = run[y]
    BY <1>0, <1>2, <2>1 DEF TypeOK, RunRecord
  <2>4. Did(run[x])
    BY DEF AllDid
  <2>5. Did(run[x])'
    BY <2>1, <2>2, <2>3, <2>4 DEF Did
  <2> QED BY <1>5, <2>1, <2>3, <2>5
<1>10. ASSUME NEW x \in Executors, InsertEvent(x) PROVE AllDid'
  <2> DEFINE e == run[x].event
             new == e \notin normalized
             step == IF HasTxn(e) THEN "txn" ELSE "sub"
  <2>1. /\ run' = [run EXCEPT ![x].inserted = new, ![x].step = step]
        /\ run[x].step = "event" /\ known' = known /\ done' = done /\ e \in normalized'
    BY <1>10 DEF InsertEvent
  <2>2. step = "txn" \/ (step = "sub" /\ ~HasTxn(e))
    OBVIOUS
  <2> HIDE DEF new, step
  <2>3. /\ run'[x].step = step /\ run'[x].event = run[x].event
        /\ \A y \in Executors \ {x} : run'[y] = run[y]
    BY <1>0, <1>2, <2>1 DEF TypeOK, RunRecord
  <2>4. Did(run[x])
    BY DEF AllDid
  <2>5. Did(run[x])'
    BY <2>1, <2>2, <2>3, <2>4 DEF Did
  <2> QED BY <1>5, <2>1, <2>3, <2>5
<1>11. ASSUME NEW x \in Executors, UpsertTxn(x) PROVE AllDid'
  <2> DEFINE e == run[x].event
             k == TxnKey(e)
             step == IF Fact[e].customer = None THEN "sub" ELSE "txn_customer"
  <2>1. /\ run' = [run EXCEPT ![x].txn = k, ![x].step = step]
        /\ inTxn' = [inTxn EXCEPT ![k] = inTxn[k] \cup {e}]
        /\ run[x].step = "txn" /\ known' = known /\ normalized' = normalized /\ done' = done
    BY <1>11 DEF UpsertTxn
  <2>2. (step = "sub" /\ Fact[e].customer = None) \/ step = "txn_customer"
    OBVIOUS
  <2>3. k \in Keys /\ k = TxnKey(e)
    BY <1>1, <1>2, <2>1
  <2> HIDE DEF k, step
  <2>4. /\ run'[x].step = step /\ run'[x].event = run[x].event /\ run'[x].txn = k
        /\ \A y \in Executors \ {x} : run'[y] = run[y]
    BY <1>0, <1>2, <2>1 DEF TypeOK, RunRecord
  <2>5. e \in inTxn'[k]
    BY <1>0, <2>1, <2>3 DEF TypeOK
  <2>6. Did(run[x])
    BY DEF AllDid
  <2>7. Did(run[x])'
    BY <2>1, <2>2, <2>3, <2>4, <2>5, <2>6 DEF Did
  <2> QED BY <1>5, <2>1, <2>4, <2>7
<1>12. ASSUME NEW x \in Executors, LinkTxnCustomer(x) PROVE AllDid'
  <2> DEFINE e == run[x].event
             c == Fact[e].customer
             t == run[x].txn
  <2>1. /\ txns' = [txns EXCEPT ![t].customer = c] /\ Goto(x, "sub") /\ c # None
        /\ run[x].step = "txn_customer" /\ t # None
        /\ UNCHANGED <<known, normalized, inTxn, done>>
    BY <1>0, <1>12 DEF LinkTxnCustomer, RunConsistent
  <2>2. t \in Keys
    BY <1>2, <2>1 DEF RunRecord
  <2>3. txns'[t].customer = c
    <3> HIDE DEF c, t
    <3> QED BY <1>0, <2>1, <2>2 DEF TypeOK, TxnRecord
  <2>4. Did(run[x])
    BY DEF AllDid
  <2>5. Did(run[x])'
    BY <1>6, <2>1, <2>3, <2>4 DEF Did
  <2> QED BY <1>5, <1>6, <2>1, <2>5
<1>13. ASSUME NEW x \in Executors, UpsertSub(x) PROVE AllDid'
  <2> DEFINE e == run[x].event
             s == Fact[e].sub
  <2>1. PICK step \in {"metric", "finish", "sub_customer"} :
          Goto(x, step) /\ (step # "sub_customer" => Fact[e].customer = None)
    BY <1>13 DEF UpsertSub, AfterSub
  <2>2. /\ inSub' = [inSub EXCEPT ![s] = inSub[s] \cup {e}] /\ run[x].step = "sub"
        /\ UNCHANGED <<known, normalized, txns, inTxn, done>>
    BY <1>13 DEF UpsertSub
  <2>3. e \in inSub'[s]
    BY <1>0, <1>1, <1>2, <1>13, <2>2 DEF UpsertSub, TypeOK
  <2>4. Did(run[x])
    BY DEF AllDid
  <2>5. Did(run[x])'
    BY <1>6, <2>1, <2>2, <2>3, <2>4 DEF Did
  <2> QED BY <1>5, <1>6, <2>1, <2>2, <2>5
<1>14. ASSUME NEW x \in Executors, NoSubscription(x) PROVE AllDid'
  <2>1. PICK step \in {"metric", "finish"} : Goto(x, step)
    BY <1>14 DEF NoSubscription, AfterSub
  <2>2. /\ run[x].step = "sub" /\ ~HasSub(run[x].event)
        /\ UNCHANGED <<known, normalized, txns, inTxn, inSub, subs, done>>
    BY <1>14 DEF NoSubscription
  <2>3. Did(run[x])
    BY DEF AllDid
  <2>4. Did(run[x])'
    BY <1>6, <2>1, <2>2, <2>3 DEF Did
  <2> QED BY <1>5, <1>6, <2>1, <2>2, <2>4
<1>15. ASSUME NEW x \in Executors, LinkSubCustomer(x) PROVE AllDid'
  <2> DEFINE e == run[x].event
             c == Fact[e].customer
             s == Fact[e].sub
  <2>1. PICK step \in {"metric", "finish"} : Goto(x, step)
    BY <1>15 DEF LinkSubCustomer, AfterSub
  <2>2. /\ subs' = [subs EXCEPT ![s].customer = c] /\ c # None /\ run[x].step = "sub_customer"
        /\ UNCHANGED <<known, normalized, txns, inTxn, inSub, done>>
    BY <1>0, <1>15 DEF LinkSubCustomer, RunConsistent
  <2>3. s \in SubKeys
    BY <1>0, <1>2, <2>2, KeyTypes DEF RunConsistent
  <2>4. subs'[s].customer = c
    <3> HIDE DEF c, s
    <3> QED BY <1>0, <2>2, <2>3 DEF TypeOK, SubRecord
  <2>5. Did(run[x])
    BY DEF AllDid
  <2>6. Did(run[x])'
    BY <1>6, <2>1, <2>2, <2>4, <2>5 DEF Did
  <2> QED BY <1>5, <1>6, <2>1, <2>2, <2>6
<1>16. ASSUME NEW x \in Executors, UpdateDaily(x) PROVE AllDid'
  <2>1. /\ Goto(x, "finish") /\ run[x].step = "metric"
        /\ UNCHANGED <<known, normalized, txns, inTxn, inSub, subs, done>>
    BY <1>16 DEF UpdateDaily
  <2>2. Did(run[x])
    BY DEF AllDid
  <2>3. Did(run[x])'
    BY <1>6, <2>1, <2>2 DEF Did
  <2> QED BY <1>5, <1>6, <2>1, <2>3
<1>17. ASSUME NEW x \in Executors, Finish(x) PROVE AllDid'
  <2> DEFINE e == run[x].event
  <2>1. /\ done' = done \cup {e} /\ run'[x].step = "idle" /\ run[x].step = "finish"
        /\ \A y \in Executors \ {x} : run'[y] = run[y]
        /\ UNCHANGED <<known, normalized, txns, inTxn, inSub, subs>>
    BY <1>0, <1>17 DEF Finish, Idle, TypeOK
  <2>2. Did(run[x])
    BY DEF AllDid
  <2>3. \A y \in Executors : Did(run[y])'
    BY <1>3, <2>1 DEF Did
  <2>4. DoneIsProjected'
    BY <2>1, <2>2 DEF AllDid, Did, DoneIsProjected
  <2> QED BY <2>3, <2>4 DEF AllDid
<1>18. ASSUME NEW x \in Executors, Crash(x) PROVE AllDid'
  <2>1. /\ run'[x].step = "idle" /\ done' = done
        /\ \A y \in Executors \ {x} : run'[y] = run[y]
    BY <1>0, <1>18 DEF Crash, Idle, TypeOK
  <2> QED BY <1>5, <2>1 DEF Did
<1>19. CASE run' = run /\ done' = done
  BY <1>3, <1>4, <1>19 DEF AllDid
<1>20. ASSUME NEW p \in Products, Confirm(p) PROVE AllDid'
  BY <1>19, <1>20, ConfirmKeeps
<1>21. CASE UNCHANGED vars
  BY <1>19, <1>21 DEF vars
<1> QED
  BY <1>7, <1>8, <1>9, <1>10, <1>11, <1>12, <1>13, <1>14, <1>15, <1>16, <1>17, <1>18, <1>20, <1>21
  DEF Next, Proceed

\* When a run returns Ok, everything its event stands for is stored, whatever earlier runs
\* of it left out and however others overlapped with it.
THEOREM DoneMeansProjected == Spec => []DoneIsProjected
<1>1. Init => AllDid
  BY DEF Init, AllDid, Did, Idle, DoneIsProjected
<1>2. AllDid => DoneIsProjected
  BY DEF AllDid
<1> QED
  BY <1>1, <1>2, NextAllDid, Invariance, PTL DEF Spec

-----------------------------------------------------------------------------
\* The rows of the subscriptions table.

\* A row of the table shows event e.
Shows(row, e) ==
  LET f == Fact[e]
  IN /\ row.at = f.at
     /\ row.status = SubStatus(f.type)
     /\ row.grace = (f.type = "grace_period_started")
     /\ row.retry = (f.type = "billing_issue")
     /\ row.renews = IF f.renews = None
                       THEN f.type \notin {"cancellation", "expiration"} ELSE f.renews

\* Every row shows a newest event, or has time 0 and none; the transactions that rows and
\* runs refer to have events.
SubRows ==
  /\ \A s \in SubKeys : inSub[s] = {} => subs[s].at = 0
  /\ \A s \in SubKeys : inSub[s] # {} => \E e \in Newest(inSub[s]) : Shows(subs[s], e)
  /\ \A s \in SubKeys : subs[s].latestTxn # None => inTxn[subs[s].latestTxn] # {}
  /\ \A x \in Executors : run[x].txn # None => inTxn[run[x].txn] # {}

\* The parts of a subscription row that only the upsert writes.
SubsKept ==
  /\ inSub' = inSub
  /\ \A s \in SubKeys :
       /\ subs'[s].at = subs[s].at /\ subs'[s].status = subs[s].status
       /\ subs'[s].grace = subs[s].grace /\ subs'[s].retry = subs[s].retry
       /\ subs'[s].renews = subs[s].renews /\ subs'[s].latestTxn = subs[s].latestTxn

LEMMA OnlyUpsertWritesSubs ==
  ASSUME TypeOK, [Next]_vars
  PROVE  SubsKept \/ \E x \in Executors : UpsertSub(x)
<1> USE DEF At, Ev, tables, history
<1>1. ASSUME NEW x \in Executors, NEW e \in Events, Start(x, e) PROVE SubsKept
  BY <1>1 DEF Start, SubsKept
<1>2. ASSUME NEW x \in Executors, Proceed(x) \/ Crash(x)
      PROVE  SubsKept \/ UpsertSub(x)
  <2>1. ASSUME LinkSubCustomer(x) PROVE SubsKept
    <3> DEFINE c == Fact[run[x].event].customer
               s == Fact[run[x].event].sub
    <3>1. subs' = [subs EXCEPT ![s].customer = c] /\ inSub' = inSub
      BY <2>1 DEF LinkSubCustomer
    <3> HIDE DEF c, s
    <3> QED BY <3>1 DEF SubsKept, TypeOK, SubRecord
  <2> QED
    BY <1>2, <2>1 DEF Proceed, Crash, UpsertProduct, ReadMapping, InsertEvent, UpsertTxn,
                      LinkTxnCustomer, NoSubscription, UpdateDaily, Finish, SubsKept
<1>3. ASSUME NEW p \in Products, Confirm(p) PROVE SubsKept
  BY <1>3, ConfirmRows, ConfirmKeeps DEF SubsKept
<1>4. ASSUME UNCHANGED vars PROVE SubsKept
  BY <1>4 DEF vars, SubsKept
<1> QED
  BY <1>1, <1>2, <1>3, <1>4 DEF Next

\* A run knows a transaction only once it has written it.
LEMMA RunTxn ==
  ASSUME IInv, [Next]_vars, NEW x \in Executors, run'[x].txn # None
  PROVE  run'[x].txn = run[x].txn \/ inTxn'[run'[x].txn] # {}
<1> USE DEF At, Ev, tables, history
<1>0. TypeOK /\ RunConsistent /\ run[x] \in RunRecord
  BY DEF IInv, TypeOK
<1>1. ASSUME NEW y \in Executors, NEW e \in Events, Start(y, e) PROVE run'[x].txn = run[x].txn
  BY <1>0, <1>1 DEF Start, Idle, TypeOK
<1>2. ASSUME NEW y \in Executors, Finish(y) \/ Crash(y) PROVE run'[x].txn = run[x].txn
  BY <1>0, <1>2 DEF Finish, Crash, Idle, TypeOK
<1>3. ASSUME NEW y \in Executors, NEW step, Goto(y, step) PROVE run'[x].txn = run[x].txn
  BY <1>0, <1>3 DEF Goto, TypeOK, RunRecord
<1>4. ASSUME NEW y \in Executors, InsertEvent(y) PROVE run'[x].txn = run[x].txn
  <2> DEFINE new == run[y].event \notin normalized
             step == IF HasTxn(run[y].event) THEN "txn" ELSE "sub"
  <2>1. run' = [run EXCEPT ![y].inserted = new, ![y].step = step]
    BY <1>4 DEF InsertEvent
  <2> HIDE DEF new, step
  <2> QED BY <1>0, <2>1 DEF TypeOK, RunRecord
<1>5. ASSUME NEW y \in Executors, ReadMapping(y) PROVE run'[x].txn = run[x].txn
  <2> DEFINE lp == mapping[Fact[run[y].event].product]
             step == AfterMapping(run[y].event)
  <2>1. run' = [run EXCEPT ![y].logical = lp, ![y].step = step]
    BY <1>5 DEF ReadMapping
  <2> HIDE DEF lp, step
  <2> QED BY <1>0, <2>1 DEF TypeOK, RunRecord
<1>6. ASSUME NEW y \in Executors, UpsertTxn(y)
      PROVE  run'[x].txn = run[x].txn \/ inTxn'[run'[x].txn] # {}
  <2> DEFINE e == run[y].event
             k == TxnKey(e)
             step == IF Fact[e].customer = None THEN "sub" ELSE "txn_customer"
  <2>1. /\ run' = [run EXCEPT ![y].txn = k, ![y].step = step]
        /\ inTxn' = [inTxn EXCEPT ![k] = inTxn[k] \cup {e}]
    BY <1>6 DEF UpsertTxn
  <2>2. k \in Keys
    BY <1>0, <1>6, KeyTypes DEF UpsertTxn, RunConsistent
  <2> HIDE DEF k, step, e
  <2>3. x # y => run'[x] = run[x]
    BY <1>0, <2>1 DEF TypeOK
  <2>4. x = y => run'[x].txn = k
    BY <1>0, <2>1 DEF TypeOK, RunRecord
  <2>5. inTxn'[k] # {}
    BY <1>0, <2>1, <2>2 DEF TypeOK
  <2> QED BY <2>3, <2>4, <2>5
<1>7. CASE run' = run
  BY <1>7
<1>8. ASSUME NEW y \in Executors, Proceed(y)
      PROVE  run'[x].txn = run[x].txn \/ inTxn'[run'[x].txn] # {}
  <2>1. ASSUME \/ UpsertProduct(y) \/ LinkTxnCustomer(y) \/ UpsertSub(y)
               \/ NoSubscription(y) \/ LinkSubCustomer(y) \/ UpdateDaily(y)
        PROVE  \E step : Goto(y, step)
    BY <2>1 DEF UpsertProduct, LinkTxnCustomer, UpsertSub, NoSubscription, LinkSubCustomer, UpdateDaily
  <2> QED BY <1>2, <1>3, <1>4, <1>5, <1>6, <1>8, <2>1 DEF Proceed
<1> QED
  BY <1>1, <1>2, <1>7, <1>8, ConfirmKeeps DEF Next, vars

\* The upsert of a subscription makes the row show the event, or leaves what it shows.
LEMMA UpsertedShows ==
  ASSUME NEW e \in Events, NEW row \in SubRecord, NEW lp, NEW txn
  PROVE  LET new == UpsertedSub(row, e, lp, txn)
         IN /\ Wins(Fact[e], row) =>
                 Shows(new, e) /\ new.latestTxn = Coalesce(txn, row.latestTxn)
            /\ ~Wins(Fact[e], row) =>
                 /\ new.latestTxn = row.latestTxn /\ new.at = row.at
                 /\ \A d \in Events : Shows(row, d) => Shows(new, d)
<1> DEFINE new == UpsertedSub(row, e, lp, txn)
<1>1. CASE Wins(Fact[e], row)
  <2>1. /\ new.at = Fact[e].at /\ new.status = SubStatus(Fact[e].type)
        /\ new.latestTxn = Coalesce(txn, row.latestTxn)
    BY <1>1 DEF UpsertedSub
  <2>2. new.grace = (Fact[e].type = "grace_period_started")
    BY <1>1 DEF UpsertedSub
  <2>3. new.retry = (Fact[e].type = "billing_issue")
    BY <1>1 DEF UpsertedSub
  <2>4. new.renews = IF Fact[e].renews = None
                       THEN Fact[e].type \notin {"cancellation", "expiration"} ELSE Fact[e].renews
    BY <1>1 DEF UpsertedSub
  <2> HIDE DEF new
  <2>5. Shows(new, e)
    BY <2>1, <2>2, <2>3, <2>4 DEF Shows
  <2> QED BY <1>1, <2>1, <2>5 DEF new
<1>2. CASE ~Wins(Fact[e], row)
  <2>1. /\ new.at = row.at /\ new.status = row.status /\ new.latestTxn = row.latestTxn
        /\ new.grace = row.grace /\ new.retry = row.retry /\ new.renews = row.renews
    BY <1>2 DEF UpsertedSub, SubRecord
  <2> HIDE DEF new
  <2>2. \A d \in Events : Shows(row, d) => Shows(new, d)
    BY <2>1 DEF Shows
  <2> QED BY <1>2, <2>1, <2>2 DEF new
<1> QED BY <1>1, <1>2

LEMMA NextSubRows == IInv /\ SubRows /\ [Next]_vars => SubRows'
<1> SUFFICES ASSUME IInv, SubRows, [Next]_vars PROVE SubRows'
  OBVIOUS
<1>0. TypeOK /\ TypeOK' /\ RunConsistent
  BY NextIInv DEF IInv
<1>1. \A k \in Keys : inTxn[k] # {} => inTxn'[k] # {}
  BY RowsGrow
<1>2. \A x \in Executors : run'[x].txn # None => inTxn'[run'[x].txn] # {}
  <2> SUFFICES ASSUME NEW x \in Executors, run'[x].txn # None, run'[x].txn = run[x].txn
               PROVE  inTxn'[run[x].txn] # {}
    BY RunTxn
  <2>1. run[x].txn \in Keys /\ inTxn[run[x].txn] # {}
    BY <1>0 DEF SubRows, TypeOK, RunRecord
  <2> QED BY <1>1, <2>1
<1>3. CASE SubsKept
  <2>1. \A s \in SubKeys : subs[s].latestTxn \in Keys \cup {None}
    BY <1>0 DEF TypeOK, SubRecord
  <2>2. \A s \in SubKeys : subs'[s].latestTxn # None => inTxn'[subs'[s].latestTxn] # {}
    BY <1>1, <1>3, <2>1 DEF SubsKept, SubRows
  <2>3. \A s \in SubKeys : inSub'[s] # {} => \E e \in Newest(inSub'[s]) : Shows(subs'[s], e)
    BY <1>3 DEF SubsKept, SubRows, Shows
  <2> QED BY <1>2, <1>3, <2>2, <2>3 DEF SubsKept, SubRows, Shows, Newest
<1>4. ASSUME NEW x \in Executors, UpsertSub(x) PROVE SubRows'
  <2> DEFINE e == run[x].event
             f == Fact[e]
             s == f.sub
             txn == run[x].txn
             row == subs[s]
             new == UpsertedSub(row, e, run[x].logical, txn)
             S == inSub[s] \cup {e}
  <2>1. e \in Events /\ s \in SubKeys /\ txn \in Keys \cup {None}
    BY <1>0, <1>4, KeyTypes DEF UpsertSub, HasSub, At, Ev, RunConsistent, TypeOK, RunRecord
  <2>2. /\ row \in SubRecord /\ row.at \in Nat /\ row.latestTxn \in Keys \cup {None}
        /\ f.at \in Nat /\ f.at > 0
    BY <1>0, <2>1, KeyTypes DEF TypeOK, SubRecord
  <2>3. /\ subs' = [subs EXCEPT ![s] = new] /\ inSub' = [inSub EXCEPT ![s] = S]
        /\ inTxn' = inTxn
    BY <1>4 DEF UpsertSub, Ev
  <2>4. /\ subs'[s] = new /\ inSub'[s] = S
        /\ \A q \in SubKeys : q # s => subs'[q] = subs[q] /\ inSub'[q] = inSub[q]
    BY <1>0, <2>1, <2>3 DEF TypeOK
  <2>5. /\ f.at >= row.at =>
             Shows(new, e) /\ new.latestTxn = Coalesce(txn, row.latestTxn)
        /\ ~(f.at >= row.at) =>
             /\ new.latestTxn = row.latestTxn
             /\ \A d \in Events : Shows(row, d) => Shows(new, d)
    BY <2>1, <2>2, UpsertedShows DEF Wins
  <2>6. inSub[s] \subseteq Events /\ \A d \in S : Fact[d].at \in Nat
    BY <1>0, <2>1, KeyTypes DEF TypeOK
  <2>13. row = subs[s] /\ S = inSub[s] \cup {e} /\ f = Fact[e]
    OBVIOUS
  <2> HIDE DEF new, S, row, s, f
  <2>7. \E d \in Newest(S) : Shows(new, d)
    <3>1. CASE f.at >= row.at
      <4>1. \A d \in inSub[s] : Fact[d].at <= row.at
        <5> SUFFICES ASSUME NEW d \in inSub[s] PROVE Fact[d].at <= row.at
          OBVIOUS
        <5>1. PICK w \in Newest(inSub[s]) : Shows(row, w)
          BY <2>1, <2>13 DEF SubRows
        <5> QED BY <5>1 DEF Newest, Shows
      <4>2. e \in Newest(S)
        BY <3>1, <4>1, <2>2, <2>6, <2>13 DEF Newest
      <4> QED BY <3>1, <4>2, <2>5
    <3>2. CASE ~(f.at >= row.at)
      <4>1. PICK w \in Newest(inSub[s]) : Shows(row, w)
        BY <3>2, <2>1, <2>2, <2>13 DEF SubRows
      <4>2. w \in Newest(S) /\ w \in Events
        BY <3>2, <4>1, <2>2, <2>6, <2>13 DEF Newest, Shows
      <4> QED BY <3>2, <4>1, <4>2, <2>5
    <3> QED BY <3>1, <3>2
  <2>8. new.latestTxn # None => inTxn[new.latestTxn] # {}
    BY <2>1, <2>5, <2>13 DEF SubRows, Coalesce
  <2>9. S # {}
    BY <2>13
  <2>10. \A q \in SubKeys : inSub'[q] = {} => subs'[q].at = 0
    BY <2>4, <2>9 DEF SubRows
  <2>11. \A q \in SubKeys : inSub'[q] # {} => \E d \in Newest(inSub'[q]) : Shows(subs'[q], d)
    BY <2>4, <2>7 DEF SubRows
  <2>12. \A q \in SubKeys : subs'[q].latestTxn # None => inTxn'[subs'[q].latestTxn] # {}
    BY <2>3, <2>4, <2>8 DEF SubRows
  <2> QED BY <1>2, <2>10, <2>11, <2>12 DEF SubRows, Newest, Shows
<1> QED
  BY <1>0, <1>3, <1>4, OnlyUpsertWritesSubs

\* A subscription's status, renewal, grace and billing flags are those of one newest of the
\* events applied to it, in any order, and its latest transaction exists.
THEOREM SubscriptionsShowNewest == Spec => []SubShowsNewest
<1>1. Init => SubRows
  BY DEF Init, SubRows, NoSub, Idle
<1>2. IInv /\ SubRows => SubShowsNewest
  <2> SUFFICES ASSUME IInv, SubRows, NEW s \in SubKeys, inSub[s] # {}
               PROVE  /\ \E e \in Newest(inSub[s]) : Shows(subs[s], e)
                      /\ subs[s].latestTxn # None => txns[subs[s].latestTxn].latest # None
    BY DEF SubShowsNewest, Shows
  <2>1. subs[s].latestTxn \in Keys \cup {None}
    BY DEF IInv, TypeOK, SubRecord
  <2> QED BY <2>1 DEF SubRows, IInv, TxnShowsNewest
<1> QED
  BY <1>1, <1>2, NextSubRows, Invariance, PTL DEF Spec

-----------------------------------------------------------------------------
\* Rows and the mapping of their product.

\* All of S are of product p.
Only(S, p) == S # {} /\ \A e \in S : Fact[e].product = p

\* No event of S was being projected while its product was confirmed.
Calm(S) == \A e \in S : e \notin raced

\* A row of only one product has that product; a run that goes on with the mapping it has
\* read, and that no confirmation overtook, has the mapping that is active.
Mapped ==
  /\ \A e \in Events : e \notin normalized => logical[e] = None
  /\ \A k \in Keys : inTxn[k] = {} => txns[k].product = None /\ txns[k].logical = None
  /\ \A s \in SubKeys : inSub[s] = {} => subs[s].product = None /\ subs[s].logical = None
  /\ \A p \in Products, k \in Keys : Only(inTxn[k], p) => txns[k].product = p
  /\ \A p \in Products, s \in SubKeys : Only(inSub[s], p) => subs[s].product = p
  /\ \A p \in Products, x \in Executors :
       HasRead(x, p) /\ run[x].event \notin raced => run[x].logical = mapping[p]

\* The parts of RowsFollowMapping.
EventsFollow ==
  \A p \in Products, e \in normalized :
    Fact[e].product = p /\ e \notin raced => logical[e] = mapping[p]
TxnsFollow ==
  \A p \in Products, k \in Keys :
    Only(inTxn[k], p) /\ Calm(inTxn[k]) => txns[k].logical = mapping[p]
SubsFollow ==
  \A p \in Products, s \in SubKeys :
    Only(inSub[s], p) /\ Calm(inSub[s]) => subs[s].logical = mapping[p]

Following == Mapped /\ EventsFollow /\ TxnsFollow /\ SubsFollow

LEMMA FollowingIsIt == Following => RowsFollowMapping
  BY DEF Following, EventsFollow, TxnsFollow, SubsFollow, RowsFollowMapping, Only, Calm

\* What an open confirmation has found: a row of its product that it has not locked holds
\* an event that it has noted as overtaken, and so do the runs that have read the mapping.
Noted ==
  \A p \in Products :
    /\ \A k \in confirm[p].txns : txns[k].product = p
    /\ \A s \in confirm[p].subs : subs[s].product = p
    /\ \A e \in confirm[p].events : e \in normalized /\ Fact[e].product = p
    /\ Scanning(p) =>
         /\ \A x \in Executors : HasRead(x, p) => run[x].event \in overtaken[p]
         /\ \A k \in Keys : Only(inTxn[k], p) =>
              k \in confirm[p].txns \/ \E e \in inTxn[k] : e \in overtaken[p]
    /\ confirm[p].step \in {"events", "commit"} =>
         \A s \in SubKeys : Only(inSub[s], p) =>
           s \in confirm[p].subs \/ \E e \in inSub[s] : e \in overtaken[p]
    /\ confirm[p].step = "commit" =>
         \A e \in normalized : Fact[e].product = p => e \in confirm[p].events \/ e \in overtaken[p]

\* A step of a run keeps that, if what it reads or writes during a confirmation is noted.
LEMMA NotedKept ==
  ASSUME TypeOK, Noted, confirm' = confirm, normalized \subseteq normalized',
         \A p \in Products : overtaken[p] \subseteq overtaken'[p],
         \A p \in Products, x \in Executors :
           Scanning(p) /\ HasRead(x, p)' => run'[x].event \in overtaken'[p],
         \A p \in Products, k \in Keys : txns[k].product = p => txns'[k].product = p,
         \A p \in Products, s \in SubKeys : subs[s].product = p => subs'[s].product = p,
         \A p \in Products, k \in Keys :
           Scanning(p) /\ Only(inTxn'[k], p) =>
             inTxn'[k] = inTxn[k] \/ \E e \in inTxn'[k] : e \in overtaken'[p],
         \A p \in Products, s \in SubKeys :
           Scanning(p) /\ Only(inSub'[s], p) =>
             inSub'[s] = inSub[s] \/ \E e \in inSub'[s] : e \in overtaken'[p],
         \A p \in Products : \A e \in normalized' :
           Scanning(p) /\ Fact[e].product = p => e \in normalized \/ e \in overtaken'[p]
  PROVE  Noted'
<1> SUFFICES ASSUME NEW p \in Products
             PROVE  /\ \A k \in confirm[p].txns : txns'[k].product = p
                    /\ \A s \in confirm[p].subs : subs'[s].product = p
                    /\ \A e \in confirm[p].events : e \in normalized' /\ Fact[e].product = p
                    /\ Scanning(p) =>
                         /\ \A x \in Executors : HasRead(x, p)' => run'[x].event \in overtaken'[p]
                         /\ \A k \in Keys : Only(inTxn'[k], p) =>
                              k \in confirm[p].txns \/ \E e \in inTxn'[k] : e \in overtaken'[p]
                    /\ confirm[p].step \in {"events", "commit"} =>
                         \A s \in SubKeys : Only(inSub'[s], p) =>
                           s \in confirm[p].subs \/ \E e \in inSub'[s] : e \in overtaken'[p]
                    /\ confirm[p].step = "commit" =>
                         \A e \in normalized' : Fact[e].product = p =>
                           e \in confirm[p].events \/ e \in overtaken'[p]
  BY DEF Noted, Scanning, Only
<1>1. confirm[p].txns \subseteq Keys /\ confirm[p].subs \subseteq SubKeys
  BY DEF TypeOK, ConfirmRecord
<1>2. /\ \A k \in confirm[p].txns : txns'[k].product = p
      /\ \A s \in confirm[p].subs : subs'[s].product = p
      /\ \A e \in confirm[p].events : e \in normalized' /\ Fact[e].product = p
  BY <1>1 DEF Noted
<1>3. ASSUME Scanning(p), NEW k \in Keys, Only(inTxn'[k], p)
      PROVE  k \in confirm[p].txns \/ \E e \in inTxn'[k] : e \in overtaken'[p]
  <2>1. CASE inTxn'[k] = inTxn[k]
    BY <1>3, <2>1 DEF Noted
  <2> QED BY <1>3, <2>1
<1>4. ASSUME confirm[p].step \in {"events", "commit"}, NEW s \in SubKeys, Only(inSub'[s], p)
      PROVE  s \in confirm[p].subs \/ \E e \in inSub'[s] : e \in overtaken'[p]
  <2>1. CASE inSub'[s] = inSub[s]
    BY <1>4, <2>1 DEF Noted
  <2> QED BY <1>4, <2>1 DEF Scanning
<1>5. ASSUME confirm[p].step = "commit", NEW e \in normalized', Fact[e].product = p
      PROVE  e \in confirm[p].events \/ e \in overtaken'[p]
  <2>1. e \in normalized \/ e \in overtaken'[p]
    BY <1>5 DEF Scanning
  <2> QED BY <1>5, <2>1 DEF Noted
<1> QED
  BY <1>2, <1>3, <1>4, <1>5

\* A step that writes no row, and moves a run on with the mapping that is active, if it has
\* read it.
LEMMA MovesOn ==
  ASSUME TypeOK, Following, NEW x \in Executors,
         \A y \in Executors \ {x} : run'[y] = run[y],
         \A p \in Products : HasRead(x, p)' /\ run'[x].event \notin raced
                               => run'[x].logical = mapping[p],
         UNCHANGED <<mapping, normalized, logical, inTxn, inSub, raced>>,
         \A k \in Keys : txns'[k].product = txns[k].product /\ txns'[k].logical = txns[k].logical,
         \A s \in SubKeys : subs'[s].product = subs[s].product /\ subs'[s].logical = subs[s].logical
  PROVE  Following'
<1> USE DEF Following, Mapped
<1>1. \A p \in Products, y \in Executors :
        HasRead(y, p)' /\ run'[y].event \notin raced' => run'[y].logical = mapping'[p]
  BY DEF HasRead, Ev
<1>2. Mapped'
  BY <1>1 DEF Only
<1>3. EventsFollow' /\ TxnsFollow' /\ SubsFollow'
  BY DEF EventsFollow, TxnsFollow, SubsFollow, Only, Calm
<1> QED BY <1>2, <1>3

LEMMA NextFollowing == IInv /\ Following /\ Noted /\ [Next]_vars => Following'
<1> SUFFICES ASSUME IInv, Following, Noted, [Next]_vars PROVE Following'
  OBVIOUS
<1> USE DEF At, Ev, tables, history
<1>0. TypeOK /\ RunConsistent /\ TxnShowsNewest
  BY DEF IInv
<1>1. \A x \in Executors : run[x] \in RunRecord /\ (run[x].step # "idle" => run[x].event \in Events)
  BY <1>0 DEF TypeOK, RunConsistent
<1>2. \A x \in Executors, p \in Products :
        HasRead(x, p) /\ run[x].event \notin raced => run[x].logical = mapping[p]
  BY DEF Following, Mapped
\* A run that goes on with the mapping it has read before.
<1>3. ASSUME NEW x \in Executors, NEW step, Goto(x, step),
             \/ run[x].step \in {"event", "txn", "txn_customer", "sub"}
             \/ step \in {"idle", "product", "mapping", "metric", "finish"}
             \/ Fact[run[x].event].product = None,
             UNCHANGED <<mapping, normalized, logical, inTxn, inSub, raced>>,
             \A k \in Keys : txns'[k].product = txns[k].product /\ txns'[k].logical = txns[k].logical,
             \A s \in SubKeys : subs'[s].product = subs[s].product /\ subs'[s].logical = subs[s].logical
      PROVE  Following'
  <2>1. /\ run'[x].step = step /\ run'[x].event = run[x].event /\ run'[x].logical = run[x].logical
        /\ \A y \in Executors \ {x} : run'[y] = run[y]
    BY <1>0, <1>1, <1>3 DEF Goto, TypeOK, RunRecord
  <2>2. \A p \in Products : HasRead(x, p)' /\ run'[x].event \notin raced => run'[x].logical = mapping[p]
    BY <1>2, <1>3, <2>1 DEF HasRead
  <2> QED BY <1>0, <1>3, <2>1, <2>2, MovesOn
<1>4. ASSUME NEW x \in Executors, run'[x].step \in {"idle", "product"},
             \A y \in Executors \ {x} : run'[y] = run[y],
             UNCHANGED <<mapping, normalized, logical, inTxn, inSub, raced, txns, subs>>
      PROVE  Following'
  <2>1. \A p \in Products : ~HasRead(x, p)'
    BY <1>4 DEF HasRead
  <2> QED BY <1>0, <1>4, <2>1, MovesOn
<1>5. ASSUME NEW x \in Executors, UpsertProduct(x) PROVE Following'
  <2>1. PICK step : Goto(x, step) /\ (step = "mapping" \/ Fact[run[x].event].product = None)
    BY <1>5 DEF UpsertProduct
  <2>2. UNCHANGED <<mapping, normalized, logical, inTxn, inSub, raced, txns, subs>>
    BY <1>5 DEF UpsertProduct
  <2> QED BY <1>3, <2>1, <2>2
<1>6. ASSUME NEW x \in Executors, ReadMapping(x) PROVE Following'
  <2> DEFINE lp == mapping[Fact[run[x].event].product]
             step == AfterMapping(run[x].event)
  <2>1. /\ run' = [run EXCEPT ![x].logical = lp, ![x].step = step]
        /\ UNCHANGED <<mapping, normalized, logical, inTxn, inSub, raced, txns, subs>>
    BY <1>6 DEF ReadMapping
  <2>2. lp = mapping[Fact[run[x].event].product]
    OBVIOUS
  <2> HIDE DEF lp, step
  <2>3. /\ run'[x].event = run[x].event /\ run'[x].logical = lp
        /\ \A y \in Executors \ {x} : run'[y] = run[y]
    BY <1>0, <1>1, <2>1 DEF TypeOK, RunRecord
  <2>4. \A p \in Products : HasRead(x, p)' => run'[x].logical = mapping[p]
    BY <2>2, <2>3 DEF HasRead
  <2> QED BY <1>0, <2>1, <2>3, <2>4, MovesOn
<1>7. ASSUME NEW x \in Executors, LinkTxnCustomer(x) PROVE Following'
  <2> DEFINE c == Fact[run[x].event].customer
             t == run[x].txn
  <2>1. /\ txns' = [txns EXCEPT ![t].customer = c] /\ Goto(x, "sub")
        /\ run[x].step = "txn_customer"
        /\ UNCHANGED <<mapping, normalized, logical, inTxn, inSub, raced, subs>>
    BY <1>7 DEF LinkTxnCustomer
  <2> HIDE DEF c, t
  <2>2. \A k \in Keys : txns'[k].product = txns[k].product /\ txns'[k].logical = txns[k].logical
    BY <1>0, <2>1 DEF TypeOK, TxnRecord
  <2> QED BY <1>3, <2>1, <2>2
<1>8. ASSUME NEW x \in Executors, LinkSubCustomer(x) PROVE Following'
  <2> DEFINE c == Fact[run[x].event].customer
             s == Fact[run[x].event].sub
  <2>1. /\ subs' = [subs EXCEPT ![s].customer = c] /\ Goto(x, AfterSub(x))
        /\ AfterSub(x) \in {"metric", "finish"}
        /\ UNCHANGED <<mapping, normalized, logical, inTxn, inSub, raced, txns>>
    BY <1>8 DEF LinkSubCustomer, AfterSub
  <2> HIDE DEF c, s
  <2>2. \A q \in SubKeys : subs'[q].product = subs[q].product /\ subs'[q].logical = subs[q].logical
    BY <1>0, <2>1 DEF TypeOK, SubRecord
  <2> QED BY <1>3, <2>1, <2>2
<1>9. ASSUME NEW x \in Executors, NoSubscription(x) \/ UpdateDaily(x) PROVE Following'
  <2>1. PICK step : Goto(x, step) /\ (run[x].step = "sub" \/ step = "finish")
    BY <1>9 DEF NoSubscription, UpdateDaily
  <2>2. /\ UNCHANGED <<mapping, normalized, logical, inTxn, inSub, raced, txns, subs>>
    BY <1>9 DEF NoSubscription, UpdateDaily
  <2> QED BY <1>3, <2>1, <2>2
\* A statement of a run that writes rows: its mapping is the active one, if no confirmation
\* overtook it, and no run reads or forgets a mapping.
<1>10. ASSUME NEW x \in Executors, run[x].step \in {"event", "txn", "sub"},
              run'[x].event = run[x].event, run'[x].logical = run[x].logical,
              \A y \in Executors \ {x} : run'[y] = run[y],
              UNCHANGED <<mapping, raced>>
       PROVE  /\ run[x].event \in Events
              /\ \A p \in Products : Fact[run[x].event].product = p /\ run[x].event \notin raced
                                       => run[x].logical = mapping[p]
              /\ \A p \in Products, y \in Executors :
                   HasRead(y, p)' /\ run'[y].event \notin raced' => run'[y].logical = mapping'[p]
  <2>1. \A p \in Products : Fact[run[x].event].product = p /\ run[x].event \notin raced
                              => run[x].logical = mapping[p]
    BY <1>2, <1>10 DEF HasRead
  <2>2. \A p \in Products, y \in Executors :
          HasRead(y, p)' /\ run'[y].event \notin raced' => run'[y].logical = mapping'[p]
    BY <1>2, <1>10, <2>1 DEF HasRead
  <2> QED BY <1>1, <1>10, <2>1, <2>2
<1>11. ASSUME NEW x \in Executors, InsertEvent(x) PROVE Following'
  <2> DEFINE e == run[x].event
             new == e \notin normalized
             step == IF HasTxn(e) THEN "txn" ELSE "sub"
  <2>1. /\ run' = [run EXCEPT ![x].inserted = new, ![x].step = step]
        /\ normalized' = normalized \cup {e} /\ run[x].step = "event"
        /\ logical' = [logical EXCEPT ![e] = Coalesce(logical[e], run[x].logical)]
        /\ UNCHANGED <<mapping, txns, subs, inTxn, inSub, raced>>
    BY <1>11 DEF InsertEvent
  <2> HIDE DEF new, step
  <2>2. /\ run'[x].event = run[x].event /\ run'[x].logical = run[x].logical
        /\ \A y \in Executors \ {x} : run'[y] = run[y]
    BY <1>0, <1>1, <2>1 DEF TypeOK, RunRecord
  <2>3. /\ e \in Events
        /\ \A p \in Products : Fact[e].product = p /\ e \notin raced => run[x].logical = mapping[p]
        /\ \A p \in Products, y \in Executors :
             HasRead(y, p)' /\ run'[y].event \notin raced' => run'[y].logical = mapping'[p]
    BY <1>10, <2>1, <2>2
  <2>4. /\ logical'[e] = Coalesce(logical[e], run[x].logical)
        /\ \A d \in Events : d # e => logical'[d] = logical[d]
    BY <1>0, <2>1, <2>3 DEF TypeOK
  <2> HIDE DEF e
  <2>5. EventsFollow'
    <3> SUFFICES ASSUME NEW p \in Products, NEW d \in normalized', Fact[d].product = p, d \notin raced
                 PROVE  logical'[d] = mapping[p]
      BY <2>1 DEF EventsFollow
    <3>1. CASE d = e
      <4>1. logical[e] = mapping[p] \/ logical[e] = None
        BY <2>3, <3>1 DEF Following, Mapped, EventsFollow
      <4> QED BY <2>3, <2>4, <3>1, <4>1 DEF Coalesce
    <3>2. CASE d # e
      BY <1>0, <2>1, <2>4, <3>2 DEF Following, EventsFollow, TypeOK
    <3> QED BY <3>1, <3>2
  <2>6. Mapped'
    BY <2>1, <2>3, <2>4 DEF Following, Mapped, Only
  <2>7. TxnsFollow' /\ SubsFollow'
    BY <2>1 DEF Following, TxnsFollow, SubsFollow, Only, Calm
  <2> QED BY <2>5, <2>6, <2>7 DEF Following
<1>12. ASSUME NEW x \in Executors, UpsertTxn(x) PROVE Following'
  <2> DEFINE e == run[x].event
             k == TxnKey(e)
             step == IF Fact[e].customer = None THEN "sub" ELSE "txn_customer"
             lp == run[x].logical
             new == UpsertedTxn(txns[k], e, lp)
  <2>1. /\ run' = [run EXCEPT ![x].txn = k, ![x].step = step]
        /\ txns' = [txns EXCEPT ![k] = new] /\ inTxn' = [inTxn EXCEPT ![k] = inTxn[k] \cup {e}]
        /\ run[x].step = "txn"
        /\ UNCHANGED <<mapping, normalized, logical, subs, inSub, raced>>
    BY <1>12 DEF UpsertTxn
  <2>2. /\ new.product = IF txns[k].latest = None THEN Fact[e].product ELSE txns[k].product
        /\ new.logical = Coalesce(txns[k].logical, lp)
    BY DEF UpsertedTxn
  <2>3. k = TxnKey(e)
    OBVIOUS
  <2> HIDE DEF k, step, new
  <2>4. /\ run'[x].event = run[x].event /\ run'[x].logical = run[x].logical
        /\ \A y \in Executors \ {x} : run'[y] = run[y]
    BY <1>0, <1>1, <2>1 DEF TypeOK, RunRecord
  <2>5. /\ e \in Events
        /\ \A p \in Products : Fact[e].product = p /\ e \notin raced => lp = mapping[p]
        /\ \A p \in Products, y \in Executors :
             HasRead(y, p)' /\ run'[y].event \notin raced' => run'[y].logical = mapping'[p]
    BY <1>10, <2>1, <2>4
  <2>6. k \in Keys
    BY <2>3, <2>5, KeyTypes
  <2> HIDE DEF e, lp
  <2>7. /\ txns'[k] = new /\ inTxn'[k] = inTxn[k] \cup {e}
        /\ \A j \in Keys : j # k => txns'[j] = txns[j] /\ inTxn'[j] = inTxn[j]
    BY <1>0, <2>1, <2>6 DEF TypeOK
  <2>8. \A p \in Products : Only(inTxn'[k], p) => new.product = p
    BY <1>0, <2>2, <2>6, <2>7 DEF Following, Mapped, Only, TxnShowsNewest
  <2>9. \A p \in Products : Only(inTxn'[k], p) /\ Calm(inTxn'[k]) => new.logical = mapping[p]
    <3> SUFFICES ASSUME NEW p \in Products, Only(inTxn'[k], p), Calm(inTxn'[k])
                 PROVE  new.logical = mapping[p]
      OBVIOUS
    <3>1. lp = mapping[p]
      BY <2>1, <2>5, <2>7 DEF Only, Calm
    <3>2. txns[k].logical = mapping[p] \/ txns[k].logical = None
      <4>1. CASE inTxn[k] = {}
        BY <2>6, <4>1 DEF Following, Mapped
      <4>2. CASE inTxn[k] # {}
        BY <2>1, <2>6, <2>7, <4>2 DEF Following, TxnsFollow, Only, Calm
      <4> QED BY <4>1, <4>2
    <3> QED BY <2>2, <3>1, <3>2 DEF Coalesce
  <2>10. Mapped'
    <3>1. \A j \in Keys : inTxn'[j] = {} => txns'[j].product = None /\ txns'[j].logical = None
      BY <2>7 DEF Following, Mapped
    <3>2. \A p \in Products, j \in Keys : Only(inTxn'[j], p) => txns'[j].product = p
      BY <2>7, <2>8 DEF Following, Mapped
    <3> QED BY <2>1, <2>5, <3>1, <3>2 DEF Following, Mapped, Only
  <2>11. TxnsFollow'
    BY <2>1, <2>7, <2>9 DEF Following, TxnsFollow, Only, Calm
  <2>12. EventsFollow' /\ SubsFollow'
    BY <2>1 DEF Following, EventsFollow, SubsFollow, Only, Calm
  <2> QED BY <2>10, <2>11, <2>12 DEF Following
<1>13. ASSUME NEW x \in Executors, UpsertSub(x) PROVE Following'
  <2> DEFINE e == run[x].event
             s == Fact[e].sub
             lp == run[x].logical
             new == UpsertedSub(subs[s], e, lp, run[x].txn)
  <2>1. /\ subs' = [subs EXCEPT ![s] = new] /\ inSub' = [inSub EXCEPT ![s] = inSub[s] \cup {e}]
        /\ run[x].step = "sub" /\ HasSub(e) /\ \E step : Goto(x, step)
        /\ UNCHANGED <<mapping, normalized, logical, txns, inTxn, raced>>
    BY <1>13 DEF UpsertSub
  <2>2. /\ new.product = Coalesce(subs[s].product, Fact[e].product)
        /\ new.logical = Coalesce(subs[s].logical, lp)
    BY DEF UpsertedSub
  <2> HIDE DEF new
  <2>4. /\ run'[x].event = run[x].event /\ run'[x].logical = run[x].logical
        /\ \A y \in Executors \ {x} : run'[y] = run[y]
    BY <1>0, <1>1, <2>1 DEF Goto, TypeOK, RunRecord
  <2>5. /\ e \in Events
        /\ \A p \in Products : Fact[e].product = p /\ e \notin raced => lp = mapping[p]
        /\ \A p \in Products, y \in Executors :
             HasRead(y, p)' /\ run'[y].event \notin raced' => run'[y].logical = mapping'[p]
    BY <1>10, <2>1, <2>4
  <2>6. s \in SubKeys
    BY <2>1, <2>5, KeyTypes DEF HasSub
  <2> HIDE DEF e, lp, s
  <2>7. /\ subs'[s] = new /\ inSub'[s] = inSub[s] \cup {e}
        /\ \A q \in SubKeys : q # s => subs'[q] = subs[q] /\ inSub'[q] = inSub[q]
    BY <1>0, <2>1, <2>6 DEF TypeOK
  <2>8. \A p \in Products : Only(inSub'[s], p) => new.product = p
    BY <2>2, <2>6, <2>7, ProjectionAssumption DEF Following, Mapped, Only, Coalesce
  <2>9. \A p \in Products : Only(inSub'[s], p) /\ Calm(inSub'[s]) => new.logical = mapping[p]
    <3> SUFFICES ASSUME NEW p \in Products, Only(inSub'[s], p), Calm(inSub'[s])
                 PROVE  new.logical = mapping[p]
      OBVIOUS
    <3>1. lp = mapping[p]
      BY <2>1, <2>5, <2>7 DEF Only, Calm
    <3>2. subs[s].logical = mapping[p] \/ subs[s].logical = None
      <4>1. CASE inSub[s] = {}
        BY <2>6, <4>1 DEF Following, Mapped
      <4>2. CASE inSub[s] # {}
        BY <2>1, <2>6, <2>7, <4>2 DEF Following, SubsFollow, Only, Calm
      <4> QED BY <4>1, <4>2
    <3> QED BY <2>2, <3>1, <3>2 DEF Coalesce
  <2>10. Mapped'
    <3>1. \A q \in SubKeys : inSub'[q] = {} => subs'[q].product = None /\ subs'[q].logical = None
      BY <2>7 DEF Following, Mapped
    <3>2. \A p \in Products, q \in SubKeys : Only(inSub'[q], p) => subs'[q].product = p
      BY <2>7, <2>8 DEF Following, Mapped
    <3> QED BY <2>1, <2>5, <3>1, <3>2 DEF Following, Mapped, Only
  <2>11. SubsFollow'
    BY <2>1, <2>7, <2>9 DEF Following, SubsFollow, Only, Calm
  <2>12. EventsFollow' /\ TxnsFollow'
    BY <2>1 DEF Following, EventsFollow, TxnsFollow, Only, Calm
  <2> QED BY <2>10, <2>11, <2>12 DEF Following
\* The commit of a confirmation rewrites the rows it has locked; every other row of the
\* product holds an event it has noted.
<1>14. ASSUME NEW q \in Products, CommitConfirm(q) PROVE Following'
  <2> DEFINE c == confirm[q]
  <2>1. PICK lp, T, S, E, O :
          /\ lp = c.logical /\ T = c.txns /\ S = c.subs /\ E = c.events /\ O = overtaken[q]
    OBVIOUS
  <2>2. /\ mapping' = [mapping EXCEPT ![q] = lp]
        /\ txns' = [k \in Keys |-> IF k \in T THEN [txns[k] EXCEPT !.logical = lp] ELSE txns[k]]
        /\ subs' = [s \in SubKeys |-> IF s \in S THEN [subs[s] EXCEPT !.logical = lp] ELSE subs[s]]
        /\ logical' = [e \in Events |-> IF e \in E THEN lp ELSE logical[e]]
        /\ raced' = raced \cup O
        /\ UNCHANGED <<normalized, run, inTxn, inSub>>
    BY <1>14, <2>1 DEF CommitConfirm
  <2>3. /\ \A k \in T : txns[k].product = q
        /\ \A s \in S : subs[s].product = q
        /\ \A e \in E : Fact[e].product = q
        /\ \A x \in Executors : HasRead(x, q) => run[x].event \in O
        /\ \A k \in Keys : Only(inTxn[k], q) => k \in T \/ \E e \in inTxn[k] : e \in O
        /\ \A s \in SubKeys : Only(inSub[s], q) => s \in S \/ \E e \in inSub[s] : e \in O
        /\ \A e \in normalized : Fact[e].product = q => e \in E \/ e \in O
    <3>1. confirm[q].step = "commit"
      BY <1>14 DEF CommitConfirm
    <3> QED BY <2>1, <3>1 DEF Noted, Scanning
  <2>4. E \subseteq normalized
    BY <2>1 DEF Noted
  <2> HIDE DEF c
  <2>5. mapping'[q] = lp /\ \A p \in Products : p # q => mapping'[p] = mapping[p]
    BY <1>0, <2>2 DEF TypeOK
  <2>6. \A k \in Keys : /\ txns'[k].product = txns[k].product
                        /\ txns'[k].logical = IF k \in T THEN lp ELSE txns[k].logical
    BY <1>0, <2>2 DEF TypeOK, TxnRecord
  <2>7. \A s \in SubKeys : /\ subs'[s].product = subs[s].product
                           /\ subs'[s].logical = IF s \in S THEN lp ELSE subs[s].logical
    BY <1>0, <2>2 DEF TypeOK, SubRecord
  <2>8. \A e \in Events : logical'[e] = IF e \in E THEN lp ELSE logical[e]
    BY <2>2
  <2>9. \A p \in Products, x \in Executors :
          HasRead(x, p)' /\ run'[x].event \notin raced' => run'[x].logical = mapping'[p]
    <3> SUFFICES ASSUME NEW p \in Products, NEW x \in Executors, HasRead(x, p),
                        run[x].event \notin raced'
                 PROVE  run[x].logical = mapping'[p]
      BY <2>2 DEF HasRead
    <3>1. p # q
      BY <2>2, <2>3
    <3> QED BY <1>2, <2>2, <2>5, <3>1
  <2>10. Mapped'
    <3>1. \A e \in Events : e \notin normalized' => logical'[e] = None
      BY <2>2, <2>4, <2>8 DEF Following, Mapped
    <3>2. \A k \in Keys : inTxn'[k] = {} => txns'[k].product = None /\ txns'[k].logical = None
      BY <2>2, <2>3, <2>6, ProjectionAssumption DEF Following, Mapped
    <3>3. \A s \in SubKeys : inSub'[s] = {} => subs'[s].product = None /\ subs'[s].logical = None
      BY <2>2, <2>3, <2>7, ProjectionAssumption DEF Following, Mapped
    <3>4. /\ \A p \in Products, k \in Keys : Only(inTxn'[k], p) => txns'[k].product = p
          /\ \A p \in Products, s \in SubKeys : Only(inSub'[s], p) => subs'[s].product = p
      BY <2>2, <2>6, <2>7 DEF Following, Mapped
    <3> QED BY <2>9, <3>1, <3>2, <3>3, <3>4 DEF Mapped, Only
  <2>11. EventsFollow'
    <3> SUFFICES ASSUME NEW p \in Products, NEW e \in normalized, Fact[e].product = p, e \notin raced'
                 PROVE  logical'[e] = mapping'[p]
      BY <2>2 DEF EventsFollow
    <3>1. e \in Events /\ e \notin raced /\ e \notin O
      BY <1>0, <2>2 DEF TypeOK
    <3>2. p = q => e \in E
      BY <2>3, <3>1
    <3> QED BY <2>3, <2>5, <2>8, <3>1, <3>2 DEF Following, EventsFollow
  <2>12. TxnsFollow'
    <3> SUFFICES ASSUME NEW p \in Products, NEW k \in Keys, Only(inTxn[k], p),
                        \A e \in inTxn[k] : e \notin raced'
                 PROVE  txns'[k].logical = mapping'[p]
      BY <2>2 DEF TxnsFollow, Only, Calm
    <3>1. txns[k].product = p /\ txns[k].logical = mapping[p] /\ ~\E e \in inTxn[k] : e \in O
      BY <2>2 DEF Following, Mapped, TxnsFollow, Calm
    <3>2. p = q <=> k \in T
      BY <2>3, <3>1
    <3> QED BY <2>5, <2>6, <3>1, <3>2
  <2>13. SubsFollow'
    <3> SUFFICES ASSUME NEW p \in Products, NEW s \in SubKeys, Only(inSub[s], p),
                        \A e \in inSub[s] : e \notin raced'
                 PROVE  subs'[s].logical = mapping'[p]
      BY <2>2 DEF SubsFollow, Only, Calm
    <3>1. subs[s].product = p /\ subs[s].logical = mapping[p] /\ ~\E e \in inSub[s] : e \in O
      BY <2>2 DEF Following, Mapped, SubsFollow, Calm
    <3>2. p = q <=> s \in S
      BY <2>3, <3>1
    <3> QED BY <2>5, <2>7, <3>1, <3>2
  <2> QED BY <2>10, <2>11, <2>12, <2>13 DEF Following
<1>18. ASSUME NEW q \in Products, Confirm(q), ~CommitConfirm(q) PROVE Following'
  <2>1. UNCHANGED <<mapping, normalized, logical, txns, subs, run, inTxn, inSub, raced>>
    BY <1>18, ConfirmKeeps
  <2> QED BY <2>1 DEF Following, Mapped, EventsFollow, TxnsFollow, SubsFollow, Only, Calm, HasRead
<1>15. CASE UNCHANGED vars
  <2>1. UNCHANGED <<mapping, normalized, logical, txns, subs, run, inTxn, inSub, raced>>
    BY <1>15 DEF vars
  <2> QED BY <2>1 DEF Following, Mapped, EventsFollow, TxnsFollow, SubsFollow, Only, Calm, HasRead
<1>16. ASSUME NEW x \in Executors, NEW e \in Events, Start(x, e) PROVE Following'
  <2>1. run'[x].step = "product" /\ \A y \in Executors \ {x} : run'[y] = run[y]
    BY <1>0, <1>16 DEF Start, Idle, TypeOK
  <2>2. UNCHANGED <<mapping, normalized, logical, inTxn, inSub, raced, txns, subs>>
    BY <1>16 DEF Start
  <2> QED BY <1>4, <2>1, <2>2
<1>17. ASSUME NEW x \in Executors, Finish(x) \/ Crash(x) PROVE Following'
  <2>1. run'[x].step = "idle" /\ \A y \in Executors \ {x} : run'[y] = run[y]
    BY <1>0, <1>17 DEF Finish, Crash, Idle, TypeOK
  <2>2. UNCHANGED <<mapping, normalized, logical, inTxn, inSub, raced, txns, subs>>
    BY <1>17 DEF Finish, Crash
  <2> QED BY <1>4, <2>1, <2>2
<1> QED
  BY <1>5, <1>6, <1>7, <1>8, <1>9, <1>11, <1>12, <1>13, <1>14, <1>15, <1>16, <1>17, <1>18
  DEF Next, Proceed

LEMMA NextNoted == IInv /\ Following /\ Noted /\ [Next]_vars => Noted'
<1> SUFFICES ASSUME IInv, Following, Noted, [Next]_vars PROVE Noted'
  OBVIOUS
<1> USE DEF At, Ev, tables, history
<1>0. TypeOK /\ RunConsistent /\ TxnShowsNewest
  BY DEF IInv
<1>1. \A x \in Executors : run[x] \in RunRecord /\ (run[x].step # "idle" => run[x].event \in Events)
  BY <1>0 DEF TypeOK, RunConsistent
<1>2. \A p \in Products, x \in Executors :
        Scanning(p) /\ HasRead(x, p) => run[x].event \in overtaken[p]
  BY DEF Noted
\* A run that goes on keeps what it has read.
<1>3. ASSUME NEW x \in Executors, run'[x].event = run[x].event,
             \/ run[x].step \in {"event", "txn", "txn_customer", "sub"}
             \/ run'[x].step \notin {"event", "txn", "txn_customer", "sub"}
             \/ Fact[run[x].event].product = None,
             \A y \in Executors \ {x} : run'[y] = run[y], overtaken' = overtaken
      PROVE  \A p \in Products, y \in Executors :
               Scanning(p) /\ HasRead(y, p)' => run'[y].event \in overtaken'[p]
  <2> TAKE p \in Products, y \in Executors
  <2>1. p # None
    OBVIOUS
  <2>2. HasRead(y, p)' => HasRead(y, p)
    BY <1>3, <2>1 DEF HasRead
  <2>3. run'[y].event = run[y].event
    BY <1>3
  <2> QED BY <1>2, <1>3, <2>2, <2>3
\* A step of a run that writes no row.
<1>4. ASSUME confirm' = confirm, overtaken' = overtaken,
             \A p \in Products, y \in Executors :
               Scanning(p) /\ HasRead(y, p)' => run'[y].event \in overtaken'[p],
             \A k \in Keys : txns'[k].product = txns[k].product,
             \A s \in SubKeys : subs'[s].product = subs[s].product,
             UNCHANGED <<inTxn, inSub, normalized>>
      PROVE  Noted'
  BY <1>0, <1>4, NotedKept
<1>5. ASSUME NEW x \in Executors, (\E e \in Events : Start(x, e)) \/ Finish(x) \/ Crash(x)
      PROVE  Noted'
  <2>1. /\ run'[x].step \in {"idle", "product"} /\ \A y \in Executors \ {x} : run'[y] = run[y]
        /\ UNCHANGED <<confirm, overtaken, txns, subs, inTxn, inSub, normalized>>
    <3>1. CASE \E e \in Events : Start(x, e)
      BY <1>0, <3>1 DEF Start, Idle, TypeOK
    <3>2. CASE Finish(x)
      BY <1>0, <3>2 DEF Finish, Idle, TypeOK
    <3>3. CASE Crash(x)
      BY <1>0, <3>3 DEF Crash, Idle, TypeOK
    <3> QED BY <1>5, <3>1, <3>2, <3>3
  <2>2. \A p \in Products, y \in Executors :
          Scanning(p) /\ HasRead(y, p)' => run'[y].event \in overtaken'[p]
    BY <1>2, <2>1 DEF HasRead
  <2> QED BY <1>4, <2>1, <2>2
<1>6. ASSUME NEW x \in Executors, NEW step, Goto(x, step)
      PROVE  /\ run'[x].step = step /\ run'[x].event = run[x].event
             /\ \A y \in Executors \ {x} : run'[y] = run[y]
  BY <1>0, <1>1, <1>6 DEF Goto, TypeOK, RunRecord
<1>7. ASSUME NEW x \in Executors,
             UpsertProduct(x) \/ NoSubscription(x) \/ UpdateDaily(x) PROVE Noted'
  <2>1. PICK step : /\ Goto(x, step)
                    /\ \/ run[x].step = "sub" \/ step \in {"mapping", "finish"}
                       \/ Fact[run[x].event].product = None
    BY <1>7 DEF UpsertProduct, NoSubscription, UpdateDaily
  <2>2. UNCHANGED <<confirm, overtaken, txns, subs, inTxn, inSub, normalized>>
    BY <1>7 DEF UpsertProduct, NoSubscription, UpdateDaily
  <2>3. \A p \in Products, y \in Executors :
          Scanning(p) /\ HasRead(y, p)' => run'[y].event \in overtaken'[p]
    BY <1>3, <1>6, <2>1, <2>2
  <2> QED BY <1>4, <2>2, <2>3
<1>8. ASSUME NEW x \in Executors, LinkTxnCustomer(x) PROVE Noted'
  <2> DEFINE c == Fact[run[x].event].customer
             t == run[x].txn
  <2>1. /\ txns' = [txns EXCEPT ![t].customer = c] /\ Goto(x, "sub")
        /\ run[x].step = "txn_customer"
        /\ UNCHANGED <<confirm, overtaken, subs, inTxn, inSub, normalized>>
    BY <1>8 DEF LinkTxnCustomer
  <2> HIDE DEF c, t
  <2>2. \A k \in Keys : txns'[k].product = txns[k].product
    BY <1>0, <2>1 DEF TypeOK, TxnRecord
  <2>3. \A p \in Products, y \in Executors :
          Scanning(p) /\ HasRead(y, p)' => run'[y].event \in overtaken'[p]
    BY <1>3, <1>6, <2>1
  <2> QED BY <1>4, <2>1, <2>2, <2>3
<1>9. ASSUME NEW x \in Executors, LinkSubCustomer(x) PROVE Noted'
  <2> DEFINE c == Fact[run[x].event].customer
             s == Fact[run[x].event].sub
  <2>1. /\ subs' = [subs EXCEPT ![s].customer = c] /\ Goto(x, AfterSub(x))
        /\ AfterSub(x) \in {"metric", "finish"}
        /\ UNCHANGED <<confirm, overtaken, txns, inTxn, inSub, normalized>>
    BY <1>9 DEF LinkSubCustomer, AfterSub
  <2> HIDE DEF c, s
  <2>2. \A q \in SubKeys : subs'[q].product = subs[q].product
    BY <1>0, <2>1 DEF TypeOK, SubRecord
  <2>3. \A p \in Products, y \in Executors :
          Scanning(p) /\ HasRead(y, p)' => run'[y].event \in overtaken'[p]
    BY <1>3, <1>6, <2>1
  <2> QED BY <1>4, <2>1, <2>2, <2>3
\* A mapping that is read during a confirmation is noted.
<1>10. ASSUME NEW x \in Executors, ReadMapping(x) PROVE Noted'
  <2> DEFINE e == run[x].event
             q == Fact[e].product
             lp == mapping[q]
             step == AfterMapping(e)
  <2>1. /\ run' = [run EXCEPT ![x].logical = lp, ![x].step = step]
        /\ overtaken' = IF Scanning(q) THEN [overtaken EXCEPT ![q] = overtaken[q] \cup {e}] ELSE overtaken
        /\ UNCHANGED <<confirm, txns, subs, inTxn, inSub, normalized>>
    BY <1>10 DEF ReadMapping
  <2>2. q \in Products /\ q = Fact[e].product /\ e = run[x].event
    BY <1>0, <1>1, <1>10, KeyTypes DEF ReadMapping, RunConsistent
  <2> HIDE DEF e, q, lp, step
  <2>3. /\ run'[x].event = e /\ \A y \in Executors \ {x} : run'[y] = run[y]
    BY <1>0, <1>1, <2>1, <2>2 DEF TypeOK, RunRecord
  <2>4. /\ \A p \in Products : overtaken[p] \subseteq overtaken'[p]
        /\ Scanning(q) => e \in overtaken'[q]
    BY <1>0, <2>1, <2>2 DEF TypeOK
  <2>5. \A p \in Products, y \in Executors :
          Scanning(p) /\ HasRead(y, p)' => run'[y].event \in overtaken'[p]
    <3> TAKE p \in Products, y \in Executors
    <3>1. CASE y = x
      BY <2>2, <2>3, <2>4, <3>1 DEF HasRead
    <3>2. CASE y # x
      BY <1>2, <2>3, <2>4, <3>2 DEF HasRead
    <3> QED BY <3>1, <3>2
  <2> QED BY <1>0, <2>1, <2>4, <2>5, NotedKept
\* A row that is written during a confirmation, with what was read before, holds a noted event.
<1>11. ASSUME NEW x \in Executors, run[x].step \in {"event", "txn", "sub"},
              run'[x].event = run[x].event, \A y \in Executors \ {x} : run'[y] = run[y],
              overtaken' = overtaken
       PROVE  /\ run[x].event \in Events
              /\ \A p \in Products :
                   Scanning(p) /\ Fact[run[x].event].product = p => run[x].event \in overtaken'[p]
              /\ \A p \in Products, y \in Executors :
                   Scanning(p) /\ HasRead(y, p)' => run'[y].event \in overtaken'[p]
  <2>1. \A p \in Products :
          Scanning(p) /\ Fact[run[x].event].product = p => run[x].event \in overtaken'[p]
    BY <1>2, <1>11 DEF HasRead
  <2> QED BY <1>1, <1>3, <1>11, <2>1
<1>12. ASSUME NEW x \in Executors, InsertEvent(x) PROVE Noted'
  <2> DEFINE e == run[x].event
             new == e \notin normalized
             step == IF HasTxn(e) THEN "txn" ELSE "sub"
  <2>1. /\ run' = [run EXCEPT ![x].inserted = new, ![x].step = step]
        /\ normalized' = normalized \cup {e} /\ run[x].step = "event"
        /\ UNCHANGED <<confirm, overtaken, txns, subs, inTxn, inSub>>
    BY <1>12 DEF InsertEvent
  <2> HIDE DEF new, step
  <2>2. run'[x].event = run[x].event /\ \A y \in Executors \ {x} : run'[y] = run[y]
    BY <1>0, <1>1, <2>1 DEF TypeOK, RunRecord
  <2>3. /\ \A p \in Products : Scanning(p) /\ Fact[e].product = p => e \in overtaken'[p]
        /\ \A p \in Products, y \in Executors :
             Scanning(p) /\ HasRead(y, p)' => run'[y].event \in overtaken'[p]
    BY <1>11, <2>1, <2>2
  <2> HIDE DEF e
  <2> QED BY <1>0, <2>1, <2>3, NotedKept
<1>13. ASSUME NEW x \in Executors, UpsertTxn(x) PROVE Noted'
  <2> DEFINE e == run[x].event
             k == TxnKey(e)
             step == IF Fact[e].customer = None THEN "sub" ELSE "txn_customer"
             new == UpsertedTxn(txns[k], e, run[x].logical)
  <2>1. /\ run' = [run EXCEPT ![x].txn = k, ![x].step = step]
        /\ txns' = [txns EXCEPT ![k] = new] /\ inTxn' = [inTxn EXCEPT ![k] = inTxn[k] \cup {e}]
        /\ run[x].step = "txn"
        /\ UNCHANGED <<confirm, overtaken, normalized, subs, inSub>>
    BY <1>13 DEF UpsertTxn
  <2>2. new.product = IF txns[k].latest = None THEN Fact[e].product ELSE txns[k].product
    BY DEF UpsertedTxn
  <2>3. k = TxnKey(e)
    OBVIOUS
  <2> HIDE DEF k, step, new
  <2>4. run'[x].event = run[x].event /\ \A y \in Executors \ {x} : run'[y] = run[y]
    BY <1>0, <1>1, <2>1 DEF TypeOK, RunRecord
  <2>5. /\ e \in Events
        /\ \A p \in Products : Scanning(p) /\ Fact[e].product = p => e \in overtaken'[p]
        /\ \A p \in Products, y \in Executors :
             Scanning(p) /\ HasRead(y, p)' => run'[y].event \in overtaken'[p]
    BY <1>11, <2>1, <2>4
  <2>6. k \in Keys
    BY <2>3, <2>5, KeyTypes
  <2> HIDE DEF e
  <2>7. /\ txns'[k] = new /\ inTxn'[k] = inTxn[k] \cup {e}
        /\ \A j \in Keys : j # k => txns'[j] = txns[j] /\ inTxn'[j] = inTxn[j]
    BY <1>0, <2>1, <2>6 DEF TypeOK
  <2>8. \A p \in Products, j \in Keys : txns[j].product = p => txns'[j].product = p
    <3> SUFFICES ASSUME NEW p \in Products, txns[k].product = p PROVE new.product = p
      BY <2>7
    <3>1. inTxn[k] # {}
      BY <2>6 DEF Following, Mapped
    <3>2. txns[k].latest # None
      BY <1>0, <2>6, <3>1 DEF TxnShowsNewest
    <3> QED BY <2>2, <3>2
  <2>9. \A p \in Products, j \in Keys :
          Scanning(p) /\ Only(inTxn'[j], p) =>
            inTxn'[j] = inTxn[j] \/ \E d \in inTxn'[j] : d \in overtaken'[p]
    BY <2>5, <2>7 DEF Only
  <2> QED BY <1>0, <2>1, <2>5, <2>8, <2>9, NotedKept
<1>14. ASSUME NEW x \in Executors, UpsertSub(x) PROVE Noted'
  <2> DEFINE e == run[x].event
             s == Fact[e].sub
             new == UpsertedSub(subs[s], e, run[x].logical, run[x].txn)
  <2>1. /\ subs' = [subs EXCEPT ![s] = new] /\ inSub' = [inSub EXCEPT ![s] = inSub[s] \cup {e}]
        /\ run[x].step = "sub" /\ HasSub(e) /\ \E step : Goto(x, step)
        /\ UNCHANGED <<confirm, overtaken, normalized, txns, inTxn>>
    BY <1>14 DEF UpsertSub
  <2>2. new.product = Coalesce(subs[s].product, Fact[e].product)
    BY DEF UpsertedSub
  <2> HIDE DEF new
  <2>4. run'[x].event = run[x].event /\ \A y \in Executors \ {x} : run'[y] = run[y]
    BY <1>6, <2>1
  <2>5. /\ e \in Events
        /\ \A p \in Products : Scanning(p) /\ Fact[e].product = p => e \in overtaken'[p]
        /\ \A p \in Products, y \in Executors :
             Scanning(p) /\ HasRead(y, p)' => run'[y].event \in overtaken'[p]
    BY <1>11, <2>1, <2>4
  <2>6. s \in SubKeys
    BY <2>1, <2>5, KeyTypes DEF HasSub
  <2> HIDE DEF e, s
  <2>7. /\ subs'[s] = new /\ inSub'[s] = inSub[s] \cup {e}
        /\ \A q \in SubKeys : q # s => subs'[q] = subs[q] /\ inSub'[q] = inSub[q]
    BY <1>0, <2>1, <2>6 DEF TypeOK
  <2>8. \A p \in Products, q \in SubKeys : subs[q].product = p => subs'[q].product = p
    BY <2>2, <2>7, ProjectionAssumption DEF Coalesce
  <2>9. \A p \in Products, q \in SubKeys :
          Scanning(p) /\ Only(inSub'[q], p) =>
            inSub'[q] = inSub[q] \/ \E d \in inSub'[q] : d \in overtaken'[p]
    BY <2>5, <2>7 DEF Only
  <2> QED BY <1>0, <2>1, <2>5, <2>8, <2>9, NotedKept
\* A confirmation notes the runs that have read the mapping when it starts to scan, and
\* locks every row it finds.
<1>15. ASSUME NEW q \in Products, Confirm(q) PROVE Noted'
  <2> DEFINE Part(p) ==
        /\ \A k \in confirm[p].txns : txns[k].product = p
        /\ \A s \in confirm[p].subs : subs[s].product = p
        /\ \A e \in confirm[p].events : e \in normalized /\ Fact[e].product = p
        /\ Scanning(p) =>
             /\ \A x \in Executors : HasRead(x, p) => run[x].event \in overtaken[p]
             /\ \A k \in Keys : Only(inTxn[k], p) =>
                  k \in confirm[p].txns \/ \E e \in inTxn[k] : e \in overtaken[p]
        /\ confirm[p].step \in {"events", "commit"} =>
             \A s \in SubKeys : Only(inSub[s], p) =>
               s \in confirm[p].subs \/ \E e \in inSub[s] : e \in overtaken[p]
        /\ confirm[p].step = "commit" =>
             \A e \in normalized : Fact[e].product = p => e \in confirm[p].events \/ e \in overtaken[p]
  <2>1. /\ UNCHANGED <<run, normalized, inTxn, inSub>>
        /\ \A k \in Keys : txns'[k].product = txns[k].product
        /\ \A s \in SubKeys : subs'[s].product = subs[s].product
    BY <1>0, <1>15, ConfirmRows, ConfirmKeeps
  <2>2. \A p \in Products : p # q => confirm'[p] = confirm[p] /\ overtaken'[p] = overtaken[p]
    BY <1>0, <1>15 DEF Confirm, BeginConfirm, ConfirmTxns, ConfirmSubs, ConfirmEvents,
                       CommitConfirm, RollbackConfirm, TypeOK
  <2>3. \A p \in Products : confirm[p].txns \subseteq Keys /\ confirm[p].subs \subseteq SubKeys
    BY <1>0 DEF TypeOK, ConfirmRecord
  <2>4. \A p \in Products : Part(p)
    BY DEF Noted
  <2>5. ASSUME NEW p \in Products, p # q PROVE Part(p)'
    BY <2>1, <2>2, <2>3, <2>4, <2>5 DEF Scanning, HasRead, Only
  <2>6. confirm[q] \in ConfirmRecord
    BY <1>0 DEF TypeOK
  <2>7. Part(q)'
    <3>1. CASE (\E lp \in Logicals : BeginConfirm(q, lp)) \/ CommitConfirm(q) \/ RollbackConfirm(q)
      <4>1. /\ confirm'[q].step \in {"none", "txns"}
            /\ confirm'[q].txns = {} /\ confirm'[q].subs = {} /\ confirm'[q].events = {}
        <5>1. CASE \E lp \in Logicals : BeginConfirm(q, lp)
          <6>1. PICK lp : confirm' = [confirm EXCEPT ![q] = [NoConfirm EXCEPT !.step = "txns", !.logical = lp]]
            BY <5>1 DEF BeginConfirm
          <6> QED BY <1>0, <6>1 DEF NoConfirm, TypeOK
        <5>2. CASE CommitConfirm(q) \/ RollbackConfirm(q)
          <6>1. confirm' = [confirm EXCEPT ![q] = NoConfirm]
            BY <5>2 DEF CommitConfirm, RollbackConfirm
          <6> QED BY <1>0, <6>1 DEF NoConfirm, TypeOK
        <5> QED BY <3>1, <5>1, <5>2
      <4> QED BY <4>1 DEF Scanning
    <3>2. CASE ConfirmTxns(q)
      <4> DEFINE T == {k \in Keys : txns[k].product = q}
                 O == {run[x].event : x \in {y \in Executors : HasRead(y, q)}}
      <4>1. /\ confirm' = [confirm EXCEPT ![q].step = "subs", ![q].txns = T]
            /\ overtaken' = [overtaken EXCEPT ![q] = O]
        BY <3>2 DEF ConfirmTxns
      <4>2. /\ \A k \in Keys : Only(inTxn[k], q) => k \in T
            /\ \A k \in T : k \in Keys /\ txns[k].product = q
            /\ \A x \in Executors : HasRead(x, q) => run[x].event \in O
        BY DEF Following, Mapped
      <4> HIDE DEF T, O
      <4>3. /\ confirm'[q].step = "subs" /\ confirm'[q].txns = T
            /\ confirm'[q].subs = confirm[q].subs /\ confirm'[q].events = confirm[q].events
            /\ overtaken'[q] = O
        BY <1>0, <2>6, <4>1 DEF TypeOK, ConfirmRecord
      <4> QED BY <2>1, <2>3, <2>4, <4>2, <4>3 DEF Scanning, HasRead, Only
    <3>3. CASE ConfirmSubs(q)
      <4> DEFINE S == {s \in SubKeys : subs[s].product = q}
      <4>1. confirm' = [confirm EXCEPT ![q].step = "events", ![q].subs = S]
        BY <3>3 DEF ConfirmSubs
      <4>2. /\ \A s \in SubKeys : Only(inSub[s], q) => s \in S
            /\ \A s \in S : s \in SubKeys /\ subs[s].product = q
        BY DEF Following, Mapped
      <4>3. Scanning(q) /\ overtaken' = overtaken
        BY <3>3 DEF ConfirmSubs, Scanning
      <4> HIDE DEF S
      <4>4. /\ confirm'[q].step = "events" /\ confirm'[q].txns = confirm[q].txns
            /\ confirm'[q].subs = S /\ confirm'[q].events = confirm[q].events
        BY <1>0, <2>6, <4>1 DEF TypeOK, ConfirmRecord
      <4> QED BY <2>1, <2>3, <2>4, <4>2, <4>3, <4>4 DEF HasRead, Only
    <3>4. CASE ConfirmEvents(q)
      <4> DEFINE E == {e \in normalized : Fact[e].product = q}
      <4>1. confirm' = [confirm EXCEPT ![q].step = "commit", ![q].events = E]
        BY <3>4 DEF ConfirmEvents
      <4>2. \A e : e \in E <=> e \in normalized /\ Fact[e].product = q
        OBVIOUS
      <4>3. Scanning(q) /\ overtaken' = overtaken /\ confirm[q].step = "events"
        BY <3>4 DEF ConfirmEvents, Scanning
      <4> HIDE DEF E
      <4>4. /\ confirm'[q].step = "commit" /\ confirm'[q].txns = confirm[q].txns
            /\ confirm'[q].subs = confirm[q].subs /\ confirm'[q].events = E
        BY <1>0, <2>6, <4>1 DEF TypeOK, ConfirmRecord
      <4> QED BY <2>1, <2>3, <2>4, <4>2, <4>3, <4>4 DEF HasRead, Only
    <3> QED BY <1>15, <3>1, <3>2, <3>3, <3>4 DEF Confirm
  <2>8. \A p \in Products : Part(p)'
    BY <2>5, <2>7
  <2> QED BY <2>8 DEF Noted
<1>16. CASE UNCHANGED vars
  <2>1. UNCHANGED <<confirm, overtaken, run, txns, subs, inTxn, inSub, normalized>>
    BY <1>16 DEF vars
  <2>2. \A p \in Products, y \in Executors :
          Scanning(p) /\ HasRead(y, p)' => run'[y].event \in overtaken'[p]
    BY <1>2, <2>1 DEF HasRead
  <2> QED BY <1>4, <2>1, <2>2
<1> QED
  BY <1>5, <1>7, <1>8, <1>9, <1>10, <1>12, <1>13, <1>14, <1>15, <1>16 DEF Next, Proceed

\* Once a catalog confirmation has committed, every row of the product, and every row
\* written later, carries the confirmed logical product; only an event whose run had read
\* the mapping and was still writing between the confirmation's scan and its commit can
\* leave the old one.
THEOREM RowsFollow == Spec => []RowsFollowMapping
<1>1. Init => Following /\ Noted
  BY DEF Init, Following, Mapped, EventsFollow, TxnsFollow, SubsFollow, Only, Calm,
         HasRead, NoTxn, NoSub, Idle, Noted, NoConfirm, Scanning
<1>2. IInv /\ Following /\ Noted /\ [Next]_vars => (Following /\ Noted)'
  BY NextFollowing, NextNoted
<1> QED
  BY <1>1, <1>2, FollowingIsIt, Invariance, PTL DEF Spec

=============================================================================
