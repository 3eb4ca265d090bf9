---------------------------- MODULE CatchUpProofs ----------------------------
(***************************************************************************)
(* Theorems about CatchUp, for any finite set of notifications, any        *)
(* history, page size and limits, and any number of runs and webhooks.     *)
(***************************************************************************)
EXTENDS CatchUp, FiniteSetTheorems, SequenceTheorems, TLAPS

USE CatchUpAssumption

Waiting(a) == {act[a].todo[i] : i \in DOMAIN act[a].todo}

Mine(a) == {n \in Notes : raw[n] = a}

\* Steps of a run that has its batch.
BatchSteps == {"store", "activate", "normalize", "mark", "ack", "complete"}

\* There is an item to store, or none is left.
TodoFits(a) ==
  /\ act[a].step = "store" => act[a].todo # <<>>
  /\ act[a].step \in {"ack", "complete"} => act[a].todo = <<>>

\* Every notification of a batch is stored or still to be stored.
BatchAccounted(r) ==
  act[r].step \in BatchSteps =>
    /\ Waiting(r) \subseteq act[r].batch
    /\ act[r].batch \subseteq Stored \cup Waiting(r)

\* The counter of a run is the number of its raw events, but for the one in hand.
Counted(r) ==
  /\ act[r].step \in {"free", "audit", "fetch"} => Mine(r) = {} /\ act[r].inserted = 0
  /\ act[r].step \in {"free", "audit", "fetch", "store", "ack", "complete"} => ~act[r].fresh
  /\ act[r].step \in BatchSteps =>
       /\ Mine(r) \subseteq act[r].batch
       /\ Cardinality(Mine(r)) = IF act[r].fresh THEN act[r].inserted + 1 ELSE act[r].inserted

\* The batch of the App Store is the whole page up to the returned cursor.
PageTaken(r) ==
  act[r].step \in BatchSteps /\ kind = "app_store" /\ act[r].limit >= PageSize =>
    LET last == IF act[r].next = None THEN Len(History) ELSE act[r].next
    IN \A i \in (act[r].start + 1)..last : History[i] \in act[r].batch

\* What a completed row says.
RowTrue(r) ==
  sync[r].status = "completed" =>
    /\ act[r].step \in {"touch", "done"}
    /\ sync[r].inserted = Cardinality(Mine(r))
    /\ sync[r].inserted <= sync[r].seen
    /\ kind = "app_store" /\ act[r].limit >= PageSize => CoversItsPage(r)

RunTrue(r) == BatchAccounted(r) /\ Counted(r) /\ PageTaken(r) /\ RowTrue(r)

\* The inductive invariant.
IInv ==
  /\ TypeOK
  /\ \A a \in Actors : TodoFits(a)
  /\ \A r \in Runs : RunTrue(r)
  /\ AcknowledgedIsStored

LEMMA LesserType == \A m, n \in Nat : Lesser(m, n) \in Nat /\ Lesser(m, n) <= m /\ Lesser(m, n) <= n
  BY DEF Lesser

\* The items of a sequence are its head and those of its tail.
LEMMA HeadAndTail ==
  ASSUME NEW S, NEW s \in Seq(S), s # <<>>
  PROVE  /\ Head(s) \in S /\ Tail(s) \in Seq(S)
         /\ {s[i] : i \in DOMAIN s} = {Head(s)} \cup {Tail(s)[i] : i \in DOMAIN Tail(s)}
<1>1. Head(s) \in S /\ Tail(s) \in Seq(S) /\ Len(Tail(s)) = Len(s) - 1
      /\ \A i \in 1..Len(Tail(s)) : Tail(s)[i] = s[i + 1]
  BY HeadTailProperties
<1>2. DOMAIN s = 1..Len(s) /\ DOMAIN Tail(s) = 1..(Len(s) - 1) /\ Len(s) \in Nat \ {0}
  BY <1>1, LenProperties
<1>3. Head(s) = s[1]
  OBVIOUS
<1>4. ASSUME NEW i \in DOMAIN s
      PROVE  s[i] \in {Head(s)} \cup {Tail(s)[k] : k \in DOMAIN Tail(s)}
  <2>1. CASE i = 1 BY <1>3, <2>1
  <2>2. CASE i # 1
    <3>1. i - 1 \in DOMAIN Tail(s) /\ Tail(s)[i - 1] = s[i]
      BY <1>1, <1>2, <1>4, <2>2
    <3> QED BY <3>1
  <2> QED BY <2>1, <2>2
<1>5. ASSUME NEW k \in DOMAIN Tail(s) PROVE Tail(s)[k] \in {s[i] : i \in DOMAIN s}
  BY <1>1, <1>2
<1>6. Head(s) \in {s[i] : i \in DOMAIN s}
  BY <1>2, <1>3
<1> QED BY <1>1, <1>4, <1>5, <1>6

LEMMA BatchIsFinite ==
  ASSUME NEW B \in SUBSET Notes
  PROVE  /\ IsFiniteSet(B) /\ Cardinality(B) \in Nat
         /\ \A M \in SUBSET B : Cardinality(M) <= Cardinality(B)
  BY FS_Subset, FS_CardinalityType

-----------------------------------------------------------------------------
\* The shape of the rows.

RowType == [step : Steps, todo : Seq(Notes), fresh : BOOLEAN, start : 0..Len(History),
            limit : Nat \ {0}, batch : SUBSET Notes, inserted : Nat,
            next : 0..Len(History) \cup {None}]

RunRowType == [status : {"absent", "running", "completed", "failed"},
               cursor : 0..Len(History) \cup {None}, seen : Nat, inserted : Nat]

LEMMA HistoryLength == Len(History) \in Nat /\ 0 \in 0..Len(History)
  BY LenProperties

LEMMA ActRows == TypeOK => act \in [Actors -> RowType]
  BY DEF TypeOK, RowType

LEMMA SyncRow == TypeOK => \A r \in Runs : sync[r] \in RunRowType
  BY DEF TypeOK, RunRowType

LEMMA AfterType ==
  ASSUME NEW a \in Actors, NEW todo
  PROVE  /\ After(a, todo) \in {"store", "free", "ack", "complete"}
         /\ After(a, todo) = "store" <=> todo # <<>>
         /\ After(a, todo) = "free" <=> todo = <<>> /\ a \in Hooks
         /\ After(a, todo) = "ack" => kind = "google_play"
  BY DEF After

\* Replacing one row by another.
LEMMA NewRow ==
  ASSUME TypeOK, NEW a \in Actors, NEW row \in RowType, act' = [act EXCEPT ![a] = row]
  PROVE  /\ act' \in [Actors -> RowType]
         /\ \A b \in Actors \ {a} : act'[b] = act[b]
         /\ act'[a] = row
  BY ActRows

\* What the actions that write several fields do to a request's row.
LEMMA GotoType ==
  ASSUME TypeOK, NEW a \in Actors, NEW step \in Steps, Goto(a, step)
  PROVE  /\ act' \in [Actors -> RowType]
         /\ \A b \in Actors \ {a} : act'[b] = act[b]
         /\ act'[a] = [act[a] EXCEPT !.step = step]
<1> DEFINE row == [act[a] EXCEPT !.step = step]
<1>1. act[a] \in RowType
  BY ActRows
<1>2. row \in RowType
  BY <1>1 DEF RowType
<1>3. act' = [act EXCEPT ![a] = row]
  BY DEF Goto
<1> HIDE DEF row
<1>4. act' \in [Actors -> RowType] /\ (\A b \in Actors \ {a} : act'[b] = act[b]) /\ act'[a] = row
  BY <1>2, <1>3, NewRow
<1> QED BY <1>4 DEF row

LEMMA LeaveType ==
  ASSUME TypeOK, NEW a \in Actors, NEW step \in Steps, Leave(a, step)
  PROVE  /\ act' \in [Actors -> RowType]
         /\ \A b \in Actors \ {a} : act'[b] = act[b]
         /\ act'[a] = [act[a] EXCEPT !.step = step, !.todo = <<>>, !.batch = {}, !.inserted = 0,
                                     !.fresh = FALSE]
<1> DEFINE row == [act[a] EXCEPT !.step = step, !.todo = <<>>, !.batch = {}, !.inserted = 0,
                                 !.fresh = FALSE]
<1>1. act[a] \in RowType
  BY ActRows
<1>2. <<>> \in Seq(Notes)
  OBVIOUS
<1>3. row \in RowType
  BY <1>1, <1>2 DEF RowType
<1>4. act' = [act EXCEPT ![a] = row]
  BY DEF Leave
<1> HIDE DEF row
<1>5. act' \in [Actors -> RowType] /\ (\A b \in Actors \ {a} : act'[b] = act[b]) /\ act'[a] = row
  BY <1>3, <1>4, NewRow
<1> QED BY <1>5 DEF row

LEMMA ItemDoneType ==
  ASSUME TypeOK, NEW a \in Actors, ItemDone(a)
  PROVE  /\ act' \in [Actors -> RowType]
         /\ \A b \in Actors \ {a} : act'[b] = act[b]
         /\ act'[a] = [act[a] EXCEPT !.step = After(a, act[a].todo), !.fresh = FALSE,
                          !.inserted = IF act[a].fresh /\ a \in Runs
                                         THEN act[a].inserted + 1 ELSE act[a].inserted]
<1> DEFINE count == IF act[a].fresh /\ a \in Runs THEN act[a].inserted + 1 ELSE act[a].inserted
           step == After(a, act[a].todo)
           row == [act[a] EXCEPT !.step = step, !.fresh = FALSE, !.inserted = count]
<1>1. act[a] \in RowType
  BY ActRows
<1>2. step \in Steps
  BY AfterType DEF Steps
<1>3. count \in Nat
  BY <1>1 DEF RowType
<1>4. act' = [act EXCEPT ![a] = row]
  BY DEF ItemDone
<1>5. row \in RowType
  <2> HIDE DEF count, step
  <2> QED BY <1>1, <1>2, <1>3 DEF RowType
<1> HIDE DEF row
<1>6. act' \in [Actors -> RowType] /\ (\A b \in Actors \ {a} : act'[b] = act[b]) /\ act'[a] = row
  BY <1>4, <1>5, NewRow
<1> QED BY <1>6 DEF row

-----------------------------------------------------------------------------
\* A step is one request's: what it leaves to the others.

Frame(a) ==
  /\ kind' = kind
  /\ act' \in [Actors -> RowType]
  /\ \A b \in Actors \ {a} : act'[b] = act[b]
  /\ \A r \in Runs \ {a} : sync'[r] = sync[r]
  /\ raw' \in [Notes -> Actors \cup {None}]
  /\ \A n \in Notes : raw'[n] = raw[n] \/ (raw[n] = None /\ raw'[n] = a)

LEMMA StoredGrows ==
  ASSUME NEW a \in Actors, Frame(a)
  PROVE  Stored \subseteq Stored'
  BY DEF Stored, Frame, Actors

LEMMA OthersMine ==
  ASSUME NEW a \in Actors, Frame(a), NEW b \in Actors, b # a
  PROVE  Mine(b)' = Mine(b)
  BY DEF Mine, Frame, Actors

LEMMA OthersKept ==
  ASSUME IInv, NEW a \in Actors, Frame(a)
  PROVE  /\ \A b \in Actors \ {a} : TodoFits(b)'
         /\ \A r \in Runs \ {a} : RunTrue(r)'
<1>1. \A b \in Actors \ {a} : TodoFits(b)'
  BY DEF Frame, IInv, TodoFits
<1>2. ASSUME NEW r \in Runs \ {a} PROVE RunTrue(r)'
  <2>1. act'[r] = act[r] /\ sync'[r] = sync[r] /\ kind' = kind
    BY DEF Frame, Actors
  <2>2. Mine(r)' = Mine(r) /\ Stored \subseteq Stored' /\ Waiting(r)' = Waiting(r)
    BY <2>1, OthersMine, StoredGrows DEF Actors, Waiting
  <2>3. RunTrue(r)
    BY DEF IInv
  <2>4. CoversItsPage(r) => CoversItsPage(r)'
    BY <2>1, <2>2 DEF CoversItsPage
  <2>5. BatchAccounted(r)'
    BY <2>1, <2>2, <2>3 DEF RunTrue, BatchAccounted
  <2>6. Counted(r)'
    BY <2>1, <2>2, <2>3 DEF RunTrue, Counted
  <2>7. PageTaken(r)'
    BY <2>1, <2>2, <2>3 DEF RunTrue, PageTaken
  <2>8. RowTrue(r)'
    BY <2>1, <2>2, <2>3, <2>4 DEF RunTrue, RowTrue
  <2> QED BY <2>5, <2>6, <2>7, <2>8 DEF RunTrue
<1> QED BY <1>1, <1>2

\* So an action has to answer for its own request only.
LEMMA OwnSuffices ==
  ASSUME IInv, NEW a \in Actors, Frame(a), TypeOK', TodoFits(a)', a \in Runs => RunTrue(a)',
         retained' = retained
  PROVE  IInv'
<1>1. AcknowledgedIsStored'
  BY StoredGrows DEF IInv, AcknowledgedIsStored
<1> QED BY <1>1, OthersKept DEF IInv

\* A run that is out of its batch, or never completes.
LEMMA OutOfBatch ==
  ASSUME IInv, NEW r \in Runs, raw' = raw, kind' = kind,
         act'[r].step \in {"touch", "done", "fail", "blame"},
         act'[r].start = act[r].start, act'[r].next = act[r].next, act'[r].limit = act[r].limit,
         sync'[r].status = "completed" => act'[r].step \in {"touch", "done"} /\ sync'[r] = sync[r]
  PROVE  RunTrue(r)'
<1>1. Mine(r)' = Mine(r) /\ Stored' = Stored
  BY DEF Mine, Stored
<1>2. CoversItsPage(r) => CoversItsPage(r)'
  BY <1>1 DEF CoversItsPage
<1>3. RowTrue(r)'
  BY <1>1, <1>2 DEF IInv, RunTrue, RowTrue
<1>4. BatchAccounted(r)' /\ Counted(r)' /\ PageTaken(r)'
  BY DEF BatchAccounted, Counted, PageTaken, BatchSteps
<1> QED BY <1>3, <1>4 DEF RunTrue

\* A run with its batch in hand.
LEMMA InBatch ==
  ASSUME IInv, NEW r \in Runs, raw' = raw, kind' = kind, sync'[r] = sync[r],
         act[r].step \in BatchSteps, act'[r].step \in BatchSteps,
         act'[r].start = act[r].start, act'[r].next = act[r].next, act'[r].limit = act[r].limit,
         act'[r].batch = act[r].batch, act'[r].todo = act[r].todo,
         act'[r].step \in {"store", "ack", "complete"} => ~act'[r].fresh,
         (IF act'[r].fresh THEN act'[r].inserted + 1 ELSE act'[r].inserted) =
         (IF act[r].fresh THEN act[r].inserted + 1 ELSE act[r].inserted)
  PROVE  RunTrue(r)'
<1>1. Mine(r)' = Mine(r) /\ Stored' = Stored /\ Waiting(r)' = Waiting(r)
  BY DEF Mine, Stored, Waiting
<1>2. RunTrue(r)
  BY DEF IInv
<1>3. BatchAccounted(r)'
  BY <1>1, <1>2 DEF RunTrue, BatchAccounted
<1>4. Counted(r)'
  BY <1>1, <1>2 DEF RunTrue, Counted, BatchSteps
<1>5. PageTaken(r)'
  BY <1>2 DEF RunTrue, PageTaken
<1>6. RowTrue(r)'
  BY <1>2 DEF RunTrue, RowTrue, BatchSteps
<1> QED BY <1>3, <1>4, <1>5, <1>6 DEF RunTrue

-----------------------------------------------------------------------------
\* One lemma per kind of step.

LEMMA TypeParts ==
  ASSUME TypeOK, NEW a \in Actors, Frame(a), retained' \in SUBSET Notes,
         source' \in [status : {"waiting_for_events", "active", "error"}, error : BOOLEAN],
         sync' \in [Runs -> RunRowType], faults' \in 0..MaxFaults,
         dropped' \in SUBSET Actors, aborted' \in SUBSET Runs
  PROVE  TypeOK'
  BY DEF TypeOK, Frame, RowType, RunRowType

LEMMA SyncRows == TypeOK => sync \in [Runs -> RunRowType]
  BY DEF TypeOK, RunRowType

\* Leaving the batch: Reject, Trouble, Abort, Drop.
LEMMA LeaveKeeps ==
  ASSUME IInv, NEW a \in Actors, NEW step \in {"free", "fail", "done"},
         Leave(a, step), step = "free" <=> a \in Hooks, a \in Runs /\ act[a].step = "touch" => step = "done",
         act[a].step # "done" \/ a \in Hooks,
         UNCHANGED <<kind, retained, raw, source, sync>>,
         faults' \in 0..MaxFaults, dropped' \in SUBSET Actors, aborted' \in SUBSET Runs
  PROVE  IInv'
<1>1. TypeOK
  BY DEF IInv
<1>2. act' \in [Actors -> RowType] /\ (\A b \in Actors \ {a} : act'[b] = act[b])
      /\ act'[a] = [act[a] EXCEPT !.step = step, !.todo = <<>>, !.batch = {}, !.inserted = 0,
                                  !.fresh = FALSE]
  <2>1. step \in Steps
    BY DEF Steps
  <2> QED BY <1>1, <2>1, LeaveType
<1>3. act[a] \in RowType
  BY <1>1, ActRows
<1>4. act'[a].step = step /\ act'[a].start = act[a].start /\ act'[a].next = act[a].next
      /\ act'[a].limit = act[a].limit
  BY <1>2, <1>3 DEF RowType
<1>5. Frame(a)
  BY <1>1, <1>2 DEF Frame, TypeOK
<1>6. TypeOK'
  BY <1>1, <1>5, TypeParts, SyncRows DEF TypeOK
<1>7. TodoFits(a)'
  BY <1>4 DEF TodoFits
<1>8. ASSUME a \in Runs PROVE RunTrue(a)'
  <2>1. sync[a].status = "completed" => act[a].step \in {"touch", "done"}
    BY <1>8 DEF IInv, RunTrue, RowTrue
  <2>2. a \notin Hooks
    BY <1>8
  <2> QED BY <1>4, <1>8, <2>1, <2>2, OutOfBatch
<1> QED BY <1>5, <1>6, <1>7, <1>8, OwnSuffices

\* Moving on with the batch untouched.
LEMMA StepKeeps ==
  ASSUME IInv, NEW a \in Actors, NEW step \in {"normalize", "mark"},
         Goto(a, step), act[a].step \in {"activate", "normalize"}, UNCHANGED <<kind, retained, raw, sync>>,
         source' \in [status : {"waiting_for_events", "active", "error"}, error : BOOLEAN],
         UNCHANGED <<faults, dropped, aborted>>
  PROVE  IInv'
<1>1. TypeOK
  BY DEF IInv
<1>2. act' \in [Actors -> RowType] /\ (\A b \in Actors \ {a} : act'[b] = act[b])
      /\ act'[a] = [act[a] EXCEPT !.step = step]
  BY <1>1, GotoType DEF Steps
<1>3. act[a] \in RowType
  BY <1>1, ActRows
<1>4. act'[a].step = step /\ act'[a].start = act[a].start /\ act'[a].next = act[a].next
      /\ act'[a].limit = act[a].limit /\ act'[a].batch = act[a].batch /\ act'[a].todo = act[a].todo
      /\ act'[a].fresh = act[a].fresh /\ act'[a].inserted = act[a].inserted
  BY <1>2, <1>3 DEF RowType
<1>5. Frame(a)
  BY <1>1, <1>2 DEF Frame, TypeOK
<1>6. TypeOK'
  BY <1>1, <1>5, TypeParts, SyncRows DEF TypeOK
<1>7. TodoFits(a)'
  BY <1>4 DEF TodoFits
<1>8. a \in Runs => RunTrue(a)'
  BY <1>4, InBatch DEF BatchSteps
<1> QED BY <1>5, <1>6, <1>7, <1>8, OwnSuffices

\* The end of an item: NormalizeOk, MarkSource, and Activate of a duplicate.
LEMMA ItemKeeps ==
  ASSUME IInv, NEW a \in Actors, ItemDone(a), act[a].step \in {"activate", "normalize", "mark"},
         UNCHANGED <<kind, retained, raw, sync>>,
         source' \in [status : {"waiting_for_events", "active", "error"}, error : BOOLEAN],
         UNCHANGED <<faults, dropped, aborted>>
  PROVE  IInv'
<1>1. TypeOK
  BY DEF IInv
<1>2. act' \in [Actors -> RowType] /\ (\A b \in Actors \ {a} : act'[b] = act[b])
      /\ act'[a] = [act[a] EXCEPT !.step = After(a, act[a].todo), !.fresh = FALSE,
                       !.inserted = IF act[a].fresh /\ a \in Runs
                                      THEN act[a].inserted + 1 ELSE act[a].inserted]
  BY <1>1, ItemDoneType
<1>3. act[a] \in RowType
  BY <1>1, ActRows
<1>4. act'[a].step = After(a, act[a].todo) /\ act'[a].start = act[a].start
      /\ act'[a].next = act[a].next /\ act'[a].limit = act[a].limit
      /\ act'[a].batch = act[a].batch /\ act'[a].todo = act[a].todo
      /\ act'[a].fresh = FALSE
      /\ act'[a].inserted = IF act[a].fresh /\ a \in Runs
                              THEN act[a].inserted + 1 ELSE act[a].inserted
  BY <1>2, <1>3 DEF RowType
<1>5. Frame(a)
  BY <1>1, <1>2 DEF Frame, TypeOK
<1>6. TypeOK'
  BY <1>1, <1>5, TypeParts, SyncRows DEF TypeOK
<1>7. TodoFits(a)'
  BY <1>4, AfterType DEF TodoFits
<1>8. ASSUME a \in Runs PROVE RunTrue(a)'
  <2>1. a \notin Hooks
    BY <1>8
  <2>2. act'[a].step \in {"store", "ack", "complete"}
    BY <1>4, <2>1, AfterType
  <2> QED BY <1>4, <1>8, <2>2, InBatch DEF BatchSteps
<1> QED BY <1>5, <1>6, <1>7, <1>8, OwnSuffices

\* Out of the batch already: Touch, FailRun, Blame.
LEMMA EndKeeps ==
  ASSUME IInv, NEW r \in Runs, NEW step \in {"blame", "done"}, Goto(r, step),
         act[r].step \in {"fail", "blame", "touch"}, act[r].step = "touch" => step = "done",
         UNCHANGED <<kind, retained, raw, faults, dropped, aborted>>,
         source' \in [status : {"waiting_for_events", "active", "error"}, error : BOOLEAN],
         sync' \in [Runs -> RunRowType], \A q \in Runs \ {r} : sync'[q] = sync[q],
         sync'[r] = sync[r] \/ sync'[r].status # "completed"
  PROVE  IInv'
<1>1. TypeOK /\ r \in Actors
  BY DEF IInv, Actors
<1>2. act' \in [Actors -> RowType] /\ (\A b \in Actors \ {r} : act'[b] = act[b])
      /\ act'[r] = [act[r] EXCEPT !.step = step]
  <2>1. step \in Steps
    BY DEF Steps
  <2> QED BY <1>1, <2>1, GotoType
<1>3. act[r] \in RowType
  BY <1>1, ActRows
<1>4. act'[r].step = step /\ act'[r].start = act[r].start /\ act'[r].next = act[r].next
      /\ act'[r].limit = act[r].limit
  BY <1>2, <1>3 DEF RowType
<1>5. Frame(r)
  BY <1>1, <1>2 DEF Frame, TypeOK
<1>6. TypeOK'
  BY <1>1, <1>5, TypeParts DEF TypeOK
<1>7. TodoFits(r)'
  BY <1>4 DEF TodoFits
<1>8. RunTrue(r)'
  <2>1. sync[r].status = "completed" => act[r].step \in {"touch", "done"}
    BY DEF IInv, RunTrue, RowTrue
  <2> QED BY <1>4, <2>1, OutOfBatch
<1> QED BY <1>1, <1>5, <1>6, <1>7, <1>8, OwnSuffices

LEMMA BeginKeeps ==
  ASSUME IInv, NEW r \in Runs, NEW limit \in Limits, NEW cursor \in Cursors, Begin(r, limit, cursor)
  PROVE  IInv'
<1> DEFINE start == IF cursor = None THEN 0 ELSE cursor
           row == [act[r] EXCEPT !.step = "audit", !.limit = limit, !.start = start]
<1>1. TypeOK /\ r \in Actors
  BY DEF IInv, Actors
<1>2. act[r] \in RowType /\ sync \in [Runs -> RunRowType]
  BY <1>1, ActRows, SyncRows
<1>3. cursor \in 0..Len(History) \cup {None}
  BY <1>2 DEF Cursors, RunRowType
<1>4. start \in 0..Len(History) /\ limit \in Nat \ {0}
  BY <1>3, HistoryLength
<1>5. act' = [act EXCEPT ![r] = row]
  BY DEF Begin
<1>6. sync' = [sync EXCEPT ![r] = [sync[r] EXCEPT !.status = "running", !.cursor = cursor]]
  BY DEF Begin
<1> HIDE DEF start
<1>7. row \in RowType
  BY <1>2, <1>4 DEF RowType, Steps
<1>8. sync' \in [Runs -> RunRowType] /\ (\A q \in Runs \ {r} : sync'[q] = sync[q])
      /\ sync'[r].status = "running"
  BY <1>2, <1>3, <1>6 DEF RunRowType
<1>9. row.step = "audit" /\ row.fresh = act[r].fresh /\ row.inserted = act[r].inserted
  BY <1>2 DEF RowType
<1> HIDE DEF row
<1>10. act' \in [Actors -> RowType] /\ (\A b \in Actors \ {r} : act'[b] = act[b]) /\ act'[r] = row
  BY <1>1, <1>5, <1>7, NewRow
<1>11. Frame(r)
  BY <1>1, <1>8, <1>10 DEF Frame, TypeOK, Begin
<1>12. TypeOK'
  BY <1>1, <1>8, <1>11, TypeParts DEF TypeOK, Begin
<1>13. TodoFits(r)'
  BY <1>9, <1>10 DEF TodoFits
<1>14. RunTrue(r)'
  <2>1. Mine(r) = {} /\ act[r].inserted = 0 /\ ~act[r].fresh
    BY DEF IInv, RunTrue, Counted, Begin, At
  <2>2. Mine(r)' = Mine(r)
    BY DEF Mine, Begin
  <2> QED BY <1>8, <1>9, <1>10, <2>1, <2>2
          DEF RunTrue, BatchAccounted, Counted, PageTaken, RowTrue, BatchSteps
<1> QED BY <1>1, <1>11, <1>12, <1>13, <1>14, OwnSuffices DEF Begin

LEMMA AuditKeeps ==
  ASSUME IInv, NEW r \in Runs, Audit(r)
  PROVE  IInv'
<1>1. TypeOK /\ r \in Actors /\ act[r] \in RowType /\ RunTrue(r)
  BY ActRows DEF IInv, Actors
<1>2. act' \in [Actors -> RowType] /\ (\A b \in Actors \ {r} : act'[b] = act[b])
      /\ act'[r] = [act[r] EXCEPT !.step = "fetch"]
  <2>1. "fetch" \in Steps
    BY DEF Steps
  <2> QED BY <1>1, <2>1, GotoType DEF Audit
<1>3. act[r].step = "audit" /\ act'[r].step = "fetch" /\ act'[r].fresh = act[r].fresh
      /\ act'[r].inserted = act[r].inserted
  BY <1>1, <1>2 DEF RowType, Audit, At
<1>4. Frame(r)
  BY <1>1, <1>2 DEF Frame, TypeOK, Audit
<1>5. TypeOK'
  BY <1>1, <1>4, TypeParts, SyncRows DEF TypeOK, Audit
<1>6. TodoFits(r)'
  BY <1>3 DEF TodoFits
<1>7. Mine(r) = {} /\ act[r].inserted = 0 /\ ~act[r].fresh /\ sync[r].status # "completed"
  BY <1>1, <1>3 DEF RunTrue, Counted, RowTrue
<1>8. Mine(r)' = Mine(r) /\ sync' = sync
  BY DEF Mine, Audit
<1>9. RunTrue(r)'
  BY <1>3, <1>7, <1>8
     DEF RunTrue, BatchAccounted, Counted, PageTaken, RowTrue, BatchSteps
<1> QED BY <1>1, <1>4, <1>5, <1>6, <1>9, OwnSuffices DEF Audit

LEMMA ReceiveKeeps ==
  ASSUME IInv, NEW h \in Hooks, NEW n \in Notes, Receive(h, n)
  PROVE  IInv'
<1> DEFINE row == [act[h] EXCEPT !.step = "store", !.todo = <<n>>]
<1>1. TypeOK /\ h \in Actors /\ h \notin Runs
  BY DEF IInv, Actors
<1>2. act[h] \in RowType /\ sync \in [Runs -> RunRowType]
  BY <1>1, ActRows, SyncRows
<1>3. <<n>> \in Seq(Notes) /\ <<n>> # <<>>
  OBVIOUS
<1>4. act' = [act EXCEPT ![h] = row]
  BY DEF Receive
<1>5. row \in RowType /\ row.step = "store" /\ row.todo # <<>>
  BY <1>2, <1>3 DEF RowType, Steps
<1> HIDE DEF row
<1>6. act' \in [Actors -> RowType] /\ (\A b \in Actors \ {h} : act'[b] = act[b]) /\ act'[h] = row
  BY <1>1, <1>4, <1>5, NewRow
<1>7. Frame(h)
  BY <1>1, <1>6 DEF Frame, TypeOK, Receive
<1>8. TypeOK'
  BY <1>1, <1>2, <1>7, TypeParts DEF TypeOK, Receive
<1>9. TodoFits(h)'
  BY <1>5, <1>6 DEF TodoFits
<1> QED BY <1>1, <1>7, <1>8, <1>9, OwnSuffices DEF Receive

\* A run takes its batch: todo are all of its items.
LEMMA TakeKeeps ==
  ASSUME IInv, NEW r \in Runs, At(r, "fetch"), NEW row \in RowType, act' = [act EXCEPT ![r] = row],
         row.step = After(r, row.todo), row.batch = {row.todo[i] : i \in DOMAIN row.todo},
         row.fresh = act[r].fresh, row.inserted = act[r].inserted,
         kind = "app_store" /\ row.limit >= PageSize =>
           \A i \in (row.start + 1)..(IF row.next = None THEN Len(History) ELSE row.next) :
             History[i] \in row.batch,
         UNCHANGED <<kind, retained, raw, source, sync, faults, dropped, aborted>>
  PROVE  IInv'
<1>1. TypeOK /\ r \in Actors /\ r \notin Hooks
  BY DEF IInv, Actors
<1>2. act' \in [Actors -> RowType] /\ (\A b \in Actors \ {r} : act'[b] = act[b]) /\ act'[r] = row
  BY <1>1, NewRow
<1>3. Frame(r)
  BY <1>1, <1>2 DEF Frame, TypeOK
<1>4. TypeOK'
  BY <1>1, <1>3, TypeParts, SyncRows DEF TypeOK
<1>5. TodoFits(r)'
  BY <1>1, <1>2, AfterType DEF TodoFits
<1>6. row.step \in {"store", "ack", "complete"}
  BY <1>1, AfterType
<1>7. Mine(r) = {} /\ row.inserted = 0 /\ ~row.fresh /\ sync[r].status # "completed"
  BY DEF IInv, RunTrue, Counted, RowTrue, At
<1>8. Mine(r)' = {}
  BY <1>7 DEF Mine
<1>9. BatchAccounted(r)'
  BY <1>2 DEF BatchAccounted, Waiting
<1>10. Counted(r)'
  BY <1>2, <1>6, <1>7, <1>8, FS_EmptySet DEF Counted
<1>11. PageTaken(r)'
  BY <1>2 DEF PageTaken
<1>12. RowTrue(r)'
  BY <1>7 DEF RowTrue
<1> QED BY <1>1, <1>3, <1>4, <1>5, <1>9, <1>10, <1>11, <1>12, OwnSuffices DEF RunTrue

LEMMA FetchHistoryKeeps ==
  ASSUME IInv, NEW r \in Runs, FetchHistory(r)
  PROVE  IInv'
<1> DEFINE from == act[r].start
           upto == Lesser(from + PageSize, Len(History))
           page == SubSeq(History, from + 1, upto)
           cut  == Lesser(act[r].limit, Len(page))
           todo == SubSeq(page, 1, cut)
           batch == {todo[i] : i \in DOMAIN todo}
           next == IF from + PageSize < Len(History) THEN from + PageSize ELSE None
           row == [act[r] EXCEPT !.todo = todo, !.batch = batch, !.next = next,
                                 !.step = After(r, todo)]
<1>1. r \in Actors /\ act[r] \in RowType /\ from \in 0..Len(History) /\ act[r].limit \in Nat \ {0}
  BY ActRows DEF IInv, Actors, RowType
<1>2. Len(History) \in Nat /\ (\A i \in 1..Len(History) : History[i] \in Notes)
  BY LenProperties, ElementOfSeq
<1>3. upto \in Nat /\ upto <= Len(History) /\ upto >= from
  BY <1>1, <1>2 DEF Lesser
<1>4. page \in Seq(Notes) /\ Len(page) = upto - from
      /\ \A i \in 1..(upto - from) : page[i] = History[from + i]
  <2>1. \A i \in (from + 1)..upto : History[i] \in Notes
    BY <1>1, <1>2, <1>3
  <2> HIDE DEF upto, from
  <2>2. from \in Nat
    BY <1>1, <1>2
  <2>3. /\ page \in Seq(Notes)
        /\ Len(page) = IF from + 1 <= upto THEN upto - (from + 1) + 1 ELSE 0
        /\ \A i \in 1..(upto - (from + 1) + 1) : page[i] = History[(from + 1) + i - 1]
    BY <1>3, <2>1, <2>2, SubSeqProperties
  <2>4. Len(page) = upto - from
    BY <1>3, <2>2, <2>3
  <2>5. ASSUME NEW i \in 1..(upto - from) PROVE page[i] = History[from + i]
    <3>1. i \in 1..(upto - (from + 1) + 1) /\ (from + 1) + i - 1 = from + i
      BY <1>3, <2>2, <2>5
    <3> QED BY <2>3, <3>1
  <2> QED BY <2>3, <2>4, <2>5
<1> HIDE DEF page
<1>5. cut \in Nat /\ cut <= Len(page) /\ (act[r].limit >= PageSize => cut = Len(page))
  <2>1. Len(page) \in Nat /\ Len(page) <= PageSize
    BY <1>1, <1>2, <1>3, <1>4 DEF Lesser
  <2> QED BY <1>1, <2>1 DEF Lesser
<1>6. todo \in Seq(Notes) /\ Len(todo) = cut /\ \A i \in 1..cut : todo[i] = page[i]
  <2>1. \A i \in 1..cut : page[i] \in Notes
    BY <1>4, <1>5, ElementOfSeq
  <2> HIDE DEF cut
  <2>2. /\ todo \in Seq(Notes)
        /\ Len(todo) = IF 1 <= cut THEN cut - 1 + 1 ELSE 0
        /\ \A i \in 1..(cut - 1 + 1) : todo[i] = page[1 + i - 1]
    BY <1>5, <2>1, SubSeqProperties
  <2>3. ASSUME NEW i \in 1..cut PROVE todo[i] = page[i]
    <3>1. i \in 1..(cut - 1 + 1) /\ 1 + i - 1 = i
      BY <1>5, <2>3
    <3> QED BY <2>2, <3>1
  <2> QED BY <1>5, <2>2, <2>3
<1> HIDE DEF todo
<1>7. DOMAIN todo = 1..cut
  BY <1>6, LenProperties
<1>8. batch \in SUBSET Notes
  BY <1>6, <1>7, ElementOfSeq
<1>9. next \in 0..Len(History) \cup {None}
  BY <1>1, <1>2
<1>10. ASSUME act[r].limit >= PageSize,
              NEW i \in (from + 1)..(IF next = None THEN Len(History) ELSE next)
       PROVE  History[i] \in batch
  <2>1. (IF next = None THEN Len(History) ELSE next) = upto
    BY <1>1, <1>2 DEF Lesser
  <2>2. i - from \in 1..(upto - from) /\ from + (i - from) = i
    BY <1>1, <1>2, <1>3, <1>10, <2>1
  <2> HIDE DEF upto, from, next
  <2>3. History[i] = page[i - from] /\ i - from \in 1..cut
    BY <1>4, <1>5, <1>10, <2>2
  <2>4. History[i] = todo[i - from] /\ i - from \in DOMAIN todo
    BY <1>6, <1>7, <2>3
  <2> QED BY <2>4
<1>11. After(r, todo) \in Steps
  BY <1>1, AfterType DEF Steps
<1>12. act' = [act EXCEPT ![r] = row]
  BY DEF FetchHistory, todo, page
<1> HIDE DEF batch, next
<1>13. /\ row \in RowType
       /\ row.step = After(r, row.todo) /\ row.todo = todo /\ row.batch = batch /\ row.next = next
       /\ row.fresh = act[r].fresh /\ row.inserted = act[r].inserted
       /\ row.start = act[r].start /\ row.limit = act[r].limit
  BY <1>1, <1>6, <1>8, <1>9, <1>11 DEF RowType
<1> HIDE DEF row
<1>14. row.batch = {row.todo[i] : i \in DOMAIN row.todo}
  BY <1>13 DEF batch
<1>15. row.limit >= PageSize =>
         \A i \in (row.start + 1)..(IF row.next = None THEN Len(History) ELSE row.next) :
           History[i] \in row.batch
  BY <1>10, <1>13
<1> QED BY <1>12, <1>13, <1>14, <1>15, TakeKeeps DEF FetchHistory

LEMMA FetchMessagesKeeps ==
  ASSUME IInv, NEW r \in Runs, FetchMessages(r)
  PROVE  IInv'
<1>1. r \in Actors /\ act[r] \in RowType /\ retained \subseteq Notes
  BY ActRows DEF IInv, Actors, TypeOK
<1>2. PICK todo \in Pulls(act[r].limit) :
        act' = [act EXCEPT ![r].todo = todo, ![r].batch = {todo[i] : i \in DOMAIN todo},
                           ![r].step = After(r, todo)]
  BY DEF FetchMessages
<1>3. PICK n \in 0..Cardinality(Notes) : todo \in [1..n -> retained]
  BY DEF Pulls
<1>4. n \in Nat
  BY <1>3, BatchIsFinite
<1>5. todo \in Seq(Notes)
  BY <1>1, <1>3, <1>4, IsASeq
<1> DEFINE batch == {todo[i] : i \in DOMAIN todo}
           row == [act[r] EXCEPT !.todo = todo, !.batch = batch, !.step = After(r, todo)]
<1>6. batch \in SUBSET Notes
  BY <1>1, <1>3
<1>7. After(r, todo) \in Steps
  BY <1>1, AfterType DEF Steps
<1>8. act' = [act EXCEPT ![r] = row]
  BY <1>2
<1> HIDE DEF batch
<1>9. /\ row \in RowType
      /\ row.step = After(r, row.todo) /\ row.todo = todo /\ row.batch = batch
      /\ row.fresh = act[r].fresh /\ row.inserted = act[r].inserted
  BY <1>1, <1>5, <1>6, <1>7 DEF RowType
<1> HIDE DEF row
<1>10. row.batch = {row.todo[i] : i \in DOMAIN row.todo}
  BY <1>9 DEF batch
<1> QED BY <1>8, <1>9, <1>10, TakeKeeps DEF FetchMessages

\* Activate of a new event or a duplicate, and the two ends of an item.
LEMMA SourceRows ==
  /\ [status |-> "active", error |-> FALSE] \in
       [status : {"waiting_for_events", "active", "error"}, error : BOOLEAN]
  /\ [status |-> "error", error |-> TRUE] \in
       [status : {"waiting_for_events", "active", "error"}, error : BOOLEAN]
  OBVIOUS

LEMMA InsertKeeps ==
  ASSUME IInv, NEW a \in Actors, Insert(a)
  PROVE  IInv'
<1> DEFINE n == Head(act[a].todo)
           todo == Tail(act[a].todo)
           fresh == raw[n] = None
           row == [act[a] EXCEPT !.todo = todo, !.fresh = fresh, !.step = "activate"]
           Items(s) == {s[i] : i \in DOMAIN s}
<1>1. TypeOK /\ TodoFits(a) /\ act[a] \in RowType /\ raw \in [Notes -> Actors \cup {None}]
  BY ActRows DEF IInv, TypeOK
<1>2. act[a].step = "store" /\ act[a].todo \in Seq(Notes) /\ act[a].todo # <<>>
  BY <1>1 DEF Insert, At, TodoFits, RowType
<1>3. n \in Notes /\ todo \in Seq(Notes) /\ Items(act[a].todo) = {n} \cup Items(todo)
  <2> DEFINE s == act[a].todo
  <2>1. s \in Seq(Notes) /\ s # <<>>
    BY <1>2
  <2> HIDE DEF s
  <2>2. /\ Head(s) \in Notes /\ Tail(s) \in Seq(Notes)
        /\ {s[i] : i \in DOMAIN s} = {Head(s)} \cup {Tail(s)[i] : i \in DOMAIN Tail(s)}
    BY <2>1, HeadAndTail
  <2> QED BY <2>2 DEF s
<1>4. act' = [act EXCEPT ![a] = row]
  BY DEF Insert
<1>5. raw' = [raw EXCEPT ![n] = IF raw[n] = None THEN a ELSE raw[n]]
  BY DEF Insert
<1> HIDE DEF n, todo, Items
<1>6. fresh \in BOOLEAN
  OBVIOUS
<1>7. /\ row \in RowType /\ row.todo = todo /\ row.step = "activate" /\ row.batch = act[a].batch
      /\ row.fresh = fresh /\ row.inserted = act[a].inserted /\ row.start = act[a].start
      /\ row.next = act[a].next /\ row.limit = act[a].limit
  <2> HIDE DEF fresh
  <2> QED BY <1>1, <1>3, <1>6 DEF RowType, Steps
<1> HIDE DEF row
<1>8. act' \in [Actors -> RowType] /\ (\A b \in Actors \ {a} : act'[b] = act[b]) /\ act'[a] = row
  BY <1>1, <1>4, <1>7, NewRow
<1>9. raw' \in [Notes -> Actors \cup {None}]
  BY <1>1, <1>3, <1>5
<1>10. Frame(a)
  BY <1>1, <1>3, <1>5, <1>8, <1>9 DEF Frame, Insert
<1>11. TypeOK'
  BY <1>1, <1>10, TypeParts, SyncRows DEF TypeOK, Insert
<1>12. TodoFits(a)'
  BY <1>7, <1>8 DEF TodoFits
<1>13. ASSUME a \in Runs PROVE RunTrue(a)'
  <2>1. RunTrue(a)
    BY <1>13 DEF IInv
  <2>2. /\ Waiting(a) \subseteq act[a].batch /\ act[a].batch \subseteq Stored \cup Waiting(a)
        /\ ~act[a].fresh /\ Mine(a) \subseteq act[a].batch
        /\ Cardinality(Mine(a)) = act[a].inserted
    BY <1>2, <2>1 DEF RunTrue, BatchAccounted, Counted, BatchSteps
  <2>3. Waiting(a) = {n} \cup Items(todo) /\ Waiting(a)' = Items(todo)
    BY <1>3, <1>7, <1>8 DEF Waiting, Items
  <2>4. Stored' = Stored \cup {n}
    BY <1>1, <1>3, <1>5 DEF Stored, Actors
  <2>5. BatchAccounted(a)'
    BY <1>7, <1>8, <2>2, <2>3, <2>4 DEF BatchAccounted
  <2>6. Mine(a)' = IF fresh THEN Mine(a) \cup {n} ELSE Mine(a)
    BY <1>1, <1>3, <1>5 DEF Mine
  <2>7. IsFiniteSet(Mine(a)) /\ (fresh => n \notin Mine(a))
    BY BatchIsFinite DEF Mine, Actors
  <2>8. Cardinality(Mine(a)') = IF fresh THEN act[a].inserted + 1 ELSE act[a].inserted
    BY <2>2, <2>6, <2>7, FS_AddElement
  <2>9. Mine(a)' \subseteq act[a].batch
    BY <2>2, <2>3, <2>6
  <2>10. Counted(a)'
    BY <1>7, <1>8, <2>8, <2>9 DEF Counted
  <2>11. PageTaken(a)'
    BY <1>2, <1>7, <1>8, <2>1 DEF RunTrue, PageTaken, Insert, BatchSteps
  <2>12. RowTrue(a)'
    BY <1>2, <1>13, <2>1 DEF RunTrue, RowTrue, Insert
  <2> QED BY <2>5, <2>10, <2>11, <2>12 DEF RunTrue
<1> QED BY <1>10, <1>11, <1>12, <1>13, OwnSuffices DEF Insert

LEMMA AcknowledgeKeeps ==
  ASSUME IInv, NEW r \in Runs, Acknowledge(r)
  PROVE  IInv'
<1>1. TypeOK /\ r \in Actors /\ act[r] \in RowType /\ retained \subseteq Notes /\ RunTrue(r)
      /\ TodoFits(r)
  BY ActRows DEF IInv, Actors, TypeOK
<1>2. act[r].step = "ack" /\ act[r].todo = <<>>
  BY <1>1 DEF TodoFits, Acknowledge, At
<1>3. act' \in [Actors -> RowType] /\ (\A b \in Actors \ {r} : act'[b] = act[b])
      /\ act'[r] = [act[r] EXCEPT !.step = "complete"]
  <2>1. "complete" \in Steps
    BY DEF Steps
  <2> QED BY <1>1, <2>1, GotoType DEF Acknowledge
<1>4. act'[r].step = "complete" /\ act'[r].start = act[r].start /\ act'[r].next = act[r].next
      /\ act'[r].limit = act[r].limit /\ act'[r].batch = act[r].batch /\ act'[r].todo = act[r].todo
      /\ act'[r].fresh = act[r].fresh /\ act'[r].inserted = act[r].inserted
  BY <1>1, <1>3 DEF RowType
<1>5. Frame(r)
  BY <1>1, <1>3 DEF Frame, TypeOK, Acknowledge
<1>6. TypeOK'
  <2>1. retained' \in SUBSET Notes
    BY <1>1 DEF Acknowledge
  <2> QED BY <1>1, <1>5, <2>1, TypeParts, SyncRows DEF TypeOK, Acknowledge
<1>7. TodoFits(r)'
  BY <1>2, <1>4 DEF TodoFits
<1>8. ~act[r].fresh
  BY <1>1, <1>2 DEF RunTrue, Counted
<1>9. RunTrue(r)'
  BY <1>2, <1>4, <1>8, InBatch DEF BatchSteps, Acknowledge
<1>10. act[r].batch \subseteq Stored
  BY <1>1, <1>2 DEF RunTrue, BatchAccounted, BatchSteps, Waiting
<1>11. AcknowledgedIsStored'
  BY <1>5, <1>10, <1>1, StoredGrows DEF AcknowledgedIsStored, Acknowledge, IInv
<1>12. (\A b \in Actors : TodoFits(b)') /\ (\A q \in Runs : RunTrue(q)')
  BY <1>1, <1>5, <1>7, <1>9, OthersKept
<1> QED BY <1>6, <1>11, <1>12 DEF IInv

LEMMA CompleteKeeps ==
  ASSUME IInv, NEW r \in Runs, Complete(r)
  PROVE  IInv'
<1> DEFINE entry == [status |-> "completed", cursor |-> act[r].next,
                     seen |-> Cardinality(act[r].batch), inserted |-> act[r].inserted]
<1>1. TypeOK /\ r \in Actors /\ act[r] \in RowType /\ RunTrue(r) /\ TodoFits(r)
  BY ActRows DEF IInv, Actors
<1>2. act[r].step = "complete" /\ act[r].todo = <<>>
  BY <1>1 DEF TodoFits, Complete, At
<1>3. act' \in [Actors -> RowType] /\ (\A b \in Actors \ {r} : act'[b] = act[b])
      /\ act'[r] = [act[r] EXCEPT !.step = "touch", !.todo = <<>>, !.batch = {}, !.inserted = 0,
                                  !.fresh = FALSE]
  <2>1. "touch" \in Steps
    BY DEF Steps
  <2> QED BY <1>1, <2>1, LeaveType DEF Complete
<1>4. act'[r].step = "touch" /\ act'[r].start = act[r].start /\ act'[r].next = act[r].next
      /\ act'[r].limit = act[r].limit
  BY <1>1, <1>3 DEF RowType
<1>5. act[r].batch \in SUBSET Notes /\ act[r].next \in 0..Len(History) \cup {None}
      /\ act[r].inserted \in Nat
  BY <1>1 DEF RowType
<1>6. entry \in RunRowType
  BY <1>5, BatchIsFinite DEF RunRowType
<1>7. sync' = [sync EXCEPT ![r] = entry]
  BY DEF Complete
<1>8. entry.status = "completed" /\ entry.seen = Cardinality(act[r].batch)
      /\ entry.inserted = act[r].inserted
  OBVIOUS
<1> HIDE DEF entry
<1>9. sync' \in [Runs -> RunRowType] /\ (\A q \in Runs \ {r} : sync'[q] = sync[q])
      /\ sync'[r] = entry
  BY <1>1, <1>6, <1>7, SyncRows
<1>10. Frame(r)
  BY <1>1, <1>3, <1>9 DEF Frame, TypeOK, Complete
<1>11. TypeOK'
  BY <1>1, <1>9, <1>10, TypeParts DEF TypeOK, Complete
<1>12. TodoFits(r)'
  BY <1>4 DEF TodoFits
<1>13. /\ act[r].batch \subseteq Stored
       /\ Mine(r) \subseteq act[r].batch /\ Cardinality(Mine(r)) = act[r].inserted
       /\ kind = "app_store" /\ act[r].limit >= PageSize =>
            \A i \in (act[r].start + 1)..(IF act[r].next = None THEN Len(History) ELSE act[r].next) :
              History[i] \in act[r].batch
  BY <1>1, <1>2 DEF RunTrue, BatchAccounted, Counted, PageTaken, BatchSteps, Waiting
<1>14. Mine(r)' = Mine(r) /\ Stored' = Stored
  BY DEF Mine, Stored, Complete
<1>15. Cardinality(Mine(r)) <= Cardinality(act[r].batch)
  BY <1>5, <1>13, BatchIsFinite
<1>16. (kind = "app_store" /\ act[r].limit >= PageSize) => CoversItsPage(r)'
  <2>1. CoversItsPage(r)' <=>
          \A i \in (act[r].start + 1)..(IF act[r].next = None THEN Len(History) ELSE act[r].next) :
            History[i] \in Stored'
    BY <1>4 DEF CoversItsPage
  <2> QED BY <1>13, <1>14, <2>1
<1>17. RowTrue(r)'
  <2>1. kind' = kind
    BY DEF Complete
  <2>2. sync'[r].inserted = Cardinality(Mine(r)') /\ sync'[r].inserted <= sync'[r].seen
    BY <1>8, <1>9, <1>13, <1>14, <1>15
  <2> QED BY <1>4, <1>16, <2>1, <2>2 DEF RowTrue
<1>18. BatchAccounted(r)' /\ Counted(r)' /\ PageTaken(r)'
  BY <1>4 DEF BatchAccounted, Counted, PageTaken, BatchSteps
<1> QED BY <1>1, <1>10, <1>11, <1>12, <1>17, <1>18, OwnSuffices DEF RunTrue, Complete

-----------------------------------------------------------------------------
\* The theorems.

LEMMA InitEstablishes == Init => IInv
<1> SUFFICES ASSUME Init PROVE IInv
  OBVIOUS
<1>1. 0 \in 0..Len(History) /\ <<>> \in Seq(Notes) /\ 1 \in Nat \ {0} /\ 0 \in Nat /\ 0 \in 0..MaxFaults
  BY HistoryLength
<1>2. Idle \in RowType /\ Idle.step = "free" /\ Idle.inserted = 0 /\ ~Idle.fresh
  BY <1>1 DEF Idle, RowType, Steps
<1>3. NoRun \in RunRowType /\ NoRun.status = "absent"
  BY <1>1 DEF NoRun, RunRowType
<1>4. act \in [Actors -> RowType] /\ sync \in [Runs -> RunRowType]
  BY <1>2, <1>3 DEF Init
<1>5. /\ kind \in {"app_store", "google_play"} /\ retained \subseteq Notes
      /\ raw \in [Notes -> Actors \cup {None}]
      /\ source \in [status : {"waiting_for_events", "active", "error"}, error : BOOLEAN]
      /\ faults \in 0..MaxFaults /\ dropped \subseteq Actors /\ aborted \subseteq Runs
  BY <1>1 DEF Init
<1>6. TypeOK
  BY <1>4, <1>5 DEF TypeOK, RowType, RunRowType
<1>7. \A a \in Actors : TodoFits(a)
  BY <1>2 DEF Init, TodoFits
<1>8. ASSUME NEW r \in Runs PROVE RunTrue(r)
  <2>1. act[r] = Idle /\ sync[r] = NoRun /\ Mine(r) = {}
    BY DEF Init, Mine, Actors
  <2> QED BY <1>2, <1>3, <2>1
          DEF RunTrue, BatchAccounted, Counted, PageTaken, RowTrue, BatchSteps
<1>9. AcknowledgedIsStored
  BY DEF Init, AcknowledgedIsStored
<1> QED BY <1>6, <1>7, <1>8, <1>9 DEF IInv

LEMMA ItemStepKeeps == ASSUME IInv, NEW a \in Actors, Item(a) PROVE IInv'
<1>0. TypeOK /\ source \in [status : {"waiting_for_events", "active", "error"}, error : BOOLEAN]
      /\ faults \in 0..MaxFaults /\ dropped \in SUBSET Actors
      /\ aborted \in SUBSET Runs
  BY DEF IInv, TypeOK
<1>1. CASE Reject(a)
  <2> DEFINE step == IF a \in Hooks THEN "free" ELSE "fail"
  <2>1. step \in {"free", "fail", "done"} /\ (step = "free" <=> a \in Hooks) /\ Leave(a, step)
    BY <1>1 DEF Reject
  <2> HIDE DEF step
  <2> QED BY <1>0, <1>1, <2>1, LeaveKeeps DEF Reject, At
<1>2. CASE Insert(a)
  BY <1>2, InsertKeeps
<1>3. CASE Activate(a)
  <2>1. CASE act[a].fresh
    BY <1>3, <2>1, StepKeeps, SourceRows DEF Activate, At
  <2>2. CASE ~act[a].fresh
    BY <1>3, <2>2, ItemKeeps, SourceRows DEF Activate, At
  <2> QED BY <2>1, <2>2
<1>4. CASE NormalizeOk(a)
  BY <1>0, <1>4, ItemKeeps DEF NormalizeOk, At
<1>5. CASE NormalizeError(a)
  BY <1>0, <1>5, StepKeeps DEF NormalizeError, At
<1>6. CASE MarkSource(a)
  BY <1>6, ItemKeeps, SourceRows DEF MarkSource, At
<1> QED BY <1>1, <1>2, <1>3, <1>4, <1>5, <1>6 DEF Item

LEMMA RunStepKeeps == ASSUME IInv, NEW r \in Runs, Proceed(r) PROVE IInv'
<1>0. /\ source \in [status : {"waiting_for_events", "active", "error"}, error : BOOLEAN]
      /\ sync \in [Runs -> RunRowType] /\ faults \in 0..MaxFaults /\ dropped \in SUBSET Actors
      /\ aborted \in SUBSET Runs
      /\ r \in Actors /\ r \notin Hooks
  BY SyncRows DEF IInv, TypeOK, Actors
<1>1. CASE FetchHistory(r)
  BY <1>1, FetchHistoryKeeps
<1>2. CASE FetchMessages(r)
  BY <1>2, FetchMessagesKeeps
<1>3. CASE Acknowledge(r)
  BY <1>3, AcknowledgeKeeps
<1>4. CASE Trouble(r)
  <2>1. faults' \in 0..MaxFaults /\ act[r].step # "touch" /\ act[r].step # "done"
    BY <1>0, <1>4 DEF Trouble
  <2> QED BY <1>0, <1>4, <2>1, LeaveKeeps DEF Trouble
<1>5. CASE Complete(r)
  BY <1>5, CompleteKeeps
<1>6. CASE Touch(r)
  <2>1. source' \in [status : {"waiting_for_events", "active", "error"}, error : BOOLEAN]
    BY <1>0, <1>6 DEF Touch
  <2>2. Goto(r, "done") /\ act[r].step = "touch" /\ UNCHANGED <<kind, retained, raw, sync, faults, dropped, aborted>>
    BY <1>6 DEF Touch, At
  <2> QED BY <1>0, <2>1, <2>2, EndKeeps
<1>7. CASE FailRun(r)
  <2> DEFINE entry == [sync[r] EXCEPT !.status = "failed"]
  <2>1. sync' = [sync EXCEPT ![r] = entry]
    BY <1>7 DEF FailRun
  <2>2. entry \in RunRowType /\ entry.status # "completed"
    <3>1. sync[r] \in RunRowType
      BY <1>0
    <3> QED BY <3>1 DEF RunRowType
  <2> HIDE DEF entry
  <2>3. sync' \in [Runs -> RunRowType] /\ (\A q \in Runs \ {r} : sync'[q] = sync[q])
        /\ sync'[r].status # "completed"
    BY <1>0, <2>1, <2>2
  <2>4. Goto(r, "blame") /\ act[r].step = "fail" /\ UNCHANGED <<kind, retained, raw, faults, dropped, aborted>>
        /\ source' \in [status : {"waiting_for_events", "active", "error"}, error : BOOLEAN]
    BY <1>0, <1>7 DEF FailRun, At
  <2> QED BY <1>0, <2>3, <2>4, EndKeeps
<1>8. CASE Blame(r)
  <2>1. Goto(r, "done") /\ act[r].step = "blame" /\ UNCHANGED <<kind, retained, raw, sync, faults, dropped, aborted>>
        /\ source' = [status |-> "error", error |-> TRUE]
    BY <1>8 DEF Blame, At
  <2> QED BY <1>0, <2>1, EndKeeps, SourceRows
<1>9. CASE Audit(r)
  BY <1>9, AuditKeeps
<1>10. CASE Abort(r)
  <2>1. faults' \in 0..MaxFaults /\ aborted' \in SUBSET Runs /\ act[r].step # "done"
    BY <1>0, <1>10 DEF Abort
  <2>2. Leave(r, "done") /\ UNCHANGED <<kind, retained, raw, source, sync, dropped>>
    BY <1>10 DEF Abort
  <2> QED BY <1>0, <2>1, <2>2, LeaveKeeps
<1> QED BY <1>1, <1>2, <1>3, <1>4, <1>5, <1>6, <1>7, <1>8, <1>9, <1>10 DEF Proceed

LEMMA DropKeeps == ASSUME IInv, NEW a \in Actors, Drop(a) PROVE IInv'
<1> DEFINE step == IF a \in Hooks THEN "free" ELSE "done"
<1>1. step \in {"free", "fail", "done"} /\ (step = "free" <=> a \in Hooks) /\ Leave(a, step)
  BY DEF Drop
<1>2. faults' \in 0..MaxFaults /\ dropped' \in SUBSET Actors /\ aborted' \in SUBSET Runs
  BY DEF Drop, IInv, TypeOK
<1>3. a \in Runs /\ act[a].step = "touch" => step = "done"
  OBVIOUS
<1> HIDE DEF step
<1> QED BY <1>1, <1>2, <1>3, LeaveKeeps DEF Drop

LEMMA NextKeeps == IInv /\ [Next]_vars => IInv'
<1> SUFFICES ASSUME IInv, [Next]_vars PROVE IInv'
  OBVIOUS
<1>1. CASE UNCHANGED vars
  <2>1. /\ kind' = kind /\ retained' = retained /\ raw' = raw /\ source' = source /\ sync' = sync
        /\ act' = act /\ faults' = faults /\ dropped' = dropped
        /\ aborted' = aborted
    BY <1>1 DEF vars
  <2>2. TypeOK'
    BY <2>1 DEF IInv, TypeOK
  <2>3. Stored' = Stored /\ \A a : Mine(a)' = Mine(a) /\ Waiting(a)' = Waiting(a)
    BY <2>1 DEF Stored, Mine, Waiting
  <2>4. \A a \in Actors : TodoFits(a)'
    BY <2>1 DEF IInv, TodoFits
  <2>5. ASSUME NEW r \in Runs PROVE RunTrue(r)'
    <3>1. RunTrue(r)
      BY DEF IInv
    <3>2. BatchAccounted(r)' /\ Counted(r)' /\ PageTaken(r)'
      BY <2>1, <2>3, <3>1 DEF RunTrue, BatchAccounted, Counted, PageTaken
    <3>3. RowTrue(r)'
      BY <2>1, <2>3, <3>1 DEF RunTrue, RowTrue, CoversItsPage
    <3> QED BY <3>2, <3>3 DEF RunTrue
  <2>6. AcknowledgedIsStored'
    BY <2>1, <2>3 DEF IInv, AcknowledgedIsStored
  <2> QED BY <2>2, <2>4, <2>5, <2>6 DEF IInv
<1>2. CASE Next
  BY <1>2, BeginKeeps, RunStepKeeps, ReceiveKeeps, ItemStepKeeps, DropKeeps DEF Next
<1> QED BY <1>1, <1>2

LEMMA Invariance == Spec => []IInv
  BY InitEstablishes, NextKeeps, PTL DEF Spec

LEMMA Safety == IInv => RecordsInsertedExact /\ CursorSkipsNothing
  BY DEF IInv, RunTrue, RowTrue, Mine, RecordsInsertedExact, CursorSkipsNothing

\* The rows and locals of catch-up keep their shape.
THEOREM TypeCorrect == Spec => []TypeOK
<1>1. IInv => TypeOK
  BY DEF IInv
<1> QED BY <1>1, Invariance, PTL

\* Catch-up acknowledges nothing to Pub/Sub that it has not stored.
THEOREM NothingIsLost == Spec => []AcknowledgedIsStored
<1>1. IInv => AcknowledgedIsStored
  BY DEF IInv
<1> QED BY <1>1, Invariance, PTL

\* A completed run's records_inserted is the number of raw events with its id.
THEOREM CountersAreExact == Spec => []RecordsInsertedExact
<1> QED BY Safety, Invariance, PTL

\* With a limit of a page or more, the cursor a run returns skips nothing.
THEOREM CursorsCover == Spec => []CursorSkipsNothing
<1> QED BY Safety, Invariance, PTL

=============================================================================
