------------------------------- MODULE CatchUp -------------------------------
(***************************************************************************)
(* Missed-webhook catch-up (catchup.rs; catch_up_data_source and           *)
(* run_webhook_catch_up in routes.rs) for one data source, next to live    *)
(* webhooks of the same notifications: a run pulls one batch from the      *)
(* provider, stores each notification as a webhook would be, acknowledges  *)
(* the batch and writes down how it ended.  Every SQL statement and every  *)
(* call of the provider is an action.                                      *)
(*                                                                         *)
(* What follows the insert of a raw event (job, inline run, see Ingest) is *)
(* one step here that succeeds or fails: catch-up looks at neither.        *)
(***************************************************************************)
EXTENDS Naturals, Sequences, FiniteSets

CONSTANTS
  Notes,      \* notifications of the source
  Forged,     \* those that do not pass verification (another bundle or package)
  Runs,       \* catch-up requests, one sync_runs row each
  Hooks,      \* webhook requests
  None,
  History,    \* the App Store's notification history, oldest first
  PageSize,   \* notifications per page of it
  Limits,     \* the "limit" of the requests
  MaxFaults   \* BOUND: calls and statements that fail, and requests that are lost

Actors == Runs \cup Hooks

ASSUME CatchUpAssumption ==
  /\ IsFiniteSet(Notes)
  /\ Forged \subseteq Notes
  /\ History \in Seq(Notes)
  /\ PageSize \in Nat \ {0}
  /\ Limits \subseteq Nat \ {0}
  /\ MaxFaults \in Nat
  /\ Runs \cap Hooks = {}
  /\ None \notin Nat \cup Actors

VARIABLES
  kind,       \* data_sources.source_type, fixed
  retained,   \* messages the Pub/Sub subscription still holds
  raw,        \* raw[n]: the request that stored n, None before
  source,     \* data_sources: status, and whether last_error is set
  sync,       \* the sync_runs rows
  act,        \* where each request is, and its locals
  faults,     \* failures so far
  dropped,    \* requests lost half-way
  aborted     \* runs answered 500, with their last statement not done

vars == <<kind, retained, raw, source, sync, act, faults, dropped, aborted>>

\* A run's start and limit are its inputs; batch, inserted and next its locals.
Idle == [step |-> "free", todo |-> <<>>, fresh |-> FALSE, start |-> 0, limit |-> 1,
         batch |-> {}, inserted |-> 0, next |-> None]

NoRun == [status |-> "absent", cursor |-> None, seen |-> 0, inserted |-> 0]

Init ==
  /\ kind \in {"app_store", "google_play"}
  /\ retained = Notes
  /\ raw = [n \in Notes |-> None]
  /\ source = [status |-> "waiting_for_events", error |-> FALSE]
  /\ sync = [r \in Runs |-> NoRun]
  /\ act = [a \in Actors |-> Idle]
  /\ faults = 0
  /\ dropped = {}
  /\ aborted = {}

Lesser(m, n) == IF m <= n THEN m ELSE n

At(a, step) == act[a].step = step

Goto(a, step) == act' = [act EXCEPT ![a].step = step]

\* The same, out of the scope of the batch and its counters.
Leave(a, step) ==
  act' = [act EXCEPT ![a].step = step, ![a].todo = <<>>, ![a].batch = {}, ![a].inserted = 0,
                     ![a].fresh = FALSE]

Stored == {n \in Notes : raw[n] # None}

\* The sync_runs row is inserted first, with the cursor of the request: none, or
\* one that an earlier run has returned.
Begin(r, limit, cursor) ==
  /\ At(r, "free")
  /\ sync' = [sync EXCEPT ![r].status = "running", ![r].cursor = cursor]
  /\ act' = [act EXCEPT ![r].step = "audit", ![r].limit = limit,
                        ![r].start = IF cursor = None THEN 0 ELSE cursor]
  /\ UNCHANGED <<kind, retained, raw, source, faults, dropped, aborted>>

\* The audit row is a statement of its own, before the provider is called.
Audit(r) ==
  /\ At(r, "audit")
  /\ Goto(r, "fetch")
  /\ UNCHANGED <<kind, retained, raw, source, sync, faults, dropped, aborted>>

Cursors == {None} \cup {sync[r].cursor : r \in {q \in Runs : sync[q].status = "completed"}}

\* What is next once the items in todo are left: a webhook has a single one.
After(a, todo) ==
  IF todo # <<>> THEN "store"
  ELSE IF a \in Hooks THEN "free"
  ELSE IF kind = "google_play" THEN "ack" ELSE "complete"

\* One page of history, cut to the limit; the token is that of the whole page.
FetchHistory(r) ==
  /\ At(r, "fetch") /\ kind = "app_store"
  /\ LET from == act[r].start
         page == SubSeq(History, from + 1, Lesser(from + PageSize, Len(History)))
         todo == SubSeq(page, 1, Lesser(act[r].limit, Len(page)))
     IN act' = [act EXCEPT ![r].todo = todo,
                           ![r].batch = {todo[i] : i \in DOMAIN todo},
                           ![r].next = IF from + PageSize < Len(History) THEN from + PageSize ELSE None,
                           ![r].step = After(r, todo)]
  /\ UNCHANGED <<kind, retained, raw, source, sync, faults, dropped, aborted>>

\* Sequences a pull may return: some of the retained messages in any order.
Pulls(limit) ==
  {s \in UNION {[1..n -> retained] : n \in 0..Cardinality(Notes)} :
     Len(s) <= limit /\ \A i, j \in DOMAIN s : s[i] = s[j] => i = j}

FetchMessages(r) ==
  /\ At(r, "fetch") /\ kind = "google_play"
  /\ \E todo \in Pulls(act[r].limit) :
       act' = [act EXCEPT ![r].todo = todo,
                          ![r].batch = {todo[i] : i \in DOMAIN todo},
                          ![r].step = After(r, todo)]
  /\ UNCHANGED <<kind, retained, raw, source, sync, faults, dropped, aborted>>

\* A webhook of notification n.
Receive(h, n) ==
  /\ At(h, "free")
  /\ act' = [act EXCEPT ![h].step = "store", ![h].todo = <<n>>]
  /\ UNCHANGED <<kind, retained, raw, source, sync, faults, dropped, aborted>>

\* Mutant of Reject: a notification that fails verification is passed over.
RejectOne(a) ==
  /\ At(a, "store") /\ Head(act[a].todo) \in Forged
  /\ act' = [act EXCEPT ![a].todo = Tail(@), ![a].step = After(a, Tail(act[a].todo))]
  /\ UNCHANGED <<kind, retained, raw, source, sync, faults, dropped, aborted>>

\* Verification fails: 401 for a webhook, the end of the batch for a run.
Reject(a) ==
  /\ At(a, "store") /\ Head(act[a].todo) \in Forged
  /\ Leave(a, IF a \in Hooks THEN "free" ELSE "fail")
  /\ UNCHANGED <<kind, retained, raw, source, sync, faults, dropped, aborted>>

\* insert into raw_events ... on conflict do nothing, with the sync_run_id.
Insert(a) ==
  /\ At(a, "store") /\ Head(act[a].todo) \notin Forged
  /\ LET n == Head(act[a].todo)
     IN /\ raw' = [raw EXCEPT ![n] = IF @ = None THEN a ELSE @]
        /\ act' = [act EXCEPT ![a].todo = Tail(@), ![a].fresh = raw[n] = None,
                              ![a].step = "activate"]
  /\ UNCHANGED <<kind, retained, source, sync, faults, dropped, aborted>>

\* The item is done; records_inserted counts the new ones.
ItemDone(a) ==
  act' = [act EXCEPT ![a].step = After(a, act[a].todo), ![a].fresh = FALSE,
                     ![a].inserted = IF act[a].fresh /\ a \in Runs THEN @ + 1 ELSE @]

Activate(a) ==
  /\ At(a, "activate")
  /\ source' = [status |-> "active", error |-> FALSE]
  /\ IF act[a].fresh THEN Goto(a, "normalize") ELSE ItemDone(a)
  /\ UNCHANGED <<kind, retained, raw, sync, faults, dropped, aborted>>

NormalizeOk(a) ==
  /\ At(a, "normalize")
  /\ ItemDone(a)
  /\ UNCHANGED <<kind, retained, raw, source, sync, faults, dropped, aborted>>

NormalizeError(a) ==
  /\ At(a, "normalize")
  /\ Goto(a, "mark")
  /\ UNCHANGED <<kind, retained, raw, source, sync, faults, dropped, aborted>>

\* The failure is written to the source; a run goes on with its batch.
MarkSource(a) ==
  /\ At(a, "mark")
  /\ source' = [status |-> "error", error |-> TRUE]
  /\ ItemDone(a)
  /\ UNCHANGED <<kind, retained, raw, sync, faults, dropped, aborted>>

\* acknowledge_batch, after the whole batch is stored.
Acknowledge(r) ==
  /\ At(r, "ack")
  /\ retained' = retained \ act[r].batch
  /\ Goto(r, "complete")
  /\ UNCHANGED <<kind, raw, source, sync, faults, dropped, aborted>>

\* A call of the provider or a statement fails inside run_webhook_catch_up.
Trouble(r) ==
  /\ act[r].step \in {"fetch", "store", "activate", "normalize", "mark", "ack"}
  /\ faults < MaxFaults
  /\ faults' = faults + 1
  /\ Leave(r, "fail")
  /\ UNCHANGED <<kind, retained, raw, source, sync, dropped, aborted>>

\* Mutant of Complete: everything seen counts as inserted.
CompleteSeen(r) ==
  /\ At(r, "complete")
  /\ sync' = [sync EXCEPT ![r] = [status |-> "completed", cursor |-> act[r].next,
                                  seen |-> Cardinality(act[r].batch),
                                  inserted |-> Cardinality(act[r].batch)]]
  /\ Leave(r, "touch")
  /\ UNCHANGED <<kind, retained, raw, source, faults, dropped, aborted>>

Complete(r) ==
  /\ At(r, "complete")
  /\ sync' = [sync EXCEPT ![r] = [status |-> "completed", cursor |-> act[r].next,
                                  seen |-> Cardinality(act[r].batch),
                                  inserted |-> act[r].inserted]]
  /\ Leave(r, "touch")
  /\ UNCHANGED <<kind, retained, raw, source, faults, dropped, aborted>>

\* last_error is cleared, the status is not looked at.
Touch(r) ==
  /\ At(r, "touch")
  /\ source' = [source EXCEPT !.error = FALSE]
  /\ Goto(r, "done")
  /\ UNCHANGED <<kind, retained, raw, sync, faults, dropped, aborted>>

\* Mutant of FailRun: the row of a failed run is left as it is.
FailSilently(r) ==
  /\ At(r, "fail")
  /\ Goto(r, "blame")
  /\ UNCHANGED <<kind, retained, raw, source, sync, faults, dropped, aborted>>

FailRun(r) ==
  /\ At(r, "fail")
  /\ sync' = [sync EXCEPT ![r].status = "failed"]
  /\ Goto(r, "blame")
  /\ UNCHANGED <<kind, retained, raw, source, faults, dropped, aborted>>

\* Mutant of Blame: the source gets the status word of the run.
BlameFailed(r) ==
  /\ At(r, "blame")
  /\ source' = [status |-> "failed", error |-> TRUE]
  /\ Goto(r, "done")
  /\ UNCHANGED <<kind, retained, raw, sync, faults, dropped, aborted>>

Blame(r) ==
  /\ At(r, "blame")
  /\ source' = [status |-> "error", error |-> TRUE]
  /\ Goto(r, "done")
  /\ UNCHANGED <<kind, retained, raw, sync, faults, dropped, aborted>>

\* A statement of the handler itself fails, before or after the batch: the answer
\* is 500 and what was to be written is not.
Abort(r) ==
  /\ act[r].step \in {"audit", "complete", "touch", "fail", "blame"}
  /\ faults < MaxFaults
  /\ faults' = faults + 1
  /\ aborted' = aborted \cup {r}
  /\ Leave(r, "done")
  /\ UNCHANGED <<kind, retained, raw, source, sync, dropped>>

\* The request is lost: its process dies or its client goes away.
Drop(a) ==
  /\ act[a].step \notin {"free", "done"}
  /\ faults < MaxFaults
  /\ faults' = faults + 1
  /\ dropped' = dropped \cup {a}
  /\ Leave(a, IF a \in Hooks THEN "free" ELSE "done")
  /\ UNCHANGED <<kind, retained, raw, source, sync, aborted>>

\* An item's statements, and the rest of a run.
Item(a) ==
  \/ Reject(a) \/ Insert(a) \/ Activate(a)
  \/ NormalizeOk(a) \/ NormalizeError(a) \/ MarkSource(a)

Proceed(r) ==
  \/ Audit(r) \/ FetchHistory(r) \/ FetchMessages(r) \/ Acknowledge(r) \/ Trouble(r)
  \/ Complete(r) \/ Touch(r) \/ FailRun(r) \/ Blame(r) \/ Abort(r)

Next ==
  \/ \E r \in Runs, limit \in Limits, cursor \in Cursors : Begin(r, limit, cursor)
  \/ \E r \in Runs : Proceed(r)
  \/ \E h \in Hooks, n \in Notes : Receive(h, n)
  \/ \E a \in Actors : Item(a) \/ Drop(a)

Spec == Init /\ [][Next]_vars

Fairness ==
  /\ \A r \in Runs : WF_vars(Proceed(r))
  /\ \A a \in Actors : WF_vars(Item(a))

FairSpec == Spec /\ Fairness

-----------------------------------------------------------------------------

Steps == {"free", "audit", "fetch", "store", "activate", "normalize", "mark", "ack", "complete",
          "touch", "fail", "blame", "done"}

\* Rows and locals keep their shape.
TypeOK ==
  /\ kind \in {"app_store", "google_play"}
  /\ retained \subseteq Notes
  /\ raw \in [Notes -> Actors \cup {None}]
  /\ source \in [status : {"waiting_for_events", "active", "error"}, error : BOOLEAN]
  /\ sync \in [Runs -> [status : {"absent", "running", "completed", "failed"},
                        cursor : 0..Len(History) \cup {None}, seen : Nat, inserted : Nat]]
  /\ act \in [Actors -> [step : Steps, todo : Seq(Notes), fresh : BOOLEAN,
                         start : 0..Len(History), limit : Nat \ {0}, batch : SUBSET Notes,
                         inserted : Nat, next : 0..Len(History) \cup {None}]]
  /\ faults \in 0..MaxFaults
  /\ dropped \subseteq Actors
  /\ aborted \subseteq Runs

\* A message the subscription no longer holds has been stored, whatever failed,
\* was lost or ran at the same time: catch-up loses nothing between the provider
\* and raw_events.
AcknowledgedIsStored == Notes \ retained \subseteq Stored

\* A completed run reports exactly the raw events that carry its id, also when
\* live webhooks and other runs store the same notifications meanwhile.
RecordsInsertedExact ==
  \A r \in Runs : sync[r].status = "completed" =>
    /\ sync[r].inserted = Cardinality({n \in Notes : raw[n] = r})
    /\ sync[r].inserted <= sync[r].seen

\* docs/api.md:338: "App Store pulls notification history and stores returned
\* `signedPayload` bodies": all notifications between the cursor a run was given
\* and the one it returned are stored.
CoversItsPage(r) ==
  LET last == IF act[r].next = None THEN Len(History) ELSE act[r].next
  IN \A i \in (act[r].start + 1)..last : History[i] \in Stored

PageStored ==
  \A r \in Runs : kind = "app_store" /\ sync[r].status = "completed" => CoversItsPage(r)

\* With a limit of at least a page, following the cursors skips no notification.
CursorSkipsNothing ==
  \A r \in Runs :
    kind = "app_store" /\ sync[r].status = "completed" /\ act[r].limit >= PageSize
      => CoversItsPage(r)

\* Whatever fails while a batch is pulled, stored or acknowledged, the run ends as
\* completed or failed.  Its row stays running for ever in two cases only: the
\* request is lost, or a statement of catch_up_data_source itself fails (the audit
\* row, or the update that would end the run), which is answered with 500.
RunEnds ==
  \A r \in Runs :
    sync[r].status = "running" ~>
      (sync[r].status \in {"completed", "failed"} \/ r \in dropped \cup aborted)

\* docs/user-workflows.md:115 has the source show its "Last processing error": a
\* source in error says why.
ErrorIsShown == source.status = "error" => source.error

=============================================================================
