------------------------------- MODULE Ingest -------------------------------
(***************************************************************************)
(* Webhook ingestion (crates/api routes.rs, store_webhook_payload) on top  *)
(* of the job queue: a delivery is stored in raw_events, the data source   *)
(* is marked active, the normalization job is enqueued and run in place,   *)
(* and a failure is written back to the event and the source.  Every SQL   *)
(* statement is an action; deliveries of one event, the background pollers *)
(* and operators' retries interleave between them.                         *)
(*                                                                         *)
(* An event stands for one (data_source_id, source_event_id).  Only the    *)
(* request that inserts the raw row enqueues a job for it, so the rows of  *)
(* the jobs table are named by their event.  Payloads, signatures and the  *)
(* provider lookup decide nothing here beyond what Deliver assumes: the    *)
(* delivery was verified.                                                  *)
(***************************************************************************)
EXTENDS Naturals, FiniteSets

CONSTANTS
  Events, Pollers, Requests, NoJob, Nobody,
  MaxAttempts, BackoffCap, Lease, MaxFaults,   \* as in JobQueue; MaxFaults bounds all lost requests
  MaxDeliveries   \* BOUND: how often the provider delivers an event

VARIABLES
  jobs, ahead, pc, held, outcome, processed, faults,   \* the job queue
  mapped,       \* events extract_event gives a normalized type (a fixed fact)
  raw,          \* raw_events.processing_status per event
  source,       \* data_sources.status
  req,          \* [step, event]: where each request is in store_webhook_payload
  deliveries,   \* deliveries of each event so far
  drops,        \* requests lost so far outside the queue
  answered      \* events some delivery of which was answered with 200

Q == INSTANCE JobQueue WITH Jobs <- Events

Inbox == INSTANCE EventInbox
  WITH stored <- {ev \in Events : raw[ev] # "absent"}, normalized <- processed

queueVars == <<jobs, ahead, pc, held, outcome, processed, faults>>
ingestVars == <<mapped, raw, source, req, deliveries, drops, answered>>
vars == <<queueVars, ingestVars>>

Executors == Pollers \cup Requests

ReqSteps == {"free", "fresh", "known", "enqueue", "inline", "mark_source", "reply", "retry"}

NoEvent == NoJob

\* JobQueue's assumptions, and that the bound on deliveries is a number.
ASSUME IngestAssumption ==
  /\ MaxAttempts \in Nat \ {0} /\ BackoffCap \in Nat \ {0}
  /\ Lease \in Nat /\ MaxFaults \in Nat /\ MaxDeliveries \in Nat
  /\ Pollers \cap Requests = {} /\ NoJob \notin Events /\ Nobody \notin Executors

Free == [step |-> "free", event |-> NoEvent]

Init ==
  /\ Q!Init
  /\ mapped \in SUBSET Events
  /\ raw = [ev \in Events |-> "absent"]
  /\ source = "waiting_for_events"
  /\ req = [r \in Requests |-> Free]
  /\ deliveries = [ev \in Events |-> 0]
  /\ drops = 0
  /\ answered = {}

At(r, step) == req[r].step = step

Move(r, step) == req' = [req EXCEPT ![r].step = step]

\* Mutants of Deliver: a duplicate is taken for new; the insert is lost.
DeliverAgain(r, ev) ==
  /\ At(r, "free") /\ pc[r] = "idle"
  /\ deliveries[ev] < MaxDeliveries
  /\ deliveries' = [deliveries EXCEPT ![ev] = @ + 1]
  /\ raw' = [raw EXCEPT ![ev] = "stored"]
  /\ req' = [req EXCEPT ![r] = [step |-> "fresh", event |-> ev]]
  /\ UNCHANGED <<mapped, source, drops, answered, queueVars>>
DeliverUnstored(r, ev) ==
  /\ At(r, "free") /\ pc[r] = "idle"
  /\ deliveries[ev] < MaxDeliveries
  /\ deliveries' = [deliveries EXCEPT ![ev] = @ + 1]
  /\ req' = [req EXCEPT ![r] = [step |-> "known", event |-> ev]]
  /\ UNCHANGED <<mapped, raw, source, drops, answered, queueVars>>

\* insert into raw_events ... on conflict do nothing, for a verified delivery.
Deliver(r, ev) ==
  /\ At(r, "free") /\ pc[r] = "idle"
  /\ deliveries[ev] < MaxDeliveries
  /\ deliveries' = [deliveries EXCEPT ![ev] = @ + 1]
  /\ \/ /\ raw[ev] = "absent"
        /\ raw' = [raw EXCEPT ![ev] = "stored"]
        /\ req' = [req EXCEPT ![r] = [step |-> "fresh", event |-> ev]]
     \/ /\ raw[ev] # "absent"
        /\ req' = [req EXCEPT ![r] = [step |-> "known", event |-> ev]]
        /\ UNCHANGED raw
  /\ UNCHANGED <<mapped, source, drops, answered, queueVars>>

\* Mutant of Activate: a new event is answered like a duplicate.
ActivateOnly(r) ==
  /\ At(r, "fresh") \/ At(r, "known")
  /\ source' = "active"
  /\ Move(r, "reply")
  /\ UNCHANGED <<mapped, raw, deliveries, drops, answered, queueVars>>

\* The source is active whether or not the event is new; a duplicate ends here.
Activate(r) ==
  /\ At(r, "fresh") \/ At(r, "known")
  /\ source' = "active"
  /\ Move(r, IF At(r, "fresh") THEN "enqueue" ELSE "reply")
  /\ UNCHANGED <<mapped, raw, deliveries, drops, answered, queueVars>>

EnqueueJob(r) ==
  /\ At(r, "enqueue")
  /\ Q!Enqueue(r, req[r].event)
  /\ Move(r, "inline")
  /\ UNCHANGED <<mapped, raw, source, deliveries, drops, answered>>

\* An executor's next statement of process_normalization_job.  When
\* process_raw_event succeeds, its last statement marks a mapped event processed
\* and puts an unmapped one back to stored.
RunJob(e) ==
  \/ /\ Q!Normalized(e)
     /\ raw' = [raw EXCEPT ![held[e]] = IF held[e] \in mapped THEN "processed" ELSE "stored"]
     /\ UNCHANGED <<mapped, source, req, deliveries, drops, answered>>
  \/ /\ \/ Q!Claim(e) \/ Q!ClaimMiss(e) \/ Q!NormalizeError(e)
        \/ Q!Complete(e) \/ Q!Fail(e)
     /\ UNCHANGED ingestVars

PollerSelect(w) == Q!Select(w) /\ UNCHANGED ingestVars

\* Mutant of MarkFailed: a failed retry is written back to the event as well.
MarkFailedOnRetry(r) ==
  /\ At(r, "inline") \/ At(r, "retry")
  /\ outcome[r] \in {"error", "missing"}
  /\ raw' = [raw EXCEPT ![req[r].event] = "failed"]
  /\ Move(r, "mark_source")
  /\ Q!Collect(r)
  /\ UNCHANGED <<mapped, source, deliveries, drops, answered>>

\* The inline run returned an error; RowNotFound, when a poller was faster, is
\* one as well.  The event is marked failed, then the source.
MarkFailed(r) ==
  /\ At(r, "inline") /\ outcome[r] \in {"error", "missing"}
  /\ raw' = [raw EXCEPT ![req[r].event] = "failed"]
  /\ Move(r, "mark_source")
  /\ Q!Collect(r)
  /\ UNCHANGED <<mapped, source, deliveries, drops, answered>>

\* Mutant of MarkSource: a status the table does not have.
MarkSourceFailed(r) ==
  /\ At(r, "mark_source")
  /\ source' = "failed"
  /\ Move(r, "reply")
  /\ UNCHANGED <<mapped, raw, deliveries, drops, answered, queueVars>>

MarkSource(r) ==
  /\ At(r, "mark_source")
  /\ source' = "error"
  /\ Move(r, "reply")
  /\ UNCHANGED <<mapped, raw, deliveries, drops, answered, queueVars>>

\* 200 with "received": true, also when normalization failed.
Reply(r) ==
  /\ \/ At(r, "reply") /\ UNCHANGED queueVars
     \/ At(r, "inline") /\ outcome[r] = "ok" /\ Q!Collect(r)
  /\ answered' = answered \cup {req[r].event}
  /\ req' = [req EXCEPT ![r] = Free]
  /\ UNCHANGED <<mapped, raw, source, deliveries, drops>>

\* POST /api/jobs/{id}/retry; its outcome is only logged.
Retry(r, ev) ==
  /\ At(r, "free")
  /\ Q!Retry(r, ev)
  /\ req' = [req EXCEPT ![r] = [step |-> "retry", event |-> ev]]
  /\ UNCHANGED <<mapped, raw, source, deliveries, drops, answered>>

RetryDone(r) ==
  /\ At(r, "retry")
  /\ Q!Collect(r)
  /\ req' = [req EXCEPT ![r] = Free]
  /\ UNCHANGED <<mapped, raw, source, deliveries, drops, answered>>

\* The request dies (process crash, client gone, statement error) between two
\* statements of its own, and no answer is sent.
Drop(r) ==
  /\ req[r].step \in {"fresh", "known", "enqueue", "mark_source", "reply"}
  /\ faults + drops < MaxFaults
  /\ drops' = drops + 1
  /\ req' = [req EXCEPT ![r] = Free]
  /\ UNCHANGED <<mapped, raw, source, deliveries, answered, queueVars>>

\* It dies, or a statement fails, inside process_normalization_job.  Only a
\* failed statement lets the handler go on to record the failure.
DropInJob(e) ==
  /\ faults + drops < MaxFaults
  /\ Q!Abandon(e)
  /\ UNCHANGED <<mapped, raw, source, deliveries, drops, answered>>
  /\ IF e \in Requests /\ outcome'[e] = "none"
       THEN req' = [req EXCEPT ![e] = Free]
       ELSE UNCHANGED req

Tick == Q!Tick /\ UNCHANGED ingestVars

\* What a request does by itself once it has begun.
Proceed(r) ==
  \/ Activate(r) \/ EnqueueJob(r) \/ MarkFailed(r) \/ MarkSource(r)
  \/ Reply(r) \/ RetryDone(r)

Next ==
  \/ \E r \in Requests, ev \in Events : Deliver(r, ev) \/ Retry(r, ev)
  \/ \E r \in Requests : Proceed(r) \/ Drop(r)
  \/ \E w \in Pollers : PollerSelect(w)
  \/ \E e \in Executors : RunJob(e) \/ DropInJob(e)
  \/ Tick

Spec == Init /\ [][Next]_vars

Fairness ==
  /\ \A r \in Requests : WF_vars(Proceed(r))
  /\ \A e \in Executors : WF_vars(RunJob(e))
  /\ \A w \in Pollers : WF_vars(PollerSelect(w))
  /\ WF_vars(Tick)

FairSpec == Spec /\ Fairness

-----------------------------------------------------------------------------

\* Statuses, request steps and counters stay in their ranges.
TypeOK ==
  /\ Q!TypeOK
  /\ mapped \subseteq Events
  /\ raw \in [Events -> {"absent", "stored", "processed", "failed"}]
  /\ source \in {"waiting_for_events", "active", "error"}
  /\ req \in [Requests -> [step : ReqSteps, event : Events \cup {NoEvent}]]
  /\ deliveries \in [Events -> 0..MaxDeliveries]
  /\ drops \in 0..MaxFaults
  /\ answered \subseteq Events

\* Repeated and concurrent deliveries of one event lead to at most one job: a
\* request on its way to enqueue is the only one and no job exists yet.
OneJobPerEvent ==
  \A r \in Requests : req[r].step \in {"fresh", "enqueue"} =>
    /\ ~Q!Present(req[r].event)
    /\ \A s \in Requests : req[s].step \in {"fresh", "enqueue"} /\ req[s].event = req[r].event
                             => s = r

\* Stored events that nobody will enqueue any more: a redelivery is a duplicate.
Forgotten ==
  {ev \in Events :
     /\ raw[ev] # "absent" /\ ~Q!Present(ev)
     /\ ~ \E r \in Requests : req[r].step \in {"fresh", "enqueue"} /\ req[r].event = ev}

\* Each request lost outside the queue leaves at most one stored event that will never
\* have a job; nothing else does: not a duplicate that overtakes the first delivery,
\* not a fault inside a job, not a retry.
LossIsCounted == IsFiniteSet(Forgotten) /\ Cardinality(Forgotten) <= drops

\* An event once shown as processed stays so, whatever pollers and operators'
\* retries do later; only the request that first stored it, reporting its own
\* inline run late, may still turn it into a failed one.
ProcessedEventStays ==
  [][\A ev \in Events :
       raw[ev] = "processed" /\ (\A r \in Requests : At(r, "inline") => req[r].event # ev)
         => raw'[ev] = "processed"]_vars

\* Nobody is working on the event or answering a delivery of it.
NoOneOn(ev) ==
  /\ \A e \in Executors : held[e] # ev
  /\ \A r \in Requests : req[r].event # ev

\* docs/user-workflows.md:275 lists, for the data-quality view of failed events,
\* "A webhook event failed normalization.": once nobody works on the event, failed
\* means that its normalization did not succeed.
FailedMeansNotNormalized ==
  \A ev \in Events :
    raw[ev] = "failed" /\ NoOneOn(ev) => jobs[ev].status # "completed"

\* docs/architecture.md:164 puts "Enqueue normalization job" before "Return
\* success": an answered event has its job, however often it was delivered.
AnsweredGetsJob ==
  \A ev \in Events : ev \in answered ~> Q!Present(ev)

\* An answered event is eventually normalized or given up as dead, although a
\* duplicate may be answered before the job exists, and although executors die
\* inside the job; only a request lost outside the job can prevent it.
AnsweredSettles ==
  \A ev \in Events :
    ev \in answered ~> (ev \in processed \/ jobs[ev].status = "dead" \/ drops > 0)

\* Ingestion implements the inbox: store, then answer and normalize, for good.
ImplementsInbox == Inbox!Spec

=============================================================================
