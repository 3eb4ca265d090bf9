---------------------------- MODULE IngestProofs ----------------------------
(***************************************************************************)
(* Theorems about Ingest, for any events, pollers, requests and bounds.    *)
(* What JobQueueProofs proves of the queue holds of the queue under        *)
(* ingestion as well, since ingestion uses it through its operations only. *)
(***************************************************************************)
EXTENDS Ingest, FiniteSetTheorems, TLAPS

USE IngestAssumption DEF Executors

Queue == INSTANCE JobQueueProofs WITH Jobs <- Events

\* What a request is working on, and what has a job, is stored.
WorkIsStored ==
  /\ \A r \in Requests : req[r].step # "free" =>
       req[r].event \in Events /\ raw[req[r].event] # "absent"
  /\ \A ev \in Events : Q!Present(ev) => raw[ev] # "absent"

\* Only events with a normalized type are ever processed.
ProcessedIsMapped == \A ev \in Events : raw[ev] = "processed" => ev \in mapped

\* Ingestion's part of the inductive invariant, beside the queue's.
IInv == TypeOK /\ WorkIsStored /\ OneJobPerEvent /\ ProcessedIsMapped

-----------------------------------------------------------------------------
\* The queue inside ingestion.

\* Every step of ingestion is one of the queue's operations or leaves it alone.
LEMMA StepUsesQueue == WorkIsStored /\ [Next]_vars => [Q!Next]_(Q!queueVars)
<1> SUFFICES ASSUME WorkIsStored, [Next]_vars PROVE Q!Next \/ UNCHANGED queueVars
  BY DEF Q!queueVars, queueVars
<1> USE DEF Q!Next, Q!Execute, Q!Executors
<1>1. ASSUME NEW r \in Requests, NEW ev \in Events, Deliver(r, ev) \/ Retry(r, ev)
      PROVE  Q!Next \/ UNCHANGED queueVars
  BY <1>1 DEF Deliver, Retry
<1>2. ASSUME NEW r \in Requests, EnqueueJob(r)
      PROVE  Q!Next
  BY <1>2 DEF EnqueueJob, At, WorkIsStored
<1>3. ASSUME NEW r \in Requests, Proceed(r) \/ Drop(r), ~EnqueueJob(r)
      PROVE  Q!Next \/ UNCHANGED queueVars
  BY <1>3 DEF Proceed, Drop, Activate, MarkFailed, MarkSource, Reply, RetryDone
<1>4. ASSUME NEW e \in Executors, RunJob(e) \/ DropInJob(e)
      PROVE  Q!Next
  BY <1>4 DEF RunJob, DropInJob
<1>5. ASSUME NEW w \in Pollers, PollerSelect(w)
      PROVE  Q!Next
  BY <1>5 DEF PollerSelect
<1>6. CASE Tick
  BY <1>6 DEF Tick
<1>7. CASE UNCHANGED vars
  BY <1>7 DEF vars
<1> QED BY <1>1, <1>2, <1>3, <1>4, <1>5, <1>6, <1>7 DEF Next

\* The queue that JobQueueProofs is about is the one that Ingest uses.
LEMMA SameQueue ==
  /\ Q!Init => Queue!Init
  /\ [Q!Next]_(Q!queueVars) => [Queue!Next]_(Queue!queueVars)
<1> USE DEF Q!Executors, Queue!Executors, Q!Present, Queue!Present, Q!Row, Queue!Row,
            Q!Requeued, Queue!Requeued, Q!Lesser, Queue!Lesser, Q!Begin, Queue!Begin,
            Q!Return, Queue!Return, Q!Goto, Queue!Goto, Q!Claimable, Queue!Claimable
<1>1. Q!Init => Queue!Init
  BY DEF Q!Init, Queue!Init
<1>2. ASSUME NEW r \in Requests, NEW j \in Events
      PROVE  /\ Q!Enqueue(r, j) => Queue!Enqueue(r, j)
             /\ Q!Retry(r, j) => Queue!Retry(r, j)
  BY DEF Q!Enqueue, Queue!Enqueue, Q!Retry, Queue!Retry
<1>3. ASSUME NEW r \in Requests PROVE Q!Collect(r) => Queue!Collect(r)
  BY DEF Q!Collect, Queue!Collect
<1>4. ASSUME NEW w \in Pollers PROVE Q!Select(w) => Queue!Select(w)
  BY DEF Q!Select, Queue!Select, Q!Due, Queue!Due
<1>5. ASSUME NEW e \in Executors
      PROVE  /\ Q!Claim(e) => Queue!Claim(e)
             /\ Q!ClaimMiss(e) => Queue!ClaimMiss(e)
             /\ Q!Normalized(e) => Queue!Normalized(e)
             /\ Q!NormalizeError(e) => Queue!NormalizeError(e)
             /\ Q!Complete(e) => Queue!Complete(e)
             /\ Q!Abandon(e) => Queue!Abandon(e)
  BY DEF Q!Claim, Queue!Claim, Q!ClaimMiss, Queue!ClaimMiss, Q!AttemptCap, Queue!AttemptCap,
         Q!Normalized, Queue!Normalized, Q!NormalizeError, Queue!NormalizeError,
         Q!Complete, Queue!Complete, Q!Abandon, Queue!Abandon
<1>6. ASSUME NEW e \in Executors PROVE Q!Fail(e) => Queue!Fail(e)
  BY DEF Q!Fail, Queue!Fail, Q!Exhausted, Queue!Exhausted
<1>7. Q!Tick => Queue!Tick
  BY DEF Q!Tick, Queue!Tick, Q!Aged, Queue!Aged
<1>8. [Q!Next]_(Q!queueVars) => [Queue!Next]_(Queue!queueVars)
  BY <1>2, <1>3, <1>4, <1>5, <1>6, <1>7
     DEF Q!Next, Queue!Next, Q!Execute, Queue!Execute, Q!queueVars, Queue!queueVars
<1> QED BY <1>1, <1>8

\* What ingestion relies on in the queue: its types, that an executor works on a stored
\* job, and that rows appear by Enqueue only.
LEMMA QueueFacts ==
  ASSUME Queue!IInv
  PROVE  /\ Q!TypeOK
         /\ \A e \in Executors : pc[e] # "idle" => held[e] \in Events /\ Q!Present(held[e])
<1> USE DEF Q!Executors, Queue!Executors
<1>1. Q!TypeOK
  BY DEF Queue!IInv, Queue!TypeOK, Q!TypeOK, Queue!JobRow, Q!JobRow, Queue!Statuses,
         Q!Statuses, Queue!AttemptCap, Q!AttemptCap, Queue!Steps, Q!Steps
<1>2. ASSUME NEW e \in Executors, pc[e] # "idle"
      PROVE  held[e] \in Events /\ Q!Present(held[e])
  BY <1>2 DEF Queue!IInv, Queue!HoldsStoredRow, Queue!Present, Q!Present
<1> QED BY <1>1, <1>2

LEMMA QueueStep ==
  ASSUME Queue!IInv, WorkIsStored, [Next]_vars
  PROVE  Queue!IInv' /\ Q!TypeOK'
<1>1. [Queue!Next]_(Queue!queueVars)
  BY StepUsesQueue, SameQueue
<1>2. Queue!IInv'
  BY <1>1, Queue!NextIInv DEF Queue!Executors
<1>3. Q!TypeOK'
  BY <1>2 DEF Queue!IInv, Queue!TypeOK, Q!TypeOK, Queue!JobRow, Q!JobRow, Queue!Statuses,
     Q!Statuses, Queue!AttemptCap, Q!AttemptCap, Queue!Steps, Q!Steps, Q!Executors,
     Queue!Executors
<1> QED BY <1>2, <1>3

\* The rows there are.
LEMMA PresenceKept ==
  ASSUME Queue!IInv,
         \/ UNCHANGED jobs
         \/ \E r \in Requests, j \in Events : Q!Retry(r, j)
         \/ \E e \in Executors : Q!Execute(e)
         \/ Q!Tick
  PROVE  \A ev \in Events : Q!Present(ev)' <=> Q!Present(ev)
<1>1. jobs \in [Events -> Q!JobRow]
  BY QueueFacts DEF Q!TypeOK
<1>2. CASE UNCHANGED jobs
  BY <1>2 DEF Q!Present
<1>3. ASSUME NEW r \in Requests, NEW j \in Events, Q!Retry(r, j)
      PROVE  \A ev \in Events : Q!Present(ev)' <=> Q!Present(ev)
  BY <1>1, <1>3 DEF Q!Retry, Q!Present, Q!JobRow
<1>4. ASSUME NEW e \in Executors, Q!Execute(e)
      PROVE  \A ev \in Events : Q!Present(ev)' <=> Q!Present(ev)
  <2>1. held[e] \in Events /\ Q!Present(held[e])
    BY <1>4, QueueFacts DEF Q!Execute, Q!Claim, Q!ClaimMiss, Q!Normalized, Q!NormalizeError,
       Q!Complete, Q!Fail
  <2>2. CASE Q!ClaimMiss(e) \/ Q!Normalized(e) \/ Q!NormalizeError(e)
    BY <2>2, <1>2 DEF Q!ClaimMiss, Q!Normalized, Q!NormalizeError
  <2>3. CASE Q!Claim(e)
    BY <1>1, <2>1, <2>3 DEF Q!Claim, Q!Present, Q!JobRow
  <2>4. CASE Q!Complete(e)
    BY <1>1, <2>1, <2>4 DEF Q!Complete, Q!Present, Q!JobRow
  <2>5. CASE Q!Fail(e)
    BY <1>1, <2>1, <2>5 DEF Q!Fail, Q!Present, Q!JobRow
  <2> QED BY <1>4, <2>2, <2>3, <2>4, <2>5 DEF Q!Execute
<1>5. CASE Q!Tick
  BY <1>1, <1>5 DEF Q!Tick, Q!Aged, Q!Present, Q!JobRow
<1> QED BY <1>2, <1>3, <1>4, <1>5

LEMMA PresenceGrows ==
  ASSUME Queue!IInv, NEW r \in Requests, NEW j \in Events, Q!Enqueue(r, j)
  PROVE  \A ev \in Events : Q!Present(ev)' => Q!Present(ev) \/ ev = j
<1>1. jobs \in [Events -> Q!JobRow]
  BY QueueFacts DEF Q!TypeOK
<1> QED BY <1>1 DEF Q!Enqueue, Q!Present

-----------------------------------------------------------------------------
\* Every step of ingestion keeps its invariant.

THEOREM InitIInv == Init => IInv /\ Queue!IInv
<1> SUFFICES ASSUME Init PROVE IInv /\ Queue!IInv OBVIOUS
<1>1. Queue!IInv
  BY SameQueue, Queue!InitIInv DEF Init, Queue!Executors
<1>2. TypeOK
  BY <1>1, QueueFacts DEF Init, TypeOK, Free, ReqSteps
<1>3. WorkIsStored
  BY DEF Init, WorkIsStored, Free, Q!Init, Q!Present, Q!Row
<1>4. OneJobPerEvent /\ ProcessedIsMapped
  BY DEF Init, OneJobPerEvent, Free, ProcessedIsMapped
<1> QED BY <1>1, <1>2, <1>3, <1>4 DEF IInv

RequestRows == [step : ReqSteps, event : Events \cup {NoEvent}]

\* A step that leaves the events stored that are, and brings no request to a new event
\* and no job into being.
Settled(r) ==
  /\ \A ev \in Events : raw[ev] # "absent" => raw'[ev] # "absent"
  /\ \A ev \in Events : Q!Present(ev)' => Q!Present(ev)
  /\ req' \in [Requests -> RequestRows]
  /\ \A s \in Requests \ {r} : req'[s] = req[s]
  /\ \/ req'[r].step = "free"
     \/ /\ req'[r].event = req[r].event /\ req[r].step # "free"
        /\ req'[r].step \in {"fresh", "enqueue"} => req[r].step \in {"fresh", "enqueue"}

LEMMA SettledKeeps ==
  ASSUME IInv, NEW r \in Requests, Settled(r)
  PROVE  WorkIsStored' /\ OneJobPerEvent'
<1>1. WorkIsStored'
  <2>1. ASSUME NEW s \in Requests, req'[s].step # "free"
        PROVE  req'[s].event \in Events /\ raw'[req'[s].event] # "absent"
    BY <2>1 DEF Settled, IInv, WorkIsStored
  <2> QED BY <2>1 DEF Settled, IInv, WorkIsStored
<1>2. OneJobPerEvent'
  <2>1. \A s \in Requests : req'[s].step \in {"fresh", "enqueue"} =>
          req[s].step \in {"fresh", "enqueue"} /\ req'[s].event = req[s].event
            /\ req[s].event \in Events
    BY DEF Settled, IInv, WorkIsStored
  <2> QED BY <2>1 DEF Settled, IInv, OneJobPerEvent
<1> QED BY <1>1, <1>2

\* A request moves on, in the event it is at, or ends.
LEMMA MoveRow ==
  ASSUME IInv, NEW r \in Requests, NEW step \in ReqSteps,
         Move(r, step) \/ (step = "free" /\ req' = [req EXCEPT ![r] = Free])
  PROVE  /\ req' \in [Requests -> RequestRows] /\ req'[r].step = step
         /\ \A s \in Requests \ {r} : req'[s] = req[s]
         /\ step = "free" \/ req'[r].event = req[r].event
BY DEF IInv, TypeOK, Move, Free, ReqSteps, RequestRows

LEMMA DeliverStep ==
  ASSUME IInv, Q!TypeOK', NEW r \in Requests, NEW ev \in Events, Deliver(r, ev)
  PROVE  IInv'
<1>1. PICK step \in {"fresh", "known"} :
        /\ req' = [req EXCEPT ![r] = [step |-> step, event |-> ev]]
        /\ step = "fresh" => raw[ev] = "absent" /\ raw' = [raw EXCEPT ![ev] = "stored"]
        /\ step = "known" => raw[ev] # "absent" /\ raw' = raw
  BY DEF Deliver
<1>2. /\ req' \in [Requests -> RequestRows] /\ req'[r].step = step /\ req'[r].event = ev
      /\ \A s \in Requests \ {r} : req'[s] = req[s]
  BY <1>1 DEF IInv, TypeOK, ReqSteps, RequestRows
<1>3. /\ raw' \in [Events -> {"absent", "stored", "processed", "failed"}]
      /\ \A f \in Events : raw'[f] = IF f = ev /\ step = "fresh" THEN "stored" ELSE raw[f]
  BY <1>1 DEF IInv, TypeOK
<1>4. deliveries' \in [Events -> 0 .. MaxDeliveries]
  BY DEF Deliver, IInv, TypeOK
<1>5. TypeOK'
  BY <1>2, <1>3, <1>4 DEF Deliver, IInv, TypeOK, RequestRows
<1>6. \A f \in Events : Q!Present(f)' <=> Q!Present(f)
  BY DEF Deliver, queueVars, Q!Present
<1>7. WorkIsStored'
  BY <1>1, <1>2, <1>3, <1>6 DEF IInv, WorkIsStored
<1>8. OneJobPerEvent'
  <2>1. step = "fresh" => ~Q!Present(ev) /\ \A s \in Requests : req[s].step # "free" => req[s].event # ev
    BY <1>1 DEF IInv, WorkIsStored
  <2> SUFFICES ASSUME NEW s \in Requests, req'[s].step \in {"fresh", "enqueue"}
               PROVE  /\ jobs'[req'[s].event].status = "absent"
                      /\ \A t \in Requests : req'[t].step \in {"fresh", "enqueue"}
                           /\ req'[t].event = req'[s].event => t = s
    BY DEF OneJobPerEvent, Q!Present
  <2>2. CASE s = r
    <3>1. step = "fresh" /\ req'[s].event = ev
      BY <1>2, <2>2
    <3>2. jobs'[ev].status = "absent"
      BY <1>6, <2>1, <3>1 DEF Q!Present
    <3>3. \A t \in Requests \ {r} : req'[t].step # "free" => req'[t].event # ev
      BY <1>2, <2>1, <3>1
    <3> QED BY <2>2, <3>1, <3>2, <3>3
  <2>3. CASE s # r
    <3>1. req'[s] = req[s] /\ req[s].event \in Events /\ ~Q!Present(req[s].event)
      BY <1>2, <2>3 DEF IInv, OneJobPerEvent, WorkIsStored
    <3>2. jobs'[req'[s].event].status = "absent"
      BY <1>6, <3>1 DEF Q!Present
    <3>3. \A t \in Requests \ {r} : req'[t] = req[t]
      BY <1>2
    <3>4. req'[r].step \in {"fresh", "enqueue"} => req'[r].event # req'[s].event
      BY <1>2, <2>1, <3>1
    <3> QED BY <2>3, <3>1, <3>2, <3>3, <3>4 DEF IInv, OneJobPerEvent
  <2> QED BY <2>2, <2>3
<1>9. ProcessedIsMapped'
  BY <1>3 DEF Deliver, IInv, ProcessedIsMapped
<1> QED BY <1>5, <1>7, <1>8, <1>9 DEF IInv

LEMMA ActivateStep ==
  ASSUME IInv, Q!TypeOK', NEW r \in Requests, Activate(r)
  PROVE  IInv'
<1> DEFINE step == IF At(r, "fresh") THEN "enqueue" ELSE "reply"
<1>1. /\ req' \in [Requests -> RequestRows] /\ req'[r].step = step
      /\ \A s \in Requests \ {r} : req'[s] = req[s]
  BY MoveRow DEF Activate, ReqSteps
<1>2. req'[r].event = req[r].event
  BY MoveRow DEF Activate, ReqSteps
<1>3. /\ UNCHANGED <<mapped, raw, deliveries, drops, answered>> /\ UNCHANGED jobs
      /\ source' = "active"
  BY DEF Activate, queueVars
<1>4. TypeOK'
  BY <1>1, <1>3 DEF IInv, TypeOK, RequestRows
<1>5. Settled(r)
  BY <1>1, <1>2, <1>3 DEF Settled, Activate, At, Q!Present
<1> QED BY <1>3, <1>4, <1>5, SettledKeeps DEF IInv, ProcessedIsMapped

\* The one request that goes to enqueue is past it when the job appears.
LEMMA EnqueueJobStep ==
  ASSUME IInv, Queue!IInv, Q!TypeOK', NEW r \in Requests, EnqueueJob(r)
  PROVE  IInv'
<1> DEFINE ev == req[r].event
<1>1. /\ req' \in [Requests -> RequestRows] /\ req'[r].step = "inline"
      /\ \A s \in Requests \ {r} : req'[s] = req[s]
      /\ req'[r].event = ev
  BY MoveRow DEF EnqueueJob, ReqSteps
<1>2. ev \in Events /\ raw[ev] # "absent" /\ req[r].step = "enqueue"
  BY DEF EnqueueJob, At, IInv, WorkIsStored
<1>3. \A f \in Events : Q!Present(f)' => Q!Present(f) \/ f = ev
  BY <1>2, PresenceGrows DEF EnqueueJob
<1>4. UNCHANGED <<mapped, raw, source, deliveries, drops, answered>>
  BY DEF EnqueueJob
<1>5. TypeOK'
  BY <1>1, <1>4 DEF IInv, TypeOK, RequestRows
<1>6. WorkIsStored'
  BY <1>1, <1>2, <1>3, <1>4 DEF IInv, WorkIsStored
<1>7. OneJobPerEvent'
  <2>1. \A s \in Requests \ {r} : req[s].step \in {"fresh", "enqueue"} =>
          req[s].event # ev /\ req[s].event \in Events
    BY <1>2 DEF IInv, OneJobPerEvent, WorkIsStored
  <2> QED BY <1>1, <1>3, <2>1 DEF IInv, OneJobPerEvent
<1> QED BY <1>4, <1>5, <1>6, <1>7 DEF IInv, ProcessedIsMapped

\* What an executor writes to its event.
LEMMA RunJobStep ==
  ASSUME IInv, Queue!IInv, Q!TypeOK', NEW e \in Executors, RunJob(e)
  PROVE  IInv'
<1>1. \A ev \in Events : Q!Present(ev)' <=> Q!Present(ev)
  BY PresenceKept DEF RunJob, Q!Execute
<1>2. UNCHANGED <<mapped, source, req, deliveries, drops, answered>>
  BY DEF RunJob, ingestVars
<1>3. CASE UNCHANGED raw
  BY <1>1, <1>2, <1>3 DEF IInv, TypeOK, WorkIsStored, OneJobPerEvent, ProcessedIsMapped
<1>4. CASE /\ Q!Normalized(e)
           /\ raw' = [raw EXCEPT ![held[e]] = IF held[e] \in mapped THEN "processed" ELSE "stored"]
  <2>1. held[e] \in Events /\ Q!Present(held[e])
    BY <1>4, QueueFacts DEF Q!Normalized
  <2>2. raw' \in [Events -> {"absent", "stored", "processed", "failed"}]
    BY <1>4 DEF IInv, TypeOK
  <2>3. \A ev \in Events :
          raw'[ev] = IF ev = held[e] THEN (IF held[e] \in mapped THEN "processed" ELSE "stored")
                     ELSE raw[ev]
    BY <1>4 DEF IInv, TypeOK
  <2>4. TypeOK'
    BY <1>2, <2>2 DEF IInv, TypeOK
  <2>5. WorkIsStored' /\ OneJobPerEvent' /\ ProcessedIsMapped'
    BY <1>1, <1>2, <2>3 DEF IInv, WorkIsStored, OneJobPerEvent, ProcessedIsMapped
  <2> QED BY <2>4, <2>5 DEF IInv
<1> QED BY <1>3, <1>4 DEF RunJob, ingestVars

LEMMA MarkFailedStep ==
  ASSUME IInv, Q!TypeOK', NEW r \in Requests, MarkFailed(r)
  PROVE  IInv'
<1>1. /\ req' \in [Requests -> RequestRows] /\ req'[r].step = "mark_source"
      /\ \A s \in Requests \ {r} : req'[s] = req[s]
      /\ req'[r].event = req[r].event
  BY MoveRow DEF MarkFailed, ReqSteps
<1>2. /\ UNCHANGED <<mapped, source, deliveries, drops, answered>> /\ UNCHANGED jobs
      /\ req[r].step = "inline"
  BY DEF MarkFailed, Q!Collect, At
<1>3. /\ raw' \in [Events -> {"absent", "stored", "processed", "failed"}]
      /\ \A ev \in Events : raw'[ev] \in {raw[ev], "failed"}
  BY DEF MarkFailed, IInv, TypeOK
<1>4. TypeOK'
  BY <1>1, <1>2, <1>3 DEF IInv, TypeOK, RequestRows
<1>5. Settled(r)
  BY <1>1, <1>2, <1>3 DEF Settled, Q!Present
<1> QED BY <1>2, <1>3, <1>4, <1>5, SettledKeeps DEF IInv, ProcessedIsMapped

LEMMA MarkSourceStep ==
  ASSUME IInv, Q!TypeOK', NEW r \in Requests, MarkSource(r)
  PROVE  IInv'
<1>1. /\ req' \in [Requests -> RequestRows] /\ req'[r].step = "reply"
      /\ \A s \in Requests \ {r} : req'[s] = req[s]
      /\ req'[r].event = req[r].event
  BY MoveRow DEF MarkSource, ReqSteps
<1>2. /\ UNCHANGED <<mapped, raw, deliveries, drops, answered>> /\ UNCHANGED jobs
      /\ req[r].step = "mark_source" /\ source' = "error"
  BY DEF MarkSource, queueVars, At
<1>3. TypeOK'
  BY <1>1, <1>2 DEF IInv, TypeOK, RequestRows
<1>4. Settled(r)
  BY <1>1, <1>2 DEF Settled, Q!Present
<1> QED BY <1>2, <1>3, <1>4, SettledKeeps DEF IInv, ProcessedIsMapped

LEMMA ReplyStep ==
  ASSUME IInv, Q!TypeOK', NEW r \in Requests, Reply(r)
  PROVE  IInv'
<1>1. /\ req' \in [Requests -> RequestRows] /\ req'[r].step = "free"
      /\ \A s \in Requests \ {r} : req'[s] = req[s]
  BY MoveRow DEF Reply, ReqSteps
<1>2. UNCHANGED <<mapped, raw, source, deliveries, drops>> /\ UNCHANGED jobs
  BY DEF Reply, queueVars, Q!Collect
<1>3. answered' \subseteq Events
  BY DEF Reply, At, IInv, WorkIsStored, TypeOK
<1>4. TypeOK'
  BY <1>1, <1>2, <1>3 DEF IInv, TypeOK, RequestRows
<1>5. Settled(r)
  BY <1>1, <1>2 DEF Settled, Q!Present
<1> QED BY <1>2, <1>4, <1>5, SettledKeeps DEF IInv, ProcessedIsMapped

\* A job is retried only for an event that is stored.
LEMMA RetryStep ==
  ASSUME IInv, Queue!IInv, Q!TypeOK', NEW r \in Requests, NEW ev \in Events, Retry(r, ev)
  PROVE  IInv'
<1>1. /\ req' \in [Requests -> RequestRows] /\ req'[r].step = "retry" /\ req'[r].event = ev
      /\ \A s \in Requests \ {r} : req'[s] = req[s]
  BY DEF Retry, IInv, TypeOK, ReqSteps, RequestRows
<1>2. UNCHANGED <<mapped, raw, source, deliveries, drops, answered>>
  BY DEF Retry
<1>3. \A f \in Events : Q!Present(f)' <=> Q!Present(f)
  BY PresenceKept DEF Retry
<1>4. raw[ev] # "absent"
  BY DEF Retry, Q!Retry, IInv, WorkIsStored
<1>5. TypeOK'
  BY <1>1, <1>2 DEF IInv, TypeOK, RequestRows
<1>6. WorkIsStored'
  BY <1>1, <1>2, <1>3, <1>4 DEF IInv, WorkIsStored
<1>7. OneJobPerEvent'
  <2>1. \A s \in Requests : req'[s].step \in {"fresh", "enqueue"} =>
          s # r /\ req'[s] = req[s] /\ req[s].event \in Events
    BY <1>1 DEF IInv, WorkIsStored
  <2> QED BY <1>3, <2>1 DEF IInv, OneJobPerEvent
<1> QED BY <1>2, <1>5, <1>6, <1>7 DEF IInv, ProcessedIsMapped

LEMMA RetryDoneStep ==
  ASSUME IInv, Q!TypeOK', NEW r \in Requests, RetryDone(r)
  PROVE  IInv'
<1>1. /\ req' \in [Requests -> RequestRows] /\ req'[r].step = "free"
      /\ \A s \in Requests \ {r} : req'[s] = req[s]
  BY MoveRow DEF RetryDone, ReqSteps
<1>2. UNCHANGED <<mapped, raw, source, deliveries, drops, answered>> /\ UNCHANGED jobs
  BY DEF RetryDone, Q!Collect
<1>3. TypeOK'
  BY <1>1, <1>2 DEF IInv, TypeOK, RequestRows
<1>4. Settled(r)
  BY <1>1, <1>2 DEF Settled, Q!Present
<1> QED BY <1>2, <1>3, <1>4, SettledKeeps DEF IInv, ProcessedIsMapped

LEMMA DropStep ==
  ASSUME IInv, Q!TypeOK', NEW r \in Requests, Drop(r)
  PROVE  IInv'
<1>1. /\ req' \in [Requests -> RequestRows] /\ req'[r].step = "free"
      /\ \A s \in Requests \ {r} : req'[s] = req[s]
  BY MoveRow DEF Drop, ReqSteps
<1>2. UNCHANGED <<mapped, raw, source, deliveries, answered>> /\ UNCHANGED jobs
  BY DEF Drop, queueVars
<1>3. drops' \in 0..MaxFaults
  BY DEF Drop, IInv, TypeOK, Q!TypeOK
<1>4. TypeOK'
  BY <1>1, <1>2, <1>3 DEF IInv, TypeOK, RequestRows
<1>5. Settled(r)
  BY <1>1, <1>2 DEF Settled, Q!Present
<1> QED BY <1>2, <1>4, <1>5, SettledKeeps DEF IInv, ProcessedIsMapped

LEMMA DropInJobStep ==
  ASSUME IInv, Q!TypeOK', NEW e \in Executors, DropInJob(e)
  PROVE  IInv'
<1>1. UNCHANGED <<mapped, raw, source, deliveries, drops, answered>> /\ UNCHANGED jobs
  BY DEF DropInJob, Q!Abandon
<1>2. CASE UNCHANGED req
  BY <1>1, <1>2 DEF IInv, TypeOK, WorkIsStored, OneJobPerEvent, ProcessedIsMapped, Q!Present
<1>3. CASE e \in Requests /\ req' = [req EXCEPT ![e] = Free]
  <2>1. /\ req' \in [Requests -> RequestRows] /\ req'[e].step = "free"
        /\ \A s \in Requests \ {e} : req'[s] = req[s]
    BY <1>3, MoveRow DEF ReqSteps
  <2>2. TypeOK'
    BY <1>1, <2>1 DEF IInv, TypeOK, RequestRows
  <2>3. Settled(e)
    BY <1>1, <2>1 DEF Settled, Q!Present
  <2> QED BY <1>1, <1>3, <2>2, <2>3, SettledKeeps DEF IInv, ProcessedIsMapped
<1> QED BY <1>2, <1>3 DEF DropInJob

\* A poller's select, the clock, or nothing.
LEMMA QuietStep ==
  ASSUME IInv, Queue!IInv, Q!TypeOK',
         Tick \/ (\E w \in Pollers : PollerSelect(w)) \/ UNCHANGED vars
  PROVE  IInv'
<1>1. UNCHANGED ingestVars
  BY DEF Tick, PollerSelect, vars
<1>2. \A ev \in Events : Q!Present(ev)' <=> Q!Present(ev)
  BY PresenceKept DEF Tick, PollerSelect, Q!Select, vars, queueVars
<1> QED BY <1>1, <1>2 DEF IInv, TypeOK, WorkIsStored, OneJobPerEvent, ProcessedIsMapped,
                          ingestVars

THEOREM NextIInv == IInv /\ Queue!IInv /\ [Next]_vars => IInv' /\ Queue!IInv'
<1> SUFFICES ASSUME IInv, Queue!IInv, [Next]_vars PROVE IInv' /\ Queue!IInv'
  OBVIOUS
<1>1. Queue!IInv' /\ Q!TypeOK'
  BY QueueStep DEF IInv
<1>2. ASSUME NEW r \in Requests, NEW ev \in Events, Deliver(r, ev) \/ Retry(r, ev)
      PROVE  IInv'
  BY <1>1, <1>2, DeliverStep, RetryStep
<1>3. ASSUME NEW r \in Requests, Proceed(r)
      PROVE  IInv'
  BY <1>1, <1>3, ActivateStep, EnqueueJobStep, MarkFailedStep, MarkSourceStep, ReplyStep,
     RetryDoneStep DEF Proceed
<1>4. ASSUME NEW r \in Requests, Drop(r)
      PROVE  IInv'
  BY <1>1, <1>4, DropStep
<1>5. ASSUME NEW e \in Executors, RunJob(e) \/ DropInJob(e)
      PROVE  IInv'
  BY <1>1, <1>5, RunJobStep, DropInJobStep
<1>6. CASE Tick \/ (\E w \in Pollers : PollerSelect(w)) \/ UNCHANGED vars
  BY <1>1, <1>6, QuietStep
<1> QED BY <1>1, <1>2, <1>3, <1>4, <1>5, <1>6 DEF Next

\* The invariant holds of every behaviour of ingestion, and so does the queue's.
THEOREM Invariance == Spec => [](IInv /\ Queue!IInv)
BY InitIInv, NextIInv, PTL DEF Spec

-----------------------------------------------------------------------------
\* What follows from it.

\* Every table and every request keeps its shape.
THEOREM TypeCorrect == Spec => []TypeOK
BY Invariance, PTL DEF IInv

\* Repeated and concurrent deliveries of an event lead to at most one job.
THEOREM OneJob == Spec => []OneJobPerEvent
BY Invariance, PTL DEF IInv

\* Ingestion is an execution of the job queue, since it is built from its operations.
LEMMA QueueIsUsed == Spec => Q!Spec
<1>1. Init => Q!Init
  BY DEF Init
<1>2. IInv /\ [Next]_vars => [Q!Next]_(Q!queueVars)
  BY StepUsesQueue DEF IInv
<1> QED BY <1>1, <1>2, Invariance, PTL DEF Spec, Q!Spec

\* The events that are stored, as the inbox sees them.
Stored == {ev \in Events : raw[ev] # "absent"}

LEMMA InboxStep ==
  ASSUME IInv, Queue!IInv, [Next]_vars
  PROVE  \/ UNCHANGED <<Stored, answered, processed>>
         \/ \E e \in Events :
              \/ /\ e \notin Stored /\ Stored' = Stored \cup {e}
                 /\ UNCHANGED <<answered, processed>>
              \/ /\ e \in Stored /\ answered' = answered \cup {e}
                 /\ UNCHANGED <<Stored, processed>>
              \/ /\ e \in Stored /\ processed' = processed \cup {e}
                 /\ UNCHANGED <<Stored, answered>>
<1> DEFINE Quiet == UNCHANGED <<Stored, answered, processed>>
<1>1. raw \in [Events -> {"absent", "stored", "processed", "failed"}]
  BY DEF IInv, TypeOK
<1>2. ASSUME NEW r \in Requests, NEW ev \in Events, Deliver(r, ev)
      PROVE  Quiet \/ (ev \notin Stored /\ Stored' = Stored \cup {ev} /\ UNCHANGED <<answered, processed>>)
  BY <1>1, <1>2 DEF Deliver, Stored, queueVars
<1>3. ASSUME NEW r \in Requests, Reply(r)
      PROVE  /\ req[r].event \in Stored /\ answered' = answered \cup {req[r].event}
             /\ UNCHANGED <<Stored, processed>>
  BY <1>3 DEF Reply, At, IInv, WorkIsStored, Stored, queueVars, Q!Collect
<1>4. ASSUME NEW e \in Executors, RunJob(e)
      PROVE  Quiet \/ (held[e] \in Stored /\ processed' = processed \cup {held[e]} /\ UNCHANGED <<Stored, answered>>)
  <2>1. CASE Q!Normalized(e)
    <3>1. held[e] \in Events /\ raw[held[e]] # "absent"
      BY <2>1, QueueFacts DEF Q!Normalized, IInv, WorkIsStored
    <3>2. /\ raw' = [raw EXCEPT ![held[e]] = IF held[e] \in mapped THEN "processed" ELSE "stored"]
          \/ UNCHANGED raw
      BY <1>4 DEF RunJob, ingestVars
    <3>3. UNCHANGED Stored
      BY <1>1, <3>1, <3>2 DEF Stored
    <3> QED BY <1>4, <2>1, <3>1, <3>3 DEF Q!Normalized, RunJob, ingestVars, Stored
  <2>2. CASE ~Q!Normalized(e)
    BY <1>4, <2>2 DEF RunJob, ingestVars, Stored, Q!Claim, Q!ClaimMiss, Q!NormalizeError,
       Q!Complete, Q!Fail
  <2> QED BY <2>1, <2>2
<1>5. ASSUME NEW r \in Requests, MarkFailed(r)
      PROVE  Quiet
  <2>1. req[r].event \in Events /\ raw[req[r].event] # "absent"
    BY <1>5 DEF MarkFailed, At, IInv, WorkIsStored
  <2> QED BY <1>1, <1>5, <2>1 DEF MarkFailed, Stored, Q!Collect
<1>6. ASSUME NEW r \in Requests, Proceed(r) \/ Drop(r), ~MarkFailed(r), ~Reply(r)
      PROVE  Quiet
  BY <1>6 DEF Proceed, Drop, Activate, EnqueueJob, MarkSource, RetryDone, Stored, queueVars,
     Q!Enqueue, Q!Collect
<1>7. ASSUME NEW r \in Requests, NEW ev \in Events, Retry(r, ev)
      PROVE  Quiet
  BY <1>7 DEF Retry, Q!Retry, Stored
<1>8. ASSUME NEW e \in Executors, DropInJob(e)
      PROVE  Quiet
  BY <1>8 DEF DropInJob, Q!Abandon, Stored
<1>9. CASE Tick \/ (\E w \in Pollers : PollerSelect(w)) \/ UNCHANGED vars
  BY <1>9 DEF Tick, PollerSelect, Q!Tick, Q!Select, vars, queueVars, ingestVars, Stored
<1>10. ASSUME NEW r \in Requests, Proceed(r) \/ Drop(r)
       PROVE  Quiet \/ Reply(r)
  BY <1>5, <1>6, <1>10
<1>11. ASSUME NEW r \in Requests, Reply(r)
       PROVE  req[r].event \in Events
  BY <1>3, <1>11 DEF Stored
<1>12. ASSUME NEW e \in Executors, RunJob(e), ~Quiet
       PROVE  held[e] \in Events
  BY <1>4, <1>12 DEF Stored
<1>13. CASE \E r \in Requests, ev \in Events : Deliver(r, ev) \/ Retry(r, ev)
  BY <1>2, <1>7, <1>13
<1>14. CASE \E r \in Requests : Proceed(r) \/ Drop(r)
  BY <1>3, <1>10, <1>11, <1>14
<1>15. CASE \E e \in Executors : RunJob(e) \/ DropInJob(e)
  BY <1>4, <1>8, <1>12, <1>15
<1> QED BY <1>9, <1>13, <1>14, <1>15 DEF Next

\* What ingestion shows to the outside is an inbox: an event is stored first, then it may
\* be answered and normalized, and none of that is ever undone.
THEOREM InboxIsImplemented == Spec => ImplementsInbox
<1> USE DEF Inbox!Init, Inbox!Next, Inbox!Store, Inbox!Answer, Inbox!Normalize,
            Inbox!inboxVars, Stored
<1>1. Init => Inbox!Init
  BY DEF Init, Q!Init
<1>2. IInv /\ Queue!IInv /\ [Next]_vars => [Inbox!Next]_(Inbox!inboxVars)
  BY InboxStep
<1> QED BY <1>1, <1>2, Invariance, PTL DEF Spec, ImplementsInbox, Inbox!Spec

-----------------------------------------------------------------------------
\* The action behind ProcessedEventStays.
ProcessedKept ==
  \A ev \in Events :
    raw[ev] = "processed" /\ (\A r \in Requests : At(r, "inline") => req[r].event # ev)
      => raw'[ev] = "processed"

\* A late poller, a duplicate delivery or a retry does not take back that an event was
\* processed; only the first request's own report can.
THEOREM ProcessedStays == Spec => ProcessedEventStays
<1>1. IInv /\ Queue!IInv /\ [Next]_vars => [ProcessedKept]_vars
  <2> SUFFICES ASSUME IInv, Queue!IInv, [Next]_vars, NEW ev \in Events,
                      raw[ev] = "processed",
                      \A r \in Requests : At(r, "inline") => req[r].event # ev
               PROVE  raw'[ev] = "processed"
    BY DEF ProcessedKept
  <2>1. raw \in [Events -> {"absent", "stored", "processed", "failed"}]
    BY DEF IInv, TypeOK
  <2>2. ASSUME NEW r \in Requests, NEW f \in Events, Deliver(r, f) \/ Retry(r, f)
        PROVE  raw'[ev] = "processed"
    BY <2>1, <2>2 DEF Deliver, Retry
  <2>3. ASSUME NEW r \in Requests, Proceed(r) \/ Drop(r)
        PROVE  raw'[ev] = "processed"
    <3>1. CASE MarkFailed(r)
      <4>1. req[r].event # ev /\ raw' = [raw EXCEPT ![req[r].event] = "failed"]
        BY <3>1 DEF MarkFailed
      <4> QED BY <2>1, <4>1
    <3>2. CASE ~MarkFailed(r)
      BY <2>3, <3>2 DEF Proceed, Drop, Activate, EnqueueJob, MarkSource, Reply, RetryDone
    <3> QED BY <3>1, <3>2
  <2>4. ASSUME NEW e \in Executors, RunJob(e)
        PROVE  raw'[ev] = "processed"
    <3>1. CASE UNCHANGED raw
      BY <3>1
    <3>2. CASE raw' = [raw EXCEPT ![held[e]] = IF held[e] \in mapped THEN "processed" ELSE "stored"]
      BY <2>1, <3>2 DEF IInv, ProcessedIsMapped
    <3> QED BY <2>4, <3>1, <3>2 DEF RunJob, ingestVars
  <2>5. ASSUME NEW e \in Executors, DropInJob(e)
        PROVE  raw'[ev] = "processed"
    BY <2>5 DEF DropInJob
  <2>6. CASE Tick \/ (\E w \in Pollers : PollerSelect(w)) \/ UNCHANGED vars
    BY <2>6 DEF Tick, PollerSelect, vars, ingestVars
  <2> QED BY <2>2, <2>3, <2>4, <2>5, <2>6 DEF Next
<1>2. Spec => [][ProcessedKept]_vars
  BY <1>1, Invariance, PTL DEF Spec
<1> QED BY <1>2 DEF ProcessedKept, ProcessedEventStays

-----------------------------------------------------------------------------
\* What a lost request costs.

\* A request that runs a job is where its handler calls it.
JobsAreCalled ==
  \A r \in Requests : pc[r] # "idle" => req[r].step \in {"inline", "retry"}

\* An event that is marked processed was processed.
StatusIsTrue == \A ev \in Events : raw[ev] = "processed" => ev \in processed

LossInv == LossIsCounted /\ JobsAreCalled /\ StatusIsTrue

\* Steps after which everyone about to enqueue still is, or has done it.
LEMMA NoneForgotten ==
  ASSUME IInv, LossIsCounted, drops' = drops,
         \A ev \in Events : Q!Present(ev) => Q!Present(ev)',
         \A ev \in Events : raw[ev] = "absent" => \/ raw'[ev] = "absent"
                                                 \/ \E r \in Requests : /\ req'[r].event = ev
                                                                        /\ req'[r].step = "fresh",
         \A r \in Requests, ev \in Events :
           req[r].step \in {"fresh", "enqueue"} /\ req[r].event = ev =>
             \/ Q!Present(ev)'
             \/ req'[r].step \in {"fresh", "enqueue"} /\ req'[r].event = ev
  PROVE  LossIsCounted'
<1>1. Forgotten' \subseteq Forgotten
  <2> SUFFICES ASSUME NEW ev \in Events, raw'[ev] # "absent", ~Q!Present(ev)',
                      \A r \in Requests : req'[r].step \in {"fresh", "enqueue"} => req'[r].event # ev
               PROVE  ev \in Forgotten
    BY DEF Forgotten
  <2>1. raw[ev] # "absent"
    <3> SUFFICES ASSUME raw[ev] = "absent" PROVE FALSE
      OBVIOUS
    <3>1. PICK r \in Requests : req'[r].event = ev /\ req'[r].step = "fresh"
      OBVIOUS
    <3> QED BY <3>1
  <2>3. ~Q!Present(ev)
    OBVIOUS
  <2>2. ASSUME NEW r \in Requests, req[r].step \in {"fresh", "enqueue"}, req[r].event = ev PROVE FALSE
    BY <2>2
  <2> QED BY <2>1, <2>2, <2>3 DEF Forgotten
<1>2. IsFiniteSet(Forgotten') /\ Cardinality(Forgotten') <= Cardinality(Forgotten)
  BY <1>1, FS_Subset DEF LossIsCounted
<1>3. Cardinality(Forgotten') \in Nat /\ Cardinality(Forgotten) \in Nat
  BY <1>2, FS_CardinalityType DEF LossIsCounted
<1>4. drops \in Nat
  BY DEF IInv, TypeOK
<1> QED BY <1>2, <1>3, <1>4 DEF LossIsCounted

\* A lost request forgets its event at most.
LEMMA DropForgets ==
  ASSUME IInv, IInv', LossIsCounted, NEW r \in Requests, Drop(r)
  PROVE  LossIsCounted'
<1>1. /\ req' = [req EXCEPT ![r] = Free] /\ drops' = drops + 1
      /\ UNCHANGED <<raw, jobs>>
  BY DEF Drop, queueVars
<1>2. drops \in Nat /\ \A s \in Requests \ {r} : req'[s] = req[s]
  BY <1>1 DEF IInv, TypeOK
<1>3. Forgotten' \subseteq Forgotten \cup {req[r].event}
  BY <1>1, <1>2 DEF Forgotten, Q!Present
<1>4. /\ IsFiniteSet(Forgotten \cup {req[r].event})
      /\ Cardinality(Forgotten \cup {req[r].event}) <= Cardinality(Forgotten) + 1
      /\ Cardinality(Forgotten) \in Nat
  <2>1. IsFiniteSet(Forgotten) /\ Cardinality(Forgotten) \in Nat
    BY FS_CardinalityType DEF LossIsCounted
  <2>2. /\ IsFiniteSet(Forgotten \cup {req[r].event})
        /\ \/ Cardinality(Forgotten \cup {req[r].event}) = Cardinality(Forgotten) + 1
           \/ Cardinality(Forgotten \cup {req[r].event}) = Cardinality(Forgotten)
    BY <2>1, FS_AddElement
  <2> QED BY <2>1, <2>2
<1>5. /\ IsFiniteSet(Forgotten') /\ Cardinality(Forgotten') \in Nat
      /\ Cardinality(Forgotten \cup {req[r].event}) \in Nat
      /\ Cardinality(Forgotten') <= Cardinality(Forgotten \cup {req[r].event})
  BY <1>3, <1>4, FS_Subset, FS_CardinalityType
<1> QED BY <1>1, <1>2, <1>4, <1>5 DEF LossIsCounted

LEMMA InitLossInv == Init => LossInv
<1> SUFFICES ASSUME Init PROVE LossInv OBVIOUS
<1>1. Forgotten = {}
  BY DEF Init, Forgotten
<1>2. LossIsCounted
  BY <1>1, FS_EmptySet DEF Init, LossIsCounted
<1>3. JobsAreCalled /\ StatusIsTrue
  BY DEF Init, Q!Init, Q!Executors, JobsAreCalled, StatusIsTrue
<1> QED BY <1>2, <1>3 DEF LossInv

LEMMA DeliverLoss ==
  ASSUME IInv, LossInv, NEW r \in Requests, NEW ev \in Events, Deliver(r, ev)
  PROVE  LossInv'
<1>1. PICK step \in {"fresh", "known"} :
        /\ req' = [req EXCEPT ![r] = [step |-> step, event |-> ev]]
        /\ step = "fresh" => raw[ev] = "absent" /\ raw' = [raw EXCEPT ![ev] = "stored"]
        /\ step = "known" => raw' = raw
  BY DEF Deliver
<1>2. /\ req'[r].step = step /\ req'[r].event = ev
      /\ \A s \in Requests \ {r} : req'[s] = req[s]
  BY <1>1 DEF IInv, TypeOK
<1>3. \A f \in Events : raw'[f] = IF f = ev /\ step = "fresh" THEN "stored" ELSE raw[f]
  BY <1>1 DEF IInv, TypeOK
<1>4. req[r].step = "free" /\ pc[r] = "idle" /\ drops' = drops /\ UNCHANGED queueVars
  BY DEF Deliver, At
<1>5. \A f \in Events : Q!Present(f)' <=> Q!Present(f)
  BY <1>4 DEF queueVars, Q!Present
<1>6. LossIsCounted'
  BY <1>1, <1>2, <1>3, <1>4, <1>5, NoneForgotten DEF LossInv
<1>7. JobsAreCalled' /\ StatusIsTrue'
  BY <1>2, <1>3, <1>4 DEF LossInv, JobsAreCalled, StatusIsTrue, queueVars
<1> QED BY <1>6, <1>7 DEF LossInv

\* Steps that store nothing, lose nobody, and begin no job outside its handler.
LEMMA QuietLoss ==
  ASSUME IInv, LossInv, drops' = drops,
         \A ev \in Events : Q!Present(ev) => Q!Present(ev)',
         \A ev \in Events : raw[ev] = "absent" => raw'[ev] = "absent",
         \A ev \in Events : raw'[ev] = "processed" => raw[ev] = "processed" \/ ev \in processed',
         processed \subseteq processed',
         \A r \in Requests, ev \in Events :
           req[r].step \in {"fresh", "enqueue"} /\ req[r].event = ev =>
             \/ Q!Present(ev)'
             \/ req'[r].step \in {"fresh", "enqueue"} /\ req'[r].event = ev,
         \A r \in Requests : pc'[r] # "idle" =>
           \/ req'[r].step \in {"inline", "retry"}
           \/ pc[r] # "idle" /\ req'[r] = req[r]
  PROVE  LossInv'
<1>1. LossIsCounted'
  BY NoneForgotten DEF LossInv
<1>2. JobsAreCalled' /\ StatusIsTrue'
  BY DEF LossInv, JobsAreCalled, StatusIsTrue
<1> QED BY <1>1, <1>2 DEF LossInv

LEMMA ProceedLoss ==
  ASSUME IInv, Queue!IInv, LossInv, NEW r \in Requests, Proceed(r)
  PROVE  LossInv'
<1>1. /\ raw \in [Events -> {"absent", "stored", "processed", "failed"}]
      /\ req \in [Requests -> RequestRows] /\ pc \in [Executors -> Q!Steps]
      /\ jobs \in [Events -> Q!JobRow]
  BY DEF IInv, TypeOK, RequestRows, Q!TypeOK, Q!Executors
<1>2. \A s \in Requests : s # r => req'[s] = req[s]
  BY <1>1 DEF Proceed, Activate, EnqueueJob, MarkFailed, MarkSource, Reply, RetryDone, Move, Free,
     RequestRows
<1>3. CASE Activate(r) \/ MarkSource(r)
  <2>1. PICK step \in {"enqueue", "reply"} :
          Move(r, step) /\ (At(r, "fresh") => step = "enqueue") /\ ~At(r, "enqueue")
          /\ req[r].step \notin {"inline", "retry"}
    BY <1>3 DEF Activate, MarkSource, At
  <2>2. req'[r].step = step /\ req'[r].event = req[r].event
    BY <1>1, <2>1 DEF Move, RequestRows
  <2>3. UNCHANGED <<raw, drops, jobs, pc, processed>>
    BY <1>3 DEF Activate, MarkSource, queueVars
  <2>4. pc'[r] = "idle"
    BY <2>1, <2>3 DEF LossInv, JobsAreCalled
  <2> QED BY <1>2, <2>1, <2>2, <2>3, <2>4, QuietLoss DEF At, Q!Present
<1>4. CASE EnqueueJob(r)
  <2>1. req'[r].step = "inline"
    BY <1>1, <1>4 DEF EnqueueJob, Move, RequestRows
  <2>2. PICK ev \in Events : ev = req[r].event
    BY <1>4 DEF EnqueueJob, At, IInv, WorkIsStored
  <2>3. UNCHANGED <<raw, drops, processed>> /\ Q!Enqueue(r, ev)
    BY <1>4, <2>2 DEF EnqueueJob, Q!Enqueue
  <2>4. /\ jobs' = [jobs EXCEPT ![ev] = Q!Row("queued")]
        /\ \A s \in Requests : s # r => pc'[s] = pc[s]
    BY <1>1, <2>3 DEF Q!Enqueue, Q!Begin
  <2>5. Q!Present(ev)' /\ \A f \in Events : Q!Present(f) => Q!Present(f)'
    BY <1>1, <2>4 DEF Q!Present, Q!Row
  <2> QED BY <1>2, <2>1, <2>2, <2>3, <2>4, <2>5, QuietLoss
<1>5. CASE MarkFailed(r) \/ Reply(r) \/ RetryDone(r)
  <2>1. /\ UNCHANGED <<drops, jobs, pc, processed>>
        /\ pc[r] = "idle" /\ req[r].step \notin {"fresh", "enqueue"}
    <3>1. CASE MarkFailed(r)
      BY <3>1 DEF MarkFailed, At, Q!Collect
    <3>2. CASE RetryDone(r)
      BY <3>2 DEF RetryDone, At, Q!Collect
    <3>3. CASE Reply(r)
      <4>1. CASE At(r, "reply") /\ UNCHANGED queueVars
        BY <3>3, <4>1 DEF Reply, At, queueVars, LossInv, JobsAreCalled
      <4>2. CASE At(r, "inline") /\ Q!Collect(r)
        BY <3>3, <4>2 DEF Reply, At, Q!Collect
      <4> QED BY <3>3, <4>1, <4>2 DEF Reply
    <3> QED BY <1>5, <3>1, <3>2, <3>3
  <2>2. \A ev \in Events : raw'[ev] = raw[ev] \/ (raw[ev] # "absent" /\ raw'[ev] = "failed")
    <3>1. CASE MarkFailed(r)
      BY <1>1, <3>1 DEF MarkFailed, At, IInv, WorkIsStored
    <3> QED BY <1>5, <3>1 DEF Reply, RetryDone
  <2> QED BY <1>2, <2>1, <2>2, QuietLoss DEF Q!Present
<1> QED BY <1>3, <1>4, <1>5 DEF Proceed

LEMMA RetryLoss ==
  ASSUME IInv, Queue!IInv, LossInv, NEW r \in Requests, NEW ev \in Events, Retry(r, ev)
  PROVE  LossInv'
<1>1. /\ req \in [Requests -> RequestRows] /\ pc \in [Executors -> Q!Steps]
  BY DEF IInv, TypeOK, RequestRows, Q!TypeOK, Q!Executors
<1>2. /\ req[r].step = "free" /\ req'[r].step = "retry"
      /\ \A s \in Requests : s # r => req'[s] = req[s] /\ pc'[s] = pc[s]
  BY <1>1 DEF Retry, At, Q!Retry, Q!Begin, RequestRows
<1>3. UNCHANGED <<raw, drops, processed>> /\ Q!Retry(r, ev)
  BY DEF Retry, Q!Retry
<1>4. \A f \in Events : Q!Present(f)' <=> Q!Present(f)
  BY <1>3, PresenceKept
<1> QED BY <1>2, <1>3, <1>4, QuietLoss

LEMMA RunJobLoss ==
  ASSUME IInv, Queue!IInv, LossInv, NEW e \in Executors, RunJob(e)
  PROVE  LossInv'
<1>1. /\ raw \in [Events -> {"absent", "stored", "processed", "failed"}]
      /\ pc \in [Executors -> Q!Steps]
  BY DEF IInv, TypeOK, Q!TypeOK, Q!Executors
<1>2. Q!Execute(e) /\ UNCHANGED <<req, drops>>
  BY DEF RunJob, Q!Execute, ingestVars
<1>3. \A ev \in Events : Q!Present(ev)' <=> Q!Present(ev)
  BY <1>2, PresenceKept
<1>4. pc[e] # "idle" /\ \A s \in Executors : s # e => pc'[s] = pc[s]
  BY <1>1, <1>2 DEF Q!Execute, Q!Claim, Q!ClaimMiss, Q!Normalized, Q!NormalizeError,
     Q!Complete, Q!Fail, Q!Goto, Q!Return
<1>5. CASE Q!Normalized(e) /\ raw' = [raw EXCEPT ![held[e]] = IF held[e] \in mapped THEN "processed" ELSE "stored"]
  <2>1. processed' = processed \cup {held[e]} /\ held[e] \in Events /\ raw[held[e]] # "absent"
    BY <1>4, <1>5, QueueFacts DEF Q!Normalized, IInv, WorkIsStored
  <2>2. \A ev \in Events : raw'[ev] = raw[ev] \/ ev = held[e]
    BY <1>1, <1>5
  <2> QED BY <1>2, <1>3, <1>4, <2>1, <2>2, QuietLoss
<1>6. CASE UNCHANGED <<raw, processed>>
  BY <1>2, <1>3, <1>4, <1>6, QuietLoss
<1> QED BY <1>5, <1>6 DEF RunJob, ingestVars, Q!Claim, Q!ClaimMiss, Q!NormalizeError,
           Q!Complete, Q!Fail

LEMMA DropInJobLoss ==
  ASSUME IInv, LossInv, NEW e \in Executors, DropInJob(e)
  PROVE  LossInv'
<1>1. /\ req \in [Requests -> RequestRows] /\ pc \in [Executors -> Q!Steps]
  BY DEF IInv, TypeOK, RequestRows, Q!TypeOK, Q!Executors
<1>2. UNCHANGED <<raw, drops, jobs, processed>> /\ pc[e] # "idle" /\ pc' = [pc EXCEPT ![e] = "idle"]
  BY DEF DropInJob, Q!Abandon, Q!Return
<1>3. \A r \in Requests : req'[r] = req[r] \/ r = e
  BY <1>1 DEF DropInJob
<1>4. e \in Requests => req[e].step \in {"inline", "retry"}
  BY <1>2 DEF LossInv, JobsAreCalled
<1> QED BY <1>1, <1>2, <1>3, <1>4, QuietLoss DEF Q!Present

LEMMA NextLossInv ==
  IInv /\ IInv' /\ Queue!IInv /\ LossInv /\ [Next]_vars => LossInv'
<1> SUFFICES ASSUME IInv, IInv', Queue!IInv, LossInv, [Next]_vars PROVE LossInv'
  OBVIOUS
<1>1. ASSUME NEW r \in Requests, Drop(r) PROVE LossInv'
  <2>1. LossIsCounted'
    BY <1>1, DropForgets DEF LossInv
  <2>2. /\ UNCHANGED <<raw, pc, processed>> /\ req[r].step \notin {"inline", "retry"}
        /\ \A s \in Requests : s # r => req'[s] = req[s]
    BY <1>1 DEF Drop, queueVars, IInv, TypeOK
  <2>3. JobsAreCalled' /\ StatusIsTrue'
    BY <2>2 DEF LossInv, JobsAreCalled, StatusIsTrue
  <2> QED BY <2>1, <2>3 DEF LossInv
<1>2. CASE Tick \/ (\E w \in Pollers : PollerSelect(w)) \/ UNCHANGED vars
  <2>1. UNCHANGED <<raw, drops, req, processed>>
    BY <1>2 DEF Tick, PollerSelect, Q!Tick, Q!Select, vars, queueVars, ingestVars
  <2>2. \A ev \in Events : Q!Present(ev)' <=> Q!Present(ev)
    BY <1>2, PresenceKept DEF Tick, PollerSelect, Q!Select, vars, queueVars
  <2>3. \A r \in Requests : pc'[r] = pc[r]
    <3>1. pc \in [Executors -> Q!Steps]
      BY DEF IInv, TypeOK, Q!TypeOK, Q!Executors
    <3> QED BY <1>2, <3>1 DEF Tick, PollerSelect, Q!Tick, Q!Select, Q!Begin, vars, queueVars
  <2> QED BY <2>1, <2>2, <2>3, QuietLoss
<1> QED BY <1>1, <1>2, DeliverLoss, RetryLoss, ProceedLoss, RunJobLoss, DropInJobLoss DEF Next

\* However requests, pollers and retries interleave, each request that is lost before its
\* job is stored costs at most one event, and nothing else costs any; and no event is
\* marked processed that was not.
THEOREM LossIsBounded == Spec => [](LossIsCounted /\ StatusIsTrue)
<1>1. Spec => []LossInv
  BY InitLossInv, NextLossInv, Invariance, PTL DEF Spec
<1> QED BY <1>1, PTL DEF LossInv

\* The queue's own theorems hold under ingestion.
THEOREM QueueIsSafe ==
  Spec => [](Q!CompletedWasProcessed /\ Q!DeadMeansExhausted /\ Q!LockedIffRunning)
<1>1. Queue!IInv => Q!CompletedWasProcessed /\ Q!DeadMeansExhausted /\ Q!LockedIffRunning
  BY DEF Queue!IInv, Queue!CompletedWasProcessed, Queue!DeadMeansExhausted,
         Queue!LockedIffRunning, Q!CompletedWasProcessed, Q!DeadMeansExhausted, Q!LockedIffRunning
<1> QED BY <1>1, Invariance, PTL

\* Under ingestion too a claim takes a row from its owner only after the lease, and only a
\* retry or a late report reopens a finished job.
THEOREM QueueStepsAreSafe == Spec => Q!ClaimRespectsLease /\ Q!FinishedStaysFinished
<1>1. IInv /\ Queue!IInv /\ [Next]_vars => [Queue!Next]_(Queue!queueVars)
  BY StepUsesQueue, SameQueue DEF IInv
<1>2. IInv /\ Queue!IInv /\ [Next]_vars => [Q!LeaseKept]_(Q!queueVars)
  <2>1. Queue!LeaseKept => Q!LeaseKept
    BY DEF Queue!LeaseKept, Q!LeaseKept, Queue!Owns, Q!Owns, Queue!Executors, Q!Executors
  <2> QED BY <1>1, <2>1, Queue!StepRespectsLease DEF Queue!Executors
<1>3. IInv /\ Queue!IInv /\ [Next]_vars => [Q!ReopenedOnlyLate]_(Q!queueVars)
  <2>1. \A r \in Requests, j \in Events : Queue!Retry(r, j) => Q!Retry(r, j)
    BY DEF Queue!Retry, Q!Retry, Queue!Present, Q!Present, Queue!Requeued, Q!Requeued,
           Queue!Begin, Q!Begin
  <2>2. \A e \in Executors, j \in Events : Queue!LateReport(e, j) => Q!LateReport(e, j)
    BY DEF Queue!LateReport, Q!LateReport, Queue!Owns, Q!Owns, Queue!Complete, Q!Complete,
           Queue!Fail, Q!Fail, Queue!Return, Q!Return, Queue!Exhausted, Q!Exhausted,
           Queue!Lesser, Q!Lesser, Queue!Requeued, Q!Requeued, Queue!Present, Q!Present
  <2>3. Queue!ReopenedOnlyLate => Q!ReopenedOnlyLate
    BY <2>1, <2>2 DEF Queue!ReopenedOnlyLate, Q!ReopenedOnlyLate, Queue!Executors, Q!Executors
  <2> QED BY <1>1, <2>3, Queue!StepReopensLate DEF Queue!Executors
<1> QED
  BY <1>2, <1>3, Invariance, PTL DEF Spec, Q!ClaimRespectsLease, Q!FinishedStaysFinished

=============================================================================
