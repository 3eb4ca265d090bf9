------------------------------ MODULE JobQueue ------------------------------
(***************************************************************************)
(* The Postgres-backed job queue of crates/jobs: the `jobs` table, the     *)
(* background pollers (the tokio loop of main.rs, one per process) and the *)
(* HTTP requests that run a job in place (webhook ingestion as             *)
(* "api-inline", POST /api/jobs/{id}/retry as "api-retry").                *)
(*                                                                         *)
(* Each SQL statement is autocommit, so each is one action; the statements *)
(* of different executors interleave freely.  process_raw_event, which a   *)
(* job runs, is reduced here to its outcome (module Projection opens it).  *)
(*                                                                         *)
(* Time is relative: `wait` is what is left until run_after, `age` the     *)
(* time since locked_at, and `ahead` the order of run_after (created_at    *)
(* breaking ties), which is all the polling query reads of them.           *)
(***************************************************************************)
EXTENDS Naturals, FiniteSets

CONSTANTS
  Jobs,          \* the rows that may exist in the jobs table
  Pollers,       \* background worker loops, one per running process
  Requests,      \* HTTP requests that can execute a job
  NoJob,         \* "no job"
  Nobody,        \* locked_by is null
  MaxAttempts,   \* jobs.max_attempts (5 in the code)
  BackoffCap,    \* least(attempts, BackoffCap) steps of backoff (6 in the code)
  Lease,         \* locked_at older than this may be claimed again (5 minutes)
  MaxFaults      \* BOUND: executors that stop half-way

Executors == Pollers \cup Requests

ASSUME JobQueueAssumption ==
  /\ MaxAttempts \in Nat \ {0}
  /\ BackoffCap \in Nat \ {0}
  /\ Lease \in Nat
  /\ MaxFaults \in Nat
  /\ Pollers \cap Requests = {}
  /\ NoJob \notin Jobs
  /\ Nobody \notin Executors

VARIABLES
  jobs,       \* the jobs table: [status, attempts, wait, age, lockedBy] per row
  ahead,      \* <<i, j>>: row i sorts before row j by (run_after, created_at)
  pc,         \* where each executor is in process_normalization_job
  held,       \* the job id each executor works with
  outcome,    \* what the last call of each request returned
  processed,  \* jobs whose process_raw_event has returned Ok at least once
  faults      \* executors lost so far

queueVars == <<jobs, ahead, pc, held, outcome, processed, faults>>

Lesser(m, n) == IF m <= n THEN m ELSE n

\* attempts is only compared with max_attempts and with the backoff cap, so a
\* counter that stops at the larger of the two loses nothing.
AttemptCap == IF MaxAttempts <= BackoffCap THEN BackoffCap ELSE MaxAttempts

Statuses == {"absent", "queued", "running", "completed", "failed", "dead"}

JobRow == [status   : Statuses,
           attempts : 0..AttemptCap,
           wait     : 0..BackoffCap,
           age      : 0..(Lease + 1),
           lockedBy : Executors \cup {Nobody}]

Present(j) == jobs[j].status # "absent"

\* Mutants of Claimable: a lock never expires; a dead row counts.
ClaimableNeverStale(j) == jobs[j].status \in {"queued", "failed"}
ClaimableDead(j) ==
  \/ jobs[j].status \in {"queued", "failed", "dead"}
  \/ jobs[j].status = "running" /\ jobs[j].age > Lease

\* The condition the polling query and the claiming update share.
Claimable(j) ==
  \/ jobs[j].status \in {"queued", "failed"}
  \/ jobs[j].status = "running" /\ jobs[j].age > Lease

Due(j) == jobs[j].wait = 0

\* The order of run_after once row j is given run_after = now() + w: behind
\* every row that is due no later, before the others.
Requeued(j, w) ==
  {p \in ahead : p[1] # j /\ p[2] # j}
    \cup {p \in Jobs \X {j} : p[1] # j /\ Present(p[1]) /\ jobs[p[1]].wait <= w}
    \cup {p \in {j} \X Jobs : p[2] # j /\ Present(p[2]) /\ jobs[p[2]].wait > w}

-----------------------------------------------------------------------------

Row(status) == [status |-> status, attempts |-> 0, wait |-> 0, age |-> 0, lockedBy |-> Nobody]

Init ==
  /\ jobs = [j \in Jobs |-> Row("absent")]
  /\ ahead = {}
  /\ pc = [e \in Executors |-> "idle"]
  /\ held = [e \in Executors |-> NoJob]
  /\ outcome = [e \in Executors |-> "none"]
  /\ processed = {}
  /\ faults = 0

\* Executor e goes on to step `to` with the job it holds.
Goto(e, to) ==
  /\ pc' = [pc EXCEPT ![e] = to]
  /\ UNCHANGED <<held, outcome>>

Begin(e, j) ==
  /\ pc' = [pc EXCEPT ![e] = "claiming"]
  /\ held' = [held EXCEPT ![e] = j]
  /\ outcome' = [outcome EXCEPT ![e] = "none"]

\* A poller only logs what the call returned.
Return(e, result) ==
  /\ pc' = [pc EXCEPT ![e] = "idle"]
  /\ held' = [held EXCEPT ![e] = NoJob]
  /\ outcome' = [outcome EXCEPT ![e] = IF e \in Requests THEN result ELSE "none"]

\* A request stores the job of a new raw event, then runs it in place.
Enqueue(r, j) ==
  /\ pc[r] = "idle"
  /\ ~Present(j)
  /\ jobs' = [jobs EXCEPT ![j] = Row("queued")]
  /\ ahead' = Requeued(j, 0)
  /\ Begin(r, j)
  /\ UNCHANGED <<processed, faults>>

\* The poller's select: the first due and claimable row.  Nothing is locked.
Select(w) ==
  /\ pc[w] = "idle"
  /\ \E j \in Jobs :
       /\ Due(j) /\ Claimable(j)
       /\ \A i \in Jobs : Due(i) /\ Claimable(i) => <<i, j>> \notin ahead
       /\ Begin(w, j)
  /\ UNCHANGED <<jobs, ahead, processed, faults>>

\* The claiming update matches the row; run_after is not looked at.
Claim(e) ==
  /\ pc[e] = "claiming"
  /\ Claimable(held[e])
  /\ LET row == jobs[held[e]]
     IN jobs' = [jobs EXCEPT ![held[e]] =
                   [row EXCEPT !.status   = "running",
                               !.attempts = Lesser(row.attempts + 1, AttemptCap),
                               !.age      = 0,
                               !.lockedBy = e]]
  /\ Goto(e, "working")
  /\ UNCHANGED <<ahead, processed, faults>>

\* The claiming update matches no row: RowNotFound.
ClaimMiss(e) ==
  /\ pc[e] = "claiming"
  /\ ~Claimable(held[e])
  /\ Return(e, "missing")
  /\ UNCHANGED <<jobs, ahead, processed, faults>>

\* process_raw_event returns.
Normalized(e) ==
  /\ pc[e] = "working"
  /\ processed' = processed \cup {held[e]}
  /\ Goto(e, "succeeded")
  /\ UNCHANGED <<jobs, ahead, faults>>

\* Mutant of NormalizeError: the error is swallowed.
NormalizeErrorIgnored(e) ==
  /\ pc[e] = "working"
  /\ Goto(e, "succeeded")
  /\ UNCHANGED <<jobs, ahead, processed, faults>>

NormalizeError(e) ==
  /\ pc[e] = "working"
  /\ Goto(e, "errored")
  /\ UNCHANGED <<jobs, ahead, processed, faults>>

\* Mutant of Complete: the row gets the word that raw_events has for it.
CompleteProcessed(e) ==
  /\ pc[e] = "succeeded"
  /\ jobs' = [jobs EXCEPT ![held[e]] =
                [@ EXCEPT !.status = "processed", !.age = 0, !.lockedBy = Nobody]]
  /\ Return(e, "ok")
  /\ UNCHANGED <<ahead, processed, faults>>

\* The final update of the success path: where id = $1, whoever holds the lock.
Complete(e) ==
  /\ pc[e] = "succeeded"
  /\ jobs' = [jobs EXCEPT ![held[e]] =
                [@ EXCEPT !.status = "completed", !.age = 0, !.lockedBy = Nobody]]
  /\ Return(e, "ok")
  /\ UNCHANGED <<ahead, processed, faults>>

\* Mutant of Exhausted: one attempt too many.
ExhaustedLate(n) == n > MaxAttempts

Exhausted(n) == n >= MaxAttempts

\* The final update of the error path, equally unconditional.
Fail(e) ==
  /\ pc[e] = "errored"
  /\ LET j    == held[e]
         n    == jobs[j].attempts
         back == Lesser(n, BackoffCap)
     IN /\ jobs' = [jobs EXCEPT ![j] =
                      [@ EXCEPT !.status   = IF Exhausted(n) THEN "dead" ELSE "failed",
                                !.age      = 0,
                                !.lockedBy = Nobody,
                                !.wait     = back]]
        /\ ahead' = Requeued(j, back)
  /\ Return(e, "error")
  /\ UNCHANGED <<processed, faults>>

\* An operator's retry resets the row in whatever state it is, then claims it.
Retry(r, j) ==
  /\ pc[r] = "idle"
  /\ Present(j)
  /\ jobs' = [jobs EXCEPT ![j] =
                [@ EXCEPT !.status = "queued", !.wait = 0, !.age = 0, !.lockedBy = Nobody]]
  /\ ahead' = Requeued(j, 0)
  /\ Begin(r, j)
  /\ UNCHANGED <<processed, faults>>

\* The executor stops half-way: its process dies, its client disconnects and
\* the handler is dropped ("none"), or a statement fails ("error").
Abandon(e) ==
  /\ pc[e] # "idle"
  /\ faults < MaxFaults
  /\ faults' = faults + 1
  /\ \E result \in {"none", "error"} : Return(e, result)
  /\ UNCHANGED <<jobs, ahead, processed>>

\* The handler that called the job has read its result.
Collect(r) ==
  /\ pc[r] = "idle"
  /\ outcome[r] # "none"
  /\ outcome' = [outcome EXCEPT ![r] = "none"]
  /\ UNCHANGED <<jobs, ahead, pc, held, processed, faults>>

Aged(row) ==
  [row EXCEPT !.wait = IF @ = 0 THEN 0 ELSE @ - 1,
              !.age  = IF row.status = "running" THEN Lesser(@ + 1, Lease + 1) ELSE @]

\* One unit of time passes, as long as that makes a difference to some row.
Tick ==
  /\ \E j \in Jobs : Aged(jobs[j]) # jobs[j]
  /\ jobs' = [j \in Jobs |-> Aged(jobs[j])]
  /\ UNCHANGED <<ahead, pc, held, outcome, processed, faults>>

\* What an executor does on its own once it has a job id.
Execute(e) ==
  \/ Claim(e) \/ ClaimMiss(e)
  \/ Normalized(e) \/ NormalizeError(e)
  \/ Complete(e) \/ Fail(e)

Next ==
  \/ \E r \in Requests, j \in Jobs : Enqueue(r, j) \/ Retry(r, j)
  \/ \E r \in Requests : Collect(r)
  \/ \E w \in Pollers : Select(w)
  \/ \E e \in Executors : Execute(e) \/ Abandon(e)
  \/ Tick

\* tokio polls every task again and the clock runs; faults and operators'
\* retries need not happen.
Fairness ==
  /\ \A w \in Pollers : WF_queueVars(Select(w))
  /\ \A e \in Executors : WF_queueVars(Execute(e))
  /\ WF_queueVars(Tick)

Spec == Init /\ [][Next]_queueVars

FairSpec == Spec /\ Fairness

-----------------------------------------------------------------------------

Steps == {"idle", "claiming", "working", "succeeded", "errored"}

\* Every variable keeps the shape of the table or of the executor it stands for.
TypeOK ==
  /\ jobs \in [Jobs -> JobRow]
  /\ ahead \subseteq Jobs \X Jobs
  /\ pc \in [Executors -> Steps]
  /\ held \in [Executors -> Jobs \cup {NoJob}]
  /\ outcome \in [Executors -> {"none", "ok", "error", "missing"}]
  /\ processed \subseteq Jobs
  /\ faults \in 0..MaxFaults

\* Executor e is past its claim and no other statement has touched the row since.
Owns(e, j) ==
  /\ pc[e] \in {"working", "succeeded", "errored"}
  /\ held[e] = j
  /\ jobs[j].lockedBy = e

\* A job is reported completed only after its raw event was really processed,
\* however many executors, lost leases and retries were involved.
CompletedWasProcessed ==
  \A j \in Jobs : jobs[j].status = "completed" => j \in processed

\* A row stops being retried by the pollers only when its attempts are used up,
\* and never with attempts left: "dead" and "failed" follow the counter even
\* when executors that lost their lease write them late.
DeadMeansExhausted ==
  \A j \in Jobs :
    /\ jobs[j].status = "dead" => jobs[j].attempts >= MaxAttempts
    /\ jobs[j].status = "failed" => jobs[j].attempts < MaxAttempts

\* A lock names its holder: locked_by is set exactly on running rows, so a row
\* that nobody runs is never hidden from the pollers behind a lock.
LockedIffRunning ==
  \A j \in Jobs : jobs[j].status = "running" <=> jobs[j].lockedBy # Nobody

\* The polling order is a strict total order of the stored rows that follows
\* their run_after, so the select always finds a first row, no row is passed
\* over for ever, and no statement that moves a row upsets the others.
PollOrderTotal ==
  /\ \A i, j \in Jobs : <<i, j>> \in ahead =>
       /\ Present(i) /\ Present(j) /\ i # j
       /\ jobs[i].wait <= jobs[j].wait
  /\ \A i, j \in Jobs :
       i # j /\ Present(i) /\ Present(j) => (<<i, j>> \in ahead <=> <<j, i>> \notin ahead)
  /\ \A i, j, k \in Jobs : <<i, j>> \in ahead /\ <<j, k>> \in ahead => <<i, k>> \in ahead

\* Claiming takes a row away from an executor that still owns it only when
\* that executor has outlived its lease.
LeaseKept ==
  \A e, o \in Executors, j \in Jobs :
    e # o /\ Owns(o, j) /\ jobs'[j].lockedBy = e => jobs[j].age > Lease

ClaimRespectsLease == [][LeaseKept]_queueVars

LateReport(e, j) == held[e] = j /\ ~Owns(e, j) /\ (Complete(e) \/ Fail(e))

\* A finished row (completed or dead) is reopened only by a retry, or by an
\* executor that had lost its lease on it and reports late.
ReopenedOnlyLate ==
  \A j \in Jobs :
    jobs[j].status \in {"completed", "dead"} /\ jobs'[j].status # jobs[j].status
      => \/ \E r \in Requests : Retry(r, j)
         \/ \E e \in Executors : LateReport(e, j)

FinishedStaysFinished == [][ReopenedOnlyLate]_queueVars

\* Every stored job is eventually completed or dead.
JobsSettle ==
  \A j \in Jobs : Present(j) ~> jobs[j].status \in {"completed", "dead"}

\* docs/architecture.md:92 has workers claim rows with FOR UPDATE SKIP LOCKED,
\* where a row is still due and not running when the worker that chose it locks it.
PollerClaimsDueRow ==
  [][\A w \in Pollers : Claim(w) => Due(held[w])]_queueVars

=============================================================================
