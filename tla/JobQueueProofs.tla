--------------------------- MODULE JobQueueProofs ---------------------------
(***************************************************************************)
(* Theorems about JobQueue, for any number of jobs, pollers and requests   *)
(* and any lease, attempt limit, backoff cap and number of faults.         *)
(***************************************************************************)
EXTENDS JobQueue, TLAPS

USE JobQueueAssumption DEF Executors

\* An executor holds a job exactly while it is not idle, and that row exists.
HoldsStoredRow ==
  \A e \in Executors :
    /\ pc[e] # "idle" => held[e] \in Jobs /\ Present(held[e])
    /\ pc[e] = "idle" => held[e] = NoJob

\* Success is known to an executor only after its event was processed.
SucceededWasProcessed ==
  \A e \in Executors : pc[e] = "succeeded" => held[e] \in processed

\* The inductive invariant.
IInv ==
  /\ TypeOK
  /\ HoldsStoredRow
  /\ SucceededWasProcessed
  /\ CompletedWasProcessed
  /\ DeadMeansExhausted
  /\ LockedIffRunning

LEMMA CapType == AttemptCap \in Nat /\ MaxAttempts <= AttemptCap /\ BackoffCap <= AttemptCap
  BY DEF AttemptCap

LEMMA ZeroInRange == 0 \in 0..(Lease + 1) /\ 0 \in 0..BackoffCap /\ 0 \in 0..AttemptCap
  BY CapType

LEMMA LesserType == \A m, n \in Nat : Lesser(m, n) \in 0..n /\ Lesser(m, n) <= m
  BY DEF Lesser

\* What each statement writes into a row is a row.
LEMMA QueuedRow ==
  ASSUME NEW row \in JobRow
  PROVE  /\ Row("queued") \in JobRow
         /\ [row EXCEPT !.status = "queued", !.wait = 0, !.age = 0, !.lockedBy = Nobody] \in JobRow
         /\ [row EXCEPT !.status = "completed", !.age = 0, !.lockedBy = Nobody] \in JobRow
  BY ZeroInRange DEF JobRow, Statuses, Row

LEMMA ClaimedRow ==
  ASSUME NEW row \in JobRow, NEW e \in Executors
  PROVE  [row EXCEPT !.status = "running", !.attempts = Lesser(row.attempts + 1, AttemptCap),
                     !.age = 0, !.lockedBy = e] \in JobRow
<1> DEFINE n == Lesser(row.attempts + 1, AttemptCap)
<1>1. row.attempts \in Nat
  BY CapType DEF JobRow
<1>2. n \in 0..AttemptCap
  BY <1>1, CapType, LesserType
<1> HIDE DEF n
<1>3. [row EXCEPT !.status = "running", !.attempts = n, !.age = 0, !.lockedBy = e] \in JobRow
  BY <1>2, ZeroInRange DEF JobRow, Statuses
<1> QED BY <1>3 DEF n

LEMMA FailedRow ==
  ASSUME NEW row \in JobRow, NEW end \in {"dead", "failed"}
  PROVE  /\ Lesser(row.attempts, BackoffCap) \in 0..BackoffCap
         /\ [row EXCEPT !.status = end, !.age = 0, !.lockedBy = Nobody,
                         !.wait = Lesser(row.attempts, BackoffCap)] \in JobRow
<1> DEFINE back == Lesser(row.attempts, BackoffCap)
<1>1. row.attempts \in Nat
  BY CapType DEF JobRow
<1>2. back \in 0..BackoffCap
  BY <1>1, LesserType
<1> HIDE DEF back
<1>3. [row EXCEPT !.status = end, !.age = 0, !.lockedBy = Nobody, !.wait = back] \in JobRow
  BY <1>2, ZeroInRange DEF JobRow, Statuses
<1> QED BY <1>2, <1>3 DEF back

LEMMA AgedRow ==
  ASSUME NEW row \in JobRow
  PROVE  /\ Aged(row) \in JobRow
         /\ Aged(row).status = row.status
         /\ Aged(row).attempts = row.attempts
         /\ Aged(row).lockedBy = row.lockedBy
         /\ Aged(row).wait = IF row.wait = 0 THEN 0 ELSE row.wait - 1
<1> DEFINE w == IF row.wait = 0 THEN 0 ELSE row.wait - 1
           a == IF row.status = "running" THEN Lesser(row.age + 1, Lease + 1) ELSE row.age
<1>1. row.wait \in 0..BackoffCap /\ row.age \in 0..(Lease + 1)
  BY DEF JobRow
<1>2. w \in 0..BackoffCap
  BY <1>1
<1>3. row.age + 1 \in Nat /\ Lease + 1 \in Nat
  BY <1>1
<1>4. a \in 0..(Lease + 1)
  BY <1>1, <1>3, LesserType
<1>5. Aged(row) = [row EXCEPT !.wait = w, !.age = a]
  BY DEF Aged
<1> HIDE DEF w, a
<1>6. /\ [row EXCEPT !.wait = w, !.age = a] \in JobRow
      /\ [row EXCEPT !.wait = w, !.age = a].wait = w
  BY <1>2, <1>4 DEF JobRow
<1> QED BY <1>5, <1>6 DEF JobRow, w

LEMMA InitTypeOK == Init => TypeOK
  BY ZeroInRange DEF Init, TypeOK, JobRow, Statuses, Steps, Row

\* Each action keeps the shape of every variable.
LEMMA NextTypeOK == TypeOK /\ HoldsStoredRow /\ [Next]_queueVars => TypeOK'
<1> SUFFICES ASSUME TypeOK, HoldsStoredRow, [Next]_queueVars PROVE TypeOK'
  OBVIOUS
<1> USE DEF TypeOK, Steps
<1>1. ASSUME NEW r \in Requests, NEW j \in Jobs, Enqueue(r, j) PROVE TypeOK'
  <2>1. jobs' \in [Jobs -> JobRow]
    BY <1>1, QueuedRow DEF Enqueue
  <2>2. ahead' \subseteq Jobs \X Jobs
    BY <1>1 DEF Enqueue, Requeued
  <2> QED BY <1>1, <2>1, <2>2 DEF Enqueue, Begin
<1>2. ASSUME NEW r \in Requests, NEW j \in Jobs, Retry(r, j) PROVE TypeOK'
  <2>1. jobs' \in [Jobs -> JobRow]
    BY <1>2, QueuedRow DEF Retry
  <2>2. ahead' \subseteq Jobs \X Jobs
    BY <1>2 DEF Retry, Requeued
  <2> QED BY <1>2, <2>1, <2>2 DEF Retry, Begin
<1>3. ASSUME NEW w \in Pollers, Select(w) PROVE TypeOK'
  BY <1>3 DEF Select, Begin
<1>4. ASSUME NEW e \in Executors, Claim(e) PROVE TypeOK'
  <2>1. held[e] \in Jobs
    BY <1>4 DEF Claim, HoldsStoredRow
  <2>2. jobs' \in [Jobs -> JobRow]
    BY <1>4, <2>1, ClaimedRow DEF Claim
  <2> QED BY <1>4, <2>2 DEF Claim, Goto
<1>5. ASSUME NEW e \in Executors, ClaimMiss(e) PROVE TypeOK'
  BY <1>5 DEF ClaimMiss, Return
<1>6. ASSUME NEW e \in Executors, Normalized(e) PROVE TypeOK'
  BY <1>6 DEF Normalized, Goto, HoldsStoredRow
<1>7. ASSUME NEW e \in Executors, NormalizeError(e) PROVE TypeOK'
  BY <1>7 DEF NormalizeError, Goto
<1>8. ASSUME NEW e \in Executors, Complete(e) PROVE TypeOK'
  <2>1. held[e] \in Jobs
    BY <1>8 DEF Complete, HoldsStoredRow
  <2>2. jobs' \in [Jobs -> JobRow]
    BY <1>8, <2>1, QueuedRow DEF Complete
  <2> QED BY <1>8, <2>2 DEF Complete, Return
<1>9. ASSUME NEW e \in Executors, Fail(e) PROVE TypeOK'
  <2>1. held[e] \in Jobs
    BY <1>9 DEF Fail, HoldsStoredRow
  <2>2. jobs' \in [Jobs -> JobRow]
    BY <1>9, <2>1, FailedRow DEF Fail
  <2>3. ahead' \subseteq Jobs \X Jobs
    BY <1>9, <2>1 DEF Fail, Requeued
  <2> QED BY <1>9, <2>2, <2>3 DEF Fail, Return
<1>10. ASSUME NEW e \in Executors, Abandon(e) PROVE TypeOK'
  <2>1. faults' \in 0..MaxFaults
    BY <1>10 DEF Abandon
  <2> QED BY <1>10, <2>1 DEF Abandon, Return
<1>11. CASE Tick
  BY <1>11, AgedRow DEF Tick
<1>12. ASSUME NEW r \in Requests, Collect(r) PROVE TypeOK'
  BY <1>12 DEF Collect
<1>13. CASE UNCHANGED queueVars
  BY <1>13 DEF queueVars
<1> QED
  BY <1>1, <1>2, <1>3, <1>4, <1>5, <1>6, <1>7, <1>8, <1>9, <1>10, <1>11, <1>12, <1>13
  DEF Next, Execute

LEMMA InitIInv == Init => IInv
<1> SUFFICES ASSUME Init PROVE IInv
  OBVIOUS
<1> QED
  BY InitTypeOK DEF Init, Row, IInv, HoldsStoredRow, SucceededWasProcessed,
     CompletedWasProcessed, DeadMeansExhausted, LockedIffRunning

\* Each action keeps the other conjuncts.
LEMMA NextIInv == IInv /\ [Next]_queueVars => IInv'
<1> SUFFICES ASSUME IInv, [Next]_queueVars PROVE IInv'
  OBVIOUS
<1>0. TypeOK'
  BY NextTypeOK DEF IInv
<1> USE <1>0 DEF IInv, TypeOK, HoldsStoredRow, SucceededWasProcessed, CompletedWasProcessed,
        DeadMeansExhausted, LockedIffRunning, Present, Steps
<1>1. ASSUME NEW r \in Requests, NEW j \in Jobs, Enqueue(r, j) PROVE IInv'
  BY <1>1 DEF Enqueue, Begin, JobRow, Row
<1>2. ASSUME NEW r \in Requests, NEW j \in Jobs, Retry(r, j) PROVE IInv'
  BY <1>2 DEF Retry, Begin, JobRow
<1>3. ASSUME NEW w \in Pollers, Select(w) PROVE IInv'
  BY <1>3 DEF Select, Begin, Claimable
<1>4. ASSUME NEW e \in Executors, Claim(e) PROVE IInv'
  BY <1>4 DEF Claim, Goto, JobRow
<1>5. ASSUME NEW e \in Executors, ClaimMiss(e) PROVE IInv'
  BY <1>5 DEF ClaimMiss, Return
<1>6. ASSUME NEW e \in Executors, Normalized(e) PROVE IInv'
  BY <1>6 DEF Normalized, Goto
<1>7. ASSUME NEW e \in Executors, NormalizeError(e) PROVE IInv'
  BY <1>7 DEF NormalizeError, Goto
<1>8. ASSUME NEW e \in Executors, Complete(e) PROVE IInv'
  BY <1>8 DEF Complete, Return, JobRow
<1>9. ASSUME NEW e \in Executors, Fail(e) PROVE IInv'
  BY <1>9 DEF Fail, Return, Exhausted, JobRow
<1>10. ASSUME NEW e \in Executors, Abandon(e) PROVE IInv'
  BY <1>10 DEF Abandon, Return
<1>11. CASE Tick
  <2>1. \A j \in Jobs : /\ jobs'[j].status = jobs[j].status
                        /\ jobs'[j].attempts = jobs[j].attempts
                        /\ jobs'[j].lockedBy = jobs[j].lockedBy
    BY <1>11, AgedRow DEF Tick
  <2> QED BY <1>11, <2>1 DEF Tick
<1>12. ASSUME NEW r \in Requests, Collect(r) PROVE IInv'
  BY <1>12 DEF Collect
<1>13. CASE UNCHANGED queueVars
  BY <1>13 DEF queueVars
<1> QED
  BY <1>1, <1>2, <1>3, <1>4, <1>5, <1>6, <1>7, <1>8, <1>9, <1>10, <1>11, <1>12, <1>13
  DEF Next, Execute

LEMMA Invariance == Spec => []IInv
  BY InitIInv, NextIInv, PTL DEF Spec

\* The state of the queue is well formed in every reachable state.
THEOREM TypeCorrect == Spec => []TypeOK
  BY Invariance, PTL DEF IInv

\* No job is reported completed unless its event was processed.
THEOREM CompletionIsTrue == Spec => []CompletedWasProcessed
  BY Invariance, PTL DEF IInv

\* The pollers give a row up exactly when its attempts are used up.
THEOREM DeadIffExhausted == Spec => []DeadMeansExhausted
  BY Invariance, PTL DEF IInv

\* No lock outlives the run it belongs to.
THEOREM NoOrphanLock == Spec => []LockedIffRunning
  BY Invariance, PTL DEF IInv

-----------------------------------------------------------------------------
(***************************************************************************)
(* The two action properties.  Their bodies hold of every step taken from  *)
(* a state of the invariant.                                               *)
(***************************************************************************)

LEMMA StepRespectsLease == IInv /\ [Next]_queueVars => LeaseKept
<1> SUFFICES ASSUME IInv, [Next]_queueVars,
                    NEW e \in Executors, NEW o \in Executors, NEW j \in Jobs,
                    e # o, Owns(o, j), jobs'[j].lockedBy = e
             PROVE  jobs[j].age > Lease
  BY DEF LeaseKept
<1>1. jobs[j].lockedBy = o /\ jobs[j].status = "running"
  BY DEF IInv, LockedIffRunning, Owns
<1> USE DEF IInv, TypeOK, JobRow
<1>2. ASSUME NEW r \in Requests, NEW i \in Jobs, Enqueue(r, i) PROVE FALSE
  BY <1>1, <1>2 DEF Enqueue, Row
<1>3. ASSUME NEW r \in Requests, NEW i \in Jobs, Retry(r, i) PROVE FALSE
  BY <1>1, <1>3 DEF Retry
<1>4. ASSUME NEW x \in Executors, Claim(x) PROVE jobs[j].age > Lease
  BY <1>1, <1>4 DEF Claim, Claimable
<1>5. ASSUME NEW x \in Executors, Complete(x) PROVE FALSE
  BY <1>1, <1>5 DEF Complete
<1>6. ASSUME NEW x \in Executors, Fail(x) PROVE FALSE
  BY <1>1, <1>6 DEF Fail
<1>7. CASE Tick
  BY <1>1, <1>7, AgedRow DEF Tick
<1>8. jobs' # jobs
  BY <1>1
<1> QED
  BY <1>2, <1>3, <1>4, <1>5, <1>6, <1>7, <1>8
  DEF Next, Execute, queueVars, Collect, Select, ClaimMiss, Normalized, NormalizeError, Abandon

\* A claim never takes a row from an executor whose lease still runs.
THEOREM LeaseProtectsOwner == Spec => ClaimRespectsLease
<1>1. IInv /\ [Next]_queueVars => [LeaseKept]_queueVars
  BY StepRespectsLease
<1> QED BY <1>1, Invariance, PTL DEF Spec, ClaimRespectsLease

LEMMA StepReopensLate == IInv /\ [Next]_queueVars => ReopenedOnlyLate
<1> SUFFICES ASSUME IInv, [Next]_queueVars, NEW j \in Jobs,
                    jobs[j].status \in {"completed", "dead"}, jobs'[j].status # jobs[j].status
             PROVE  \/ \E r \in Requests : Retry(r, j)
                    \/ \E e \in Executors : LateReport(e, j)
  BY DEF ReopenedOnlyLate
<1>1. jobs[j].lockedBy = Nobody
  BY DEF IInv, LockedIffRunning, TypeOK, JobRow
<1>2. \A e \in Executors : ~Owns(e, j)
  BY <1>1 DEF Owns
<1> USE DEF IInv, TypeOK
<1>3. ASSUME NEW r \in Requests, NEW i \in Jobs, Enqueue(r, i) PROVE FALSE
  BY <1>3 DEF Enqueue, Present
<1>4. ASSUME NEW r \in Requests, NEW i \in Jobs, Retry(r, i) PROVE i = j
  BY <1>4 DEF Retry
<1>5. ASSUME NEW x \in Executors, Claim(x) PROVE FALSE
  BY <1>5 DEF Claim, Claimable
<1>6. ASSUME NEW x \in Executors, Complete(x) \/ Fail(x) PROVE LateReport(x, j)
  BY <1>2, <1>6 DEF Complete, Fail, LateReport
<1>7. ~Tick
  BY AgedRow DEF Tick
<1>8. jobs' # jobs
  OBVIOUS
<1> QED
  BY <1>2, <1>3, <1>4, <1>5, <1>6, <1>7, <1>8
  DEF Next, Execute, queueVars, Collect, Select, ClaimMiss, Normalized, NormalizeError, Abandon

\* Only a retry, or a late report of an executor that lost its lease, reopens a
\* finished job.
THEOREM FinishedIsStable == Spec => FinishedStaysFinished
<1>1. IInv /\ [Next]_queueVars => [ReopenedOnlyLate]_queueVars
  BY StepReopensLate, Zenon
<1> QED BY <1>1, Invariance, PTL DEF Spec, FinishedStaysFinished

-----------------------------------------------------------------------------
(***************************************************************************)
(* The polling order.  Moving one row (enqueue, failure, retry) keeps it a *)
(* strict total order that follows run_after; the passing of time does too *)
(* because every wait shrinks by the same amount, down to zero.            *)
(***************************************************************************)

LEMMA RequeueKeepsOrder ==
  ASSUME TypeOK, TypeOK', PollOrderTotal,
         NEW j \in Jobs, NEW row \in JobRow, row.status # "absent",
         jobs' = [jobs EXCEPT ![j] = row], ahead' = Requeued(j, row.wait)
  PROVE  PollOrderTotal'
<1> DEFINE before(a, b) == <<a, b>> \in ahead
           after(a, b)  == <<a, b>> \in ahead'
           w(a)         == jobs[a].wait
<1>1. \A a \in Jobs : w(a) \in Nat /\ row.wait \in Nat
  BY DEF TypeOK, JobRow
<1>2. \A a, b \in Jobs : a # j /\ b # j => (after(a, b) <=> before(a, b))
  BY DEF Requeued
<1>3. \A a \in Jobs : after(a, j) <=> a # j /\ Present(a) /\ w(a) <= row.wait
  BY DEF Requeued
<1>4. \A b \in Jobs : after(j, b) <=> b # j /\ Present(b) /\ w(b) > row.wait
  BY DEF Requeued
<1>5. /\ \A a \in Jobs : a # j => jobs'[a] = jobs[a]
      /\ jobs'[j] = row
  BY DEF TypeOK
<1>6. /\ \A a \in Jobs : a # j => (Present(a)' <=> Present(a))
      /\ Present(j)'
  BY <1>5 DEF Present
<1>7. \A a, b \in Jobs : before(a, b) => Present(a) /\ Present(b) /\ a # b /\ w(a) <= w(b)
  BY DEF PollOrderTotal
<1>8. \A a, b \in Jobs :
        a # b /\ Present(a) /\ Present(b) => (before(a, b) <=> ~before(b, a))
  BY DEF PollOrderTotal
<1>9. \A a, b, c \in Jobs : before(a, b) /\ before(b, c) => before(a, c)
  BY DEF PollOrderTotal
<1> HIDE DEF before, after
<1>10. ASSUME NEW a \in Jobs, NEW b \in Jobs, after(a, b)
       PROVE  Present(a)' /\ Present(b)' /\ a # b /\ jobs'[a].wait <= jobs'[b].wait
  BY <1>1, <1>2, <1>3, <1>4, <1>5, <1>6, <1>7, <1>10
<1>11. ASSUME NEW a \in Jobs, NEW b \in Jobs, a # b, Present(a)', Present(b)'
       PROVE  after(a, b) <=> ~after(b, a)
  BY <1>1, <1>2, <1>3, <1>4, <1>6, <1>8, <1>11
<1>12. ASSUME NEW a \in Jobs, NEW b \in Jobs, NEW c \in Jobs, after(a, b), after(b, c)
       PROVE  after(a, c)
  <2>1. CASE a # j /\ b # j /\ c # j
    BY <1>2, <1>9, <1>12, <2>1
  <2>2. CASE b = j
    <3>1. a # j /\ c # j /\ Present(a) /\ Present(c) /\ w(a) <= row.wait /\ w(c) > row.wait
      BY <1>3, <1>4, <1>12, <2>2
    <3>2. a # c /\ ~before(c, a)
      BY <1>1, <1>7, <3>1
    <3> QED BY <1>2, <1>8, <3>1, <3>2
  <2>3. CASE a = j
    <3>1. b # j /\ w(b) > row.wait
      BY <1>4, <1>12, <2>3
    <3>2. c # j
      BY <1>1, <1>3, <1>12, <2>3, <3>1
    <3>3. before(b, c)
      BY <1>2, <1>12, <3>1, <3>2
    <3> QED BY <1>1, <1>4, <1>7, <2>3, <3>1, <3>2, <3>3
  <2>4. CASE c = j /\ a # j /\ b # j
    <3>1. before(a, b) /\ w(b) <= row.wait
      BY <1>2, <1>3, <1>12, <2>4
    <3> QED BY <1>1, <1>3, <1>7, <2>4, <3>1
  <2> QED BY <2>1, <2>2, <2>3, <2>4
<1> QED
  BY <1>10, <1>11, <1>12 DEF PollOrderTotal, after

\* Statements that leave presence, run_after and the order alone.
LEMMA SameOrder ==
  ASSUME PollOrderTotal, ahead' = ahead,
         \A j \in Jobs : (Present(j)' <=> Present(j)) /\ jobs'[j].wait = jobs[j].wait
  PROVE  PollOrderTotal'
  BY DEF PollOrderTotal

LEMMA TickKeepsOrder == TypeOK /\ PollOrderTotal /\ Tick => PollOrderTotal'
<1> SUFFICES ASSUME TypeOK, PollOrderTotal, Tick PROVE PollOrderTotal'
  OBVIOUS
<1>1. \A j \in Jobs :
        /\ Present(j)' <=> Present(j)
        /\ jobs'[j].wait = IF jobs[j].wait = 0 THEN 0 ELSE jobs[j].wait - 1
  BY AgedRow DEF Tick, TypeOK, Present
<1>2. \A j \in Jobs : jobs[j].wait \in Nat
  BY DEF TypeOK, JobRow
<1>3. \A i, j \in Jobs : jobs[i].wait <= jobs[j].wait => jobs'[i].wait <= jobs'[j].wait
  BY <1>1, <1>2
<1>4. ahead' = ahead
  BY DEF Tick
<1> QED
  BY <1>1, <1>3, <1>4 DEF PollOrderTotal

LEMMA NextKeepsOrder == IInv /\ IInv' /\ PollOrderTotal /\ [Next]_queueVars => PollOrderTotal'
<1> SUFFICES ASSUME IInv, IInv', PollOrderTotal, [Next]_queueVars PROVE PollOrderTotal'
  OBVIOUS
<1>0. TypeOK /\ TypeOK' /\ HoldsStoredRow
  BY DEF IInv
<1>1. ASSUME NEW r \in Requests, NEW j \in Jobs, Enqueue(r, j) PROVE PollOrderTotal'
  <2> DEFINE row == Row("queued")
  <2>1. row \in JobRow /\ row.status # "absent" /\ row.wait = 0
    BY <1>0, QueuedRow DEF Row, TypeOK
  <2>2. jobs' = [jobs EXCEPT ![j] = row] /\ ahead' = Requeued(j, row.wait)
    BY <1>1, <2>1 DEF Enqueue
  <2> HIDE DEF row
  <2> QED BY <1>0, <2>1, <2>2, RequeueKeepsOrder
<1>2. ASSUME NEW r \in Requests, NEW j \in Jobs, Retry(r, j) PROVE PollOrderTotal'
  <2> DEFINE row == [jobs[j] EXCEPT !.status = "queued", !.wait = 0, !.age = 0,
                                    !.lockedBy = Nobody]
  <2>0. jobs[j] \in JobRow
    BY <1>0 DEF TypeOK
  <2>1. row \in JobRow /\ row.status # "absent" /\ row.wait = 0
    BY <2>0, QueuedRow DEF JobRow
  <2>2. jobs' = [jobs EXCEPT ![j] = row] /\ ahead' = Requeued(j, row.wait)
    BY <1>2, <2>1 DEF Retry
  <2> HIDE DEF row
  <2> QED BY <1>0, <2>1, <2>2, RequeueKeepsOrder
<1>3. ASSUME NEW e \in Executors, Claim(e) PROVE PollOrderTotal'
  BY <1>0, <1>3, SameOrder DEF Claim, HoldsStoredRow, TypeOK, JobRow, Present
<1>4. ASSUME NEW e \in Executors, Complete(e) PROVE PollOrderTotal'
  BY <1>0, <1>4, SameOrder DEF Complete, HoldsStoredRow, TypeOK, JobRow, Present
<1>5. ASSUME NEW e \in Executors, Fail(e) PROVE PollOrderTotal'
  <2> DEFINE j    == held[e]
             back == Lesser(jobs[j].attempts, BackoffCap)
             end  == IF Exhausted(jobs[j].attempts) THEN "dead" ELSE "failed"
             row  == [jobs[j] EXCEPT !.status = end, !.age = 0, !.lockedBy = Nobody,
                                     !.wait = back]
  <2>0. j \in Jobs /\ jobs[j] \in JobRow /\ end \in {"dead", "failed"}
    BY <1>0, <1>5 DEF Fail, HoldsStoredRow, TypeOK
  <2>1. row \in JobRow
    <3> HIDE DEF end, j
    <3> QED BY <2>0, FailedRow
  <2>2. row.status # "absent" /\ row.wait = back
    <3> HIDE DEF end, back
    <3> QED BY <2>0 DEF JobRow
  <2>3. jobs' = [jobs EXCEPT ![j] = row] /\ ahead' = Requeued(j, row.wait)
    BY <1>5, <2>2 DEF Fail
  <2> HIDE DEF row, j
  <2> QED BY <1>0, <2>0, <2>1, <2>2, <2>3, RequeueKeepsOrder
<1>6. CASE UNCHANGED <<jobs, ahead>>
  BY <1>6, SameOrder DEF Present
<1> QED
  BY <1>0, <1>1, <1>2, <1>3, <1>4, <1>5, <1>6, TickKeepsOrder
  DEF Next, Execute, queueVars, Collect, Select, ClaimMiss, Normalized, NormalizeError, Abandon

\* The pollers always see one strict order of the stored rows, by run_after.
THEOREM PollOrderIsTotal == Spec => []PollOrderTotal
<1>1. Init => PollOrderTotal
  BY DEF Init, PollOrderTotal, Present, Row
<1> QED BY <1>1, NextKeepsOrder, Invariance, PTL DEF Spec

=============================================================================
