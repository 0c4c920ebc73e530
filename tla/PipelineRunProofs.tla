------------------------- MODULE PipelineRunProofs --------------------------
(***************************************************************************)
(* Proofs about a run's way through the pipeline, for any number of runs,   *)
(* reruns, slots, requests and attempts, and any bounds on faults.          *)
(*                                                                         *)
(* The properties here need every message to be delivered once.  None is    *)
(* inductive; they rest on OneDelivery: then a task is the only one that    *)
(* touches its run, and what it has read or written about it stays true.    *)
(***************************************************************************)
EXTENDS PipelineProofs

\* Without redelivery a run has one message, or one slot that works on it.
OneDelivery ==
    \A i \in Ids :
        /\ queue[i] <= 1
        /\ queue[i] = 1 => \A w \in Workers : wid[w] # i
        /\ \A v, w \in Workers : wid[v] = i /\ wid[w] = i => v = w

\* What a task that is alone with its run knows about it.
TaskOwnsRun(w) ==
    /\ wpc[w] \in {"start", "r_audit", "prove", "complete", "x_update"} =>
           job[wid[w]].status \in {"queued", "running"}
    /\ wpc[w] = "f_update" /\ faults.errors = 0 =>
           job[wid[w]].status \in {"queued", "running"}
    /\ wpc[w] \in {"c_purge", "c_audit"} => job[wid[w]].status = "completed"
    /\ wpc[w] \in {"f_purge", "f_audit", "f_dlq", "x_audit", "x_dlq", "x_purge"} =>
           job[wid[w]].status = "failed"
    /\ wpc[w] \in Busy \ {"get"} => wpayload[w] /\ execs[wid[w]] <= wattempt[w]
    /\ wpc[w] = "start" => execs[wid[w]] < wattempt[w] /\ wattempt[w] <= MaxAttempts

\* Every start of a run is counted, and none is over the limit.
RunsPaid ==
    \A i \in Ids : execs[i] <= job[i].attempts /\ execs[i] <= MaxAttempts

PayloadKept ==
    \A i \in Ids :
        /\ job[i].status \in {"queued", "running"} => job[i].payload
        /\ dlq[i].status # "absent" => dlq[i].payload

Alone == OneDelivery /\ \A w \in Workers : TaskOwnsRun(w)

SingleInv == faults.redelivered = 0 => Alone /\ RunsPaid /\ PayloadKept

-----------------------------------------------------------------------------
\* No task was stopped half way and no message delivered twice.
Unstopped ==
    faults.lost = 0 /\ faults.killed = 0 /\ faults.errors = 0 /\ faults.redelivered = 0

\* The points of a task after it has written the run's last status.
Finishing == {"c_purge", "c_audit", "f_purge", "f_audit", "f_dlq", "x_audit", "x_dlq", "x_purge"}

\* How far a task that is never stopped has got with the end of its run.
EndInOrder(w) ==
    /\ wpc[w] \in {"c_purge", "c_audit", "f_purge", "f_audit", "x_audit"} =>
           trail[wid[w]] \cap Terminal = {}
    /\ wpc[w] \in {"f_dlq", "x_dlq", "x_purge"} => trail[wid[w]] \cap Terminal = {"failed"}
    /\ wpc[w] \in {"c_audit", "f_audit", "f_dlq"} => ~job[wid[w]].payload
    /\ wpc[w] = "x_purge" => dlq[wid[w]].status # "absent"

Settled(i) ==
    /\ ~job[i].payload
    /\ trail[i] \cap Terminal = {job[i].status}
    /\ job[i].status = "failed" => dlq[i].status # "absent"

\* A finished run is settled as soon as no task is finishing it.
RunEnds(i) ==
    /\ job[i].status \notin Terminal => trail[i] \cap Terminal = {}
    /\ job[i].status \in Terminal =>
           \/ \E w \in Workers : wid[w] = i /\ wpc[w] \in Finishing
           \/ Settled(i)

RestInv ==
    Unstopped =>
        /\ \A w \in Workers : EndInOrder(w)
        /\ \A i \in Ids : RunEnds(i)

PipeInv == PipeTyped /\ Backed /\ SingleInv /\ RestInv

-----------------------------------------------------------------------------
\* The goals of a task's step for its own run: what it knows about the run,
\* the attempt count, and the payload.
LEMMA TaskOwnsOn ==
    ASSUME PipeTyped, NEW w \in Workers, NEW i \in Ids, i = wid[w], TaskStep(w), TaskOwnsRun(w),
           execs[i] <= job[i].attempts, execs[i] <= MaxAttempts,
           job[i].status \in {"queued", "running"} => job[i].payload,
           dlq[i].status # "absent" => dlq[i].payload
    PROVE  /\ TaskOwnsRun(w)'
           /\ execs'[i] <= job'[i].attempts /\ execs'[i] <= MaxAttempts
           /\ job'[i].status \in {"queued", "running"} => job'[i].payload
           /\ dlq'[i].status # "absent" => dlq'[i].payload
<1>0. /\ wpc \in [Workers -> Busy \cup {"idle"}] /\ wid \in [Workers -> Ids \cup {NoRun}]
      /\ wpayload \in [Workers -> BOOLEAN] /\ wattempt \in [Workers -> Nat] /\ execs \in [Ids -> Nat]
      /\ job \in [Ids -> Jobs] /\ dlq \in [Ids -> DeadLetters] /\ MaxAttempts \in Nat
      /\ execs[i] \in Nat /\ job[i].attempts \in Nat /\ wattempt[w] \in Nat
  BY StoreAssumption DEF PipeTyped, PipeTypeOK, StoreTypeOK, WorkerTypeOK, Jobs
<1>1. CASE SkipJob(w)
  <2>1. wpc'[w] = "idle" /\ job' = job /\ dlq' = dlq /\ execs' = execs
    BY <1>0, <1>1 DEF SkipJob, EndTask, Goto, storeVars
  <2>2. TaskOwnsRun(w)'
    BY <2>1 DEF TaskOwnsRun, Busy, InTry, OutsideTry
  <2> QED BY <2>1, <2>2
<1>2. CASE AuditCompleted(w)
  <2>1. wpc'[w] = "idle" /\ job' = job /\ dlq' = dlq /\ execs' = execs
    BY <1>0, <1>2 DEF AuditCompleted, EndTask, Goto, storeVars
  <2>2. TaskOwnsRun(w)'
    BY <2>1 DEF TaskOwnsRun, Busy, InTry, OutsideTry
  <2> QED BY <2>1, <2>2
<1>3. CASE GetJob(w)
  <2>1. /\ job[i].status \in {"queued", "running"} /\ wid' = wid
        /\ job' = job /\ dlq' = dlq /\ execs' = execs
    BY <1>3, Zenon DEF GetJob, storeVars
  <2>2. /\ wpayload'[w] = job[i].payload /\ wattempt'[w] = job[i].attempts + 1
        /\ wpc'[w] = IF job[i].attempts + 1 > MaxAttempts THEN "x_update" ELSE "start"
    BY <1>0, <1>3 DEF GetJob, Goto
  <2>3. wpc'[w] = "x_update" \/ (wpc'[w] = "start" /\ wattempt'[w] <= MaxAttempts)
    BY <1>0, <2>2
  <2>4. wpayload'[w] /\ execs'[i] < wattempt'[w] /\ execs'[i] <= wattempt'[w]
    BY <1>0, <2>1, <2>2
  <2>5. TaskOwnsRun(w)'
    BY <2>1, <2>3, <2>4 DEF TaskOwnsRun
  <2> QED BY <2>1, <2>5
<1>4. CASE StartRunning(w)
  <2>1. wpc[w] = "start" /\ wid' = wid /\ dlq' = dlq /\ wattempt' = wattempt
    BY <1>4, Zenon DEF StartRunning
  <2>2. wpc'[w] = "r_audit" /\ wpayload'[w] = job[i].payload /\ execs'[i] = execs[i] + 1
    BY <1>0, <1>4 DEF StartRunning, Goto
  <2>3. job'[i].status = "running" /\ job'[i].payload = job[i].payload /\ job'[i].attempts = wattempt[w]
    BY <1>0, <1>4 DEF StartRunning, UpdateStatusAttempt, Jobs
  <2>4. job[i].payload /\ execs[i] < wattempt[w] /\ wattempt[w] <= MaxAttempts
    BY <2>1 DEF TaskOwnsRun
  <2>5. execs'[i] <= wattempt[w] /\ execs'[i] <= MaxAttempts
    BY <1>0, <2>2, <2>4
  <2>6. TaskOwnsRun(w)'
    BY <2>1, <2>2, <2>3, <2>4, <2>5 DEF TaskOwnsRun
  <2> QED BY <2>1, <2>3, <2>4, <2>5, <2>6
<1>5. CASE AuditRunning(w)
  <2>1. /\ wpc[w] = "r_audit" /\ job' = job /\ dlq' = dlq /\ execs' = execs /\ wid' = wid
        /\ wpayload' = wpayload /\ wattempt' = wattempt /\ faults' = faults
    BY <1>5, Zenon DEF AuditRunning, storeVars
  <2>2. wpc'[w] = "prove"
    BY <1>0, <1>5 DEF AuditRunning, Goto
  <2>3. wpayload[w] /\ execs[i] <= wattempt[w] /\ job[i].status \in {"queued", "running"}
    BY <2>1 DEF TaskOwnsRun, Busy, InTry, OutsideTry
  <2>4. TaskOwnsRun(w)'
    BY <2>1, <2>2, <2>3 DEF TaskOwnsRun
  <2> QED BY <2>1, <2>4
<1>6. CASE ProveFails(w)
  <2>1. /\ wpc[w] = "prove" /\ job' = job /\ dlq' = dlq /\ execs' = execs /\ wid' = wid
        /\ wpayload' = wpayload /\ wattempt' = wattempt /\ faults' = faults
    BY <1>6, Zenon DEF ProveFails, storeVars
  <2>2. wpc'[w] = "f_update"
    BY <1>0, <1>6 DEF ProveFails, Goto
  <2>3. wpayload[w] /\ execs[i] <= wattempt[w] /\ job[i].status \in {"queued", "running"}
    BY <2>1 DEF TaskOwnsRun, Busy, InTry, OutsideTry
  <2>4. TaskOwnsRun(w)'
    BY <2>1, <2>2, <2>3 DEF TaskOwnsRun
  <2> QED BY <2>1, <2>4
<1>7. CASE AuditFailed(w)
  <2>1. /\ wpc[w] = "f_audit" /\ job' = job /\ dlq' = dlq /\ execs' = execs /\ wid' = wid
        /\ wpayload' = wpayload /\ wattempt' = wattempt /\ faults' = faults
    BY <1>7, Zenon DEF AuditFailed, storeVars
  <2>2. wpc'[w] = "f_dlq"
    BY <1>0, <1>7 DEF AuditFailed, Goto
  <2>3. wpayload[w] /\ execs[i] <= wattempt[w] /\ job[i].status = "failed"
    BY <2>1 DEF TaskOwnsRun, Busy, InTry, OutsideTry
  <2>4. TaskOwnsRun(w)'
    BY <2>1, <2>2, <2>3 DEF TaskOwnsRun
  <2> QED BY <2>1, <2>4
<1>8. CASE AuditExceeded(w)
  <2>1. /\ wpc[w] = "x_audit" /\ job' = job /\ dlq' = dlq /\ execs' = execs /\ wid' = wid
        /\ wpayload' = wpayload /\ wattempt' = wattempt /\ faults' = faults
    BY <1>8, Zenon DEF AuditExceeded, storeVars
  <2>2. wpc'[w] = "x_dlq"
    BY <1>0, <1>8 DEF AuditExceeded, Goto
  <2>3. wpayload[w] /\ execs[i] <= wattempt[w] /\ job[i].status = "failed"
    BY <2>1 DEF TaskOwnsRun, Busy, InTry, OutsideTry
  <2>4. TaskOwnsRun(w)'
    BY <2>1, <2>2, <2>3 DEF TaskOwnsRun
  <2> QED BY <2>1, <2>4
<1>9. CASE ProveSucceeds(w)
  <2>1. /\ wpc[w] = "prove" /\ dlq' = dlq /\ execs' = execs /\ wid' = wid
        /\ wpayload' = wpayload /\ wattempt' = wattempt /\ faults' = faults
    BY <1>9, Zenon DEF ProveSucceeds
  <2>2. wpc'[w] = "complete"
    BY <1>0, <1>9 DEF ProveSucceeds, Goto
  <2>3. job'[i].status = job[i].status /\ job'[i].payload = job[i].payload /\ job'[i].attempts = job[i].attempts
    BY <1>0, <1>9 DEF ProveSucceeds, Jobs
  <2>4. wpayload[w] /\ execs[i] <= wattempt[w] /\ job[i].status \in {"queued", "running"}
    BY <2>1 DEF TaskOwnsRun, Busy, InTry, OutsideTry
  <2>5. TaskOwnsRun(w)'
    BY <2>1, <2>2, <2>3, <2>4 DEF TaskOwnsRun
  <2> QED BY <2>1, <2>3, <2>4, <2>5
<1>10. CASE MarkCompleted(w)
  <2>1. /\ wpc[w] = "complete" /\ dlq' = dlq /\ execs' = execs /\ wid' = wid
        /\ wpayload' = wpayload /\ wattempt' = wattempt /\ faults' = faults
    BY <1>10, Zenon DEF MarkCompleted
  <2>2. wpc'[w] = "c_purge"
    BY <1>0, <1>10 DEF MarkCompleted, Goto
  <2>3. job'[i].status = "completed" /\ job'[i].attempts = job[i].attempts
    BY <1>0, <1>10 DEF MarkCompleted, Jobs, UpdateStatus
  <2>4. wpayload[w] /\ execs[i] <= wattempt[w]
    BY <2>1 DEF TaskOwnsRun, Busy, InTry, OutsideTry
  <2>5. TaskOwnsRun(w)'
    BY <2>1, <2>2, <2>3, <2>4 DEF TaskOwnsRun
  <2> QED BY <2>1, <2>3, <2>4, <2>5
<1>11. CASE MarkFailed(w)
  <2>1. /\ wpc[w] = "f_update" /\ dlq' = dlq /\ execs' = execs /\ wid' = wid
        /\ wpayload' = wpayload /\ wattempt' = wattempt /\ faults' = faults
    BY <1>11, Zenon DEF MarkFailed
  <2>2. wpc'[w] = "f_purge"
    BY <1>0, <1>11 DEF MarkFailed, Goto
  <2>3. job'[i].status = "failed" /\ job'[i].attempts = wattempt[w]
    BY <1>0, <1>11 DEF MarkFailed, Jobs, UpdateStatusAttempt
  <2>4. wpayload[w] /\ execs[i] <= wattempt[w]
    BY <2>1 DEF TaskOwnsRun, Busy, InTry, OutsideTry
  <2>5. TaskOwnsRun(w)'
    BY <2>1, <2>2, <2>3, <2>4 DEF TaskOwnsRun
  <2> QED BY <2>1, <2>3, <2>4, <2>5
<1>12. CASE MarkExceeded(w)
  <2>1. /\ wpc[w] = "x_update" /\ dlq' = dlq /\ execs' = execs /\ wid' = wid
        /\ wpayload' = wpayload /\ wattempt' = wattempt /\ faults' = faults
    BY <1>12, Zenon DEF MarkExceeded
  <2>2. wpc'[w] = "x_audit"
    BY <1>0, <1>12 DEF MarkExceeded, Goto
  <2>3. job'[i].status = "failed" /\ job'[i].attempts = wattempt[w]
    BY <1>0, <1>12 DEF MarkExceeded, Jobs, UpdateStatusAttempt
  <2>4. wpayload[w] /\ execs[i] <= wattempt[w]
    BY <2>1 DEF TaskOwnsRun, Busy, InTry, OutsideTry
  <2>5. TaskOwnsRun(w)'
    BY <2>1, <2>2, <2>3, <2>4 DEF TaskOwnsRun
  <2> QED BY <2>1, <2>3, <2>4, <2>5
<1>13. CASE PurgeCompleted(w)
  <2>1. /\ wpc[w] = "c_purge" /\ dlq' = dlq /\ execs' = execs /\ wid' = wid
        /\ wpayload' = wpayload /\ wattempt' = wattempt /\ faults' = faults
    BY <1>13, Zenon DEF PurgeCompleted
  <2>2. wpc'[w] = "c_audit"
    BY <1>0, <1>13 DEF PurgeCompleted, Goto
  <2>3. job'[i].status = job[i].status /\ job'[i].attempts = job[i].attempts
    BY <1>0, <1>13 DEF PurgeCompleted, Jobs, PurgeSealedJobPayload
  <2>4. wpayload[w] /\ execs[i] <= wattempt[w] /\ job[i].status = "completed"
    BY <2>1 DEF TaskOwnsRun, Busy, InTry, OutsideTry
  <2>5. TaskOwnsRun(w)'
    BY <2>1, <2>2, <2>3, <2>4 DEF TaskOwnsRun
  <2> QED BY <2>1, <2>3, <2>4, <2>5
<1>14. CASE PurgeFailed(w)
  <2>1. /\ wpc[w] = "f_purge" /\ dlq' = dlq /\ execs' = execs /\ wid' = wid
        /\ wpayload' = wpayload /\ wattempt' = wattempt /\ faults' = faults
    BY <1>14, Zenon DEF PurgeFailed
  <2>2. wpc'[w] = "f_audit"
    BY <1>0, <1>14 DEF PurgeFailed, Goto
  <2>3. job'[i].status = job[i].status /\ job'[i].attempts = job[i].attempts
    BY <1>0, <1>14 DEF PurgeFailed, Jobs, PurgeSealedJobPayload
  <2>4. wpayload[w] /\ execs[i] <= wattempt[w] /\ job[i].status = "failed"
    BY <2>1 DEF TaskOwnsRun, Busy, InTry, OutsideTry
  <2>5. TaskOwnsRun(w)'
    BY <2>1, <2>2, <2>3, <2>4 DEF TaskOwnsRun
  <2> QED BY <2>1, <2>3, <2>4, <2>5
<1>15. CASE DeadLetterFailed(w)
  <2>1. wpc[w] = "f_dlq" /\ job' = job /\ execs' = execs
    BY <1>15, Zenon DEF DeadLetterFailed
  <2>2. wpc'[w] = "idle"
    BY <1>0, <1>15 DEF DeadLetterFailed, EndTask, Goto
  <2>3. wpayload[w]
    BY <2>1 DEF TaskOwnsRun, Busy, InTry, OutsideTry
  <2>4. dlq'[i].payload
    BY <1>0, <1>15, <2>3 DEF DeadLetterFailed, UpsertDeadLetterJob, DeadLetters
  <2>5. TaskOwnsRun(w)'
    BY <2>2 DEF TaskOwnsRun, Busy, InTry, OutsideTry
  <2> QED BY <2>1, <2>4, <2>5
<1>16. CASE DeadLetterExceeded(w)
  <2>1. /\ wpc[w] = "x_dlq" /\ job' = job /\ execs' = execs /\ wid' = wid
        /\ wpayload' = wpayload /\ wattempt' = wattempt
    BY <1>16, Zenon DEF DeadLetterExceeded
  <2>2. wpc'[w] = "x_purge"
    BY <1>0, <1>16 DEF DeadLetterExceeded, Goto
  <2>3. wpayload[w] /\ execs[i] <= wattempt[w] /\ job[i].status = "failed"
    BY <2>1 DEF TaskOwnsRun, Busy, InTry, OutsideTry
  <2>4. dlq'[i].payload
    BY <1>0, <1>16, <2>3 DEF DeadLetterExceeded, UpsertDeadLetterJob, DeadLetters
  <2>5. TaskOwnsRun(w)'
    BY <2>1, <2>2, <2>3 DEF TaskOwnsRun
  <2> QED BY <2>1, <2>4, <2>5
<1>17. CASE PurgeExceeded(w)
  <2>1. wpc[w] = "x_purge" /\ dlq' = dlq /\ execs' = execs
    BY <1>17, Zenon DEF PurgeExceeded
  <2>2. wpc'[w] = "idle"
    BY <1>0, <1>17 DEF PurgeExceeded, EndTask, Goto
  <2>3. job'[i].status = job[i].status /\ job'[i].attempts = job[i].attempts
    BY <1>0, <1>17 DEF PurgeExceeded, PurgeSealedJobPayload, Jobs
  <2>4. job[i].status = "failed"
    BY <2>1 DEF TaskOwnsRun
  <2>5. TaskOwnsRun(w)'
    BY <2>2 DEF TaskOwnsRun, Busy, InTry, OutsideTry
  <2> QED BY <2>1, <2>3, <2>4, <2>5
<1> QED
  BY <1>1, <1>2, <1>3, <1>4, <1>5, <1>6, <1>7, <1>8, <1>9,
     <1>10, <1>11, <1>12, <1>13, <1>14, <1>15, <1>16, <1>17, Zenon DEF TaskStep

\* A task whose slot and run do not change knows what it knew.
LEMMA TaskOwnsStill ==
    ASSUME NEW v \in Workers, TaskOwnsRun(v), faults'.errors = 0 => faults.errors = 0,
           wpc'[v] = wpc[v], wid'[v] = wid[v], wpayload'[v] = wpayload[v], wattempt'[v] = wattempt[v],
           wpc[v] \in Busy => job'[wid[v]] = job[wid[v]] /\ execs'[wid[v]] = execs[wid[v]]
    PROVE  TaskOwnsRun(v)'
<1>1. CASE wpc[v] \in Busy
  BY <1>1 DEF TaskOwnsRun
<1>2. CASE wpc[v] \notin Busy
  BY <1>2 DEF TaskOwnsRun, Busy, InTry, OutsideTry
<1> QED BY <1>1, <1>2

\* A step of a task leaves every task alone with its run.
LEMMA TaskSingle ==
    ASSUME PipeTyped, Alone, RunsPaid, PayloadKept, NEW w \in Workers, TaskStep(w)
    PROVE  Alone' /\ RunsPaid' /\ PayloadKept'
<1>1. PICK i \in Ids : i = wid[w]
  BY TaskHasRun
<1>2. wid \in [Workers -> Ids \cup {NoRun}] /\ NoRun \notin Ids
      /\ \A v \in Workers : wpc[v] \in Busy => wid[v] \in Ids
  BY StoreAssumption DEF PipeTyped, PipeTypeOK, WorkerTypeOK, Ids
<1>3. OneDelivery /\ TaskOwnsRun(w)
  BY DEF Alone
<1>4. queue' = queue /\ faults' = faults
  BY <1>1, TaskWrites
<1>5. wid' = wid \/ wid' = [wid EXCEPT ![w] = NoRun]
  BY <1>1, TaskWrites
<1>6. OneDelivery'
  BY <1>2, <1>3, <1>4, <1>5 DEF OneDelivery
<1>7. \A j \in Ids \ {i} : job'[j] = job[j] /\ dlq'[j] = dlq[j] /\ execs'[j] = execs[j]
  BY <1>1, TaskStaysWithRun
<1>8. /\ TaskOwnsRun(w)'
      /\ execs'[i] <= job'[i].attempts /\ execs'[i] <= MaxAttempts
      /\ job'[i].status \in {"queued", "running"} => job'[i].payload
      /\ dlq'[i].status # "absent" => dlq'[i].payload
  BY <1>1, <1>3, TaskOwnsOn DEF RunsPaid, PayloadKept
<1>9. ASSUME NEW v \in Workers, v # w PROVE TaskOwnsRun(v)'
  <2>1. /\ wpc'[v] = wpc[v] /\ wid'[v] = wid[v]
        /\ wpayload'[v] = wpayload[v] /\ wattempt'[v] = wattempt[v]
    BY <1>1, <1>9, TaskStaysWithRun
  <2>2. wpc[v] \in Busy => wid[v] \in Ids \ {i}
    BY <1>1, <1>2, <1>3, <1>9 DEF OneDelivery
  <2>3. TaskOwnsRun(v)
    BY DEF Alone
  <2> QED BY <1>4, <1>7, <2>1, <2>2, <2>3, TaskOwnsStill
<1>10. RunsPaid' /\ PayloadKept'
  BY <1>7, <1>8 DEF RunsPaid, PayloadKept
<1> QED BY <1>6, <1>8, <1>9, <1>10 DEF Alone

\* A delivery, and a fault that delivers nothing twice, leave every task alone
\* with its run.
LEMMA MoveSingle ==
    ASSUME PipeTyped, Alone, RunsPaid, PayloadKept, faults'.redelivered = 0,
           \/ \E w \in Workers : (\E i \in Ids : Deliver(w, i)) \/ WorkerFault(w)
           \/ BrokerRestart
    PROVE  Alone' /\ RunsPaid' /\ PayloadKept'
<1>0. /\ wpc \in [Workers -> Busy \cup {"idle"}] /\ wid \in [Workers -> Ids \cup {NoRun}]
      /\ wpayload \in [Workers -> BOOLEAN] /\ wattempt \in [Workers -> Nat]
      /\ \A v \in Workers : wpc[v] \in Busy => wid[v] \in Ids
      /\ faults \in [lost : Nat, killed : Nat, errors : Nat, redelivered : Nat, wiped : Nat]
      /\ queue \in [Ids -> Nat] /\ NoRun \notin Ids
  BY StoreAssumption DEF PipeTyped, PipeTypeOK, StoreTypeOK, WorkerTypeOK, Ids
<1>1. job' = job /\ dlq' = dlq /\ execs' = execs
  BY WorkerMoves, Zenon
<1>2. RunsPaid' /\ PayloadKept'
  BY <1>1 DEF RunsPaid, PayloadKept
<1>3. OneDelivery /\ \A v \in Workers : TaskOwnsRun(v)
  BY DEF Alone
<1>4. ASSUME NEW v \in Workers, faults'.errors = 0 => faults.errors = 0,
             wpc'[v] = wpc[v], wid'[v] = wid[v], wpayload'[v] = wpayload[v], wattempt'[v] = wattempt[v]
      PROVE  TaskOwnsRun(v)'
  BY <1>1, <1>3, <1>4, TaskOwnsStill
<1>5. ASSUME NEW v \in Workers, wpc'[v] \in {"idle", "get"} PROVE TaskOwnsRun(v)'
  BY <1>5 DEF TaskOwnsRun, Busy, InTry, OutsideTry
<1>6. ASSUME NEW w \in Workers, NEW i \in Ids, Deliver(w, i) PROVE Alone'
  <2>1. /\ wpc[w] = "idle" /\ queue[i] > 0 /\ queue' = [queue EXCEPT ![i] = @ - 1]
        /\ wid' = [wid EXCEPT ![w] = i] /\ wpayload' = wpayload /\ wattempt' = wattempt /\ faults' = faults
    BY <1>6, Zenon DEF Deliver
  <2>2. wpc'[w] = "get" /\ \A v \in Workers \ {w} : wpc'[v] = wpc[v]
    BY <1>0, <1>6 DEF Deliver, Goto
  <2>3. queue[i] = 1 /\ \A v \in Workers : wid[v] # i
    BY <1>0, <1>3, <2>1 DEF OneDelivery
  <2>4. OneDelivery'
    <3> SUFFICES ASSUME NEW j \in Ids
                 PROVE  /\ queue'[j] <= 1
                        /\ queue'[j] = 1 => \A v \in Workers : wid'[v] # j
                        /\ \A u, v \in Workers : wid'[u] = j /\ wid'[v] = j => u = v
      BY DEF OneDelivery
    <3>1. CASE j = i
      BY <1>0, <2>1, <2>3, <3>1
    <3>2. CASE j # i
      BY <1>0, <1>3, <2>1, <3>2 DEF OneDelivery
    <3> QED BY <3>1, <3>2
  <2>5. ASSUME NEW v \in Workers, v # w PROVE TaskOwnsRun(v)'
    BY <1>0, <1>4, <2>1, <2>2, <2>5
  <2>6. TaskOwnsRun(w)'
    BY <1>5, <2>2
  <2> QED BY <2>4, <2>5, <2>6 DEF Alone
<1>7. ASSUME NEW w \in Workers, EndTask(w), queue' = queue \/ (wpc[w] \in Busy /\ Enqueue(wid[w])),
             faults'.errors = 0 => faults.errors = 0
      PROVE  Alone'
  <2>1. wpc'[w] = "idle" /\ wid'[w] = NoRun
    BY <1>0, <1>7 DEF EndTask, Goto
  <2>2. \A v \in Workers \ {w} : wpc'[v] = wpc[v] /\ wid'[v] = wid[v]
    BY <1>0, <1>7 DEF EndTask, Goto
  <2>3. \A v \in Workers \ {w} : wpayload'[v] = wpayload[v] /\ wattempt'[v] = wattempt[v]
    BY <1>0, <1>7 DEF EndTask
  <2>4. OneDelivery'
    <3> SUFFICES ASSUME NEW j \in Ids
                 PROVE  /\ queue'[j] <= 1
                        /\ queue'[j] = 1 => \A v \in Workers : wid'[v] # j
                        /\ \A u, v \in Workers : wid'[u] = j /\ wid'[v] = j => u = v
      BY DEF OneDelivery
    <3>1. \A u, v \in Workers : wid'[u] = j /\ wid'[v] = j => u = v
      BY <1>0, <1>3, <2>1, <2>2 DEF OneDelivery
    <3>2. \A v \in Workers : wid'[v] = j => wid[v] = j /\ v # w
      BY <1>0, <2>1, <2>2
    <3>3. CASE queue'[j] = queue[j]
      BY <1>3, <3>1, <3>2, <3>3 DEF OneDelivery
    <3>4. CASE queue'[j] # queue[j]
      <4>1. wpc[w] \in Busy /\ wid[w] = j /\ queue'[j] = queue[j] + 1
        BY <1>0, <1>7, <3>4 DEF Enqueue
      <4>2. queue[j] = 0 /\ \A v \in Workers : wid[v] = j => v = w
        BY <1>0, <1>3, <4>1 DEF OneDelivery
      <4> QED BY <3>1, <3>2, <4>1, <4>2
    <3> QED BY <3>3, <3>4
  <2>5. ASSUME NEW v \in Workers, v # w PROVE TaskOwnsRun(v)'
    BY <1>4, <1>7, <2>2, <2>3, <2>5
  <2>6. TaskOwnsRun(w)'
    BY <1>5, <2>1
  <2> QED BY <2>4, <2>5, <2>6 DEF Alone
<1>8. ASSUME NEW w \in Workers, StepFails(w) PROVE Alone'
  <2>1. queue' = queue /\ faults' = [faults EXCEPT !.errors = @ + 1]
    BY <1>8, Zenon DEF StepFails, storeVars
  <2>2. faults'.errors # 0
    BY <1>0, <2>1
  <2>3. CASE EndTask(w)
    BY <1>7, <2>1, <2>2, <2>3
  <2>4. CASE /\ wpc[w] \in InTry \ {"prove"} /\ Goto(w, "f_update")
             /\ UNCHANGED <<wid, wpayload, wattempt>>
    <3>1. wid' = wid /\ wpayload' = wpayload /\ wattempt' = wattempt
      BY <2>4
    <3>2. wpc'[w] = "f_update" /\ \A v \in Workers \ {w} : wpc'[v] = wpc[v]
      BY <1>0, <2>4 DEF Goto
    <3>3. OneDelivery'
      BY <1>3, <2>1, <3>1 DEF OneDelivery
    <3>4. wpayload[w] /\ execs[wid[w]] <= wattempt[w]
      BY <1>3, <2>4 DEF TaskOwnsRun, Busy, InTry, OutsideTry
    <3>5. TaskOwnsRun(w)'
      BY <1>1, <2>2, <3>1, <3>2, <3>4 DEF TaskOwnsRun
    <3>6. ASSUME NEW v \in Workers, v # w PROVE TaskOwnsRun(v)'
      BY <1>4, <2>2, <3>1, <3>2, <3>6
    <3> QED BY <3>3, <3>5, <3>6 DEF Alone
  <2> QED BY <1>8, <2>3, <2>4, Zenon DEF StepFails
<1>9. ASSUME NEW w \in Workers, TimeLimitKill(w) PROVE Alone'
  <2>1. queue' = queue /\ EndTask(w) /\ faults' = [faults EXCEPT !.killed = @ + 1]
    BY <1>9, Zenon DEF TimeLimitKill, storeVars
  <2>2. faults'.errors = faults.errors
    BY <1>0, <2>1
  <2> QED BY <1>7, <2>1, <2>2
<1>10. ASSUME NEW w \in Workers, WorkerLost(w) PROVE Alone'
  <2>1. wpc[w] \in Busy /\ Enqueue(wid[w]) /\ EndTask(w) /\ faults' = [faults EXCEPT !.lost = @ + 1]
    BY <1>10, Zenon DEF WorkerLost
  <2>2. faults'.errors = faults.errors
    BY <1>0, <2>1
  <2> QED BY <1>7, <2>1, <2>2
<1>11. ASSUME NEW w \in Workers, Redeliver(w) PROVE FALSE
  BY <1>0, <1>11 DEF Redeliver
<1>12. ASSUME BrokerRestart PROVE Alone'
  <2>1. /\ queue' = [i \in Ids |-> 0] /\ wpc' = wpc /\ wid' = wid /\ wpayload' = wpayload
        /\ wattempt' = wattempt /\ faults' = [faults EXCEPT !.wiped = @ + 1]
    BY <1>12, Zenon DEF BrokerRestart, workerVars
  <2>2. OneDelivery'
    BY <1>3, <2>1 DEF OneDelivery
  <2>3. faults'.errors = faults.errors
    BY <1>0, <2>1
  <2>4. ASSUME NEW v \in Workers PROVE TaskOwnsRun(v)'
    BY <1>4, <2>1, <2>3
  <2> QED BY <2>2, <2>4 DEF Alone
<1>13. Alone'
  BY <1>6, <1>8, <1>9, <1>10, <1>11, <1>12, Zenon DEF WorkerFault
<1> QED BY <1>2, <1>13

\* A job is created under an id that no message or task knows.
LEMMA CreateSingle ==
    ASSUME PipeTyped, Backed, Alone, RunsPaid, PayloadKept,
           NEW n \in Ids, NEW a \in Nat, job[n].status = "absent", CreateProofJob(n, a),
           dlq' = dlq, queue' = queue, wpc' = wpc, wid' = wid, wpayload' = wpayload, wattempt' = wattempt,
           execs' = execs, faults' = faults
    PROVE  Alone' /\ RunsPaid' /\ PayloadKept'
<1>1. job'[n].payload /\ job'[n].attempts = a /\ \A j \in Ids \ {n} : job'[j] = job[j]
  BY DEF CreateProofJob, PipeTyped, PipeTypeOK, StoreTypeOK
<1>2. execs[n] = 0 /\ \A v \in Workers : wid[v] # n
  BY DEF Backed, SentBacked, Sent
<1>3. OneDelivery'
  BY DEF Alone, OneDelivery
<1>4. ASSUME NEW v \in Workers PROVE TaskOwnsRun(v)'
  <2>1. wpc[v] \in Busy => wid[v] \in Ids \ {n}
    BY <1>2 DEF PipeTyped, PipeTypeOK, WorkerTypeOK
  <2> QED BY <1>1, <2>1, TaskOwnsStill DEF Alone
<1>5. 0 <= a /\ 0 <= MaxAttempts
  BY StoreAssumption
<1>6. RunsPaid'
  BY <1>1, <1>2, <1>5 DEF RunsPaid
<1>7. PayloadKept'
  BY <1>1 DEF PayloadKept
<1> QED BY <1>3, <1>4, <1>6, <1>7 DEF Alone

\* A message is sent for a run that has none and that no task works on.
LEMMA EnqueueSingle ==
    ASSUME PipeTyped, Alone, RunsPaid, PayloadKept, NEW n \in Ids, ~Sent(n), Enqueue(n),
           job' = job, dlq' = dlq, wpc' = wpc, wid' = wid, wpayload' = wpayload, wattempt' = wattempt,
           execs' = execs, faults' = faults
    PROVE  Alone' /\ RunsPaid' /\ PayloadKept'
<1>1. queue \in [Ids -> Nat] /\ queue' = [queue EXCEPT ![n] = @ + 1]
  BY DEF PipeTyped, PipeTypeOK, StoreTypeOK, Enqueue
<1>2. queue'[n] = 1 /\ \A j \in Ids \ {n} : queue'[j] = queue[j]
  BY <1>1 DEF Sent
<1>3. \A v \in Workers : wid[v] # n
  BY DEF Sent
<1>4. OneDelivery'
  BY <1>2, <1>3 DEF Alone, OneDelivery
<1>5. ASSUME NEW v \in Workers PROVE TaskOwnsRun(v)'
  BY TaskOwnsStill DEF Alone
<1>6. RunsPaid' /\ PayloadKept'
  BY DEF RunsPaid, PayloadKept
<1> QED BY <1>4, <1>5, <1>6 DEF Alone

\* Requests leave every task alone with its run.
LEMMA RequestSingle ==
    ASSUME PipeTyped, Backed, Alone, RunsPaid, PayloadKept, ApiStep, UNCHANGED <<workerVars, faults>>
    PROVE  Alone' /\ RunsPaid' /\ PayloadKept'
<1>0. /\ wpc' = wpc /\ wid' = wid /\ wpayload' = wpayload /\ wattempt' = wattempt
      /\ execs' = execs /\ faults' = faults
  BY Zenon DEF workerVars
<1>1. Runs \subseteq Ids /\ Reruns \subseteq Ids
  BY DEF Ids
<1>2. ASSUME job' = job, dlq' = dlq, queue' = queue PROVE Alone' /\ RunsPaid' /\ PayloadKept'
  <2>1. OneDelivery'
    BY <1>0, <1>2 DEF Alone, OneDelivery
  <2>2. ASSUME NEW v \in Workers PROVE TaskOwnsRun(v)'
    BY <1>0, <1>2, TaskOwnsStill DEF Alone
  <2>3. RunsPaid' /\ PayloadKept'
    BY <1>0, <1>2 DEF RunsPaid, PayloadKept
  <2> QED BY <2>1, <2>2, <2>3 DEF Alone
<1>3. ASSUME NEW i \in Runs, SubmitCreate(i) PROVE Alone' /\ RunsPaid' /\ PayloadKept'
  <2>1. spc[i] = "create" /\ CreateProofJob(i, 0) /\ dlq' = dlq /\ queue' = queue
    BY <1>3, Zenon DEF SubmitCreate
  <2>2. job[i].status = "absent"
    BY <2>1 DEF Backed, SubmissionsInOrder
  <2> QED BY <1>0, <1>1, <2>1, <2>2, CreateSingle
<1>4. ASSUME NEW i \in Runs, SubmitEnqueue(i) PROVE Alone' /\ RunsPaid' /\ PayloadKept'
  <2>1. spc[i] = "enqueue" /\ Enqueue(i) /\ job' = job /\ dlq' = dlq
    BY <1>4, Zenon DEF SubmitEnqueue
  <2>2. ~Sent(i)
    BY <2>1 DEF Backed, SubmissionsInOrder
  <2> QED BY <1>0, <1>1, <2>1, <2>2, EnqueueSingle
<1>5. ASSUME NEW r \in Requeues, NEW new \in Reruns, RequeueCreate(r, new)
      PROVE  Alone' /\ RunsPaid' /\ PayloadKept'
  <2>1. job[new].status = "absent" /\ CreateProofJob(new, rattempts[r]) /\ dlq' = dlq /\ queue' = queue
    BY <1>5, Zenon DEF RequeueCreate
  <2>2. rattempts[r] \in Nat
    BY DEF PipeTyped, PipeTypeOK, ApiTypeOK
  <2> QED BY <1>0, <1>1, <2>1, <2>2, CreateSingle
<1>6. ASSUME NEW r \in Requeues, RequeueEnqueue(r) PROVE Alone' /\ RunsPaid' /\ PayloadKept'
  <2>1. rpc[r] = "enqueue" /\ Enqueue(rnew[r]) /\ job' = job /\ dlq' = dlq
    BY <1>6, Zenon DEF RequeueEnqueue
  <2>2. RequeueInOrder(r)
    BY DEF Backed, RequeuesInOrder
  <2>3. PICK n \in Reruns : n = rnew[r]
    BY <2>1, <2>2 DEF RequeueInOrder
  <2>4. ~Sent(n)
    BY <2>1, <2>2, <2>3, Zenon DEF RequeueInOrder
  <2> QED BY <1>0, <1>1, <2>1, <2>3, <2>4, EnqueueSingle
<1>7. ASSUME NEW r \in Requeues, RequeueMark(r) PROVE Alone' /\ RunsPaid' /\ PayloadKept'
  <2>1. job' = job /\ queue' = queue /\ rpc[r] = "mark"
    BY <1>7, Zenon DEF RequeueMark
  <2>2. PICK i \in Ids : i = rsource[r]
    BY <2>1 DEF PipeTyped, PipeTypeOK, ApiTypeOK
  <2>3. dlq'[i].payload = dlq[i].payload /\ \A j \in Ids \ {i} : dlq'[j] = dlq[j]
    BY <1>7, <2>2 DEF RequeueMark, MarkDeadLetterJobRequeued, PipeTyped, PipeTypeOK, StoreTypeOK, DeadLetters
  <2>4. dlq[i].status # "absent"
    BY <2>1, <2>2 DEF Backed, RequeuesInOrder, RequeueInOrder
  <2>5. PayloadKept'
    BY <2>1, <2>3, <2>4 DEF PayloadKept
  <2>6. OneDelivery'
    BY <1>0, <2>1 DEF Alone, OneDelivery
  <2>7. ASSUME NEW v \in Workers PROVE TaskOwnsRun(v)'
    BY <1>0, <2>1, TaskOwnsStill DEF Alone
  <2>8. RunsPaid'
    BY <1>0, <2>1 DEF RunsPaid
  <2> QED BY <2>5, <2>6, <2>7, <2>8 DEF Alone
<1>8. ASSUME NEW i \in Runs, SubmitAudit(i) \/ SubmitFails(i) PROVE job' = job /\ dlq' = dlq /\ queue' = queue
  BY <1>8, Zenon DEF SubmitAudit, SubmitFails, storeVars
<1>9. ASSUME NEW r \in Requeues, RequeueAudit(r) \/ RequeueTrigger(r) \/ RequeueFails(r)
      PROVE  job' = job /\ dlq' = dlq /\ queue' = queue
  BY <1>9, Zenon DEF RequeueAudit, RequeueTrigger, RequeueFails, storeVars
<1>10. ASSUME NEW r \in Requeues, NEW i \in Ids,
              RequeueAlready(r, i) \/ RequeueRefused(r, i) \/ RequeueRead(r, i)
       PROVE  job' = job /\ dlq' = dlq /\ queue' = queue
  BY <1>10, Zenon DEF RequeueAlready, RequeueRefused, RequeueRead, storeVars
<1>11. CASE \E i \in Runs : SubmitStep(i) \/ SubmitFails(i)
  BY <1>2, <1>3, <1>4, <1>8, <1>11, Zenon DEF SubmitStep
<1>12. CASE \E r \in Requeues : RequeueStep(r) \/ RequeueFails(r)
  BY <1>2, <1>5, <1>6, <1>7, <1>9, <1>10, <1>12, Zenon DEF RequeueStep
<1> QED BY <1>11, <1>12 DEF ApiStep

\* Fault counters never go down.
LEMMA FaultsStay ==
    ASSUME PipeTyped, [PipeNext]_pipeVars
    PROVE  /\ faults'.redelivered = 0 => faults.redelivered = 0
           /\ Unstopped' => Unstopped
<1>0. faults \in [lost : Nat, killed : Nat, errors : Nat, redelivered : Nat, wiped : Nat]
  BY DEF PipeTyped, PipeTypeOK, WorkerTypeOK
<1>1. CASE \E w \in Workers : WorkerFault(w)
  BY <1>0, <1>1 DEF WorkerFault, StepFails, WorkerLost, TimeLimitKill, Redeliver, Unstopped
<1>2. CASE BrokerRestart
  BY <1>0, <1>2 DEF BrokerRestart, Unstopped
<1>3. CASE faults' = faults
  BY <1>3 DEF Unstopped
<1>4. CASE \E w \in Workers : (\E i \in Ids : Deliver(w, i)) \/ TaskStep(w)
  <2>1. faults' = faults
    BY <1>4, TaskHasRun, TaskWrites, Zenon DEF Deliver
  <2> QED BY <1>3, <2>1
<1> QED BY <1>1, <1>2, <1>3, <1>4, Zenon DEF PipeNext, pipeVars

\* As long as no message was delivered twice, every step keeps a task alone
\* with its run, and with that the attempt count and the payload.
LEMMA SingleStep == PipeTyped /\ Backed /\ SingleInv /\ [PipeNext]_pipeVars => SingleInv'
<1> SUFFICES ASSUME PipeTyped, Backed, SingleInv, [PipeNext]_pipeVars, faults'.redelivered = 0
             PROVE  Alone' /\ RunsPaid' /\ PayloadKept'
  BY DEF SingleInv
<1>1. Alone /\ RunsPaid /\ PayloadKept
  BY FaultsStay DEF SingleInv
<1>2. CASE ApiStep /\ UNCHANGED <<workerVars, faults>>
  BY <1>1, <1>2, RequestSingle, Zenon
<1>3. CASE \E w \in Workers : TaskStep(w)
  BY <1>1, <1>3, TaskSingle, Zenon
<1>4. CASE \/ \E w \in Workers : (\E i \in Ids : Deliver(w, i)) \/ WorkerFault(w)
           \/ BrokerRestart
  BY <1>1, <1>4, MoveSingle, Zenon
<1>5. CASE UNCHANGED pipeVars
  <2>1. /\ job' = job /\ dlq' = dlq /\ queue' = queue /\ wpc' = wpc /\ wid' = wid /\ wpayload' = wpayload
        /\ wattempt' = wattempt /\ execs' = execs /\ faults' = faults
    BY <1>5, Zenon DEF pipeVars, storeVars, workerVars
  <2>2. OneDelivery'
    BY <1>1, <2>1 DEF Alone, OneDelivery
  <2>3. ASSUME NEW v \in Workers PROVE TaskOwnsRun(v)'
    BY <1>1, <2>1, TaskOwnsStill DEF Alone
  <2>4. RunsPaid' /\ PayloadKept'
    BY <1>1, <2>1 DEF RunsPaid, PayloadKept
  <2> QED BY <2>2, <2>3, <2>4 DEF Alone
<1> QED BY <1>2, <1>3, <1>4, <1>5, Zenon DEF PipeNext

\* A run whose task has not written its last status yet stays as it is, or is
\* marked running.
LEMMA RunGoesOn ==
    ASSUME NEW w \in Workers, NEW i \in Ids, RunEnds(i),
           \A v \in Workers : wid[v] = i => v = w,
           wpc[w] \notin Finishing, wpc'[w] \notin Finishing,
           \/ job'[i].status = job[i].status
           \/ job[i].status \notin Terminal /\ job'[i].status \notin Terminal,
           job'[i].payload = job[i].payload,
           dlq'[i].status = dlq[i].status,
           trail'[i] \cap Terminal = trail[i] \cap Terminal
    PROVE  EndInOrder(w)' /\ RunEnds(i)'
<1>1. EndInOrder(w)'
  BY DEF EndInOrder, Finishing
<1>2. job[i].status \in Terminal => Settled(i)
  BY DEF RunEnds
<1>3. job'[i].status \in Terminal => Settled(i)'
  BY <1>2 DEF Settled
<1>4. job'[i].status \notin Terminal => trail'[i] \cap Terminal = {}
  BY DEF RunEnds
<1> QED BY <1>1, <1>3, <1>4 DEF RunEnds

\* A run whose task has written its last status, and goes on with the end.
LEMMA RunIsEnding ==
    ASSUME NEW w \in Workers, NEW i \in Ids, wpc'[w] \in Finishing, wid'[w] = i,
           job'[i].status \in Terminal
    PROVE  RunEnds(i)'
  BY DEF RunEnds

\* A step of a task keeps the order in which the task ends its own run, and
\* the last one leaves the run settled.
LEMMA TaskEndsRun ==
    ASSUME PipeTyped, NEW w \in Workers, NEW i \in Ids, i = wid[w], TaskStep(w),
           TaskOwnsRun(w), faults.errors = 0, EndInOrder(w), RunEnds(i),
           \A v \in Workers : wid[v] = i => v = w
    PROVE  EndInOrder(w)' /\ RunEnds(i)'
<1>0. /\ wpc \in [Workers -> Busy \cup {"idle"}] /\ wid \in [Workers -> Ids \cup {NoRun}]
      /\ job \in [Ids -> Jobs] /\ dlq \in [Ids -> DeadLetters]
      /\ trail \in [Ids -> SUBSET (Statuses \cup {"rerun_triggered"})]
  BY DEF PipeTyped, PipeTypeOK, StoreTypeOK, WorkerTypeOK
<1>1. CASE SkipJob(w)
  <2>1. wpc[w] = "get" /\ wpc'[w] = "idle"
    BY <1>0, <1>1 DEF SkipJob, EndTask, Goto
  <2>2. job' = job /\ dlq' = dlq /\ trail' = trail
    BY <1>1, Zenon DEF SkipJob, storeVars
  <2> QED BY <2>1, <2>2, RunGoesOn DEF Finishing
<1>2. CASE GetJob(w)
  <2>1. wpc[w] = "get" /\ wpc'[w] \in {"x_update", "start"}
    BY <1>0, <1>2 DEF GetJob, Goto
  <2>2. job' = job /\ dlq' = dlq /\ trail' = trail
    BY <1>2, Zenon DEF GetJob, storeVars
  <2> QED BY <2>1, <2>2, RunGoesOn DEF Finishing
<1>3. CASE ProveFails(w)
  <2>1. wpc[w] = "prove" /\ wpc'[w] = "f_update"
    BY <1>0, <1>3 DEF ProveFails, Goto
  <2>2. job' = job /\ dlq' = dlq /\ trail' = trail
    BY <1>3, Zenon DEF ProveFails, storeVars
  <2> QED BY <2>1, <2>2, RunGoesOn DEF Finishing
<1>4. CASE StartRunning(w)
  <2>1. wpc[w] = "start" /\ wpc'[w] = "r_audit"
    BY <1>0, <1>4 DEF StartRunning, Goto
  <2>2. job'[i].status = "running" /\ job'[i].payload = job[i].payload
    BY <1>0, <1>4 DEF StartRunning, UpdateStatusAttempt, Jobs
  <2>3. dlq' = dlq /\ trail' = trail
    BY <1>4, Zenon DEF StartRunning
  <2>4. job[i].status \notin Terminal
    BY <2>1 DEF TaskOwnsRun, Terminal
  <2> QED BY <2>1, <2>2, <2>3, <2>4, RunGoesOn DEF Finishing, Terminal
<1>5. CASE AuditRunning(w)
  <2>1. wpc[w] = "r_audit" /\ wpc'[w] = "prove"
    BY <1>0, <1>5 DEF AuditRunning, Goto
  <2>2. job' = job /\ dlq' = dlq
    BY <1>5, Zenon DEF AuditRunning
  <2>3. trail'[i] = trail[i] \cup {"running"}
    BY <1>0, <1>5 DEF AuditRunning, AppendEventFor
  <2>4. trail'[i] \cap Terminal = trail[i] \cap Terminal
    BY <2>3 DEF Terminal
  <2> QED BY <2>1, <2>2, <2>4, RunGoesOn DEF Finishing
<1>6. CASE ProveSucceeds(w)
  <2>1. wpc[w] = "prove" /\ wpc'[w] = "complete"
    BY <1>0, <1>6 DEF ProveSucceeds, Goto
  <2>2. job'[i].status = job[i].status /\ job'[i].payload = job[i].payload
    BY <1>0, <1>6 DEF ProveSucceeds, Jobs
  <2>3. dlq' = dlq /\ trail' = trail
    BY <1>6, Zenon DEF ProveSucceeds
  <2> QED BY <2>1, <2>2, <2>3, RunGoesOn DEF Finishing
<1>7. CASE MarkCompleted(w)
  <2>1. wpc[w] = "complete" /\ wpc'[w] = "c_purge" /\ wid'[w] = i
    BY <1>0, <1>7 DEF MarkCompleted, Goto
  <2>2. job'[i].status = "completed" /\ trail' = trail
    BY <1>0, <1>7 DEF MarkCompleted, UpdateStatus, Jobs
  <2>3. job[i].status \notin Terminal
    BY <2>1 DEF TaskOwnsRun, Terminal
  <2>4. trail'[i] \cap Terminal = {}
    BY <2>2, <2>3 DEF RunEnds
  <2>5. EndInOrder(w)'
    BY <2>1, <2>4 DEF EndInOrder
  <2> QED BY <2>1, <2>2, <2>5, RunIsEnding DEF Finishing, Terminal
<1>8. CASE MarkFailed(w)
  <2>1. wpc[w] = "f_update" /\ wpc'[w] = "f_purge" /\ wid'[w] = i
    BY <1>0, <1>8 DEF MarkFailed, Goto
  <2>2. job'[i].status = "failed" /\ trail' = trail
    BY <1>0, <1>8 DEF MarkFailed, UpdateStatusAttempt, Jobs
  <2>3. job[i].status \notin Terminal
    BY <2>1 DEF TaskOwnsRun, Terminal
  <2>4. trail'[i] \cap Terminal = {}
    BY <2>2, <2>3 DEF RunEnds
  <2>5. EndInOrder(w)'
    BY <2>1, <2>4 DEF EndInOrder
  <2> QED BY <2>1, <2>2, <2>5, RunIsEnding DEF Finishing, Terminal
<1>9. CASE MarkExceeded(w)
  <2>1. wpc[w] = "x_update" /\ wpc'[w] = "x_audit" /\ wid'[w] = i
    BY <1>0, <1>9 DEF MarkExceeded, Goto
  <2>2. job'[i].status = "failed" /\ trail' = trail
    BY <1>0, <1>9 DEF MarkExceeded, UpdateStatusAttempt, Jobs
  <2>3. job[i].status \notin Terminal
    BY <2>1 DEF TaskOwnsRun, Terminal
  <2>4. trail'[i] \cap Terminal = {}
    BY <2>2, <2>3 DEF RunEnds
  <2>5. EndInOrder(w)'
    BY <2>1, <2>4 DEF EndInOrder
  <2> QED BY <2>1, <2>2, <2>5, RunIsEnding DEF Finishing, Terminal
<1>10. CASE PurgeCompleted(w)
  <2>1. wpc[w] = "c_purge" /\ wpc'[w] = "c_audit" /\ wid'[w] = i
    BY <1>0, <1>10 DEF PurgeCompleted, Goto
  <2>2. job'[i].status = job[i].status /\ ~job'[i].payload
    BY <1>0, <1>10 DEF PurgeCompleted, PurgeSealedJobPayload, Jobs
  <2>3. trail' = trail
    BY <1>10, Zenon DEF PurgeCompleted
  <2>4. job[i].status = "completed" /\ trail[i] \cap Terminal = {}
    BY <2>1 DEF TaskOwnsRun, EndInOrder
  <2>5. EndInOrder(w)'
    BY <2>1, <2>2, <2>3, <2>4, Zenon DEF EndInOrder
  <2> QED BY <2>1, <2>2, <2>4, <2>5, RunIsEnding, Zenon DEF Finishing, Terminal
<1>11. CASE PurgeFailed(w)
  <2>1. wpc[w] = "f_purge" /\ wpc'[w] = "f_audit" /\ wid'[w] = i
    BY <1>0, <1>11 DEF PurgeFailed, Goto
  <2>2. job'[i].status = job[i].status /\ ~job'[i].payload
    BY <1>0, <1>11 DEF PurgeFailed, PurgeSealedJobPayload, Jobs
  <2>3. trail' = trail
    BY <1>11, Zenon DEF PurgeFailed
  <2>4. job[i].status = "failed" /\ trail[i] \cap Terminal = {}
    BY <2>1 DEF TaskOwnsRun, EndInOrder
  <2>5. EndInOrder(w)'
    BY <2>1, <2>2, <2>3, <2>4, Zenon DEF EndInOrder
  <2> QED BY <2>1, <2>2, <2>4, <2>5, RunIsEnding, Zenon DEF Finishing, Terminal
<1>12. CASE AuditCompleted(w)
  <2>1. wpc[w] = "c_audit" /\ wpc'[w] = "idle"
    BY <1>0, <1>12 DEF AuditCompleted, EndTask, Goto
  <2>2. job' = job
    BY <1>12, Zenon DEF AuditCompleted
  <2>3. trail'[i] = trail[i] \cup {"completed"}
    BY <1>0, <1>12 DEF AuditCompleted, AppendEventFor
  <2>4. job[i].status = "completed" /\ trail[i] \cap Terminal = {} /\ ~job[i].payload
    BY <2>1 DEF TaskOwnsRun, EndInOrder
  <2>5. trail'[i] \cap Terminal = {"completed"}
    BY <2>3, <2>4 DEF Terminal
  <2>6. EndInOrder(w)'
    BY <2>1 DEF EndInOrder
  <2>7. Settled(i)'
    BY <2>2, <2>4, <2>5 DEF Settled
  <2> QED BY <2>2, <2>4, <2>6, <2>7 DEF RunEnds, Terminal
<1>13. CASE AuditFailed(w)
  <2>1. wpc[w] = "f_audit" /\ wpc'[w] = "f_dlq" /\ wid'[w] = i
    BY <1>0, <1>13 DEF AuditFailed, Goto
  <2>2. job' = job
    BY <1>13, Zenon DEF AuditFailed
  <2>3. trail'[i] = trail[i] \cup {"failed"}
    BY <1>0, <1>13 DEF AuditFailed, AppendEventFor
  <2>4. job[i].status = "failed" /\ trail[i] \cap Terminal = {} /\ ~job[i].payload
    BY <2>1 DEF TaskOwnsRun, EndInOrder
  <2>5. trail'[i] \cap Terminal = {"failed"}
    BY <2>3, <2>4 DEF Terminal
  <2>6. EndInOrder(w)'
    BY <2>1, <2>2, <2>4, <2>5, Zenon DEF EndInOrder
  <2> QED BY <2>1, <2>2, <2>4, <2>6, RunIsEnding DEF Finishing, Terminal
<1>14. CASE AuditExceeded(w)
  <2>1. wpc[w] = "x_audit" /\ wpc'[w] = "x_dlq" /\ wid'[w] = i
    BY <1>0, <1>14 DEF AuditExceeded, Goto
  <2>2. job' = job
    BY <1>14, Zenon DEF AuditExceeded
  <2>3. trail'[i] = trail[i] \cup {"failed"}
    BY <1>0, <1>14 DEF AuditExceeded, AppendEventFor
  <2>4. job[i].status = "failed" /\ trail[i] \cap Terminal = {}
    BY <2>1 DEF TaskOwnsRun, EndInOrder
  <2>5. trail'[i] \cap Terminal = {"failed"}
    BY <2>3, <2>4 DEF Terminal
  <2>6. EndInOrder(w)'
    BY <2>1, <2>2, <2>4, <2>5, Zenon DEF EndInOrder
  <2> QED BY <2>1, <2>2, <2>4, <2>6, RunIsEnding, Zenon DEF Finishing, Terminal
<1>15. CASE DeadLetterFailed(w)
  <2>1. wpc[w] = "f_dlq" /\ wpc'[w] = "idle"
    BY <1>0, <1>15 DEF DeadLetterFailed, EndTask, Goto
  <2>2. job' = job /\ trail' = trail
    BY <1>15, Zenon DEF DeadLetterFailed
  <2>3. dlq'[i].status = "open"
    BY <1>0, <1>15 DEF DeadLetterFailed, UpsertDeadLetterJob, DeadLetters
  <2>4. job[i].status = "failed" /\ trail[i] \cap Terminal = {"failed"} /\ ~job[i].payload
    BY <2>1 DEF TaskOwnsRun, EndInOrder
  <2>5. EndInOrder(w)'
    BY <2>1, Zenon DEF EndInOrder
  <2>6. Settled(i)'
    BY <2>2, <2>3, <2>4, Zenon DEF Settled
  <2> QED BY <2>2, <2>4, <2>5, <2>6 DEF RunEnds, Terminal
<1>16. CASE DeadLetterExceeded(w)
  <2>1. wpc[w] = "x_dlq" /\ wpc'[w] = "x_purge" /\ wid'[w] = i
    BY <1>0, <1>16 DEF DeadLetterExceeded, Goto
  <2>2. job' = job /\ trail' = trail
    BY <1>16, Zenon DEF DeadLetterExceeded
  <2>3. dlq'[i].status = "open"
    BY <1>0, <1>16 DEF DeadLetterExceeded, UpsertDeadLetterJob, DeadLetters
  <2>4. job[i].status = "failed" /\ trail[i] \cap Terminal = {"failed"}
    BY <2>1 DEF TaskOwnsRun, EndInOrder
  <2>5. EndInOrder(w)'
    BY <2>1, <2>2, <2>3, <2>4, Zenon DEF EndInOrder
  <2> QED BY <2>1, <2>2, <2>4, <2>5, RunIsEnding DEF Finishing, Terminal
<1>17. CASE PurgeExceeded(w)
  <2>1. wpc[w] = "x_purge" /\ wpc'[w] = "idle"
    BY <1>0, <1>17 DEF PurgeExceeded, EndTask, Goto
  <2>2. job'[i].status = job[i].status /\ ~job'[i].payload
    BY <1>0, <1>17 DEF PurgeExceeded, PurgeSealedJobPayload, Jobs
  <2>3. dlq' = dlq /\ trail' = trail
    BY <1>17, Zenon DEF PurgeExceeded
  <2>4. /\ job[i].status = "failed" /\ trail[i] \cap Terminal = {"failed"}
        /\ dlq[i].status # "absent"
    BY <2>1 DEF TaskOwnsRun, EndInOrder
  <2>5. EndInOrder(w)'
    BY <2>1, Zenon DEF EndInOrder
  <2>6. Settled(i)'
    BY <2>2, <2>3, <2>4, Zenon DEF Settled
  <2> QED BY <2>2, <2>4, <2>5, <2>6 DEF RunEnds, Terminal
<1> QED
  BY <1>1, <1>2, <1>3, <1>4, <1>5, <1>6, <1>7, <1>8, <1>9,
     <1>10, <1>11, <1>12, <1>13, <1>14, <1>15, <1>16, <1>17 DEF TaskStep

\* Requests create jobs that no task works on yet, and add no last status to
\* the chain.
LEMMA RequestEndsNoRun ==
    ASSUME PipeTyped, Backed, ApiStep, NEW j \in Ids
    PROVE  /\ job'[j] = job[j] \/ (job[j].status = "absent" /\ job'[j].status = "queued")
           /\ trail'[j] \cap Terminal = trail[j] \cap Terminal
           /\ dlq[j].status # "absent" => dlq'[j].status # "absent"
<1>0. /\ job \in [Ids -> Jobs] /\ dlq \in [Ids -> DeadLetters]
      /\ trail \in [Ids -> SUBSET (Statuses \cup {"rerun_triggered"})]
  BY DEF PipeTyped, PipeTypeOK, StoreTypeOK
<1>1. ASSUME NEW i \in Runs, SubmitCreate(i)
      PROVE  /\ job[i].status = "absent"
             /\ job' = [job EXCEPT ![i] = [status |-> "queued", payload |-> TRUE, attempts |-> 0, file |-> FALSE]]
             /\ dlq' = dlq /\ trail' = trail
  BY <1>1, Zenon DEF SubmitCreate, CreateProofJob, Backed, SubmissionsInOrder
<1>2. ASSUME NEW r \in Requeues, NEW new \in Reruns, RequeueCreate(r, new)
      PROVE  /\ job[new].status = "absent"
             /\ job' = [job EXCEPT ![new] = [status |-> "queued", payload |-> TRUE,
                                             attempts |-> rattempts[r], file |-> FALSE]]
             /\ dlq' = dlq /\ trail' = trail
  BY <1>2, Zenon DEF RequeueCreate, CreateProofJob
<1>3. ASSUME NEW i, NEW s \in {"queued", "rerun_triggered"}, AppendEventFor(i, s)
      PROVE  trail'[j] \cap Terminal = trail[j] \cap Terminal
  BY <1>0, <1>3 DEF AppendEventFor, Terminal
<1>4. ASSUME NEW i \in Runs, SubmitAudit(i)
      PROVE  job' = job /\ dlq' = dlq /\ AppendEventFor(i, "queued")
  BY <1>4, Zenon DEF SubmitAudit
<1>5. ASSUME NEW r \in Requeues, RequeueAudit(r)
      PROVE  job' = job /\ dlq' = dlq /\ AppendEventFor(rnew[r], "queued")
  BY <1>5, Zenon DEF RequeueAudit
<1>6. ASSUME NEW r \in Requeues, RequeueTrigger(r)
      PROVE  job' = job /\ dlq' = dlq /\ AppendEventFor(rsource[r], "rerun_triggered")
  BY <1>6, Zenon DEF RequeueTrigger
<1>7. ASSUME NEW r \in Requeues, RequeueMark(r)
      PROVE  job' = job /\ trail' = trail /\ (dlq[j].status # "absent" => dlq'[j].status # "absent")
  <2>1. job' = job /\ trail' = trail
    BY <1>7, Zenon DEF RequeueMark
  <2>2. dlq[j].status # "absent" => dlq'[j].status # "absent"
    BY <1>0, <1>7 DEF RequeueMark, MarkDeadLetterJobRequeued, DeadLetters
  <2> QED BY <2>1, <2>2
<1>8. ASSUME NEW i \in Runs, SubmitEnqueue(i) \/ SubmitFails(i)
      PROVE  job' = job /\ dlq' = dlq /\ trail' = trail
  BY <1>8, Zenon DEF SubmitEnqueue, SubmitFails, storeVars
<1>9. ASSUME NEW r \in Requeues, RequeueEnqueue(r) \/ RequeueFails(r)
      PROVE  job' = job /\ dlq' = dlq /\ trail' = trail
  BY <1>9, Zenon DEF RequeueEnqueue, RequeueFails, storeVars
<1>10. ASSUME NEW r \in Requeues, NEW i \in Ids,
              RequeueAlready(r, i) \/ RequeueRefused(r, i) \/ RequeueRead(r, i)
       PROVE  job' = job /\ dlq' = dlq /\ trail' = trail
  BY <1>10, Zenon DEF RequeueAlready, RequeueRefused, RequeueRead, storeVars
<1>11. CASE \E i \in Runs : SubmitStep(i) \/ SubmitFails(i)
  <2>1. PICK i \in Runs : SubmitStep(i) \/ SubmitFails(i)
    BY <1>11
  <2>2. CASE SubmitCreate(i)
    BY <1>0, <1>1, <2>2
  <2>3. CASE SubmitAudit(i)
    BY <1>3, <1>4, <2>3
  <2>4. CASE SubmitEnqueue(i) \/ SubmitFails(i)
    BY <1>8, <2>4
  <2> QED BY <2>1, <2>2, <2>3, <2>4 DEF SubmitStep
<1>12. CASE \E r \in Requeues : RequeueStep(r) \/ RequeueFails(r)
  <2>1. PICK r \in Requeues : RequeueStep(r) \/ RequeueFails(r)
    BY <1>12
  <2>2. CASE \E new \in Reruns : RequeueCreate(r, new)
    BY <1>0, <1>2, <2>2
  <2>3. CASE RequeueAudit(r)
    BY <1>3, <1>5, <2>3, Zenon
  <2>4. CASE RequeueTrigger(r)
    BY <1>3, <1>6, <2>4
  <2>5. CASE RequeueMark(r)
    BY <1>7, <2>5
  <2>6. CASE RequeueEnqueue(r) \/ RequeueFails(r)
    BY <1>9, <2>6
  <2>7. CASE \E i \in Ids : RequeueAlready(r, i) \/ RequeueRefused(r, i) \/ RequeueRead(r, i)
    BY <1>10, <2>7
  <2> QED BY <2>1, <2>2, <2>3, <2>4, <2>5, <2>6, <2>7, Zenon DEF RequeueStep
<1> QED BY <1>11, <1>12 DEF ApiStep

\* A slot that does not move keeps the order, when its run's end is kept.
LEMMA SlotWaits ==
    ASSUME NEW v \in Workers, NEW j, EndInOrder(v), j = wid[v], wpc'[v] = wpc[v], wid'[v] = wid[v],
           wpc[v] \in Finishing =>
               /\ job'[j].payload = job[j].payload
               /\ trail'[j] \cap Terminal = trail[j] \cap Terminal
               /\ dlq[j].status # "absent" => dlq'[j].status # "absent"
    PROVE  EndInOrder(v)'
<1>1. CASE wpc[v] \in Finishing
  BY <1>1 DEF EndInOrder
<1>2. CASE wpc[v] \notin Finishing
  BY <1>2 DEF EndInOrder, Finishing
<1> QED BY <1>1, <1>2

\* A run whose rows are kept is settled or being ended as before, when no slot
\* that ends it moves.
LEMMA RunWaits ==
    ASSUME NEW j \in Ids, RunEnds(j), job'[j] = job[j],
           trail'[j] \cap Terminal = trail[j] \cap Terminal,
           dlq[j].status # "absent" => dlq'[j].status # "absent",
           \A v \in Workers : wid[v] = j /\ wpc[v] \in Finishing => wpc'[v] = wpc[v] /\ wid'[v] = wid[v]
    PROVE  RunEnds(j)'
<1>1. Settled(j) => Settled(j)'
  BY DEF Settled
<1>2. (\E w \in Workers : wid[w] = j /\ wpc[w] \in Finishing)
      => \E w \in Workers : wid'[w] = j /\ wpc'[w] \in Finishing
  BY Zenon
<1> QED BY <1>1, <1>2, Zenon DEF RunEnds

\* A step that stops no task keeps every task in the order of its last
\* writes, and leaves a finished run settled, or with the task that is about
\* to settle it.
LEMMA EndStep ==
    ASSUME PipeTyped, Backed, Alone, Unstopped, Unstopped',
           \A w \in Workers : EndInOrder(w), \A i \in Ids : RunEnds(i), [PipeNext]_pipeVars
    PROVE  (\A v \in Workers : EndInOrder(v)') /\ \A j \in Ids : RunEnds(j)'
<1> DEFINE Goal == (\A v \in Workers : EndInOrder(v)') /\ \A j \in Ids : RunEnds(j)'
<1>0. ASSUME wpc' = wpc, wid' = wid, job' = job, dlq' = dlq, trail' = trail PROVE Goal
  BY <1>0, SlotWaits, RunWaits, Zenon
<1>1. ASSUME ApiStep, UNCHANGED <<workerVars, faults>> PROVE Goal
  <2>1. wpc' = wpc /\ wid' = wid
    BY <1>1 DEF workerVars
  <2>2. ASSUME NEW j \in Ids PROVE RunEnds(j)'
    <3>1. CASE job'[j] = job[j]
      BY <1>1, <2>1, <3>1, RequestEndsNoRun, RunWaits
    <3>2. CASE job[j].status = "absent" /\ job'[j].status = "queued"
      BY <1>1, <3>2, RequestEndsNoRun DEF RunEnds, Terminal
    <3> QED BY <1>1, <3>1, <3>2, RequestEndsNoRun
  <2>3. ASSUME NEW v \in Workers PROVE EndInOrder(v)'
    <3>1. CASE wpc[v] \notin Finishing
      BY <2>1, <3>1, SlotWaits
    <3>2. CASE wpc[v] \in Finishing
      <4>1. wid[v] \in Ids
        BY <3>2 DEF PipeTyped, PipeTypeOK, WorkerTypeOK, Finishing, Busy, InTry, OutsideTry
      <4>2. PICK j \in Ids : j = wid[v]
        BY <4>1
      <4>3. job[j].status # "absent"
        BY <4>2 DEF Backed, SentBacked, Sent
      <4> QED BY <1>1, <2>1, <4>2, <4>3, RequestEndsNoRun, SlotWaits
    <3> QED BY <3>1, <3>2
  <2> QED BY <2>2, <2>3
<1>2. ASSUME NEW w \in Workers, NEW i \in Ids, Deliver(w, i) PROVE Goal
  <2>1. /\ wpc[w] = "idle" /\ wpc'[w] = "get"
        /\ \A v \in Workers \ {w} : wpc'[v] = wpc[v] /\ wid'[v] = wid[v]
    BY <1>2 DEF Deliver, Goto, PipeTyped, PipeTypeOK, WorkerTypeOK
  <2>2. job' = job /\ dlq' = dlq /\ trail' = trail
    BY <1>2, Zenon DEF Deliver
  <2>3. ASSUME NEW v \in Workers PROVE EndInOrder(v)'
    <3>1. CASE v = w
      BY <2>1, <3>1 DEF EndInOrder
    <3>2. CASE v # w
      BY <2>1, <2>2, <3>2, SlotWaits
    <3> QED BY <3>1, <3>2
  <2>4. ASSUME NEW j \in Ids PROVE RunEnds(j)'
    BY <2>1, <2>2, RunWaits DEF Finishing
  <2> QED BY <2>3, <2>4
<1>3. ASSUME NEW w \in Workers, TaskStep(w) PROVE Goal
  <2>1. wpc[w] \in Busy
    BY <1>3, Zenon DEF TaskStep, SkipJob, GetJob, StartRunning, AuditRunning, ProveSucceeds, ProveFails,
       MarkCompleted, PurgeCompleted, AuditCompleted, MarkFailed, PurgeFailed, AuditFailed,
       DeadLetterFailed, MarkExceeded, AuditExceeded, DeadLetterExceeded, PurgeExceeded, Busy,
       InTry, OutsideTry
  <2>2. PICK i \in Ids : i = wid[w]
    BY <2>1 DEF PipeTyped, PipeTypeOK, WorkerTypeOK
  <2>3. \A v \in Workers : wid[v] = i => v = w
    BY <2>2 DEF Alone, OneDelivery
  <2>4. EndInOrder(w)' /\ RunEnds(i)'
    BY <1>3, <2>2, <2>3, TaskEndsRun DEF Alone, Unstopped
  <2>5. /\ \A v \in Workers \ {w} : wpc'[v] = wpc[v] /\ wid'[v] = wid[v]
        /\ \A j \in Ids \ {i} : job'[j] = job[j] /\ dlq'[j] = dlq[j] /\ trail'[j] = trail[j]
    BY <1>3, <2>2, TaskStaysWithRun
  <2>6. ASSUME NEW v \in Workers, v # w PROVE EndInOrder(v)'
    <3>1. CASE wpc[v] \notin Finishing
      BY <2>5, <2>6, <3>1, SlotWaits
    <3>2. CASE wpc[v] \in Finishing
      <4>1. wid[v] \in Ids
        BY <3>2 DEF PipeTyped, PipeTypeOK, WorkerTypeOK, Finishing, Busy, InTry, OutsideTry
      <4>2. PICK j \in Ids \ {i} : j = wid[v]
        BY <2>3, <2>6, <4>1
      <4> QED BY <2>5, <2>6, <4>2, SlotWaits, SMTT(40)
    <3> QED BY <3>1, <3>2
  <2>7. ASSUME NEW j \in Ids, j # i PROVE RunEnds(j)'
    <3>1. \A v \in Workers : wid[v] = j => v # w
      BY <2>2, <2>7
    <3> QED BY <2>5, <2>7, <3>1, RunWaits, Zenon
  <2> QED BY <2>4, <2>6, <2>7
<1>4. ASSUME NEW w \in Workers, WorkerFault(w) PROVE Goal
  <2>1. Redeliver(w)
    BY <1>4 DEF WorkerFault, StepFails, WorkerLost, TimeLimitKill, Unstopped, PipeTyped, PipeTypeOK, WorkerTypeOK
  <2>2. wpc' = wpc /\ wid' = wid /\ job' = job /\ dlq' = dlq /\ trail' = trail
    BY <2>1, Zenon DEF Redeliver, workerVars
  <2> QED BY <1>0, <2>2
<1>5. ASSUME BrokerRestart PROVE Goal
  <2>1. wpc' = wpc /\ wid' = wid /\ job' = job /\ dlq' = dlq /\ trail' = trail
    BY <1>5, Zenon DEF BrokerRestart, workerVars
  <2> QED BY <1>0, <2>1
<1>6. ASSUME UNCHANGED pipeVars PROVE Goal
  <2>1. wpc' = wpc /\ wid' = wid /\ job' = job /\ dlq' = dlq /\ trail' = trail
    BY <1>6, Zenon DEF pipeVars, storeVars, workerVars
  <2> QED BY <1>0, <2>1
<1> HIDE DEF Goal
<1>7. Goal
  BY <1>1, <1>2, <1>3, <1>4, <1>5, <1>6, Zenon DEF PipeNext
<1> QED BY <1>7 DEF Goal

\* As long as no task was stopped half way, every step keeps the order in
\* which a task writes the end of a run, and what a finished run is left with.
LEMMA RestStep == PipeTyped /\ Backed /\ SingleInv /\ RestInv /\ [PipeNext]_pipeVars => RestInv'
<1> SUFFICES ASSUME PipeTyped, Backed, SingleInv, RestInv, [PipeNext]_pipeVars, Unstopped'
             PROVE  (\A v \in Workers : EndInOrder(v)') /\ \A j \in Ids : RunEnds(j)'
  BY DEF RestInv
<1>1. Unstopped
  BY FaultsStay
<1>2. Alone
  BY <1>1 DEF SingleInv, Unstopped
<1>3. (\A v \in Workers : EndInOrder(v)) /\ \A j \in Ids : RunEnds(j)
  BY <1>1 DEF RestInv
<1> QED BY <1>1, <1>2, <1>3, EndStep

-----------------------------------------------------------------------------
\* The steps that write proof_jobs.
LEMMA JobWriters ==
    ASSUME [PipeNext]_pipeVars
    PROVE  \/ job' = job
           \/ \E w \in Workers :
                  \/ StartRunning(w) \/ ProveSucceeds(w) \/ MarkCompleted(w) \/ PurgeCompleted(w)
                  \/ MarkFailed(w) \/ PurgeFailed(w) \/ MarkExceeded(w) \/ PurgeExceeded(w)
           \/ \E i \in Runs : SubmitCreate(i) /\ UNCHANGED faults
           \/ \E r \in Requeues, new \in Reruns : RequeueCreate(r, new) /\ UNCHANGED faults
<1>1. CASE ApiStep /\ UNCHANGED <<workerVars, faults>>
  BY <1>1, Zenon DEF ApiStep, SubmitStep, RequeueStep, SubmitAudit, SubmitEnqueue, SubmitFails, RequeueAlready,
     RequeueRefused, RequeueRead, RequeueAudit, RequeueTrigger, RequeueEnqueue, RequeueMark, RequeueFails,
     storeVars
<1>2. CASE \E w \in Workers : (\E i \in Ids : Deliver(w, i)) \/ TaskStep(w)
  BY <1>2, Zenon DEF Deliver, TaskStep, SkipJob, GetJob, AuditRunning, ProveFails, AuditCompleted, AuditFailed,
     DeadLetterFailed, AuditExceeded, DeadLetterExceeded, storeVars
<1>3. CASE (\E w \in Workers : WorkerFault(w)) \/ BrokerRestart
  BY <1>3 DEF WorkerFault, StepFails, WorkerLost, TimeLimitKill, Redeliver, BrokerRestart, storeVars
<1>4. CASE UNCHANGED pipeVars
  BY <1>4 DEF pipeVars, storeVars
<1> QED BY <1>1, <1>2, <1>3, <1>4 DEF PipeNext

\* The steps that write dead_letter_jobs.
LEMMA DeadLetterWriters ==
    ASSUME [PipeNext]_pipeVars
    PROVE  \/ dlq' = dlq
           \/ \E w \in Workers : DeadLetterFailed(w) \/ DeadLetterExceeded(w)
           \/ \E r \in Requeues : RequeueMark(r)
<1>1. CASE ApiStep /\ UNCHANGED <<workerVars, faults>>
  BY <1>1, Zenon DEF ApiStep, SubmitStep, RequeueStep, SubmitCreate, SubmitAudit, SubmitEnqueue, SubmitFails,
     RequeueAlready, RequeueRefused, RequeueRead, RequeueCreate, RequeueAudit, RequeueTrigger,
     RequeueEnqueue, RequeueFails, storeVars
<1>2. CASE \E w \in Workers : (\E i \in Ids : Deliver(w, i)) \/ TaskStep(w)
  BY <1>2 DEF Deliver, TaskStep, SkipJob, GetJob, StartRunning, AuditRunning, ProveSucceeds, ProveFails,
     MarkCompleted, PurgeCompleted, AuditCompleted, MarkFailed, PurgeFailed, AuditFailed,
     MarkExceeded, AuditExceeded, PurgeExceeded, storeVars
<1>3. CASE (\E w \in Workers : WorkerFault(w)) \/ BrokerRestart
  BY <1>3 DEF WorkerFault, StepFails, WorkerLost, TimeLimitKill, Redeliver, BrokerRestart, storeVars
<1>4. CASE UNCHANGED pipeVars
  BY <1>4 DEF pipeVars, storeVars
<1> QED BY <1>1, <1>2, <1>3, <1>4 DEF PipeNext

\* What it means for the fault counters that only some kinds happened.
LEMMA FaultKinds ==
    ASSUME WorkerTypeOK
    PROVE  /\ OnlyFaults({"lost", "killed", "errors", "wiped"}) => faults.redelivered = 0
           /\ OnlyFaults({"lost", "killed", "wiped"}) => faults.redelivered = 0 /\ faults.errors = 0
           /\ OnlyFaults({"wiped"}) => Unstopped
  BY DEF WorkerTypeOK, OnlyFaults, Unstopped

\* Empty tables, an empty broker and free slots satisfy the invariant.
LEMMA PipeInitInv == PipeInit => PipeInv
<1> SUFFICES ASSUME PipeInit PROVE PipeInv
  OBVIOUS
<1>1. PipeTyped /\ Backed
  BY TablesInit
<1>2. /\ \A i \in Ids : queue[i] = 0 /\ execs[i] = 0 /\ trail[i] = {}
      /\ \A i \in Ids : job[i].status = "absent" /\ job[i].attempts = 0 /\ dlq[i].status = "absent"
      /\ \A w \in Workers : wpc[w] = "idle" /\ wid[w] = NoRun
  BY DEF PipeInit, StoreInit, WorkerInit, NoJob, NoDeadLetter
<1>3. OneDelivery
  BY <1>2, StoreAssumption, SMTT(40) DEF OneDelivery, Ids
<1>4. ASSUME NEW w \in Workers PROVE TaskOwnsRun(w) /\ EndInOrder(w)
  BY <1>2, Zenon DEF TaskOwnsRun, EndInOrder, Busy, InTry, OutsideTry
<1>5. RunsPaid /\ PayloadKept
  BY <1>2, StoreAssumption DEF RunsPaid, PayloadKept
<1>6. ASSUME NEW i \in Ids PROVE RunEnds(i)
  BY <1>2 DEF RunEnds, Terminal
<1> QED BY <1>1, <1>3, <1>4, <1>5, <1>6 DEF PipeInv, SingleInv, RestInv, Alone

\* The inductive invariant holds in every reachable state.
LEMMA PipeInvariant == PipeSpec => []PipeInv
<1>1. PipeInv /\ [PipeNext]_pipeVars => PipeInv'
  BY TypedStep, BackedStep, SingleStep, RestStep DEF PipeInv
<1> QED BY PipeInitInv, <1>1, PTL DEF PipeSpec

\* Without redelivery, _process_proof_job_async processes a run at most
\* PROOF_JOB_MAX_ATTEMPTS times.
THEOREM RunsBounded == PipeSpec => []AttemptsBounded
<1>1. PipeInv => AttemptsBounded
  BY FaultKinds DEF PipeInv, PipeTyped, PipeTypeOK, SingleInv, RunsPaid, AttemptsBounded
<1> QED BY <1>1, PipeInvariant, PTL

\* Without redelivery, a run that may still be processed has its sealed
\* payload, and so has every dead letter.
THEOREM PayloadsAtHand == PipeSpec => []PayloadAtHand
<1>1. PipeInv => PayloadAtHand
  BY FaultKinds DEF PipeInv, PipeTyped, PipeTypeOK, SingleInv, PayloadKept, PayloadAtHand
<1> QED BY <1>1, PipeInvariant, PTL

\* When no task was stopped half way, a finished run that no worker holds is
\* purged, audited with its status and, when it failed, dead-lettered.
THEOREM RestingRuns == PipeSpec => []RestingRunsAgree
<1>1. PipeInv => RestingRunsAgree
  BY FaultKinds, Zenon DEF PipeInv, PipeTyped, PipeTypeOK, RestInv, RunEnds, Settled, RestingRunsAgree,
     FailedIsDeadLettered, AtRest, Terminal
<1> QED BY <1>1, PipeInvariant, PTL

\* No step takes the payload from a dead letter that has it:
\* upsert_dead_letter_job replaces it only by another one.
THEOREM DeadLetterPayloadStays == PipeSpec => DeadLetterKeepsPayload
<1>1. PipeInv /\ [PipeNext]_pipeVars => [\A i \in Ids : dlq[i].payload => dlq'[i].payload]_pipeVars
  <2> SUFFICES ASSUME PipeInv, [PipeNext]_pipeVars, NEW i \in Ids, dlq[i].payload PROVE dlq'[i].payload
    OBVIOUS
  <2> USE DEF PipeInv, PipeTyped, PipeTypeOK, StoreTypeOK, DeadLetters
  <2>1. CASE \E w \in Workers : DeadLetterFailed(w) \/ DeadLetterExceeded(w)
    BY <2>1 DEF DeadLetterFailed, DeadLetterExceeded, UpsertDeadLetterJob
  <2>2. CASE \E r \in Requeues : RequeueMark(r)
    BY <2>2 DEF RequeueMark, MarkDeadLetterJobRequeued
  <2> QED BY <2>1, <2>2, DeadLetterWriters
<1> QED BY <1>1, PipeInvariant, PTL DEF PipeSpec, DeadLetterKeepsPayload

\* When workers are only lost or killed, no step changes the status of a run
\* that has completed or failed.
THEOREM TerminalStays == PipeSpec => TerminalOutlivesWorker
<1> DEFINE Stays == OnlyFaults({"lost", "killed", "wiped"})' =>
                        \A i \in Ids : job[i].status \in Terminal => job'[i].status = job[i].status
<1>1. PipeInv /\ PipeInv' /\ [PipeNext]_pipeVars => [Stays]_pipeVars
  <2> SUFFICES ASSUME PipeInv, PipeInv', [PipeNext]_pipeVars, OnlyFaults({"lost", "killed", "wiped"})',
                      NEW i \in Ids, job[i].status \in Terminal
               PROVE  job'[i].status = job[i].status
    OBVIOUS
  <2>0. faults'.redelivered = 0 /\ faults'.errors = 0
    <3>1. WorkerTypeOK'
      BY DEF PipeInv, PipeTyped, PipeTypeOK
    <3> QED BY <3>1 DEF WorkerTypeOK, OnlyFaults
  <2> USE DEF PipeInv, PipeTyped, PipeTypeOK, StoreTypeOK, WorkerTypeOK, Jobs, Terminal, Busy, InTry, OutsideTry
  <2>1. ASSUME NEW w \in Workers, StartRunning(w) \/ MarkCompleted(w) \/ MarkFailed(w) \/ MarkExceeded(w)
        PROVE  wid[w] # i
    <3>1. faults' = faults
      BY <2>1, Zenon DEF StartRunning, MarkCompleted, MarkFailed, MarkExceeded
    <3>2. TaskOwnsRun(w) /\ faults.errors = 0
      BY <2>0, <3>1 DEF SingleInv, Alone
    <3> QED BY <2>1, <3>2, Zenon DEF StartRunning, MarkCompleted, MarkFailed, MarkExceeded, TaskOwnsRun
  <2>2. ASSUME NEW w \in Workers, StartRunning(w) \/ MarkCompleted(w) \/ MarkFailed(w) \/ MarkExceeded(w)
        PROVE  job'[i].status = job[i].status
    BY <2>1, <2>2, Zenon DEF StartRunning, MarkCompleted, MarkFailed, MarkExceeded, UpdateStatus, UpdateStatusAttempt
  <2>3. ASSUME NEW w \in Workers,
               ProveSucceeds(w) \/ PurgeCompleted(w) \/ PurgeFailed(w) \/ PurgeExceeded(w)
        PROVE  job'[i].status = job[i].status
    <3>1. CASE ProveSucceeds(w)
      BY <3>1 DEF ProveSucceeds
    <3>2. CASE PurgeCompleted(w) \/ PurgeFailed(w) \/ PurgeExceeded(w)
      <4>1. PurgeSealedJobPayload(wid[w])
        BY <3>2, Zenon DEF PurgeCompleted, PurgeFailed, PurgeExceeded
      <4> QED BY <4>1 DEF PurgeSealedJobPayload
    <3> QED BY <2>3, <3>1, <3>2, Zenon
  <2>4. ASSUME NEW j \in Runs, SubmitCreate(j) PROVE job'[i].status = job[i].status
    BY <2>4, ZenonT(60) DEF SubmitCreate, CreateProofJob, Backed, SubmissionsInOrder
  <2>5. ASSUME NEW r \in Requeues, NEW new \in Reruns, RequeueCreate(r, new)
        PROVE  job'[i].status = job[i].status
    BY <2>5, Zenon DEF RequeueCreate, CreateProofJob
  <2> QED BY <2>2, <2>3, <2>4, <2>5, JobWriters, Zenon
<1> QED BY <1>1, PipeInvariant, PTL DEF PipeSpec, TerminalOutlivesWorker

=============================================================================
