--------------------------- MODULE PipelineProofs ---------------------------
(***************************************************************************)
(* Proofs about the tables of the run pipeline, for any number of runs,     *)
(* reruns, slots, requests and attempts, and any bounds on faults.          *)
(*                                                                         *)
(* What the tables say is backed because whoever writes it has gone through *)
(* the earlier steps, so the invariant says what each point of a request or *)
(* a task has behind it.  It holds whatever fails, restarts or is delivered *)
(* twice.                                                                   *)
(***************************************************************************)
EXTENDS ProofPipeline, TLAPS

\* The message of run i waits, or a slot works on it.
Sent(i) == queue[i] > 0 \/ \E w \in Workers : wid[w] = i

\* A free slot remembers no run.
SlotsFree == \A w \in Workers : wpc[w] = "idle" => wid[w] = NoRun

PipeTyped == PipeTypeOK /\ SlotsFree

\* A submission writes the job, then the event, then sends the message.
SubmissionsInOrder ==
    \A i \in Runs :
        /\ spc[i] = "create" => job[i].status = "absent"
        /\ spc[i] \in {"audit", "enqueue"} => job[i].status # "absent"
        /\ spc[i] = "enqueue" => "queued" \in trail[i]
        /\ spc[i] \in {"create", "audit", "enqueue"} => ~Sent(i)

\* A requeue works on a dead letter that is there and a rerun of its own.
RequeueInOrder(r) ==
    /\ rpc[r] \in {"create", "audit", "trigger", "enqueue", "mark"} =>
           dlq[rsource[r]].status # "absent"
    /\ rpc[r] \in {"audit", "trigger", "enqueue", "mark"} =>
           rnew[r] \in Reruns /\ job[rnew[r]].status # "absent"
    /\ rpc[r] \in {"trigger", "enqueue", "mark"} => "queued" \in trail[rnew[r]]
    /\ rpc[r] \in {"enqueue", "mark"} => "rerun_triggered" \in trail[rsource[r]]
    /\ rpc[r] \in {"audit", "trigger", "enqueue"} => ~Sent(rnew[r])

RequeuesInOrder == \A r \in Requeues : RequeueInOrder(r)

OwnReruns ==
    \A q, r \in Requeues :
        /\ q # r
        /\ rpc[q] \in {"audit", "trigger", "enqueue"}
        /\ rpc[r] \in {"audit", "trigger", "enqueue"}
        => rnew[q] # rnew[r]

\* Only a stored and audited run is ever sent or processed.
SentBacked ==
    \A i \in Ids :
        /\ Sent(i) => job[i].status # "absent" /\ "queued" \in trail[i]
        /\ job[i].status = "absent" => execs[i] = 0

\* A task completes a run whose file is written and dead-letters a run whose
\* failure is audited.
TasksInOrder ==
    \A w \in Workers :
        /\ wpc[w] = "complete" => job[wid[w]].file
        /\ wpc[w] \in {"f_dlq", "x_dlq"} => "failed" \in trail[wid[w]]

Backed ==
    /\ SubmissionsInOrder /\ RequeuesInOrder /\ OwnReruns
    /\ SentBacked /\ TasksInOrder /\ TablesAreBacked

-----------------------------------------------------------------------------
\* Every write to proof_jobs (create_proof_job, update_proof_job,
\* purge_sealed_job_payload, the proof file) leaves rows of the table's type.
LEMMA JobWritesTyped ==
    ASSUME job \in [Ids -> Jobs], NEW i \in Ids
    PROVE  /\ \A s \in Statuses : UpdateStatus(i, s) => job' \in [Ids -> Jobs]
           /\ \A s \in Statuses, a \in Nat : UpdateStatusAttempt(i, s, a) => job' \in [Ids -> Jobs]
           /\ PurgeSealedJobPayload(i) => job' \in [Ids -> Jobs]
           /\ job' = [job EXCEPT ![i].file = TRUE] => job' \in [Ids -> Jobs]
           /\ \A a \in Nat : CreateProofJob(i, a) => job' \in [Ids -> Jobs]
<1> USE DEF Jobs
<1>1. ASSUME NEW s \in Statuses, UpdateStatus(i, s) PROVE job' \in [Ids -> Jobs]
  BY <1>1 DEF UpdateStatus
<1>2. ASSUME NEW s \in Statuses, NEW a \in Nat, UpdateStatusAttempt(i, s, a) PROVE job' \in [Ids -> Jobs]
  BY <1>2, Zenon DEF UpdateStatusAttempt
<1>3. ASSUME PurgeSealedJobPayload(i) PROVE job' \in [Ids -> Jobs]
  BY <1>3, Zenon DEF PurgeSealedJobPayload
<1>4. ASSUME job' = [job EXCEPT ![i].file = TRUE] PROVE job' \in [Ids -> Jobs]
  BY <1>4, Zenon
<1>5. ASSUME NEW a \in Nat, CreateProofJob(i, a) PROVE job' \in [Ids -> Jobs]
  BY <1>5 DEF CreateProofJob, Statuses
<1> QED BY <1>1, <1>2, <1>3, <1>4, <1>5

\* upsert_dead_letter_job and mark_dead_letter_job_requeued keep the type of
\* the dead-letter table.
LEMMA DeadLetterWritesTyped ==
    ASSUME dlq \in [Ids -> DeadLetters], NEW i \in Ids
    PROVE  /\ \A p \in BOOLEAN : UpsertDeadLetterJob(i, p) => dlq' \in [Ids -> DeadLetters]
           /\ \A n \in Ids : MarkDeadLetterJobRequeued(i, n) => dlq' \in [Ids -> DeadLetters]
<1> USE DEF DeadLetters
<1>1. ASSUME NEW p \in BOOLEAN, UpsertDeadLetterJob(i, p) PROVE dlq' \in [Ids -> DeadLetters]
  <2>1. [dlq[i] EXCEPT !.status = "open", !.payload = dlq[i].payload \/ p] \in DeadLetters
    BY Zenon
  <2>2. dlq' = [dlq EXCEPT ![i] = [dlq[i] EXCEPT !.status = "open", !.payload = dlq[i].payload \/ p]]
    BY <1>1, Zenon DEF UpsertDeadLetterJob
  <2> HIDE DEF DeadLetters
  <2> QED BY <2>1, <2>2
<1>2. ASSUME NEW n \in Ids, MarkDeadLetterJobRequeued(i, n) PROVE dlq' \in [Ids -> DeadLetters]
  <2>1. [dlq[i] EXCEPT !.status = "requeued", !.rerun = n] \in DeadLetters
    BY Zenon
  <2>2. dlq' = [dlq EXCEPT ![i] = [dlq[i] EXCEPT !.status = "requeued", !.rerun = n]]
    BY <1>2, Zenon DEF MarkDeadLetterJobRequeued
  <2> HIDE DEF DeadLetters
  <2> QED BY <2>1, <2>2
<1> QED BY <1>1, <1>2

\* Every request, task step and fault keeps the types, and a slot whose task
\* ends forgets its run.
LEMMA TypedStep == PipeTyped /\ [PipeNext]_pipeVars => PipeTyped'
<1> SUFFICES ASSUME PipeTyped, [PipeNext]_pipeVars PROVE PipeTyped'
  OBVIOUS
<1> USE StoreAssumption DEF PipeTyped, PipeTypeOK, StoreTypeOK, WorkerTypeOK, ApiTypeOK, SlotsFree,
     Ids, Statuses, Busy, InTry, OutsideTry, Ended, Goto, EndTask, Enqueue, AppendEventFor,
     storeVars, workerVars, apiVars
<1>1. ASSUME NEW w \in Workers, NEW i \in Ids, Deliver(w, i), UNCHANGED apiVars PROVE PipeTyped'
  BY <1>1 DEF Deliver
<1>2. ASSUME NEW w \in Workers, SkipJob(w), UNCHANGED apiVars PROVE PipeTyped'
  BY <1>2 DEF SkipJob
<1>3. ASSUME NEW w \in Workers, GetJob(w), UNCHANGED apiVars PROVE PipeTyped'
  BY <1>3 DEF GetJob, Jobs
<1>4. ASSUME NEW w \in Workers, StartRunning(w), UNCHANGED apiVars PROVE PipeTyped'
  <2>1. job' \in [Ids -> Jobs]
    BY <1>4, JobWritesTyped DEF StartRunning
  <2> QED BY <1>4, <2>1 DEF StartRunning, Jobs
<1>5. ASSUME NEW w \in Workers, AuditRunning(w), UNCHANGED apiVars PROVE PipeTyped'
  BY <1>5 DEF AuditRunning
<1>6. ASSUME NEW w \in Workers, ProveSucceeds(w), UNCHANGED apiVars PROVE PipeTyped'
  <2>1. job' \in [Ids -> Jobs]
    BY <1>6, JobWritesTyped, Zenon DEF ProveSucceeds
  <2> QED BY <1>6, <2>1 DEF ProveSucceeds
<1>7. ASSUME NEW w \in Workers, ProveFails(w), UNCHANGED apiVars PROVE PipeTyped'
  BY <1>7 DEF ProveFails
<1>8. ASSUME NEW w \in Workers, MarkCompleted(w), UNCHANGED apiVars PROVE PipeTyped'
  <2>1. job' \in [Ids -> Jobs]
    BY <1>8, JobWritesTyped DEF MarkCompleted
  <2> QED BY <1>8, <2>1 DEF MarkCompleted
<1>9. ASSUME NEW w \in Workers, PurgeCompleted(w), UNCHANGED apiVars PROVE PipeTyped'
  <2>1. job' \in [Ids -> Jobs]
    BY <1>9, JobWritesTyped DEF PurgeCompleted
  <2> QED BY <1>9, <2>1 DEF PurgeCompleted
<1>10. ASSUME NEW w \in Workers, AuditCompleted(w), UNCHANGED apiVars PROVE PipeTyped'
  BY <1>10 DEF AuditCompleted
<1>11. ASSUME NEW w \in Workers, MarkFailed(w), UNCHANGED apiVars PROVE PipeTyped'
  <2>1. job' \in [Ids -> Jobs]
    BY <1>11, JobWritesTyped DEF MarkFailed
  <2> QED BY <1>11, <2>1 DEF MarkFailed
<1>12. ASSUME NEW w \in Workers, PurgeFailed(w), UNCHANGED apiVars PROVE PipeTyped'
  <2>1. job' \in [Ids -> Jobs]
    BY <1>12, JobWritesTyped DEF PurgeFailed
  <2> QED BY <1>12, <2>1 DEF PurgeFailed
<1>13. ASSUME NEW w \in Workers, AuditFailed(w), UNCHANGED apiVars PROVE PipeTyped'
  BY <1>13 DEF AuditFailed
<1>14. ASSUME NEW w \in Workers, DeadLetterFailed(w), UNCHANGED apiVars PROVE PipeTyped'
  <2>1. dlq' \in [Ids -> DeadLetters]
    BY <1>14, DeadLetterWritesTyped DEF DeadLetterFailed
  <2> QED BY <1>14, <2>1 DEF DeadLetterFailed
<1>15. ASSUME NEW w \in Workers, MarkExceeded(w), UNCHANGED apiVars PROVE PipeTyped'
  <2>1. job' \in [Ids -> Jobs]
    BY <1>15, JobWritesTyped, Zenon DEF MarkExceeded
  <2> QED BY <1>15, <2>1 DEF MarkExceeded
<1>16. ASSUME NEW w \in Workers, AuditExceeded(w), UNCHANGED apiVars PROVE PipeTyped'
  BY <1>16 DEF AuditExceeded
<1>17. ASSUME NEW w \in Workers, DeadLetterExceeded(w), UNCHANGED apiVars PROVE PipeTyped'
  <2>1. dlq' \in [Ids -> DeadLetters]
    BY <1>17, DeadLetterWritesTyped DEF DeadLetterExceeded
  <2> QED BY <1>17, <2>1 DEF DeadLetterExceeded
<1>18. ASSUME NEW w \in Workers, PurgeExceeded(w), UNCHANGED apiVars PROVE PipeTyped'
  <2>1. job' \in [Ids -> Jobs]
    BY <1>18, JobWritesTyped DEF PurgeExceeded
  <2> QED BY <1>18, <2>1 DEF PurgeExceeded
<1>19. ASSUME NEW w \in Workers, StepFails(w), UNCHANGED apiVars PROVE PipeTyped'
  <2>1. faults' \in [lost : Nat, killed : Nat, errors : Nat, redelivered : Nat, wiped : Nat]
    BY <1>19 DEF StepFails
  <2>2. CASE wpc[w] \in InTry
    BY <1>19, <2>1, <2>2 DEF StepFails
  <2>3. CASE wpc[w] \in OutsideTry
    <3>1. EndTask(w)
      BY <1>19, <2>3 DEF StepFails
    <3>2. WorkerTypeOK' /\ SlotsFree'
      BY <1>19, <2>1, <3>1 DEF StepFails
    <3> QED BY <1>19, <3>2 DEF StepFails
  <2> QED BY <1>19, <2>2, <2>3 DEF StepFails
<1>20. ASSUME NEW w \in Workers, WorkerLost(w), UNCHANGED apiVars PROVE PipeTyped'
  BY <1>20 DEF WorkerLost
<1>21. ASSUME NEW w \in Workers, TimeLimitKill(w), UNCHANGED apiVars PROVE PipeTyped'
  BY <1>21 DEF TimeLimitKill
<1>22. ASSUME NEW w \in Workers, Redeliver(w), UNCHANGED apiVars PROVE PipeTyped'
  BY <1>22 DEF Redeliver
<1>23. ASSUME BrokerRestart, UNCHANGED apiVars PROVE PipeTyped'
  BY <1>23 DEF BrokerRestart
<1>24. ASSUME NEW i \in Runs, SubmitCreate(i), UNCHANGED <<workerVars, faults>> PROVE PipeTyped'
  <2>1. job' \in [Ids -> Jobs]
    BY <1>24, JobWritesTyped, Zenon DEF SubmitCreate
  <2> QED BY <1>24, <2>1, Zenon DEF SubmitCreate
<1>25. ASSUME NEW i \in Runs, SubmitAudit(i), UNCHANGED <<workerVars, faults>> PROVE PipeTyped'
  BY <1>25 DEF SubmitAudit
<1>26. ASSUME NEW i \in Runs, SubmitEnqueue(i), UNCHANGED <<workerVars, faults>> PROVE PipeTyped'
  BY <1>26 DEF SubmitEnqueue
<1>27. ASSUME NEW i \in Runs, SubmitFails(i), UNCHANGED <<workerVars, faults>> PROVE PipeTyped'
  BY <1>27 DEF SubmitFails
<1>28. ASSUME NEW r \in Requeues, NEW i \in Ids, RequeueAlready(r, i),
              UNCHANGED <<workerVars, faults>>
       PROVE  PipeTyped'
  BY <1>28 DEF RequeueAlready, DeadLetters
<1>29. ASSUME NEW r \in Requeues, NEW i \in Ids, RequeueRefused(r, i),
              UNCHANGED <<workerVars, faults>>
       PROVE  PipeTyped'
  BY <1>29 DEF RequeueRefused
<1>30. ASSUME NEW r \in Requeues, NEW i \in Ids, RequeueRead(r, i),
              UNCHANGED <<workerVars, faults>>
       PROVE  PipeTyped'
  BY <1>30 DEF RequeueRead, Jobs
<1>31. ASSUME NEW r \in Requeues, NEW new \in Reruns, RequeueCreate(r, new),
              UNCHANGED <<workerVars, faults>>
       PROVE  PipeTyped'
  <2>1. job' \in [Ids -> Jobs]
    BY <1>31, JobWritesTyped DEF RequeueCreate
  <2> QED BY <1>31, <2>1 DEF RequeueCreate
<1>32. ASSUME NEW r \in Requeues, RequeueAudit(r),
              UNCHANGED <<workerVars, faults>>
       PROVE  PipeTyped'
  BY <1>32 DEF RequeueAudit
<1>33. ASSUME NEW r \in Requeues, RequeueTrigger(r),
              UNCHANGED <<workerVars, faults>>
       PROVE  PipeTyped'
  BY <1>33 DEF RequeueTrigger
<1>34. ASSUME NEW r \in Requeues, RequeueEnqueue(r),
              UNCHANGED <<workerVars, faults>>
       PROVE  PipeTyped'
  BY <1>34 DEF RequeueEnqueue
<1>35. ASSUME NEW r \in Requeues, RequeueMark(r), UNCHANGED <<workerVars, faults>> PROVE PipeTyped'
  <2>1. dlq' \in [Ids -> DeadLetters]
    BY <1>35, DeadLetterWritesTyped DEF RequeueMark
  <2> QED BY <1>35, <2>1 DEF RequeueMark
<1>36. ASSUME NEW r \in Requeues, RequeueFails(r),
              UNCHANGED <<workerVars, faults>>
       PROVE  PipeTyped'
  BY <1>36 DEF RequeueFails
<1>37. ASSUME UNCHANGED pipeVars PROVE PipeTyped'
  BY <1>37 DEF pipeVars
<1> HIDE DEF PipeTyped
<1> QED
  BY <1>1, <1>2, <1>3, <1>4, <1>5, <1>6, <1>7, <1>8, <1>9, <1>10, <1>11, <1>12, <1>13, <1>14,
     <1>15, <1>16, <1>17, <1>18, <1>19, <1>20, <1>21, <1>22, <1>23, <1>24, <1>25, <1>26,
     <1>27, <1>28, <1>29, <1>30, <1>31, <1>32, <1>33, <1>34, <1>35, <1>36, <1>37, Zenon
     DEF PipeNext, TaskStep, WorkerFault, ApiStep, SubmitStep, RequeueStep

-----------------------------------------------------------------------------
\* What a step of a task does to the tables, the chain and its slot.
LEMMA TaskWrites ==
    ASSUME NEW w \in Workers, NEW i \in Ids, i = wid[w], TaskStep(w)
    PROVE  /\ \/ job' = job
              \/ \E s \in {"running", "failed"} : UpdateStatusAttempt(i, s, wattempt[w])
              \/ wpc[w] = "complete" /\ UpdateStatus(i, "completed")
              \/ PurgeSealedJobPayload(i)
              \/ job' = [job EXCEPT ![i].file = TRUE]
           /\ \/ dlq' = dlq
              \/ wpc[w] \in {"f_dlq", "x_dlq"} /\ UpsertDeadLetterJob(i, wpayload[w])
           /\ trail' = trail \/ \E s \in Statuses : AppendEventFor(i, s)
           /\ queue' = queue
           /\ wid' = wid \/ (Goto(w, "idle") /\ wid' = [wid EXCEPT ![w] = NoRun])
           /\ execs' = execs \/ execs' = [execs EXCEPT ![i] = @ + 1]
           /\ faults' = faults
           /\ wpayload' = wpayload \/ \E p : wpayload' = [wpayload EXCEPT ![w] = p]
           /\ wattempt' = wattempt \/ \E a : wattempt' = [wattempt EXCEPT ![w] = a]
           /\ \E to : /\ Goto(w, to)
                      /\ to = "complete" => job' = [job EXCEPT ![i].file = TRUE]
                      /\ to \in {"f_dlq", "x_dlq"} => AppendEventFor(i, "failed")
<1> USE DEF TaskStep, SkipJob, GetJob, StartRunning, AuditRunning, ProveSucceeds, ProveFails,
     MarkCompleted, PurgeCompleted, AuditCompleted, MarkFailed, PurgeFailed, AuditFailed,
     DeadLetterFailed, MarkExceeded, AuditExceeded, DeadLetterExceeded, PurgeExceeded, storeVars
<1>1. \/ job' = job
      \/ \E s \in {"running", "failed"} : UpdateStatusAttempt(i, s, wattempt[w])
      \/ wpc[w] = "complete" /\ UpdateStatus(i, "completed")
      \/ PurgeSealedJobPayload(i)
      \/ job' = [job EXCEPT ![i].file = TRUE]
  BY Zenon
<1>2. dlq' = dlq \/ (wpc[w] \in {"f_dlq", "x_dlq"} /\ UpsertDeadLetterJob(i, wpayload[w]))
  BY Zenon
<1>3. trail' = trail \/ \E s \in Statuses : AppendEventFor(i, s)
  BY Zenon DEF Statuses
<1>4. queue' = queue /\ faults' = faults
  BY Zenon
<1>5. wid' = wid \/ (Goto(w, "idle") /\ wid' = [wid EXCEPT ![w] = NoRun])
  BY Zenon DEF EndTask
<1>6. execs' = execs \/ execs' = [execs EXCEPT ![i] = @ + 1]
  BY Zenon
<1>7. \E to : /\ Goto(w, to)
              /\ to = "complete" => job' = [job EXCEPT ![i].file = TRUE]
              /\ to \in {"f_dlq", "x_dlq"} => AppendEventFor(i, "failed")
  <2>1. CASE ProveSucceeds(w)
    BY <2>1
  <2>2. CASE AuditFailed(w) \/ AuditExceeded(w)
    BY <2>2
  <2>3. CASE ~ProveSucceeds(w) /\ ~AuditFailed(w) /\ ~AuditExceeded(w)
    <3>1. \E to \in {"idle", "x_update", "start", "r_audit", "prove", "f_update", "c_purge", "c_audit",
                     "f_purge", "f_audit", "x_audit", "x_purge"} : Goto(w, to)
      BY <2>3, Zenon DEF EndTask
    <3> HIDE DEF TaskStep
    <3> QED BY <3>1
  <2> QED BY <2>1, <2>2, <2>3, Zenon
<1>8. wpayload' = wpayload \/ \E p : wpayload' = [wpayload EXCEPT ![w] = p]
  BY Zenon DEF EndTask
<1>9. wattempt' = wattempt \/ \E a : wattempt' = [wattempt EXCEPT ![w] = a]
  BY Zenon DEF EndTask
<1> QED BY <1>1, <1>2, <1>3, <1>4, <1>5, <1>6, <1>7, <1>8, <1>9, Zenon

\* A task moves its own slot only, and writes the rows and events of its own
\* run only.
LEMMA TaskStaysWithRun ==
    ASSUME PipeTyped, NEW w \in Workers, NEW i \in Ids, i = wid[w], TaskStep(w)
    PROVE  /\ \A v \in Workers \ {w} : /\ wpc'[v] = wpc[v] /\ wid'[v] = wid[v]
                                       /\ wpayload'[v] = wpayload[v] /\ wattempt'[v] = wattempt[v]
           /\ \A j \in Ids \ {i} : /\ job'[j] = job[j] /\ dlq'[j] = dlq[j] /\ trail'[j] = trail[j]
                                   /\ execs'[j] = execs[j]
<1>0. /\ wpc \in [Workers -> Busy \cup {"idle"}] /\ wid \in [Workers -> Ids \cup {NoRun}]
      /\ wpayload \in [Workers -> BOOLEAN] /\ wattempt \in [Workers -> Nat] /\ execs \in [Ids -> Nat]
  BY DEF PipeTyped, PipeTypeOK, WorkerTypeOK
<1>1. job \in [Ids -> Jobs] /\ dlq \in [Ids -> DeadLetters]
      /\ trail \in [Ids -> SUBSET (Statuses \cup {"rerun_triggered"})]
  BY DEF PipeTyped, PipeTypeOK, StoreTypeOK
<1>6. \A v \in Workers \ {w} : wpc'[v] = wpc[v]
  BY <1>0, TaskWrites DEF Goto
<1>7. \A v \in Workers \ {w} : wid'[v] = wid[v]
  BY <1>0, TaskWrites
<1>8. \A j \in Ids \ {i} : job'[j] = job[j]
  <2>1. CASE job' = job \/ job' = [job EXCEPT ![i].file = TRUE]
    BY <1>1, <2>1
  <2>2. CASE \E s \in {"running", "failed"} : UpdateStatusAttempt(i, s, wattempt[w])
    BY <1>1, <2>2 DEF UpdateStatusAttempt
  <2>3. CASE UpdateStatus(i, "completed")
    BY <1>1, <2>3 DEF UpdateStatus
  <2>4. CASE PurgeSealedJobPayload(i)
    BY <1>1, <2>4 DEF PurgeSealedJobPayload
  <2> QED BY <2>1, <2>2, <2>3, <2>4, TaskWrites, Zenon
<1>9. \A j \in Ids \ {i} : dlq'[j] = dlq[j]
  <2>1. CASE UpsertDeadLetterJob(i, wpayload[w])
    BY <1>1, <2>1 DEF UpsertDeadLetterJob
  <2> QED BY <2>1, TaskWrites, Zenon
<1>10. \A j \in Ids \ {i} : trail'[j] = trail[j]
  BY <1>1, TaskWrites DEF AppendEventFor
<1>11. \A j \in Ids \ {i} : execs'[j] = execs[j]
  BY <1>0, TaskWrites
<1>12. \A v \in Workers \ {w} : wpayload'[v] = wpayload[v]
  BY <1>0, TaskWrites
<1>13. \A v \in Workers \ {w} : wattempt'[v] = wattempt[v]
  BY <1>0, TaskWrites
<1> QED BY <1>6, <1>7, <1>8, <1>9, <1>10, <1>11, <1>12, <1>13, Zenon

\* A task that takes a step has a run.
LEMMA TaskHasRun ==
    ASSUME PipeTyped, NEW w \in Workers, TaskStep(w)
    PROVE  wid[w] \in Ids /\ wpc[w] \in Busy
<1>1. wpc[w] \in Busy
  BY Zenon DEF TaskStep, SkipJob, GetJob, StartRunning, AuditRunning, ProveSucceeds, ProveFails,
     MarkCompleted, PurgeCompleted, AuditCompleted, MarkFailed, PurgeFailed, AuditFailed,
     DeadLetterFailed, MarkExceeded, AuditExceeded, DeadLetterExceeded, PurgeExceeded, Busy,
     InTry, OutsideTry
<1> QED BY <1>1 DEF PipeTyped, PipeTypeOK, WorkerTypeOK

\* What a task does to the rows of its own run: it marks it completed only
\* from the point after the proof file is written, and dead-letters it only
\* from the points after the failure is audited.
LEMMA TaskRows ==
    ASSUME PipeTyped, NEW w \in Workers, NEW i \in Ids, i = wid[w], TaskStep(w)
    PROVE  /\ \/ job'[i].status = job[i].status
              \/ job'[i].status \in {"running", "failed"}
              \/ job'[i].status = "completed" /\ wpc[w] = "complete"
           /\ job[i].file => job'[i].file
           /\ trail[i] \subseteq trail'[i]
           /\ dlq'[i].rerun = dlq[i].rerun
           /\ dlq[i].status # "absent" => dlq'[i].status # "absent"
           /\ dlq'[i].status # "absent" => dlq[i].status # "absent" \/ wpc[w] \in {"f_dlq", "x_dlq"}
           /\ wpc'[w] = "complete" => job'[i].file /\ wid'[w] = i
           /\ wpc'[w] \in {"f_dlq", "x_dlq"} => "failed" \in trail'[i] /\ wid'[w] = i
<1>0. wpc \in [Workers -> Busy \cup {"idle"}] /\ wid \in [Workers -> Ids \cup {NoRun}]
  BY DEF PipeTyped, PipeTypeOK, WorkerTypeOK
<1>1. job \in [Ids -> Jobs] /\ dlq \in [Ids -> DeadLetters]
      /\ trail \in [Ids -> SUBSET (Statuses \cup {"rerun_triggered"})]
  BY DEF PipeTyped, PipeTypeOK, StoreTypeOK
<1>2. /\ \/ job'[i].status = job[i].status
         \/ job'[i].status \in {"running", "failed"}
         \/ job'[i].status = "completed" /\ wpc[w] = "complete"
      /\ job[i].file => job'[i].file
  <2>1. CASE job' = job
    BY <2>1
  <2>2. CASE \E s \in {"running", "failed"} : UpdateStatusAttempt(i, s, wattempt[w])
    BY <1>1, <2>2 DEF UpdateStatusAttempt, Jobs
  <2>3. CASE wpc[w] = "complete" /\ UpdateStatus(i, "completed")
    BY <1>1, <2>3 DEF UpdateStatus, Jobs
  <2>4. CASE PurgeSealedJobPayload(i)
    BY <1>1, <2>4 DEF PurgeSealedJobPayload, Jobs
  <2>5. CASE job' = [job EXCEPT ![i].file = TRUE]
    BY <1>1, <2>5 DEF Jobs
  <2> QED BY <2>1, <2>2, <2>3, <2>4, <2>5, TaskWrites, ZenonT(60)
<1>3. trail[i] \subseteq trail'[i]
  BY <1>1, TaskWrites DEF AppendEventFor
<1>4. /\ dlq'[i].rerun = dlq[i].rerun
      /\ dlq[i].status # "absent" => dlq'[i].status # "absent"
      /\ dlq'[i].status # "absent" => dlq[i].status # "absent" \/ wpc[w] \in {"f_dlq", "x_dlq"}
  <2>1. CASE dlq' = dlq
    BY <2>1
  <2>2. CASE wpc[w] \in {"f_dlq", "x_dlq"} /\ UpsertDeadLetterJob(i, wpayload[w])
    BY <1>1, <2>2 DEF UpsertDeadLetterJob, DeadLetters
  <2> QED BY <2>1, <2>2, TaskWrites, Zenon
<1>5. PICK to : /\ Goto(w, to)
                /\ to = "complete" => job' = [job EXCEPT ![i].file = TRUE]
                /\ to \in {"f_dlq", "x_dlq"} => AppendEventFor(i, "failed")
  BY TaskWrites, Zenon
<1>6. wpc'[w] = to
  BY <1>0, <1>5 DEF Goto
<1>7. wpc'[w] # "idle" => wid'[w] = i
  BY <1>0, TaskWrites DEF Goto
<1>8. to = "complete" => job'[i].file
  BY <1>1, <1>5 DEF Jobs
<1>9. to \in {"f_dlq", "x_dlq"} => "failed" \in trail'[i]
  BY <1>1, <1>5 DEF AppendEventFor
<1> QED BY <1>2, <1>3, <1>4, <1>6, <1>7, <1>8, <1>9

-----------------------------------------------------------------------------
\* Nothing that the tables and the chain hold of a run goes away.
RowsGrow ==
    \A j \in Ids :
        /\ job[j].status # "absent" => job'[j].status # "absent"
        /\ job[j].status # "absent" /\ job[j].file => job'[j].file
        /\ trail[j] \subseteq trail'[j]
        /\ dlq[j].status # "absent" => dlq'[j].status # "absent"

\* A step of others keeps the submissions in order.
LEMMA SubmissionsKept ==
    ASSUME SubmissionsInOrder, RowsGrow, spc' = spc,
           \A j \in Runs : /\ job[j].status = "absent" => job'[j].status = "absent"
                           /\ Sent(j)' => Sent(j)
    PROVE  SubmissionsInOrder'
<1> SUFFICES ASSUME NEW i \in Runs
             PROVE  /\ spc[i] = "create" => job'[i].status = "absent"
                    /\ spc[i] \in {"audit", "enqueue"} => job'[i].status # "absent"
                    /\ spc[i] = "enqueue" => "queued" \in trail'[i]
                    /\ spc[i] \in {"create", "audit", "enqueue"} => ~Sent(i)'
  BY DEF SubmissionsInOrder
<1>1. i \in Ids
  BY DEF Ids
<1> QED BY <1>1 DEF SubmissionsInOrder, RowsGrow

\* A step of others keeps a requeue in order.
LEMMA RequeueKept ==
    ASSUME NEW r \in Requeues, RequeueInOrder(r), ApiTypeOK, RowsGrow,
           rpc'[r] = rpc[r], rsource'[r] = rsource[r], rnew'[r] = rnew[r],
           \A n \in Reruns : n = rnew[r] /\ Sent(n)' /\ rpc[r] \in {"audit", "trigger", "enqueue"} => Sent(n)
    PROVE  RequeueInOrder(r)'
<1>1. /\ rpc'[r] \in {"create", "audit", "trigger", "enqueue", "mark"} => dlq'[rsource'[r]].status # "absent"
      /\ rpc'[r] \in {"enqueue", "mark"} => "rerun_triggered" \in trail'[rsource'[r]]
  <2>1. rpc[r] \in {"create", "audit", "trigger", "enqueue", "mark"} => rsource[r] \in Ids
    BY DEF ApiTypeOK
  <2> QED BY <2>1 DEF RequeueInOrder, RowsGrow
<1>2. CASE rpc[r] \in {"audit", "trigger", "enqueue", "mark"}
  <2>1. PICK n \in Reruns : n = rnew[r]
    BY <1>2 DEF RequeueInOrder
  <2>2. n \in Ids
    BY DEF Ids
  <2>3. job'[n].status # "absent"
    BY <1>2, <2>1, <2>2 DEF RequeueInOrder, RowsGrow
  <2>4. rpc[r] \in {"trigger", "enqueue", "mark"} => "queued" \in trail'[n]
    BY <2>1, <2>2 DEF RequeueInOrder, RowsGrow
  <2>5. rpc[r] \in {"audit", "trigger", "enqueue"} => ~Sent(n)
    BY <2>1, Zenon DEF RequeueInOrder
  <2>6. rpc[r] \in {"audit", "trigger", "enqueue"} => ~(Sent(rnew[r])')
    BY <2>1, <2>5 DEF Sent
  <2> QED BY <1>1, <2>1, <2>3, <2>4, <2>6 DEF RequeueInOrder
<1>3. CASE rpc[r] \notin {"audit", "trigger", "enqueue", "mark"}
  BY <1>1, <1>3 DEF RequeueInOrder
<1> QED BY <1>2, <1>3

\* A step of others keeps the requeues in order.
LEMMA RequeuesKept ==
    ASSUME RequeuesInOrder, OwnReruns, ApiTypeOK, RowsGrow,
           rpc' = rpc, rsource' = rsource, rnew' = rnew,
           \A j \in Reruns : Sent(j)' => Sent(j)
    PROVE  RequeuesInOrder' /\ OwnReruns'
<1>1. OwnReruns'
  BY DEF OwnReruns
<1>2. ASSUME NEW r \in Requeues PROVE RequeueInOrder(r)'
  BY RequeueKept DEF RequeuesInOrder
<1> QED BY <1>1, <1>2 DEF RequeuesInOrder

\* A step that sends no message keeps what the sent ones are backed by.
LEMMA SentKept ==
    ASSUME SentBacked, RowsGrow, \A j \in Ids : Sent(j)' => Sent(j),
           \A j \in Ids : execs'[j] = execs[j] \/ job[j].status # "absent"
    PROVE  SentBacked'
<1> SUFFICES ASSUME NEW i \in Ids
             PROVE  /\ Sent(i)' => job'[i].status # "absent" /\ "queued" \in trail'[i]
                    /\ job'[i].status = "absent" => execs'[i] = 0
  BY DEF SentBacked
<1> QED BY DEF SentBacked, RowsGrow

\* A step that moves no slot keeps the tasks in order.
LEMMA TasksKept ==
    ASSUME WorkerTypeOK, SentBacked, TasksInOrder, RowsGrow, wpc' = wpc, wid' = wid
    PROVE  TasksInOrder'
<1> SUFFICES ASSUME NEW w \in Workers, wpc[w] \in {"complete", "f_dlq", "x_dlq"}
             PROVE  /\ wpc[w] = "complete" => job'[wid[w]].file
                    /\ wpc[w] \in {"f_dlq", "x_dlq"} => "failed" \in trail'[wid[w]]
  BY DEF TasksInOrder
<1>1. PICK i \in Ids : i = wid[w]
  BY DEF WorkerTypeOK, Busy, InTry, OutsideTry
<1>2. job[i].status # "absent"
  BY <1>1 DEF SentBacked, Sent
<1> QED BY <1>1, <1>2 DEF TasksInOrder, RowsGrow

\* The rows of runs and dead letters stay backed when a step changes a status
\* only of a run that was audited, completes it only with its file and
\* dead-letters it only after its failure was audited.
LEMMA TablesKept ==
    ASSUME TablesAreBacked, dlq \in [Ids -> DeadLetters], RowsGrow,
           \A j \in Ids :
               /\ job'[j].status = job[j].status \/ job'[j].status = "queued" \/ "queued" \in trail[j]
               /\ job'[j].status = "completed" => job[j].status = "completed" \/ job'[j].file
               /\ dlq'[j].status # "absent" => dlq[j].status # "absent" \/ "failed" \in trail[j]
               /\ dlq'[j].rerun = dlq[j].rerun
    PROVE  TablesAreBacked'
<1> SUFFICES ASSUME NEW i \in Ids
             PROVE  /\ job'[i].status \notin {"absent", "queued"} => "queued" \in trail'[i]
                    /\ job'[i].status = "completed" => job'[i].file
                    /\ dlq'[i].status # "absent" => "failed" \in trail'[i]
                    /\ dlq'[i].rerun # NoRun =>
                           /\ job'[dlq'[i].rerun].status # "absent"
                           /\ "queued" \in trail'[dlq'[i].rerun]
                           /\ "rerun_triggered" \in trail'[i]
  BY DEF TablesAreBacked
<1>1. job'[i].status \notin {"absent", "queued"} => "queued" \in trail'[i]
  BY DEF TablesAreBacked, RowsGrow
<1>2. job'[i].status = "completed" => job'[i].file
  BY DEF TablesAreBacked, RowsGrow
<1>3. dlq'[i].status # "absent" => "failed" \in trail'[i]
  BY DEF TablesAreBacked, RowsGrow
<1>4. ASSUME dlq[i].rerun # NoRun
      PROVE  /\ job'[dlq[i].rerun].status # "absent"
             /\ "queued" \in trail'[dlq[i].rerun]
             /\ "rerun_triggered" \in trail'[i]
  <2>1. PICK n \in Ids : n = dlq[i].rerun
    BY <1>4 DEF DeadLetters
  <2>2. job[n].status # "absent" /\ "queued" \in trail[n] /\ "rerun_triggered" \in trail[i]
    BY <1>4, <2>1 DEF TablesAreBacked
  <2> QED BY <2>1, <2>2 DEF RowsGrow
<1> QED BY <1>1, <1>2, <1>3, <1>4

\* Every step of a task keeps what the tables say backed.
LEMMA TaskBacked ==
    ASSUME PipeTyped, Backed, NEW w \in Workers, TaskStep(w), UNCHANGED apiVars
    PROVE  Backed'
<1>0. StoreTypeOK /\ WorkerTypeOK /\ ApiTypeOK
  BY DEF PipeTyped, PipeTypeOK
<1>1. spc' = spc /\ rpc' = rpc /\ rsource' = rsource /\ rnew' = rnew
  BY Zenon DEF apiVars
<1>2. PICK i \in Ids : i = wid[w]
  BY TaskHasRun
<1>3. Sent(i) /\ job[i].status # "absent" /\ "queued" \in trail[i]
  BY <1>2 DEF Backed, SentBacked, Sent
<1>4. \A j \in Ids \ {i} : job'[j] = job[j] /\ dlq'[j] = dlq[j] /\ trail'[j] = trail[j] /\ execs'[j] = execs[j]
  BY <1>2, TaskStaysWithRun
<1>5. \A v \in Workers \ {w} : wpc'[v] = wpc[v] /\ wid'[v] = wid[v]
  BY <1>2, TaskStaysWithRun
<1>6. RowsGrow
  <2> SUFFICES ASSUME NEW j \in Ids
               PROVE  /\ job[j].status # "absent" => job'[j].status # "absent"
                      /\ job[j].status # "absent" /\ job[j].file => job'[j].file
                      /\ trail[j] \subseteq trail'[j]
                      /\ dlq[j].status # "absent" => dlq'[j].status # "absent"
    BY DEF RowsGrow
  <2>1. CASE j = i
    BY <1>2, <2>1, TaskRows
  <2>2. CASE j # i
    BY <1>4, <2>2
  <2> QED BY <2>1, <2>2
<1>7. ASSUME NEW j \in Ids, Sent(j)' PROVE Sent(j)
  <2>1. queue' = queue
    BY <1>2, TaskWrites
  <2>2. wid' = wid \/ wid' = [wid EXCEPT ![w] = NoRun]
    BY <1>2, TaskWrites
  <2>3. NoRun \notin Ids /\ wid \in [Workers -> Ids \cup {NoRun}]
    BY <1>0, StoreAssumption DEF WorkerTypeOK, Ids
  <2> QED BY <1>7, <2>1, <2>2, <2>3 DEF Sent
<1>8. ASSUME NEW j \in Ids, job[j].status = "absent" PROVE job'[j].status = "absent"
  BY <1>3, <1>4, <1>8
<1>9. SubmissionsInOrder'
  BY <1>1, <1>6, <1>7, <1>8, SubmissionsKept DEF Backed, Ids
<1>10. RequeuesInOrder' /\ OwnReruns'
  BY <1>0, <1>1, <1>6, <1>7, RequeuesKept DEF Backed, Ids
<1>11. SentBacked'
  BY <1>3, <1>4, <1>6, <1>7, SentKept DEF Backed
<1>12. TasksInOrder'
  <2> SUFFICES ASSUME NEW v \in Workers, wpc'[v] \in {"complete", "f_dlq", "x_dlq"}
               PROVE  /\ wpc'[v] = "complete" => job'[wid'[v]].file
                      /\ wpc'[v] \in {"f_dlq", "x_dlq"} => "failed" \in trail'[wid'[v]]
    BY DEF TasksInOrder
  <2>1. CASE v = w
    BY <1>2, <2>1, TaskRows
  <2>2. CASE v # w
    <3>1. wpc'[v] = wpc[v] /\ wid'[v] = wid[v]
      BY <1>5, <2>2
    <3>2. PICK j \in Ids : j = wid[v]
      BY <1>0, <3>1 DEF WorkerTypeOK, Busy, InTry, OutsideTry
    <3>3. job[j].status # "absent"
      BY <3>2 DEF Backed, SentBacked, Sent
    <3> QED BY <1>6, <3>1, <3>2, <3>3 DEF Backed, TasksInOrder, RowsGrow
  <2> QED BY <2>1, <2>2
<1>13. ASSUME NEW j \in Ids
       PROVE  /\ job'[j].status = job[j].status \/ "queued" \in trail[j]
              /\ job'[j].status = "completed" => job[j].status = "completed" \/ job'[j].file
              /\ dlq'[j].status # "absent" => dlq[j].status # "absent" \/ "failed" \in trail[j]
              /\ dlq'[j].rerun = dlq[j].rerun
  <2>1. CASE j = i
    <3>1. wpc[w] = "complete" => job[i].file
      BY <1>2 DEF Backed, TasksInOrder
    <3>2. wpc[w] \in {"f_dlq", "x_dlq"} => "failed" \in trail[i]
      BY <1>2 DEF Backed, TasksInOrder
    <3> QED BY <1>2, <1>3, <2>1, <3>1, <3>2, TaskRows
  <2>2. CASE j # i
    BY <1>4, <2>2
  <2> QED BY <2>1, <2>2
<1>14. TablesAreBacked'
  BY <1>0, <1>6, <1>13, TablesKept DEF Backed, StoreTypeOK
<1> QED BY <1>9, <1>10, <1>11, <1>12, <1>14 DEF Backed

\* A delivery, or a fault of a worker or the broker, changes no table, sends
\* no message for a run that had none, and moves a slot only to a point that
\* rests on nothing.
LEMMA WorkerMoves ==
    ASSUME PipeTyped,
           \/ \E w \in Workers : (\E i \in Ids : Deliver(w, i)) \/ WorkerFault(w)
           \/ BrokerRestart
    PROVE  /\ job' = job /\ dlq' = dlq /\ trail' = trail /\ execs' = execs
           /\ \A v \in Workers : \/ wpc'[v] = wpc[v] /\ wid'[v] = wid[v]
                                 \/ wpc'[v] \in {"idle", "get", "f_update"}
           /\ \A j \in Ids : Sent(j)' => Sent(j)
<1>0. /\ wpc \in [Workers -> Busy \cup {"idle"}] /\ wid \in [Workers -> Ids \cup {NoRun}]
      /\ \A w \in Workers : wpc[w] \in Busy => wid[w] \in Ids
      /\ queue \in [Ids -> Nat] /\ NoRun \notin Ids
  BY StoreAssumption DEF PipeTyped, PipeTypeOK, StoreTypeOK, WorkerTypeOK, Ids
<1>1. ASSUME NEW w \in Workers, NEW i \in Ids, Deliver(w, i)
      PROVE  /\ job' = job /\ dlq' = dlq /\ trail' = trail /\ execs' = execs
             /\ Goto(w, "get") /\ wid' = [wid EXCEPT ![w] = i]
             /\ queue[i] > 0 /\ queue' = [queue EXCEPT ![i] = @ - 1]
  BY <1>1, Zenon DEF Deliver
<1>2. ASSUME NEW w \in Workers, NEW i \in Ids, Deliver(w, i), NEW j \in Ids, Sent(j)' PROVE Sent(j)
  BY <1>0, <1>1, <1>2 DEF Sent
<1>3. ASSUME NEW w \in Workers, NEW i \in Ids, Deliver(w, i), NEW v \in Workers
      PROVE  (wpc'[v] = wpc[v] /\ wid'[v] = wid[v]) \/ wpc'[v] = "get"
  BY <1>0, <1>1, <1>3 DEF Goto
<1>4. ASSUME NEW w \in Workers, StepFails(w) \/ TimeLimitKill(w)
      PROVE  /\ job' = job /\ dlq' = dlq /\ trail' = trail /\ execs' = execs /\ queue' = queue
             /\ \/ Goto(w, "f_update") /\ wid' = wid
                \/ Goto(w, "idle") /\ wid' = [wid EXCEPT ![w] = NoRun]
  BY <1>4, Zenon DEF StepFails, TimeLimitKill, EndTask, storeVars
<1>5. ASSUME NEW w \in Workers, WorkerLost(w)
      PROVE  /\ job' = job /\ dlq' = dlq /\ trail' = trail /\ execs' = execs /\ wpc[w] \in Busy
             /\ queue' = [queue EXCEPT ![wid[w]] = @ + 1]
             /\ Goto(w, "idle") /\ wid' = [wid EXCEPT ![w] = NoRun]
  BY <1>5, Zenon DEF WorkerLost, EndTask, Enqueue
<1>6. ASSUME NEW w \in Workers, Redeliver(w)
      PROVE  /\ job' = job /\ dlq' = dlq /\ trail' = trail /\ execs' = execs /\ wpc[w] \in Busy
             /\ queue' = [queue EXCEPT ![wid[w]] = @ + 1]
             /\ wpc' = wpc /\ wid' = wid
  BY <1>6, Zenon DEF Redeliver, Enqueue, workerVars
<1>7. ASSUME BrokerRestart
      PROVE  /\ job' = job /\ dlq' = dlq /\ trail' = trail /\ execs' = execs
             /\ queue' = [i \in Ids |-> 0] /\ wpc' = wpc /\ wid' = wid
  BY <1>7, Zenon DEF BrokerRestart, workerVars
<1>8. ASSUME NEW w \in Workers, WorkerFault(w), NEW v \in Workers
      PROVE  (wpc'[v] = wpc[v] /\ wid'[v] = wid[v]) \/ wpc'[v] \in {"idle", "f_update"}
  BY <1>0, <1>4, <1>5, <1>6, <1>8 DEF WorkerFault, Goto
<1>9. ASSUME NEW w \in Workers, StepFails(w) \/ TimeLimitKill(w), NEW j \in Ids, Sent(j)' PROVE Sent(j)
  BY <1>0, <1>4, <1>9 DEF Sent
<1>10. ASSUME NEW w \in Workers, WorkerLost(w), NEW j \in Ids, Sent(j)' PROVE Sent(j)
  BY <1>0, <1>5, <1>10 DEF Sent
<1>11. ASSUME NEW w \in Workers, Redeliver(w), NEW j \in Ids, Sent(j)' PROVE Sent(j)
  BY <1>0, <1>6, <1>11 DEF Sent
<1>12. ASSUME BrokerRestart, NEW j \in Ids, Sent(j)' PROVE Sent(j)
  BY <1>0, <1>7, <1>12 DEF Sent
<1>13. CASE \E w \in Workers : \E i \in Ids : Deliver(w, i)
  BY <1>1, <1>2, <1>3, <1>13, Zenon
<1>14. CASE \E w \in Workers : WorkerFault(w)
  <2>1. PICK w \in Workers : WorkerFault(w)
    BY <1>14
  <2>2. job' = job /\ dlq' = dlq /\ trail' = trail /\ execs' = execs
    BY <1>4, <1>5, <1>6, <2>1, Zenon DEF WorkerFault
  <2>3. \A j \in Ids : Sent(j)' => Sent(j)
    BY <1>9, <1>10, <1>11, <2>1, Zenon DEF WorkerFault
  <2> QED BY <1>8, <2>1, <2>2, <2>3, Zenon
<1>15. CASE BrokerRestart
  BY <1>7, <1>12, <1>15, Zenon
<1> QED BY <1>13, <1>14, <1>15

\* Deliveries and faults keep what the tables say backed.
LEMMA MoveBacked ==
    ASSUME PipeTyped, Backed, UNCHANGED apiVars,
           \/ \E w \in Workers : (\E i \in Ids : Deliver(w, i)) \/ WorkerFault(w)
           \/ BrokerRestart
    PROVE  Backed'
<1>0. StoreTypeOK /\ WorkerTypeOK /\ ApiTypeOK
  BY DEF PipeTyped, PipeTypeOK
<1>1. spc' = spc /\ rpc' = rpc /\ rsource' = rsource /\ rnew' = rnew
  BY Zenon DEF apiVars
<1>2. job' = job /\ dlq' = dlq /\ trail' = trail /\ execs' = execs
  BY WorkerMoves, Zenon
<1>3. \A j \in Ids : Sent(j)' => Sent(j)
  BY WorkerMoves, Zenon
<1>4. RowsGrow
  BY <1>2 DEF RowsGrow
<1>5. SubmissionsInOrder'
  BY <1>1, <1>2, <1>3, <1>4, SubmissionsKept DEF Backed, Ids
<1>6. RequeuesInOrder' /\ OwnReruns'
  BY <1>0, <1>1, <1>3, <1>4, RequeuesKept DEF Backed, Ids
<1>7. SentBacked'
  BY <1>2, <1>3, <1>4, SentKept DEF Backed
<1>8. TasksInOrder'
  <2> SUFFICES ASSUME NEW v \in Workers
               PROVE  /\ wpc'[v] = "complete" => job'[wid'[v]].file
                      /\ wpc'[v] \in {"f_dlq", "x_dlq"} => "failed" \in trail'[wid'[v]]
    BY DEF TasksInOrder
  <2>1. CASE wpc'[v] = wpc[v] /\ wid'[v] = wid[v]
    BY <1>2, <2>1 DEF Backed, TasksInOrder
  <2>2. CASE wpc'[v] \in {"idle", "get", "f_update"}
    BY <2>2
  <2> QED BY <2>1, <2>2, WorkerMoves
<1>9. TablesAreBacked'
  BY <1>2 DEF Backed, TablesAreBacked
<1> QED BY <1>5, <1>6, <1>7, <1>8, <1>9 DEF Backed

\* A step of a submission keeps what the tables say backed: the job is
\* created, then audited, and only then sent.
LEMMA SubmitBacked ==
    ASSUME PipeTyped, Backed, NEW i \in Runs, SubmitStep(i) \/ SubmitFails(i),
           UNCHANGED <<workerVars, faults>>
    PROVE  Backed'
<1>0. StoreTypeOK /\ WorkerTypeOK /\ ApiTypeOK /\ i \in Ids /\ i \notin Reruns
  BY StoreAssumption DEF PipeTyped, PipeTypeOK, Ids
<1>1. wpc' = wpc /\ wid' = wid /\ execs' = execs
  BY Zenon DEF workerVars
<1>2. rpc' = rpc /\ rsource' = rsource /\ rnew' = rnew /\ dlq' = dlq
  BY Zenon DEF SubmitStep, SubmitCreate, SubmitAudit, SubmitEnqueue, SubmitFails, storeVars
<1>3. spc \in [Runs -> {"create", "audit", "enqueue", "done", "error"}] /\ job \in [Ids -> Jobs]
      /\ trail \in [Ids -> SUBSET (Statuses \cup {"rerun_triggered"})] /\ queue \in [Ids -> Nat]
      /\ dlq \in [Ids -> DeadLetters]
  BY <1>0 DEF StoreTypeOK, ApiTypeOK
<1>4. SubmissionsInOrder /\ RequeuesInOrder /\ OwnReruns /\ SentBacked /\ TasksInOrder /\ TablesAreBacked
  BY DEF Backed
<1>5. CASE SubmitCreate(i)
  <2>1. spc[i] = "create" /\ spc' = [spc EXCEPT ![i] = "audit"] /\ trail' = trail /\ queue' = queue
    BY <1>5, Zenon DEF SubmitCreate
  <2>2. job'[i].status = "queued" /\ \A j \in Ids \ {i} : job'[j] = job[j]
    BY <1>0, <1>3, <1>5 DEF SubmitCreate, CreateProofJob
  <2>3. \A j \in Ids : Sent(j)' <=> Sent(j)
    BY <1>1, <2>1 DEF Sent
  <2>4. job[i].status = "absent" /\ ~Sent(i)
    BY <1>4, <2>1 DEF SubmissionsInOrder
  <2>5. RowsGrow
    BY <1>2, <2>1, <2>2, <2>4 DEF RowsGrow
  <2>6. SubmissionsInOrder'
    <3> SUFFICES ASSUME NEW k \in Runs
                 PROVE  /\ spc'[k] = "create" => job'[k].status = "absent"
                        /\ spc'[k] \in {"audit", "enqueue"} => job'[k].status # "absent"
                        /\ spc'[k] = "enqueue" => "queued" \in trail'[k]
                        /\ spc'[k] \in {"create", "audit", "enqueue"} => ~Sent(k)'
      BY DEF SubmissionsInOrder
    <3>1. CASE k = i
      BY <1>0, <1>3, <2>1, <2>2, <2>3, <2>4, <3>1
    <3>2. CASE k # i
      <4>1. k \in Ids /\ spc'[k] = spc[k]
        BY <1>3, <2>1, <3>2 DEF Ids
      <4> QED BY <1>4, <2>1, <2>2, <2>3, <3>2, <4>1 DEF SubmissionsInOrder
    <3> QED BY <3>1, <3>2
  <2>7. RequeuesInOrder' /\ OwnReruns'
    BY <1>0, <1>2, <1>4, <2>3, <2>5, RequeuesKept DEF Ids
  <2>8. SentBacked' /\ TasksInOrder'
    BY <1>0, <1>1, <1>4, <2>3, <2>5, SentKept, TasksKept
  <2>9. TablesAreBacked'
    BY <1>2, <1>3, <1>4, <2>2, <2>5, TablesKept
  <2> QED BY <2>6, <2>7, <2>8, <2>9 DEF Backed
<1>6. CASE SubmitAudit(i)
  <2>1. spc[i] = "audit" /\ spc' = [spc EXCEPT ![i] = "enqueue"] /\ job' = job /\ queue' = queue
    BY <1>6, Zenon DEF SubmitAudit
  <2>2. "queued" \in trail'[i] /\ \A j \in Ids : trail[j] \subseteq trail'[j]
    BY <1>0, <1>3, <1>6 DEF SubmitAudit, AppendEventFor
  <2>3. \A j \in Ids : Sent(j)' <=> Sent(j)
    BY <1>1, <2>1 DEF Sent
  <2>4. job[i].status # "absent" /\ ~Sent(i)
    BY <1>4, <2>1 DEF SubmissionsInOrder
  <2>5. RowsGrow
    BY <1>2, <2>1, <2>2 DEF RowsGrow
  <2>6. SubmissionsInOrder'
    <3> SUFFICES ASSUME NEW k \in Runs
                 PROVE  /\ spc'[k] = "create" => job'[k].status = "absent"
                        /\ spc'[k] \in {"audit", "enqueue"} => job'[k].status # "absent"
                        /\ spc'[k] = "enqueue" => "queued" \in trail'[k]
                        /\ spc'[k] \in {"create", "audit", "enqueue"} => ~Sent(k)'
      BY DEF SubmissionsInOrder
    <3>1. CASE k = i
      BY <1>0, <1>3, <2>1, <2>2, <2>3, <2>4, <3>1
    <3>2. CASE k # i
      <4>1. k \in Ids /\ spc'[k] = spc[k]
        BY <1>3, <2>1, <3>2 DEF Ids
      <4> QED BY <1>4, <2>1, <2>2, <2>3, <4>1 DEF SubmissionsInOrder
    <3> QED BY <3>1, <3>2
  <2>7. RequeuesInOrder' /\ OwnReruns'
    BY <1>0, <1>2, <1>4, <2>3, <2>5, RequeuesKept DEF Ids
  <2>8. SentBacked' /\ TasksInOrder'
    BY <1>0, <1>1, <1>4, <2>3, <2>5, SentKept, TasksKept
  <2>9. TablesAreBacked'
    BY <1>2, <1>3, <1>4, <2>1, <2>5, TablesKept
  <2> QED BY <2>6, <2>7, <2>8, <2>9 DEF Backed
<1>7. CASE SubmitEnqueue(i)
  <2>1. spc[i] = "enqueue" /\ spc' = [spc EXCEPT ![i] = "done"] /\ job' = job /\ trail' = trail
        /\ queue' = [queue EXCEPT ![i] = @ + 1]
    BY <1>7, Zenon DEF SubmitEnqueue, Enqueue
  <2>2. \A j \in Ids \ {i} : Sent(j)' <=> Sent(j)
    BY <1>1, <1>3, <2>1 DEF Sent
  <2>3. job[i].status # "absent" /\ "queued" \in trail[i]
    BY <1>4, <2>1 DEF SubmissionsInOrder
  <2>4. RowsGrow
    BY <1>2, <2>1, Zenon DEF RowsGrow
  <2>5. SubmissionsInOrder'
    <3> SUFFICES ASSUME NEW k \in Runs
                 PROVE  /\ spc'[k] = "create" => job'[k].status = "absent"
                        /\ spc'[k] \in {"audit", "enqueue"} => job'[k].status # "absent"
                        /\ spc'[k] = "enqueue" => "queued" \in trail'[k]
                        /\ spc'[k] \in {"create", "audit", "enqueue"} => ~Sent(k)'
      BY Zenon DEF SubmissionsInOrder
    <3>1. CASE k = i
      BY <1>3, <2>1, <3>1
    <3>2. CASE k # i
      <4>1. k \in Ids /\ spc'[k] = spc[k]
        BY <1>3, <2>1, <3>2 DEF Ids
      <4> QED BY <1>4, <2>1, <2>2, <3>2, <4>1 DEF SubmissionsInOrder
    <3> QED BY <3>1, <3>2, Zenon
  <2>6. RequeuesInOrder' /\ OwnReruns'
    BY <1>0, <1>2, <1>4, <2>2, <2>4, RequeuesKept DEF Ids
  <2>7. SentBacked'
    BY <1>1, <1>4, <2>1, <2>2, <2>3 DEF SentBacked
  <2>8. TasksInOrder'
    BY <1>0, <1>1, <1>4, <2>4, TasksKept
  <2>9. TablesAreBacked'
    BY <1>2, <1>3, <1>4, <2>1, <2>4, TablesKept
  <2> QED BY <2>5, <2>6, <2>7, <2>8, <2>9 DEF Backed
<1>8. CASE SubmitFails(i)
  <2>1. spc' = [spc EXCEPT ![i] = "error"] /\ job' = job /\ trail' = trail /\ queue' = queue
    BY <1>8, Zenon DEF SubmitFails, storeVars
  <2>2. \A j \in Ids : Sent(j)' <=> Sent(j)
    BY <1>1, <2>1 DEF Sent
  <2>3. RowsGrow
    BY <1>2, <2>1, Zenon DEF RowsGrow
  <2>4. SubmissionsInOrder'
    <3> SUFFICES ASSUME NEW k \in Runs
                 PROVE  /\ spc'[k] = "create" => job'[k].status = "absent"
                        /\ spc'[k] \in {"audit", "enqueue"} => job'[k].status # "absent"
                        /\ spc'[k] = "enqueue" => "queued" \in trail'[k]
                        /\ spc'[k] \in {"create", "audit", "enqueue"} => ~Sent(k)'
      BY DEF SubmissionsInOrder
    <3>1. k \in Ids /\ (spc'[k] = spc[k] \/ spc'[k] = "error")
      BY <1>3, <2>1 DEF Ids
    <3> QED BY <1>4, <2>1, <2>2, <3>1 DEF SubmissionsInOrder
  <2>5. RequeuesInOrder' /\ OwnReruns'
    BY <1>0, <1>2, <1>4, <2>2, <2>3, RequeuesKept DEF Ids
  <2>6. SentBacked' /\ TasksInOrder'
    BY <1>0, <1>1, <1>4, <2>2, <2>3, SentKept, TasksKept
  <2>7. TablesAreBacked'
    BY <1>2, <1>3, <1>4, <2>1, <2>3, TablesKept
  <2> QED BY <2>4, <2>5, <2>6, <2>7 DEF Backed
<1> QED BY <1>5, <1>6, <1>7, <1>8 DEF SubmitStep

\* A step of a requeue keeps what the tables say backed: it works on a dead
\* letter that is there, and its rerun is created, audited, traced from its
\* source and sent before the dead letter names it.
LEMMA RequeueBacked ==
    ASSUME PipeTyped, Backed, NEW r \in Requeues, RequeueStep(r) \/ RequeueFails(r),
           UNCHANGED <<workerVars, faults>>
    PROVE  Backed'
<1>0. StoreTypeOK /\ WorkerTypeOK /\ ApiTypeOK
  BY DEF PipeTyped, PipeTypeOK
<1>1. wpc' = wpc /\ wid' = wid /\ execs' = execs
  BY Zenon DEF workerVars
<1>2. spc' = spc
  BY Zenon DEF RequeueStep, RequeueAlready, RequeueRefused, RequeueRead, RequeueCreate, RequeueAudit,
     RequeueTrigger, RequeueEnqueue, RequeueMark, RequeueFails
<1>3. /\ rpc \in [Requeues -> {"read", "create", "audit", "trigger", "enqueue", "mark"} \cup Ended]
      /\ rsource \in [Requeues -> Ids \cup {NoRun}] /\ rnew \in [Requeues -> Ids \cup {NoRun}]
      /\ job \in [Ids -> Jobs] /\ dlq \in [Ids -> DeadLetters] /\ queue \in [Ids -> Nat]
      /\ trail \in [Ids -> SUBSET (Statuses \cup {"rerun_triggered"})]
  BY <1>0 DEF StoreTypeOK, ApiTypeOK
<1>4. SubmissionsInOrder /\ RequeuesInOrder /\ OwnReruns /\ SentBacked /\ TasksInOrder /\ TablesAreBacked
  BY DEF Backed
<1>5. Reruns \subseteq Ids /\ Runs \subseteq Ids /\ Runs \cap Reruns = {}
  BY StoreAssumption DEF Ids
<1>6. RequeueInOrder(r)
  BY <1>4 DEF RequeuesInOrder
\* A request that ends, or only reads.
<1>7. ASSUME job' = job, dlq' = dlq, trail' = trail, queue' = queue,
             \A q \in Requeues \ {r} : rpc'[q] = rpc[q] /\ rsource'[q] = rsource[q] /\ rnew'[q] = rnew[q],
             rpc'[r] \notin {"audit", "trigger", "enqueue"}, RequeueInOrder(r)'
      PROVE  Backed'
  <2>1. RowsGrow
    BY <1>7 DEF RowsGrow
  <2>2. \A j \in Ids : Sent(j)' <=> Sent(j)
    BY <1>1, <1>7, Zenon DEF Sent
  <2>3. ASSUME NEW q \in Requeues, q # r PROVE RequeueInOrder(q)'
    BY <1>0, <1>4, <1>5, <1>7, <2>1, <2>2, <2>3, RequeueKept, Zenon DEF RequeuesInOrder
  <2>4. RequeuesInOrder'
    BY <1>7, <2>3, Zenon DEF RequeuesInOrder
  <2>5. OwnReruns'
    BY <1>4, <1>7, SMTT(40) DEF OwnReruns
  <2>6. SubmissionsInOrder'
    BY <1>2, <1>4, <1>5, <1>7, <2>1, <2>2, SubmissionsKept
  <2>7. SentBacked' /\ TasksInOrder'
    BY <1>0, <1>1, <1>4, <2>1, <2>2, SentKept, TasksKept
  <2>8. TablesAreBacked'
    BY <1>4, <1>7 DEF TablesAreBacked
  <2> QED BY <2>4, <2>5, <2>6, <2>7, <2>8 DEF Backed
<1>8. ASSUME NEW i \in Ids, RequeueAlready(r, i) \/ RequeueRefused(r, i) PROVE Backed'
  <2>1. job' = job /\ dlq' = dlq /\ trail' = trail /\ queue' = queue
    BY <1>8, Zenon DEF RequeueAlready, RequeueRefused, storeVars
  <2>2. /\ rpc'[r] \in {"already", "refused"}
        /\ \A q \in Requeues \ {r} : rpc'[q] = rpc[q] /\ rsource'[q] = rsource[q] /\ rnew'[q] = rnew[q]
    BY <1>3, <1>8 DEF RequeueAlready, RequeueRefused
  <2>3. RequeueInOrder(r)'
    BY <2>2, Zenon DEF RequeueInOrder
  <2> QED BY <1>7, <2>1, <2>2, <2>3
<1>9. ASSUME NEW i \in Ids, RequeueRead(r, i) PROVE Backed'
  <2>1. job' = job /\ dlq' = dlq /\ trail' = trail /\ queue' = queue /\ dlq[i].status # "absent"
    BY <1>9, Zenon DEF RequeueRead, storeVars
  <2>2. /\ rpc'[r] = "create" /\ rsource'[r] = i
        /\ \A q \in Requeues \ {r} : rpc'[q] = rpc[q] /\ rsource'[q] = rsource[q] /\ rnew'[q] = rnew[q]
    BY <1>3, <1>9 DEF RequeueRead
  <2>3. RequeueInOrder(r)'
    BY <2>1, <2>2, Zenon DEF RequeueInOrder
  <2> QED BY <1>7, <2>1, <2>2, <2>3, Zenon
<1>10. CASE RequeueFails(r)
  <2>1. job' = job /\ dlq' = dlq /\ trail' = trail /\ queue' = queue
    BY <1>10, Zenon DEF RequeueFails, storeVars
  <2>2. /\ rpc'[r] = "error"
        /\ \A q \in Requeues \ {r} : rpc'[q] = rpc[q] /\ rsource'[q] = rsource[q] /\ rnew'[q] = rnew[q]
    BY <1>3, <1>10 DEF RequeueFails
  <2>3. RequeueInOrder(r)'
    BY <2>2, Zenon DEF RequeueInOrder
  <2> QED BY <1>7, <2>1, <2>2, <2>3, Zenon
<1>11. ASSUME NEW new \in Reruns, RequeueCreate(r, new) PROVE Backed'
  <2>1. /\ rpc[r] = "create" /\ job[new].status = "absent"
        /\ dlq' = dlq /\ trail' = trail /\ queue' = queue /\ rsource' = rsource
    BY <1>11, Zenon DEF RequeueCreate
  <2>2. job'[new].status = "queued" /\ \A j \in Ids \ {new} : job'[j] = job[j]
    BY <1>3, <1>5, <1>11 DEF RequeueCreate, CreateProofJob
  <2>3. /\ rpc'[r] = "audit" /\ rnew'[r] = new
        /\ \A q \in Requeues \ {r} : rpc'[q] = rpc[q] /\ rnew'[q] = rnew[q]
    BY <1>3, <1>11 DEF RequeueCreate
  <2>4. \A j \in Ids : Sent(j)' <=> Sent(j)
    BY <1>1, <2>1, Zenon DEF Sent
  <2>5. RowsGrow
    BY <2>1, <2>2, Zenon DEF RowsGrow
  <2>6. ~Sent(new)
    BY <1>4, <1>5, <2>1, Zenon DEF SentBacked
  <2>7. RequeueInOrder(r)'
    <3>1. dlq'[rsource'[r]].status # "absent"
      BY <1>6, <2>1, Zenon DEF RequeueInOrder
    <3>2. ~(Sent(rnew[r])')
      <4>1. ~Sent(new)'
        BY <1>5, <2>4, <2>6
      <4> QED BY <2>3, <4>1, Zenon DEF Sent
    <3> QED BY <2>2, <2>3, <3>1, <3>2, Zenon DEF RequeueInOrder
  <2>8. ASSUME NEW q \in Requeues, q # r PROVE RequeueInOrder(q)'
    <3>1. RequeueInOrder(q) /\ rsource'[q] = rsource[q] /\ rpc'[q] = rpc[q] /\ rnew'[q] = rnew[q]
      BY <1>4, <2>1, <2>3, <2>8 DEF RequeuesInOrder
    <3> QED BY <1>0, <1>5, <2>4, <2>5, <3>1, RequeueKept
  <2>9. ASSUME NEW q \in Requeues, q # r, rpc[q] \in {"audit", "trigger", "enqueue"} PROVE rnew[q] # new
    BY <1>4, <2>1, <2>9, Zenon DEF RequeuesInOrder, RequeueInOrder
  <2>10. OwnReruns'
    BY <1>4, <2>3, <2>9 DEF OwnReruns
  <2>11. RequeuesInOrder'
    BY <2>7, <2>8 DEF RequeuesInOrder
  <2>12. SubmissionsInOrder'
    BY <1>2, <1>4, <1>5, <2>2, <2>4, <2>5, SubmissionsKept
  <2>13. SentBacked' /\ TasksInOrder'
    BY <1>0, <1>1, <1>4, <2>4, <2>5, SentKept, TasksKept
  <2>14. TablesAreBacked'
    BY <1>3, <1>4, <2>1, <2>2, <2>5, TablesKept, Zenon
  <2> QED BY <2>10, <2>11, <2>12, <2>13, <2>14 DEF Backed
<1>12. CASE RequeueAudit(r)
  <2>1. /\ rpc[r] = "audit" /\ job' = job /\ dlq' = dlq /\ queue' = queue
        /\ rsource' = rsource /\ rnew' = rnew
    BY <1>12, Zenon DEF RequeueAudit
  <2>2. PICK n \in Ids : n = rnew[r]
    BY <1>3, <1>5, <1>6, <2>1 DEF RequeueInOrder
  <2>3. "queued" \in trail'[n] /\ \A j \in Ids : trail[j] \subseteq trail'[j]
    BY <1>3, <1>12, <2>2 DEF RequeueAudit, AppendEventFor
  <2>4. rpc'[r] = "trigger" /\ \A q \in Requeues \ {r} : rpc'[q] = rpc[q]
    BY <1>3, <1>12 DEF RequeueAudit
  <2>5. \A j \in Ids : Sent(j)' <=> Sent(j)
    BY <1>1, <2>1, Zenon DEF Sent
  <2>6. RowsGrow
    BY <2>1, <2>3 DEF RowsGrow
  <2>7. RequeueInOrder(r)'
    <3>1. PICK m \in Reruns : m = rnew[r]
      BY <1>6, <2>1 DEF RequeueInOrder
    <3>2. ~Sent(m)
      BY <1>6, <2>1, <3>1, Zenon DEF RequeueInOrder
    <3>3. ~(Sent(rnew[r])')
      BY <2>1, <1>1, <3>1, <3>2, Zenon DEF Sent
    <3>4. dlq'[rsource'[r]].status # "absent" /\ job'[rnew'[r]].status # "absent"
      BY <1>6, <2>1, Zenon DEF RequeueInOrder
    <3> QED BY <2>1, <2>2, <2>3, <2>4, <3>1, <3>3, <3>4 DEF RequeueInOrder
  <2>8. ASSUME NEW q \in Requeues, q # r PROVE RequeueInOrder(q)'
    <3>1. RequeueInOrder(q) /\ rsource'[q] = rsource[q] /\ rpc'[q] = rpc[q] /\ rnew'[q] = rnew[q]
      BY <1>4, <2>1, <2>4, <2>8, Zenon DEF RequeuesInOrder
    <3> QED BY <1>0, <1>5, <2>5, <2>6, <3>1, RequeueKept, Zenon
  <2>9. RequeuesInOrder'
    BY <2>7, <2>8 DEF RequeuesInOrder
  <2>10. OwnReruns'
    BY <1>4, <2>1, <2>4, Zenon DEF OwnReruns
  <2>11. SubmissionsInOrder'
    BY <1>2, <1>4, <1>5, <2>1, <2>5, <2>6, SubmissionsKept, Zenon
  <2>12. SentBacked' /\ TasksInOrder'
    BY <1>0, <1>1, <1>4, <2>5, <2>6, SentKept, TasksKept
  <2>13. TablesAreBacked'
    BY <1>3, <1>4, <2>1, <2>6, TablesKept
  <2> QED BY <2>9, <2>10, <2>11, <2>12, <2>13 DEF Backed
<1>13. CASE RequeueTrigger(r)
  <2>1. /\ rpc[r] = "trigger" /\ job' = job /\ dlq' = dlq /\ queue' = queue
        /\ rsource' = rsource /\ rnew' = rnew
    BY <1>13, Zenon DEF RequeueTrigger
  <2>2. PICK n \in Ids : n = rsource[r]
    BY <1>0, <2>1 DEF ApiTypeOK
  <2>3. "rerun_triggered" \in trail'[n] /\ \A j \in Ids : trail[j] \subseteq trail'[j]
    BY <1>3, <1>13, <2>2 DEF RequeueTrigger, AppendEventFor
  <2>4. rpc'[r] = "enqueue" /\ \A q \in Requeues \ {r} : rpc'[q] = rpc[q]
    BY <1>3, <1>13 DEF RequeueTrigger
  <2>5. \A j \in Ids : Sent(j)' <=> Sent(j)
    BY <1>1, <2>1 DEF Sent
  <2>6. RowsGrow
    BY <2>1, <2>3, Zenon DEF RowsGrow
  <2>7. RequeueInOrder(r)'
    <3>1. PICK m \in Reruns : m = rnew[r]
      BY <1>6, <2>1, Zenon DEF RequeueInOrder
    <3>2. ~Sent(m)
      BY <1>6, <2>1, <3>1, Zenon DEF RequeueInOrder
    <3>3. ~(Sent(rnew[r])')
      BY <2>1, <1>1, <3>1, <3>2, Zenon DEF Sent
    <3>4. dlq'[rsource'[r]].status # "absent" /\ job'[rnew'[r]].status # "absent"
      BY <1>6, <2>1, Zenon DEF RequeueInOrder
    <3>5. "queued" \in trail'[rnew'[r]]
      BY <1>5, <1>6, <2>1, <2>3, <3>1, Zenon DEF RequeueInOrder
    <3> QED BY <2>1, <2>2, <2>3, <2>4, <3>1, <3>3, <3>4, <3>5 DEF RequeueInOrder
  <2>8. ASSUME NEW q \in Requeues, q # r PROVE RequeueInOrder(q)'
    <3>1. RequeueInOrder(q) /\ rsource'[q] = rsource[q] /\ rpc'[q] = rpc[q] /\ rnew'[q] = rnew[q]
      BY <1>4, <2>1, <2>4, <2>8, Zenon DEF RequeuesInOrder
    <3> QED BY <1>0, <1>5, <2>5, <2>6, <3>1, RequeueKept, Zenon
  <2>9. RequeuesInOrder'
    BY <2>7, <2>8 DEF RequeuesInOrder
  <2>10. OwnReruns'
    BY <1>4, <2>1, <2>4 DEF OwnReruns
  <2>11. SubmissionsInOrder'
    BY <1>2, <1>4, <1>5, <2>1, <2>5, <2>6, SubmissionsKept
  <2>12. SentBacked' /\ TasksInOrder'
    BY <1>0, <1>1, <1>4, <2>5, <2>6, SentKept, TasksKept
  <2>13. TablesAreBacked'
    BY <1>3, <1>4, <2>1, <2>6, TablesKept
  <2> QED BY <2>9, <2>10, <2>11, <2>12, <2>13 DEF Backed
<1>14. CASE RequeueEnqueue(r)
  <2>1. /\ rpc[r] = "enqueue" /\ job' = job /\ dlq' = dlq /\ trail' = trail
        /\ rsource' = rsource /\ rnew' = rnew /\ queue' = [queue EXCEPT ![rnew[r]] = @ + 1]
    BY <1>14, Zenon DEF RequeueEnqueue, Enqueue
  <2>2. PICK n \in Reruns : n = rnew[r]
    BY <1>6, <2>1, Zenon DEF RequeueInOrder
  <2>3. rpc'[r] = "mark" /\ \A q \in Requeues \ {r} : rpc'[q] = rpc[q]
    BY <1>3, <1>14 DEF RequeueEnqueue
  <2>4. \A j \in Ids \ {n} : Sent(j)' <=> Sent(j)
    BY <1>1, <1>3, <2>1, <2>2 DEF Sent
  <2>5. RowsGrow
    BY <2>1 DEF RowsGrow
  <2>6. job[n].status # "absent" /\ "queued" \in trail[n]
    BY <1>6, <2>1, <2>2, Zenon DEF RequeueInOrder
  <2>7. RequeueInOrder(r)'
    BY <1>6, <2>1, <2>3, Zenon DEF RequeueInOrder
  <2>8. ASSUME NEW q \in Requeues, q # r PROVE RequeueInOrder(q)'
    <3>1. RequeueInOrder(q) /\ rsource'[q] = rsource[q] /\ rpc'[q] = rpc[q] /\ rnew'[q] = rnew[q]
      BY <1>4, <2>1, <2>3, <2>8, Zenon DEF RequeuesInOrder
    <3>2. rpc[q] \in {"audit", "trigger", "enqueue"} => rnew[q] # n
      BY <1>4, <2>1, <2>2, <2>8 DEF OwnReruns
    <3> QED BY <1>0, <1>5, <2>4, <2>5, <3>1, <3>2, RequeueKept, Zenon
  <2>9. RequeuesInOrder'
    BY <2>7, <2>8 DEF RequeuesInOrder
  <2>10. OwnReruns'
    BY <1>4, <2>1, <2>3, Zenon DEF OwnReruns
  <2>11. SubmissionsInOrder'
    BY <1>2, <1>4, <1>5, <2>1, <2>2, <2>4, <2>5, SubmissionsKept, Zenon
  <2>12. SentBacked'
    BY <1>1, <1>4, <2>1, <2>4, <2>6 DEF SentBacked
  <2>13. TasksInOrder'
    BY <1>0, <1>1, <1>4, <2>5, TasksKept
  <2>14. TablesAreBacked'
    BY <1>4, <2>1 DEF TablesAreBacked
  <2> QED BY <2>9, <2>10, <2>11, <2>12, <2>13, <2>14 DEF Backed
<1>15. CASE RequeueMark(r)
  <2>1. /\ rpc[r] = "mark" /\ job' = job /\ trail' = trail /\ queue' = queue
        /\ rsource' = rsource /\ rnew' = rnew
    BY <1>15, Zenon DEF RequeueMark
  <2>2. PICK n \in Reruns : n = rnew[r]
    BY <1>6, <2>1, Zenon DEF RequeueInOrder
  <2>3. rpc'[r] = "done" /\ \A q \in Requeues \ {r} : rpc'[q] = rpc[q]
    BY <1>3, <1>15 DEF RequeueMark
  <2>4. PICK i \in Ids : i = rsource[r]
    BY <1>0, <2>1 DEF ApiTypeOK
  <2>5. /\ dlq'[i].status = "requeued" /\ dlq'[i].rerun = n
        /\ \A j \in Ids \ {i} : dlq'[j] = dlq[j]
    BY <1>3, <1>15, <2>2, <2>4 DEF RequeueMark, MarkDeadLetterJobRequeued, DeadLetters
  <2>6. /\ dlq[i].status # "absent" /\ "rerun_triggered" \in trail[i]
        /\ job[n].status # "absent" /\ "queued" \in trail[n]
    BY <1>6, <2>1, <2>2, <2>4, Zenon DEF RequeueInOrder
  <2>7. \A j \in Ids : Sent(j)' <=> Sent(j)
    BY <1>1, <2>1, Zenon DEF Sent
  <2>8. RowsGrow
    BY <2>1, <2>5, Zenon DEF RowsGrow
  <2>9. RequeueInOrder(r)'
    <3>1. dlq'[rsource'[r]].status # "absent"
      BY <2>1, <2>4, <2>5, Zenon
    <3> QED BY <2>3, <3>1, Zenon DEF RequeueInOrder
  <2>10. ASSUME NEW q \in Requeues, q # r PROVE RequeueInOrder(q)'
    <3>1. RequeueInOrder(q) /\ rsource'[q] = rsource[q] /\ rpc'[q] = rpc[q] /\ rnew'[q] = rnew[q]
      BY <1>4, <2>1, <2>3, <2>10, Zenon DEF RequeuesInOrder
    <3> QED BY <1>0, <1>5, <2>7, <2>8, <3>1, RequeueKept, Zenon
  <2>11. RequeuesInOrder'
    BY <2>9, <2>10 DEF RequeuesInOrder
  <2>12. OwnReruns'
    BY <1>4, <2>1, <2>3 DEF OwnReruns
  <2>13. SubmissionsInOrder'
    BY <1>2, <1>4, <1>5, <2>1, <2>7, <2>8, SubmissionsKept
  <2>14. SentBacked' /\ TasksInOrder'
    BY <1>0, <1>1, <1>4, <2>7, <2>8, SentKept, TasksKept
  <2>15. TablesAreBacked'
    <3> SUFFICES ASSUME NEW j \in Ids
                 PROVE  /\ job'[j].status \notin {"absent", "queued"} => "queued" \in trail'[j]
                        /\ job'[j].status = "completed" => job'[j].file
                        /\ dlq'[j].status # "absent" => "failed" \in trail'[j]
                        /\ dlq'[j].rerun # NoRun =>
                               /\ job'[dlq'[j].rerun].status # "absent"
                               /\ "queued" \in trail'[dlq'[j].rerun]
                               /\ "rerun_triggered" \in trail'[j]
      BY Zenon DEF TablesAreBacked
    <3>1. CASE j = i
      BY <1>4, <2>1, <2>5, <2>6, <3>1, Zenon DEF TablesAreBacked
    <3>2. CASE j # i
      BY <1>4, <2>1, <2>5, <3>2, Zenon DEF TablesAreBacked
    <3> QED BY <3>1, <3>2, Zenon
  <2> QED BY <2>11, <2>12, <2>13, <2>14, <2>15 DEF Backed
<1> QED BY <1>8, <1>9, <1>10, <1>11, <1>12, <1>13, <1>14, <1>15, Zenon DEF RequeueStep

\* Every step keeps what the tables say backed by what was written before,
\* with redelivery, lost and killed workers, failing calls and broker restarts.
LEMMA BackedStep == PipeTyped /\ Backed /\ [PipeNext]_pipeVars => Backed'
<1> SUFFICES ASSUME PipeTyped, Backed, [PipeNext]_pipeVars PROVE Backed'
  OBVIOUS
<1>1. CASE ApiStep /\ UNCHANGED <<workerVars, faults>>
  BY <1>1, SubmitBacked, RequeueBacked, Zenon DEF ApiStep
<1>2. ASSUME NEW w \in Workers, TaskStep(w), UNCHANGED apiVars PROVE Backed'
  BY <1>2, TaskBacked
<1>3. CASE /\ \/ \E w \in Workers : (\E i \in Ids : Deliver(w, i)) \/ WorkerFault(w)
              \/ BrokerRestart
           /\ UNCHANGED apiVars
  BY <1>3, MoveBacked, Zenon
<1>4. CASE UNCHANGED pipeVars
  <2>1. /\ job' = job /\ dlq' = dlq /\ trail' = trail /\ queue' = queue /\ wpc' = wpc /\ wid' = wid
        /\ execs' = execs /\ spc' = spc /\ rpc' = rpc /\ rsource' = rsource /\ rnew' = rnew
    BY <1>4, Zenon DEF pipeVars, storeVars, workerVars, apiVars
  <2> QED BY <2>1, Zenon DEF Backed, SubmissionsInOrder, RequeuesInOrder, RequeueInOrder, OwnReruns, SentBacked,
             Sent, TasksInOrder, TablesAreBacked
<1> QED BY <1>1, <1>2, <1>3, <1>4, Zenon DEF PipeNext

-----------------------------------------------------------------------------
\* Empty tables, an empty broker and free slots satisfy the invariant.
LEMMA TablesInit == PipeInit => PipeTyped /\ Backed
<1> SUFFICES ASSUME PipeInit PROVE PipeTyped /\ Backed
  OBVIOUS
<1> USE StoreAssumption DEF PipeInit, StoreInit, WorkerInit, ApiInit, NoJob, NoDeadLetter, NoFaults
<1>1. PipeTyped
  BY Zenon DEF PipeTyped, PipeTypeOK, StoreTypeOK, WorkerTypeOK, ApiTypeOK, SlotsFree, Ids, Jobs, DeadLetters,
     Statuses, Busy, InTry, OutsideTry, Ended
<1>2. /\ \A i \in Ids : queue[i] = 0 /\ job[i].status = "absent" /\ execs[i] = 0
      /\ \A i \in Ids : dlq[i].status = "absent" /\ dlq[i].rerun = NoRun
      /\ \A w \in Workers : wpc[w] = "idle" /\ wid[w] = NoRun
      /\ \A i \in Runs : spc[i] = "create"
      /\ \A r \in Requeues : rpc[r] = "read"
  BY Zenon
<1> QED
  <2> HIDE StoreAssumption DEF PipeInit, StoreInit, WorkerInit, ApiInit, NoJob, NoDeadLetter, NoFaults
  <2>1. \A i \in Ids : ~Sent(i)
    <3> SUFFICES ASSUME NEW i \in Ids PROVE ~(queue[i] > 0) /\ \A w \in Workers : wid[w] # i
      BY Zenon DEF Sent
    <3>1. i # NoRun
      BY StoreAssumption, Zenon DEF Ids
    <3>2. queue[i] = 0 /\ \A w \in Workers : wid[w] = NoRun
      BY <1>2, Zenon
    <3>3. ~(queue[i] > 0)
      BY <3>2, SMT
    <3> QED BY <3>1, <3>2, <3>3, Zenon
  <2>2. SubmissionsInOrder
    <3>1. \A i \in Runs : i \in Ids
      BY Zenon DEF Ids
    <3> QED BY <1>2, <2>1, <3>1 DEF SubmissionsInOrder
  <2>3. RequeuesInOrder /\ OwnReruns
    BY <1>2, Zenon DEF RequeuesInOrder, RequeueInOrder, OwnReruns
  <2>4. SentBacked /\ TablesAreBacked
    <3>1. SentBacked
      BY <1>2, <2>1, Zenon DEF SentBacked
    <3>2. TablesAreBacked
      BY <1>2 DEF TablesAreBacked
    <3> QED BY <3>1, <3>2
  <2>5. TasksInOrder
    BY <1>2 DEF TasksInOrder
  <2> QED BY <1>1, <2>2, <2>3, <2>4, <2>5 DEF Backed

\* The inductive invariant holds in every reachable state.
LEMMA TablesInvariant == PipeSpec => [](PipeTyped /\ Backed)
<1>1. PipeTyped /\ Backed /\ [PipeNext]_pipeVars => PipeTyped' /\ Backed'
  BY TypedStep, BackedStep
<1> QED BY TablesInit, <1>1, PTL DEF PipeSpec

\* The pipeline's state keeps its types.
THEOREM PipelineTyped == PipeSpec => []PipeTypeOK
<1>1. PipeTyped => PipeTypeOK
  BY DEF PipeTyped
<1> QED BY <1>1, TablesInvariant, PTL

\* Whatever fails, restarts or is delivered twice, what proof_jobs and
\* dead_letter_jobs say was written to the chain and to disk before.
THEOREM TablesBacked == PipeSpec => []TablesAreBacked
<1>1. Backed => TablesAreBacked
  BY DEF Backed
<1> QED BY <1>1, TablesInvariant, PTL

=============================================================================
