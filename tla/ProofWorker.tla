---------------------------- MODULE ProofWorker -----------------------------
(***************************************************************************)
(* The Celery worker: _process_proof_job_async (worker.py), one action per  *)
(* await that changes shared state, in the order of the code, and what      *)
(* Celery with the settings of vellum_core/celery_app.py does to a task:    *)
(* late acknowledgement, a lost worker's message handed out again, a task   *)
(* over its hard time limit killed and acknowledged, a task that raises     *)
(* acknowledged.  The broker is Redis without persistence: a message that   *)
(* stays unacknowledged for the visibility timeout is handed out again      *)
(* while its first delivery may still run, and a restart loses the queue.   *)
(***************************************************************************)
EXTENDS JobStore

CONSTANTS Workers,         \* worker task slots
          MaxLost,         \* bound: worker processes lost
          MaxKilled,       \* bound: tasks killed at their time limit
          MaxErrors,       \* bound: database, Vault or broker calls that raise
          MaxRedelivered,  \* bound: messages handed out twice
          MaxWiped         \* bound: broker restarts

ASSUME WorkerAssumption ==
    {MaxLost, MaxKilled, MaxErrors, MaxRedelivered, MaxWiped} \subseteq Nat

VARIABLES
    wpc,       \* wpc[w]: the point of the task that slot w has reached
    wid,       \* wid[w]: the run of the task
    wpayload,  \* wpayload[w]: the in-memory job row has a sealed payload
    wattempt,  \* wattempt[w]: attempt_count of the task
    execs,     \* history: times a task began to process run i
    faults     \* faults that have happened, by kind

workerVars == <<wpc, wid, wpayload, wattempt, execs>>

NoFaults == [lost |-> 0, killed |-> 0, errors |-> 0, redelivered |-> 0, wiped |-> 0]

\* The try block, whose exceptions lead to the failure handler.
InTry == {"prove", "complete", "c_purge", "c_audit"}

\* Outside it an exception ends the task.
OutsideTry == {"get", "start", "r_audit", "x_update", "x_audit", "x_dlq", "x_purge",
               "f_update", "f_purge", "f_audit", "f_dlq"}

Busy == InTry \cup OutsideTry

WorkerInit ==
    /\ wpc = [w \in Workers |-> "idle"]
    /\ wid = [w \in Workers |-> NoRun]
    /\ wpayload = [w \in Workers |-> FALSE]
    /\ wattempt = [w \in Workers |-> 0]
    /\ execs = [i \in Ids |-> 0]
    /\ faults = NoFaults

-----------------------------------------------------------------------------
Goto(w, to) == wpc' = [wpc EXCEPT ![w] = to]

\* The task ends and its message is acknowledged.
EndTask(w) ==
    /\ Goto(w, "idle")
    /\ wid' = [wid EXCEPT ![w] = NoRun]
    /\ wpayload' = [wpayload EXCEPT ![w] = FALSE]
    /\ wattempt' = [wattempt EXCEPT ![w] = 0]

\* Mutant of Deliver: a message that is not there is taken off the queue.
Deliver_Twice(w, i) ==
    /\ wpc[w] = "idle"
    /\ job[i].status \in {"queued", "running"}
    /\ queue' = [queue EXCEPT ![i] = @ - 1]
    /\ Goto(w, "get")
    /\ wid' = [wid EXCEPT ![w] = i]
    /\ UNCHANGED <<job, dlq, trail, wpayload, wattempt, execs, faults>>

\* Deliver: the broker hands a waiting message to a free slot.
Deliver(w, i) ==
    /\ wpc[w] = "idle"
    /\ queue[i] > 0
    /\ queue' = [queue EXCEPT ![i] = @ - 1]
    /\ Goto(w, "get")
    /\ wid' = [wid EXCEPT ![w] = i]
    /\ UNCHANGED <<job, dlq, trail, wpayload, wattempt, execs, faults>>

\* Mutant of SkipJob: the attempts are counted before the status is looked at.
SkipJob_CountFirst(w) ==
    LET row == job[wid[w]] IN
    /\ wpc[w] = "get"
    /\ row.status \notin {"queued", "running"}
    /\ row.attempts + 1 > MaxAttempts
    /\ wpayload' = [wpayload EXCEPT ![w] = row.payload]
    /\ wattempt' = [wattempt EXCEPT ![w] = row.attempts + 1]
    /\ Goto(w, "x_update")
    /\ UNCHANGED <<storeVars, wid, execs, faults>>

\* get_proof_job finds a run that is neither queued nor running: skipped.
SkipJob(w) ==
    /\ wpc[w] = "get"
    /\ job[wid[w]].status \notin {"queued", "running"}
    /\ EndTask(w)
    /\ UNCHANGED <<storeVars, execs, faults>>

\* Mutant of GetJob: off by one in attempt_count > max_attempts.
GetJob_OneMore(w) ==
    LET row == job[wid[w]] IN
    /\ wpc[w] = "get"
    /\ row.status \in {"queued", "running"}
    /\ wpayload' = [wpayload EXCEPT ![w] = row.payload]
    /\ wattempt' = [wattempt EXCEPT ![w] = row.attempts + 1]
    /\ Goto(w, IF row.attempts > MaxAttempts THEN "x_update" ELSE "start")
    /\ UNCHANGED <<storeVars, wid, execs, faults>>

\* get_proof_job and next_attempt_metadata.
GetJob(w) ==
    LET row == job[wid[w]] IN
    /\ wpc[w] = "get"
    /\ row.status \in {"queued", "running"}
    /\ wpayload' = [wpayload EXCEPT ![w] = row.payload]
    /\ wattempt' = [wattempt EXCEPT ![w] = row.attempts + 1]
    /\ Goto(w, IF row.attempts + 1 > MaxAttempts THEN "x_update" ELSE "start")
    /\ UNCHANGED <<storeVars, wid, execs, faults>>

\* The row is marked running, and the task goes on with the updated row.
StartRunning(w) ==
    /\ wpc[w] = "start"
    /\ UpdateStatusAttempt(wid[w], "running", wattempt[w])
    /\ wpayload' = [wpayload EXCEPT ![w] = job[wid[w]].payload]
    /\ execs' = [execs EXCEPT ![wid[w]] = @ + 1]
    /\ Goto(w, "r_audit")
    /\ UNCHANGED <<dlq, trail, queue, wid, wattempt, faults>>

AuditRunning(w) ==
    /\ wpc[w] = "r_audit"
    /\ AppendEventFor(wid[w], "running")
    /\ Goto(w, "prove")
    /\ UNCHANGED <<job, dlq, queue, wid, wpayload, wattempt, execs, faults>>

\* The payload is unsealed and validated, the proof generated, verified and
\* compared with the reference, and the proof file written.
ProveSucceeds(w) ==
    /\ wpc[w] = "prove"
    /\ wpayload[w]
    /\ job' = [job EXCEPT ![wid[w]].file = TRUE]
    /\ Goto(w, "complete")
    /\ UNCHANGED <<dlq, trail, queue, wid, wpayload, wattempt, execs, faults>>

\* Something in that sequence raises: a payload that is missing or does not
\* open, an input outside the schema, a prover or verifier that fails or
\* runs over the soft time limit, two tracks that disagree.
ProveFails(w) ==
    /\ wpc[w] = "prove"
    /\ Goto(w, "f_update")
    /\ UNCHANGED <<storeVars, wid, wpayload, wattempt, execs, faults>>

MarkCompleted(w) ==
    /\ wpc[w] = "complete"
    /\ UpdateStatus(wid[w], "completed")
    /\ Goto(w, "c_purge")
    /\ UNCHANGED <<dlq, trail, queue, wid, wpayload, wattempt, execs, faults>>

PurgeCompleted(w) ==
    /\ wpc[w] = "c_purge"
    /\ PurgeSealedJobPayload(wid[w])
    /\ Goto(w, "c_audit")
    /\ UNCHANGED <<dlq, trail, queue, wid, wpayload, wattempt, execs, faults>>

\* Mutant of AuditCompleted: the event is not written.
AuditCompleted_Silent(w) ==
    /\ wpc[w] = "c_audit"
    /\ EndTask(w)
    /\ UNCHANGED <<storeVars, execs, faults>>

AuditCompleted(w) ==
    /\ wpc[w] = "c_audit"
    /\ AppendEventFor(wid[w], "completed")
    /\ EndTask(w)
    /\ UNCHANGED <<job, dlq, queue, execs, faults>>

\* The two except branches write the same things in the same order.
MarkFailed(w) ==
    /\ wpc[w] = "f_update"
    /\ UpdateStatusAttempt(wid[w], "failed", wattempt[w])
    /\ Goto(w, "f_purge")
    /\ UNCHANGED <<dlq, trail, queue, wid, wpayload, wattempt, execs, faults>>

PurgeFailed(w) ==
    /\ wpc[w] = "f_purge"
    /\ PurgeSealedJobPayload(wid[w])
    /\ Goto(w, "f_audit")
    /\ UNCHANGED <<dlq, trail, queue, wid, wpayload, wattempt, execs, faults>>

AuditFailed(w) ==
    /\ wpc[w] = "f_audit"
    /\ AppendEventFor(wid[w], "failed")
    /\ Goto(w, "f_dlq")
    /\ UNCHANGED <<job, dlq, queue, wid, wpayload, wattempt, execs, faults>>

\* Mutant of DeadLetterFailed: the payload is taken from the purged row.
DeadLetterFailed_FromRow(w) ==
    /\ wpc[w] = "f_dlq"
    /\ UpsertDeadLetterJob(wid[w], job[wid[w]].payload)
    /\ EndTask(w)
    /\ UNCHANGED <<job, trail, queue, execs, faults>>

\* _record_dead_letter_job with the payload of the in-memory row; the task
\* raises, which acknowledges it.
DeadLetterFailed(w) ==
    /\ wpc[w] = "f_dlq"
    /\ UpsertDeadLetterJob(wid[w], wpayload[w])
    /\ EndTask(w)
    /\ UNCHANGED <<job, trail, queue, execs, faults>>

\* The branch for exhausted attempts: here the purge comes last.
MarkExceeded(w) ==
    /\ wpc[w] = "x_update"
    /\ UpdateStatusAttempt(wid[w], "failed", wattempt[w])
    /\ Goto(w, "x_audit")
    /\ UNCHANGED <<dlq, trail, queue, wid, wpayload, wattempt, execs, faults>>

AuditExceeded(w) ==
    /\ wpc[w] = "x_audit"
    /\ AppendEventFor(wid[w], "failed")
    /\ Goto(w, "x_dlq")
    /\ UNCHANGED <<job, dlq, queue, wid, wpayload, wattempt, execs, faults>>

DeadLetterExceeded(w) ==
    /\ wpc[w] = "x_dlq"
    /\ UpsertDeadLetterJob(wid[w], wpayload[w])
    /\ Goto(w, "x_purge")
    /\ UNCHANGED <<job, trail, queue, wid, wpayload, wattempt, execs, faults>>

PurgeExceeded(w) ==
    /\ wpc[w] = "x_purge"
    /\ PurgeSealedJobPayload(wid[w])
    /\ EndTask(w)
    /\ UNCHANGED <<dlq, trail, queue, execs, faults>>

-----------------------------------------------------------------------------
\* A step raises before it has an effect.  Inside the try block the failure
\* handler runs; anywhere else the task raises and is acknowledged.
StepFails(w) ==
    /\ faults.errors < MaxErrors
    /\ faults' = [faults EXCEPT !.errors = @ + 1]
    /\ \/ /\ wpc[w] \in InTry \ {"prove"}
          /\ Goto(w, "f_update")
          /\ UNCHANGED <<wid, wpayload, wattempt>>
       \/ /\ wpc[w] \in OutsideTry
          /\ EndTask(w)
    /\ UNCHANGED <<storeVars, execs>>

\* Mutant of WorkerLost: acknowledged on delivery, the message is gone.
WorkerLost_AckEarly(w) ==
    /\ faults.lost < MaxLost
    /\ faults' = [faults EXCEPT !.lost = @ + 1]
    /\ wpc[w] \in Busy
    /\ EndTask(w)
    /\ UNCHANGED <<storeVars, execs>>

\* The worker process dies: the message goes back to the queue (also after a
\* broker restart, which is more than Celery does in that case).
WorkerLost(w) ==
    /\ faults.lost < MaxLost
    /\ faults' = [faults EXCEPT !.lost = @ + 1]
    /\ wpc[w] \in Busy
    /\ Enqueue(wid[w])
    /\ EndTask(w)
    /\ UNCHANGED <<job, dlq, trail, execs>>

\* The hard time limit, or a soft one whose signal interrupts the event loop
\* instead of the coroutine: the task is gone and its message acknowledged.
TimeLimitKill(w) ==
    /\ faults.killed < MaxKilled
    /\ faults' = [faults EXCEPT !.killed = @ + 1]
    /\ wpc[w] \in Busy
    /\ EndTask(w)
    /\ UNCHANGED <<storeVars, execs>>

\* The visibility timeout passes before the task is acknowledged.
Redeliver(w) ==
    /\ faults.redelivered < MaxRedelivered
    /\ faults' = [faults EXCEPT !.redelivered = @ + 1]
    /\ wpc[w] \in Busy
    /\ Enqueue(wid[w])
    /\ UNCHANGED <<job, dlq, trail, workerVars>>

\* Redis restarts empty.
BrokerRestart ==
    /\ faults.wiped < MaxWiped
    /\ faults' = [faults EXCEPT !.wiped = @ + 1]
    /\ queue' = [i \in Ids |-> 0]
    /\ UNCHANGED <<job, dlq, trail, workerVars>>

\* The steps a task takes by itself.
TaskStep(w) ==
    \/ SkipJob(w) \/ GetJob(w) \/ StartRunning(w) \/ AuditRunning(w)
    \/ ProveSucceeds(w) \/ ProveFails(w)
    \/ MarkCompleted(w) \/ PurgeCompleted(w) \/ AuditCompleted(w)
    \/ MarkFailed(w) \/ PurgeFailed(w) \/ AuditFailed(w) \/ DeadLetterFailed(w)
    \/ MarkExceeded(w) \/ AuditExceeded(w) \/ DeadLetterExceeded(w) \/ PurgeExceeded(w)

WorkerFault(w) ==
    StepFails(w) \/ WorkerLost(w) \/ TimeLimitKill(w) \/ Redeliver(w)

WorkerTypeOK ==
    /\ wpc \in [Workers -> Busy \cup {"idle"}]
    /\ wid \in [Workers -> Ids \cup {NoRun}]
    /\ \A w \in Workers : wpc[w] \in Busy => wid[w] \in Ids
    /\ wpayload \in [Workers -> BOOLEAN]
    /\ wattempt \in [Workers -> Nat]
    /\ execs \in [Ids -> Nat]
    /\ faults \in [lost : Nat, killed : Nat, errors : Nat, redelivered : Nat, wiped : Nat]

=============================================================================
