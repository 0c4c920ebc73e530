------------------------------ MODULE JobStore ------------------------------
(***************************************************************************)
(* The state that the prover API, the Celery workers and the maintenance    *)
(* worker share, and the operations of Database (vellum_core/database.py)   *)
(* on it: the proof_jobs table, the dead_letter_jobs table, what the audit  *)
(* chain says of each run, and the broker queue.                            *)
(*                                                                         *)
(* A Database method is one transaction and one step.  An audit append is   *)
(* one step too: AuditChain shows that append_event implements it.          *)
(***************************************************************************)
EXTENDS Naturals, FiniteSets

CONSTANTS Runs,        \* ids of the runs that clients submit
          Reruns,      \* ids that requeues may give to reruns
          NoRun,       \* no run id
          MaxAttempts  \* PROOF_JOB_MAX_ATTEMPTS

ASSUME StoreAssumption ==
    /\ Runs \cap Reruns = {}
    /\ NoRun \notin Runs \cup Reruns
    /\ MaxAttempts \in Nat \ {0}

VARIABLES
    job,      \* proof_jobs: status, sealed payload present, attempt_count, proof file
    dlq,      \* dead_letter_jobs, by the proof_id that is its unique key
    trail,    \* trail[i]: statuses the audit chain holds for run i
    queue     \* queue[i]: copies of run i's message that wait in the broker

storeVars == <<job, dlq, trail, queue>>

Ids == Runs \cup Reruns

Statuses == {"queued", "running", "completed", "failed"}

Terminal == {"completed", "failed"}

Jobs == [status   : Statuses \cup {"absent"},
         payload  : BOOLEAN,
         attempts : Nat,
         file     : BOOLEAN]

DeadLetters == [status  : {"absent", "open", "requeued"},
                payload : BOOLEAN,
                rerun   : Ids \cup {NoRun}]

NoJob == [status |-> "absent", payload |-> FALSE, attempts |-> 0, file |-> FALSE]

NoDeadLetter == [status |-> "absent", payload |-> FALSE, rerun |-> NoRun]

StoreInit ==
    /\ job = [i \in Ids |-> NoJob]
    /\ dlq = [i \in Ids |-> NoDeadLetter]
    /\ trail = [i \in Ids |-> {}]
    /\ queue = [i \in Ids |-> 0]

-----------------------------------------------------------------------------
CreateProofJob(i, attempts) ==
    job' = [job EXCEPT ![i] = [status |-> "queued", payload |-> TRUE,
                               attempts |-> attempts, file |-> FALSE]]

\* update_proof_job: whatever the status is, it is overwritten.
UpdateStatus(i, status) ==
    job' = [job EXCEPT ![i].status = status]

\* The same with attempt_count in the metadata patch.
UpdateStatusAttempt(i, status, attempt) ==
    job' = [job EXCEPT ![i].status = status, ![i].attempts = attempt]

PurgeSealedJobPayload(i) ==
    job' = [job EXCEPT ![i].payload = FALSE]

AppendEventFor(i, status) ==
    trail' = [trail EXCEPT ![i] = @ \cup {status}]

\* Mutant of UpsertDeadLetterJob: the payload is overwritten in any case.
UpsertDeadLetterJob_Overwrite(i, payload) ==
    dlq' = [dlq EXCEPT ![i].status = "open", ![i].payload = payload]

\* A new row, or the row of this run reopened: its payload is replaced only
\* by another one, and its rerun_proof_id stays.
UpsertDeadLetterJob(i, payload) ==
    dlq' = [dlq EXCEPT ![i].status = "open", ![i].payload = @ \/ payload]

MarkDeadLetterJobRequeued(i, rerun) ==
    dlq' = [dlq EXCEPT ![i].status = "requeued", ![i].rerun = rerun]

\* celery_app.send_task, and a broker that hands the message out again.
Enqueue(i) ==
    queue' = [queue EXCEPT ![i] = @ + 1]

StoreTypeOK ==
    /\ job \in [Ids -> Jobs]
    /\ dlq \in [Ids -> DeadLetters]
    /\ trail \in [Ids -> SUBSET (Statuses \cup {"rerun_triggered"})]
    /\ queue \in [Ids -> Nat]

=============================================================================
