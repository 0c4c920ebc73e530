----------------------------- MODULE ProverApi ------------------------------
(***************************************************************************)
(* The requests of prover_service.py that change the shared state: a        *)
(* submission (create_policy_run and create_batch_proof, both ending in     *)
(* _persist_and_enqueue_job) and the requeue of a dead letter.  Requests    *)
(* run concurrently and interleave at each await.                           *)
(***************************************************************************)
EXTENDS JobStore

CONSTANTS Requeues,      \* requeue requests
          MaxApiErrors   \* bound: requests that raise or die half way

ASSUME ApiAssumption == MaxApiErrors \in Nat

VARIABLES
    spc,        \* spc[i]: the point that the submission of run i has reached
    rpc,        \* rpc[r]: the point that requeue request r has reached
    rsource,    \* rsource[r]: the run whose dead letter r requeues
    rattempts,  \* rattempts[r]: attempt_count in the source job's metadata
    rnew,       \* rnew[r]: the rerun that r created, or was told of
    apiErrors   \* requests that failed half way

apiVars == <<spc, rpc, rsource, rattempts, rnew, apiErrors>>

Ended == {"done", "already", "refused", "error"}

ApiInit ==
    /\ spc = [i \in Runs |-> "create"]
    /\ rpc = [r \in Requeues |-> "read"]
    /\ rsource = [r \in Requeues |-> NoRun]
    /\ rattempts = [r \in Requeues |-> 0]
    /\ rnew = [r \in Requeues |-> NoRun]
    /\ apiErrors = 0

-----------------------------------------------------------------------------
\* A validated submission is stored with its sealed payload.
SubmitCreate(i) ==
    /\ spc[i] = "create"
    /\ CreateProofJob(i, 0)
    /\ spc' = [spc EXCEPT ![i] = "audit"]
    /\ UNCHANGED <<dlq, trail, queue, rpc, rsource, rattempts, rnew, apiErrors>>

\* Mutant of SubmitAudit: the message is sent before the event is written.
SubmitAudit_EnqueueFirst(i) ==
    /\ spc[i] = "audit"
    /\ Enqueue(i)
    /\ spc' = [spc EXCEPT ![i] = "enqueue"]
    /\ UNCHANGED <<job, dlq, trail, rpc, rsource, rattempts, rnew, apiErrors>>

SubmitAudit(i) ==
    /\ spc[i] = "audit"
    /\ AppendEventFor(i, "queued")
    /\ spc' = [spc EXCEPT ![i] = "enqueue"]
    /\ UNCHANGED <<job, dlq, queue, rpc, rsource, rattempts, rnew, apiErrors>>

\* The message is sent and the client gets 202.
SubmitEnqueue(i) ==
    /\ spc[i] = "enqueue"
    /\ Enqueue(i)
    /\ spc' = [spc EXCEPT ![i] = "done"]
    /\ UNCHANGED <<job, dlq, trail, rpc, rsource, rattempts, rnew, apiErrors>>

SubmitFails(i) ==
    /\ apiErrors < MaxApiErrors
    /\ spc[i] \in {"create", "audit", "enqueue"}
    /\ spc' = [spc EXCEPT ![i] = "error"]
    /\ apiErrors' = apiErrors + 1
    /\ UNCHANGED <<storeVars, rpc, rsource, rattempts, rnew>>

-----------------------------------------------------------------------------
\* The dead letter of run i has a rerun already: its id is the answer.
RequeueAlready(r, i) ==
    /\ rpc[r] = "read"
    /\ dlq[i].status # "absent"
    /\ dlq[i].rerun # NoRun
    /\ rpc' = [rpc EXCEPT ![r] = "already"]
    /\ rsource' = [rsource EXCEPT ![r] = i]
    /\ rnew' = [rnew EXCEPT ![r] = dlq[i].rerun]
    /\ UNCHANGED <<storeVars, spc, rattempts, apiErrors>>

\* 409 rerun_payload_unavailable.
RequeueRefused(r, i) ==
    /\ rpc[r] = "read"
    /\ dlq[i].status # "absent"
    /\ dlq[i].rerun = NoRun
    /\ ~dlq[i].payload
    /\ rpc' = [rpc EXCEPT ![r] = "refused"]
    /\ rsource' = [rsource EXCEPT ![r] = i]
    /\ UNCHANGED <<storeVars, spc, rattempts, rnew, apiErrors>>

\* The dead letter and the source job are read; the metadata of the source
\* job, attempt_count included, goes into the rerun's.
RequeueRead(r, i) ==
    /\ rpc[r] = "read"
    /\ dlq[i].status # "absent"
    /\ dlq[i].rerun = NoRun
    /\ dlq[i].payload
    /\ rpc' = [rpc EXCEPT ![r] = "create"]
    /\ rsource' = [rsource EXCEPT ![r] = i]
    /\ rattempts' = [rattempts EXCEPT ![r] = job[i].attempts]
    /\ UNCHANGED <<storeVars, spc, rnew, apiErrors>>

\* uuid4 and create_proof_job.
RequeueCreate(r, new) ==
    /\ rpc[r] = "create"
    /\ job[new].status = "absent"
    /\ CreateProofJob(new, rattempts[r])
    /\ rnew' = [rnew EXCEPT ![r] = new]
    /\ rpc' = [rpc EXCEPT ![r] = "audit"]
    /\ UNCHANGED <<dlq, trail, queue, spc, rsource, rattempts, apiErrors>>

RequeueAudit(r) ==
    /\ rpc[r] = "audit"
    /\ AppendEventFor(rnew[r], "queued")
    /\ rpc' = [rpc EXCEPT ![r] = "trigger"]
    /\ UNCHANGED <<job, dlq, queue, spc, rsource, rattempts, rnew, apiErrors>>

RequeueTrigger(r) ==
    /\ rpc[r] = "trigger"
    /\ AppendEventFor(rsource[r], "rerun_triggered")
    /\ rpc' = [rpc EXCEPT ![r] = "enqueue"]
    /\ UNCHANGED <<job, dlq, queue, spc, rsource, rattempts, rnew, apiErrors>>

RequeueEnqueue(r) ==
    /\ rpc[r] = "enqueue"
    /\ Enqueue(rnew[r])
    /\ rpc' = [rpc EXCEPT ![r] = "mark"]
    /\ UNCHANGED <<job, dlq, trail, spc, rsource, rattempts, rnew, apiErrors>>

\* Only now does the dead letter name its rerun.
RequeueMark(r) ==
    /\ rpc[r] = "mark"
    /\ MarkDeadLetterJobRequeued(rsource[r], rnew[r])
    /\ rpc' = [rpc EXCEPT ![r] = "done"]
    /\ UNCHANGED <<job, trail, queue, spc, rsource, rattempts, rnew, apiErrors>>

RequeueFails(r) ==
    /\ apiErrors < MaxApiErrors
    /\ rpc[r] \in {"create", "audit", "trigger", "enqueue", "mark"}
    /\ rpc' = [rpc EXCEPT ![r] = "error"]
    /\ apiErrors' = apiErrors + 1
    /\ UNCHANGED <<storeVars, spc, rsource, rattempts, rnew>>

SubmitStep(i) == SubmitCreate(i) \/ SubmitAudit(i) \/ SubmitEnqueue(i)

RequeueStep(r) ==
    \/ \E i \in Ids : RequeueAlready(r, i) \/ RequeueRefused(r, i) \/ RequeueRead(r, i)
    \/ \E new \in Reruns : RequeueCreate(r, new)
    \/ RequeueAudit(r) \/ RequeueTrigger(r) \/ RequeueEnqueue(r) \/ RequeueMark(r)

ApiStep ==
    \/ \E i \in Runs : SubmitStep(i) \/ SubmitFails(i)
    \/ \E r \in Requeues : RequeueStep(r) \/ RequeueFails(r)

ApiTypeOK ==
    /\ spc \in [Runs -> {"create", "audit", "enqueue", "done", "error"}]
    /\ rpc \in [Requeues -> {"read", "create", "audit", "trigger", "enqueue", "mark"} \cup Ended]
    /\ rsource \in [Requeues -> Ids \cup {NoRun}]
    /\ rattempts \in [Requeues -> Nat]
    /\ rnew \in [Requeues -> Ids \cup {NoRun}]
    /\ \A r \in Requeues :
        /\ rpc[r] \notin {"read", "error"} => rsource[r] \in Ids
        /\ rpc[r] \in {"audit", "trigger", "enqueue", "mark", "done", "already"} => rnew[r] \in Ids
    /\ apiErrors \in Nat

=============================================================================
