--------------------------- MODULE ProofPipeline ----------------------------
(***************************************************************************)
(* The run pipeline: prover requests (ProverApi), the broker and the Celery *)
(* workers (ProofWorker) over one database (JobStore).                      *)
(***************************************************************************)
EXTENDS ProofWorker, ProverApi

pipeVars == <<storeVars, workerVars, faults, apiVars>>

PipeInit == StoreInit /\ WorkerInit /\ ApiInit

PipeNext ==
    \/ ApiStep /\ UNCHANGED <<workerVars, faults>>
    \/ /\ \/ \E w \in Workers : \/ \E i \in Ids : Deliver(w, i)
                                \/ TaskStep(w)
                                \/ WorkerFault(w)
          \/ BrokerRestart
       /\ UNCHANGED apiVars

PipeSpec == PipeInit /\ [][PipeNext]_pipeVars

\* A task that runs goes on, a request that was accepted goes on, and a
\* message that waits is delivered to some free slot in the end.
PipeFairness ==
    /\ \A w \in Workers : WF_pipeVars(TaskStep(w) /\ UNCHANGED apiVars)
    /\ \A i \in Ids : SF_pipeVars(\E w \in Workers : Deliver(w, i) /\ UNCHANGED apiVars)
    /\ \A i \in Runs : WF_pipeVars(SubmitStep(i) /\ UNCHANGED <<workerVars, faults>>)

PipeFairSpec == PipeSpec /\ PipeFairness

\* No slot works on run i and no message for it waits.
AtRest(i) ==
    /\ queue[i] = 0
    /\ \A w \in Workers : wid[w] # i

\* No faults of other kinds have happened.
OnlyFaults(kinds) == \A k \in DOMAIN faults \ kinds : faults[k] = 0

-----------------------------------------------------------------------------
\* Type invariant.
PipeTypeOK == StoreTypeOK /\ WorkerTypeOK /\ ApiTypeOK

\* What the job and dead-letter tables say is backed by what was written
\* before, whatever fails, restarts or is delivered twice: a run that has
\* started by its "queued" event, a completed one by its proof file, a dead
\* letter by the run's "failed" event, and the rerun it names by a job, the
\* job's "queued" event and the "rerun_triggered" event of its source.
TablesAreBacked ==
    \A i \in Ids :
        /\ job[i].status \notin {"absent", "queued"} => "queued" \in trail[i]
        /\ job[i].status = "completed" => job[i].file
        /\ dlq[i].status # "absent" => "failed" \in trail[i]
        /\ dlq[i].rerun # NoRun =>
               /\ job[dlq[i].rerun].status # "absent"
               /\ "queued" \in trail[dlq[i].rerun]
               /\ "rerun_triggered" \in trail[i]

\* Once a dead letter has a payload it keeps it, also when a second delivery
\* of the run fails for want of the payload the first one purged.
DeadLetterKeepsPayload ==
    [][\A i \in Ids : dlq[i].payload => dlq'[i].payload]_pipeVars

\* A run is processed at most MaxAttempts times, however often its worker is
\* lost or its proof fails, as long as no message is delivered twice.
AttemptsBounded ==
    OnlyFaults({"lost", "killed", "errors", "wiped"}) =>
        \A i \in Ids : execs[i] <= MaxAttempts

\* A run that a worker may still have to process has its sealed payload, and
\* a dead letter can be requeued because it has the payload the job lost,
\* wherever the task stops, as long as no message is delivered twice.
PayloadAtHand ==
    OnlyFaults({"lost", "killed", "errors", "wiped"}) =>
        \A i \in Ids :
            /\ job[i].status \in {"queued", "running"} => job[i].payload
            /\ dlq[i].status # "absent" => dlq[i].payload

\* A run that has completed or failed stays so although workers are lost or
\* killed, because the message that comes back is skipped.  (A call that fails
\* after MarkCompleted, or a second delivery, does change it.)
TerminalOutlivesWorker ==
    [][OnlyFaults({"lost", "killed", "wiped"})' =>
        \A i \in Ids : job[i].status \in Terminal => job'[i].status = job[i].status]_pipeVars

\* When the worker is done with a failed run, the dead-letter table has it.
FailedIsDeadLettered ==
    \A i \in Ids : AtRest(i) /\ job[i].status = "failed" => dlq[i].status # "absent"

\* When the worker is done with a run, the job table, the dead letters, the
\* sealed payload and the chain agree on it, unless the task was stopped half
\* way or its message delivered twice.
RestingRunsAgree ==
    OnlyFaults({"wiped"}) =>
        /\ FailedIsDeadLettered
        /\ \A i \in Ids :
            AtRest(i) /\ job[i].status \in Terminal =>
                /\ ~job[i].payload
                /\ trail[i] \cap Terminal = {job[i].status}

\* Requests that requeue the same dead letter answer with the same rerun.
OneRerunPerDeadLetter ==
    \A q, r \in Requeues :
        /\ rpc[q] \in {"done", "already"}
        /\ rpc[r] \in {"done", "already"}
        /\ rsource[q] = rsource[r]
        => rnew[q] = rnew[r]

\* A run whose submission was answered with 202 completes or fails for good,
\* however many workers are lost and messages handed out twice, unless a task is
\* killed, a call of the worker fails or the broker restarts.
AcceptedRunEnds ==
    \A i \in Runs :
        spc[i] = "done" ~> \/ [](job[i].status \in Terminal)
                           \/ ~OnlyFaults({"lost", "redelivered"})

=============================================================================
