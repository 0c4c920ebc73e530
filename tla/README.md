# VellumCore: TLA+ models, checks and proofs

VellumCore accepts policy runs over HTTP, proves them in Celery workers, writes
every step to a hash-linked, signed audit chain, and archives what gets old.
The cryptography is a library call; what is hard here is the order of the
database, Vault, broker and file-system steps around it, what is left when one
of them fails, and the one policy that is rendered, evaluated and explained in
three ways that must agree. That is what these modules model. Paths below are
relative to `src/`.

## 1. Inventory

| Part | State | Operations | What makes it hard |
|---|---|---|---|
| Signed audit chain (`vellum_core/proof_store.py`, `database.py`) | `audit_log` rows, advisory lock, Vault key version | `append_event`: read latest, hash, sign, lock, compare, insert; up to 8 tries | several processes append at once; the lock is taken after the read; failures anywhere |
| Chain verification (`proof_store.py`, `vault.py`) | listed rows, key cache shared by the requests of a process | `verify_chain`, `get_public_key`, `_get_versions` | key rotation, stale cache, rows appended meanwhile, damaged rows |
| Job store (`database.py`) | `proof_jobs`, `dead_letter_jobs` | create, update, purge, upsert, mark requeued, prune | each method is a transaction of its own; updates are unconditional |
| Prover API (`prover_service.py`) | requests under way | persist-and-enqueue; requeue of a dead letter | five awaits between the check and the write |
| Proof worker (`worker.py`, `logic/job_attempts.py`, `celery_app.py`) | the task's copy of the row, attempt count | skip, attempt, prove, complete, fail, dead-letter | lost workers, time limits, double deliveries, failing calls |
| Broker (Redis through Celery) | waiting and unacknowledged messages | deliver, acknowledge, deliver again, restart empty | at-least-once, no persistence |
| Maintenance (`maintenance.py`, `maintenance_worker.py`) | columns of finished rows, proof and evidence files, links | prune, list, move, link | two steps per file, two entry points, limits per cycle, one cutoff reset by the other |
| Verifier API (`verifier_service.py`) | none of its own | verify, verify-chain, export_attestation | depends on what pruning and lost workers left |
| Authentication (`auth.py`, `http_auth.py`) | nonces and counters in Redis, key cache | JWT check, bank handshake, rate limit | windows, races, rotation |
| Sealing, security events (`security.py`) | sealed payloads, `security_events` | seal, unseal, record | where the payload is when a step fails |
| Failure triage, batcher, input schema, policy parameters (`logic/`, `policy_parameters.py`) | none | pure functions | boundaries, messages that quote each other |
| Policy compiler (`policy_compiler/`) | generated files, manifest | generate, check-drift | one policy as Python and as circom, files of different specs |
| Explainability, dual track, circuits (`logic/explainability.py`, `policies/`, `circuits/`) | none | reference track, circuit track, comparison, replay | three semantics that must agree, in the integers and in a field |
| gRPC provider, native prover, setup (`providers/`, `native_prover/`, `setup_framework.sh`) | artifacts on disk, key cache | prove, verify, set up | files replaced one by one under running services, a cache never dropped |
| Registries, attestation (`policy_registry.py`, `policies/registry.py`, `attestation_bundle.py`, `api/`) | the pack as each process read it | create, export | versions and digests of now, not of the run |
| Dashboard (`dashboard_service.py`), stress tester | cached token; the page's list, selection and detail | call upstream; poll, select, submit, filter | answers out of order, overlapping polls, rotation |
| Metrics, configuration, CLI, migrations, cutover gate, study scripts | none | parsing, counting, reporting | – |

How they interact: the API creates the row, appends the `queued` event and sends
the message; a worker takes the message, reads the row, and writes row, chain,
dead letter and file step by step; maintenance reads what the workers left; the
verifier reads chain and rows. There are no transactions across these steps.
Before that, the dashboard or another client has taken a token and signed a
handshake, and the API has computed the reference track; the worker compares it
with the circuit's. Beneath all of them, packs are deployed, processes restarted
and artifacts set up again.

`PROJECT.json` lists the parts with their status, and under `hazards` the lines
where these difficulties bite with the properties that watch them.

## 2. Plan

1. Audit chain, abstract log, refinement, proofs; chain verification. *Done.*
2. Job store, worker, API, and their composition with faults. *Done.*
3. Maintenance. *Done.*
4. Authentication: nonce guard, rate limiter, key cache without version, handshake,
   and the clients' tokens. *Done.*
5. Batcher, input schemas and the circuits over a field, with proofs. *Done.*
6. Policy semantics: one abstract policy evaluated as the Python renderer, the
   circom renderer and explainability do; parameters, dual-track comparison,
   drift gate, triage. *Done.*
7. Native prover's key cache, setup of artifacts, deployments, POST `/v6/verify`,
   attestation of runs before and after pruning. *Done.*
8. The operations page of the dashboard. *Done.*
9. An abstract run life cycle that the pipeline implements in the absence of
   the faults named in section 4; the read-modify-write inside `update_proof_job`.
10. Proofs of every safety property of a passing run, but for those of the
    decision language (section 5). *Done.*

## 3. Modules and how they correspond to the code

**`AuditLog`** is the abstract promise of the chain: a log, and calls that are
idle, pending, applied, answered or failed. A call adds its event at most once.

**`AuditChain`** is `append_event` with `append_audit_row`. One action per await:
`AppendEvent` (the call), `ReadLatest` (latest row, timestamp, link hash),
`VaultSign`, `AcquireLock` (`pg_advisory_xact_lock`), `PreviousMatches` or
`ChainConflict` (the comparison under the lock; the next try or the final
error), `InsertRow` (insert and commit), `Return`; `Abort` is every other end of
a call: an exception that is not a conflict, a lost connection, a dead process,
also after the commit. A digest is the sequence of the contents it commits to,
which is SHA-256 without collisions; a signature names the digest and the key
version. `base` is a history variable: the length of the chain when the call began.

**`AuditVerify`** extends it with `verify_chain`, row by row, and
`VaultPublicKeyCache`: a version found, an entry dropped and fetched again once,
an answer stored over whatever is there by then. Verifiers interleave at their
awaits. `DamageRow` changes one field of a stored row, as `tests/` do.

**`JobStore`** holds the shared tables and the broker's queue with one operator
per `Database` method. A row is reduced to status, whether it has a sealed
payload, `attempt_count`, and whether the proof file exists. `trail[i]` is the
set of statuses the chain holds for a run: the chain's own behaviour is
`AuditChain`'s matter, and an append is one step here.

**`ProofWorker`** is `_process_proof_job_async`, one action per await that
changes shared state, in the order of the code: `GetJob`/`SkipJob`, then either
the exhausted branch (`MarkExceeded`, `AuditExceeded`, `DeadLetterExceeded`,
`PurgeExceeded`) or `StartRunning`, `AuditRunning`, `ProveSucceeds` or
`ProveFails`, and the completed branch (`MarkCompleted`, `PurgeCompleted`,
`AuditCompleted`) or the failed one (`MarkFailed`, `PurgeFailed`, `AuditFailed`,
`DeadLetterFailed`). The two `except` branches write the same things in the same
order and are one. `StepFails` is a call that raises: into the failure handler
inside the `try`, out of the task elsewhere. `WorkerLost`, `TimeLimitKill`,
`Redeliver` and `BrokerRestart` are what Celery and Redis do with
`task_acks_late`, `task_reject_on_worker_lost`, the time limits, the visibility
timeout and a Redis without persistence (`docker-compose.yml`).

**`ProverApi`** is `_persist_and_enqueue_job`, in which both submission handlers
end, and `requeue_dead_letter_job`, step by step. The reads of the dead letter
and of the source job are one step: no write of the handler lies between them.

**`ProofPipeline`** composes the two over one `JobStore` and states the properties.

**`Maintenance`** is `run_maintenance_cycle` with its two queries, file by file,
`MoveFile` and `LinkFile` apart, and the loop of `maintenance_worker.py`. Ages
count in days. `proof` and
`public_signals` are JSON columns: SQLAlchemy writes `None` into such a column as
JSON `null`, which `IS NOT NULL` matches; hence the three values of `proof[j]`.
`old[c]` is the cutoff of a cycle, fixed when it starts.

**`Circuits`** has one function per circuit under `circuits/`, from an assignment
of its inputs to its output signal, or to `Unsat` when the constraints have no
witness. Values are elements of the field `0..P-1`, and the comparators of
circomlib (external, modelled by the bit decomposition they constrain) have the
widths `M16`, `M32`, `M64`. `all_valid_chain` is the batch circuit's chain of products
over its rows. All numbers of the circuits are constants, so that
the same text is checked over 37 elements and proved for any field.

**`CircuitInput`** has what is done to a job's input before it reaches a circuit: the
manifests' schemas, `batch_prepare_input`, `batch_prepare_from_private_input`, what
the gRPC provider's `_normalize_json_value` refuses, and the witness of a circuit
for an input.

**`CircuitJob`** follows the data of one job of `create_batch_proof`: the body that
is accepted or refused, and what the worker makes of the queued input. `float` says
that its numbers were written as `25.0`, which the schema takes for integers.

**`VaultKeys`** is a transit key with its versions and the services' cache of public
keys, refreshed when its time is up. **`ServiceAuth`** adds what the services
keep and check for a call, in the order of `auth.py`: the JWT against the newest
cached key, the handshake's signature against the version it names, the timestamp
against the clock (`NonceStale`, `NonceFresh`) and then the `SET` of the nonce, the
window noted (`NoteWindow`) and then its `INCR` and `EXPIRE`. Time may pass, and a
service may restart, between any two steps; Redis drops a key somewhere in its
last tick.
**`UpstreamAccess`** adds the clients: the dashboard with its locked token cache,
the stress tester with one token for its whole run and a clock that is right or
ahead, and a proxy that sends a submission again. Time counts in ticks. `ahead` and
`late` are history: a timestamp that was in the future when it was written, and
the windows with an `INCR` later than their counter may live.

**`Console`** is the script of the operations page. A task is one running
asynchronous function (`refreshAll`, `refreshJobs`, `selectJob`, `submitJob`), every
await ends a step, and answers arrive in any order. Lists are limited and
filtered by the server. `clean` and `overtaken` are history variables.

**`PolicyRules`** is the decision language and its three meanings: the rendered
Python (`evaluate_reference`), the rendered circuit over the field
(`generated_constraints`, `aggregate_value`, with padding rows), and the replay
of `explainability.py`. `Quadratic` is circom's refusal of constraints of a higher
degree, which `and` and `or` inside an aggregate always meet.

**`PolicyCase`** takes one policy through its life as data: `generate`, stopped after
any of its writes, the drift gate, `create_policy_run` with parameters and
evidence, `Unseal`, `Generate`, `Conclude` (verification and comparison), and the
failures with their explanation and class. A generated file is known by the
spec it was made of, a message by the words that `classify_failure` looks for.

**`PolicyRun`** takes one run through everything that changes beneath it:
deployments, restarts, setup runs that write `final.zkey`, `verification_key.json`
and the wasm in this order, the native prover's key cache with its fallback to
snarkjs, further deliveries with the limit of attempts, pruning, and the attestation. It also has runs of the
SDK's `PolicyEngine` and calls of POST `/v6/verify`. A pack version is known by
the evidence it passes, a file by the setup run that wrote it. `tries` is
`attempt_count`, in the row and as an attempt has computed it; `lost` (restarts that
interrupted an attempt), `keys` (what the key file has held since the native
prover started), `calm` and `overlap` are history variables.

The `*Proofs` modules extend one specification each, except that `JobProofs` has the
circuits and the operations page, `AuditVerifyProofs` builds on `AuditChainProofs`,
and the pipeline's proofs are split in two.

The `MC*` modules extend one specification each and define symmetry sets.
Definitions named `X_Something` just before `X` are variations of `X` that a
plausible mistake in the code would produce; each is paired in `PROJECT.json`
with the property that then fails. No specification uses them.

## 4. Runs

Passing runs:

| Run | Instance | What it shows |
|---|---|---|
| `audit_chain` | 2 writers, 2 calls each, 2 tries, 2 key versions, 2 clock values | the stored chain is intact under every interleaving; timestamps never go back; a call gives up only after `MaxTries` rows of others; `append_event` implements `AuditLog`; every call ends |
| `audit_verify` | 2 verifiers, 1 writer, key rotation, 1 damaged field | a stale cache, or an old answer stored late, never makes verification fail; `valid` is only said of what was written; `broken` names a damaged row; verification ends |
| `pipeline` | 1 run, 1 rerun, 1 attempt, 2 workers, 2 of them lost, one fault of each other kind, 1 requeue | under everything: what the tables say is backed (a started run by its `queued` event, a completed one by its file, a dead letter by its `failed` event, a rerun by its job and events), and a dead letter keeps its payload. Unless a message is delivered twice: payloads are at hand and attempts are bounded. Unless a call fails or a message is delivered twice: terminal statuses are final. Unless a task is stopped half way or delivered twice: row, chain, dead letter and payload agree when a run is at rest. A run answered with 202 ends, unless the broker restarts, a time limit kills it or a call fails |
| `maintenance` | 1 job, 2 evidence files, cap 1, retention 2 days, archival 1 day, 2 processes, 1 crash | aged evidence is archived under the cap, and proof files when archival is due before pruning; no path is left empty unless a cycle is stopped; content stays readable unless cycles overlap |
| `circuit_job` | field of 37, widths 4, 8 and 16, 2 rows, 9 values around the bounds | what submission accepts can be proved, except numbers written as floats and a private-input batch whose padding is not zero, which worker and provider refuse; the published output is the comparison or score in the integers; padding never tips a batch |
| `upstream_access` | 2 calls, dashboard and stress tester, 4 ticks, a rotation, a copy, a restart | a good token is refused only within the time a rotation explains, or when the request was late; of two copies of a submission one is accepted, unless its timestamp was ahead or ran out before the `SET`; no rate window admits too many, unless an `INCR` comes after its counter could expire; the dashboard signs a token once per lifetime |
| `console` | 2 jobs, a list of 1, 2 tasks, 2 clicks, 1 failing call | the panel shows the selected job, except after a selection during another or of an unlisted job; rows go back only by a list answer that was on its way while another was applied; while polling is on the table catches up |
| `policy_rules` | 215 policies, 2 rows, 3 row values, field of 37, widths 4, 8 and 16 | reference and circuit agree on every accepted run of a policy that the circuit can represent, wherever a `generate` was stopped; a recorded decision is the policy's for every policy; the explanation blames the policy exactly when it failed, and a rule that is false; between unsealing and verdict the class `crypto` means an unverified proof |
| `policy_run` | 2 versions, 2 setup runs, 2 attempts of which 1 or 2 are allowed, up to 3 restarts, 1 fault; 6 workloads | a pass is proved and is the policy's; a calm run fails only for a fault, or when as many attempts were interrupted as it may have; a proof is called valid only under a key the file has held since the native prover started, and invalid only if the file's key rejects it; the attestation of a calm run names its version, decision and files; attestations agree unless attempts overlap |

The properties of the pipeline that need the absence of some fault name the
faults they allow, `OnlyFaults({...})`, so that one run covers them all and the
guard says exactly what each of them depends on.

Runs that show a disagreement between the code and its documents (quoted, with
their lines, under `findings`):

| Run | What happens |
|---|---|
| `two_reruns` | two requeues of one dead letter both pass the check |
| `policy_parameters` | the circuit demands the Poseidon hash of the parameters and gets their SHA-256: no run of a policy with parameters has a witness |
| `archive_defaults` | with a retention shorter than the archival age, as in the defaults (7 and 30 days), pruning keeps resetting the `updated_at` that archival goes by: the proof file of a completed run is never archived |

Others are visible as guards of passing properties; the hazards in
`PROJECT.json` quote the documents.

* An audit append that fails after the row is `completed` makes the handler turn
  it into `failed` (`TerminalOutlivesWorker` excludes failing calls).
* A worker lost between `failed` and the dead letter leaves no dead letter, and
  one lost between the terminal status and the purge leaves the sealed payload
  in the row (`RestingRunsAgree` excludes lost workers; `docs/SECURITY.md:53`).
* The limit of the archival query counts runs that are archived already, so more
  completed runs than the limit can crowd a file out (`Crowded` in
  `ArchivedBeforePruned`).
* A nonce is kept one window from its `SET` on, and a timestamp ahead of the clock
  is accepted for longer (`ahead` in `SubmissionAcceptedOnce`; `auth.py:52`).
* Two overlapping cycles can move the new link over the archived file, and a
  cycle stopped between the move and the link leaves an empty path that later
  cycles skip (`FilesReadable` excludes the one and the other;
  `docs/DLQ_LIFECYCLE.md:59`).
* A late detail fills the panel of another job (`PanelShowsSelection`).
* Vault failing at the unsealing or at the event `completed`, and a soft time limit
  met inside the verification, which the proof engine wraps, give a dead letter
  of class `crypto`, which is not retryable (`CryptoMeansUnverified` leaves these
  three out; `docs/DLQ_LIFECYCLE.md:63` and `:70` count timeouts as retryable).
* The replay knows the parameters of the file alone (`ExplanationAgrees`,
  `NamedRuleFails`).
* An attestation exported after a deployment or a setup run names the new
  version and the new files (`AttestationDescribesRun` is about calm runs), and
  overlapping deliveries can give a run two proofs (`AttestationsAgree`).

**Bounds.** Two writers and two tries suffice for a conflict on the first and on
the last try; `MaxCalls` gives the other writer the appends that exhaust them.
Faults are counted (`MaxLost`, `MaxKilled`, `MaxErrors`, `MaxRedelivered`,
`MaxWiped`, `MaxApiErrors`, `MaxCrashes`, `MaxDamage`); in `pipeline` two lost
workers exceed one attempt, so the exhausted branch is reached, and a worker can
be lost inside it. The proofs of section 5 cover larger limits of attempts, and
`policy_run` has loads with two. Ages are capped one above the larger threshold. With two
evidence files and a cap of one a cycle ends at its cap. `archive_defaults` is
the smallest instance with the order of the defaults: one job, one evidence file,
one process, retention 1 day, archival 2. The small field of
`circuit_job` puts every bound next to a width (the largest reserve is `M64 - 1`,
the largest product 12 of 16) and leaves room for values outside the ranges.
In `upstream_access` the clock
passes the lifetime of a token, of a cached key, of a nonce and of a rate window,
and the stress tester's clock is right or 3 ticks ahead, more than the window of 2;
reads and submissions are separate workloads, because token and handshake share
nothing but the clock. In `console` a list of one with two jobs makes jobs leave
the list. `policy_rules` has constants at, above and beyond 32 bits and one that
is 1 in the field, lists that are empty, full, too long and too large, and an
edited spec behind every file; nested expressions have up to three levels.
`policy_run` splits deployments, double deliveries, interrupted attempts, SDK runs and
verify calls into workloads; two setup runs and two versions are enough for every
file to be old or new, and two deliveries for a limit of one attempt to be used up
by a restart.
Deadlock is not checked where a bounded system really
stops: all calls made, all runs finished, the job proved or refused. Workers, call
slots and nonces are interchangeable, and `two_reruns` and `upstream_access`, which
check no liveness, use that symmetry.

**Fairness.** `ChainFairSpec`: awaits complete, and PostgreSQL queues those who
wait for a lock (strong fairness of `AcquireLock`). `VerifySpec`: the steps of a
started verification complete. `PipeFairSpec`: a running task and a submission go
on; a waiting message is delivered in the end, although slots may be taken
whenever it is looked at (strong fairness of `Deliver`, per message); no fault is
forced or excluded by fairness. `MaintSpec`: the loops go on and days pass; within
a day at least one cycle runs from start to end (the interval is an hour).
`ConsoleSpec`: calls are answered, if only by an error, and the browser goes on
running the interval's callback. The other specifications claim safety only and
state no fairness.

## 5. Proofs

Eight modules hold the proofs, each for every value of the constants that
satisfies the `ASSUME`s of the modules it extends. The properties are seldom
inductive as they stand; each module defines the invariant that is.

`AuditChainProofs`:

* `ChainSafe`: `ChainSpec => [](ChainTypeOK /\ ChainIntact /\ TimestampsMonotone
  /\ ExhaustionMeansContention)`, with the corollaries `TimestampsStayMonotone`
  and `OnlyContentionExhausts`. `ChainInv` adds
  what a writer remembers (`LinkRead`: its link was the hash of a row that is
  still there, its timestamp is not before that row's), who holds the lock
  (`LockHeld`), that under the lock the comparison stays true until the insert
  (`InsertsAtEnd`), that digests grow by one per row (`DigestsCount`), that
  signatures are by versions that exist (`SignedLinks`), and that every earlier
  try was paid for by a row of somebody else (`TriesPaid`).
* `ChainImplementsLog`: `ChainSpec => ImplementsAuditLog`, step by step, from the
  same invariant.

`AuditVerifyProofs`: `ValidIsUndamaged`, `BrokenIsDamagedThere`, `ErrorsHaveCauses`.
The chain is not intact here, since rows are damaged, so `VerifyInv` compares the
table and every verifier's copy with the history of what was written: a digest
commits to content and link (`HashInjective`), a row was linked to its written
predecessor or that one's digest is damaged in the copy (`LinkSound`), damage never
gives back a digest it has changed (`DamageKeeps`), and a verifier has behind it
only rows that say what was written (`UnderWay`). The key cache needs no
invariant: a version that is missing is fetched, and the answer holds every
version a written row names.

`PipelineProofs` is what holds of the tables under all faults: `PipelineTyped` and
`TablesBacked`. `Backed` says what each point of a submission, a requeue and a task
has behind it, and that only a stored and audited run is ever sent.

`PipelineRunProofs` extends it with what holds of a run while faults are limited
as each property says: `RunsBounded`, `PayloadsAtHand`, `RestingRuns`, `TerminalStays`,
and, under all faults, `DeadLetterPayloadStays`. `SingleInv` says that without a second
delivery a run has one message or one slot (`OneDelivery`), so that what its task
has read of the row stays true (`TaskOwnsRun`) and every start is counted
(`RunsPaid`). `RestInv` says how far a task that is never stopped has got with the
end of its run.

`MaintenanceProofs`: `FilesStayReadable`. `MaintInv` follows a file through the two
steps of `_archive_path`: an empty path is one that a cycle under way is about to
link, and a file in the archive has its link or is in hand.

`AccessProofs`: `DenialsHaveCauses`, `WindowsKeepTheirLimit`, `CopiesAcceptedOnce`,
`TokensRefreshedOnce`. `AccessInv` says of a token, a cached key, a nonce and a counter
what was true when they were made and can only be passed by time: a token or
cached key names the latest version unless there was a rotation since
(`TokenInv`), calls with one nonce are copies with one timestamp, which the stored
nonce outlives unless it was ahead (`NoncesSound`), a window's counter outlives the
window by a second, and until an `INCR` is later than that it is at least the
number admitted or about to be (`RateInv`). `LifetimeAssumption` in
`UpstreamAccess` is needed: a token that lives longer than the services allow is
refused from the start.

`JobProofs` is about the two ends of a job, circuit and operations page:

* `ScalarJobsSafe` (with `AcceptedScalarsAreProvable`): a scalar job that is
  accepted is proved unless a number was written as a float, and its output is the comparison or score in the integers.
  `LessThanExact` says when a comparator compares the integers, `BetweenExact`
  that a pair of them accepts exactly a range, whatever the field element, and
  `ProductBound` keeps products within the comparator's width; from these there
  is one lemma per circuit. `ScalarInv` adds that a queued job
  holds the body as sent and that it satisfies the schema.
* `WitnessIffSchema`: a field assignment has a witness exactly when the
  manifest's schema allows it. `zk_kyc_v1` is excepted: its public
  `allowed_country_code` is bounded by the schema alone.
* `BatchJobsSafe` (with `AcceptedBatchesAreProvable`): the same for batches of any
  number of rows. `ChainExact` says what the chain of products over the rows
  computes, by way of the least row at which it would not (`LeastExists`);
  `RowExact` is about one row, `PreparedExact` about the batcher's padding.
* `PanelFollowsSelection`, `RowsGoForward`: `ConsoleInv` adds that, without
  overlapping selections, every detail under way is of the selected job, and
  that a list answer on its way is not older than the table unless another was
  applied meanwhile.

`PolicyRunProofs`: `PassesAreProved`, `FailuresHaveCauses`, `AttestationsDescribeRuns`,
`AttestationsNameOneProof`, `AnswersFollowTheKeys`. `RunInv` (theorem `RunInvariant`)
has a part for each: the recorded decision is the reference of the version
loaded at submission (`ModeInv`), the signal of a genuine proof is the verdict of
the version compiled with its key (`ArtifactsInv`, `ProofsInv`), without overlap one
attempt is under way (`AloneInv`) and every copy of a proof is of one attempt
(`AgreeInv`), and while nothing changes every file, version and proof is of one
setup run (`CalmInv`). Two more are proved with it: while a run is
not over and its attempts did not overlap, each counted attempt but the one under
way was interrupted by a restart (`TriesInv`), and the cached key and the key in the file are among those the
file has held since the native prover started (`KeysInv`).

Assumed: only the named `ASSUME`s of the modules on their constants
(`CircuitConstants` holds of the real numbers), which TLC evaluates in the runs.

Only model-checked:

* liveness (`EveryCallEnds`, `VerificationEnds`, `AcceptedRunEnds`, `ArchivedBeforePruned`,
  `TableCatchesUp`): arguments from fairness are out of this prover's reach;
* the properties of `PolicyCase` (`TracksAgree`, `CompletedMeansAgreed`,
  `CryptoMeansUnverified`, `ExplanationAgrees`, `NamedRuleFails`): the meanings of the
  decision language are recursive operators over expressions, and this prover
  neither unfolds such operators nor does induction over expressions.

## 6. Limits of the models

* One clock: writers on hosts whose clocks differ can store timestamps that go
  back; `TimestampsMonotone` says nothing about them.
* SHA-256 has no collisions, signatures cannot be made without the key.
* A `Database` method of the pipeline is atomic. `update_proof_job` and
  `upsert_dead_letter_job` read, change and write inside a READ COMMITTED
  transaction, so two deliveries of one run can lose a metadata change; and a
  commit whose reply is lost is only modelled for the chain.
* A worker lost after a broker restart still gets its message back in the model,
  which is more than Redis does; the safety properties hold all the same.
* `AcceptedRunEnds` is checked without broker restarts, time-limit kills and
  failing calls: after each of them a row may stay `queued` or `running` for good,
  and nothing in the code looks for such rows.
* `OneRerunPerDeadLetter`, `ParameterisedRunIsProvable` and `AgedFilesArchived` are
  what the documents say and do not hold.
* A rerun inherits `attempt_count`; the rerun of an exhausted run fails at once.
* A number of `CircuitJob` is an integer or an integer written as a float, all
  numbers of a body alike; values of other types, which schema and batcher
  refuse, are left out. The proof system is sound and complete: there
  is a proof exactly where there is a witness.
* `PolicyCase` runs the steps of one delivery; the steps on row, chain and dead
  letter that it takes together are `ProofWorker`'s, and those on artifacts and
  keys are `PolicyRun`'s. An artifact file is whole or torn, never half read.
* A verification key that the native prover has cached keeps proofs of the old
  setup valid until it restarts; `PassIsProved` says that the decision of such a
  run is right all the same.
* In `UpstreamAccess` the times of tokens are on one clock, shared by clients and
  services; only a handshake's timestamp may be ahead of it. The submissions are
  those of clients that sign them in good order. A restart of Redis, which
  forgets nonces and counters, is not modelled there.
* A policy output `policy_params_hash` without parameters never agrees between
  the tracks (zero against a SHA-256); such policies are outside `Representable`.

## 7. Not modelled

* Parsing and presentation: `config.py`, `cli.py`, `observability.py`, `metrics.py`,
  `schemas.py` beyond the bounds that the input modules use, the dashboard's
  markup, overview and diagnostics, health and listing routes.
* Security events: they are written, never read, and a failing write is
  swallowed.
* Alembic migrations: DDL, run before the services start.
* `cutover_gate.py` and the study scripts: offline reports over finished
  measurements, without state.
* The shadow and snarkjs providers: the provider factory of this version builds
  the gRPC provider only. The native prover's concurrency limit bounds load, and
  no answer depends on it.
* Cryptography: hashing, signatures, sealing and Groth16 are assumed to do what
  they promise.
* `runtime/testing.py`, protocol stubs and SPI interfaces: test doubles, generated
  code and declarations.
