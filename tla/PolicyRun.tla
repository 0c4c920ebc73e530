------------------------------ MODULE PolicyRun ------------------------------
(***************************************************************************)
(* One policy run among everything that can change under it: deployments of *)
(* the policy pack, restarts of the processes (which alone read it), setup  *)
(* runs that rewrite the circuit's artifacts file by file, the native       *)
(* prover's cache of verification keys, a second delivery of the run's      *)
(* message, and the export of its attestation.  The same steps serve a run  *)
(* of the SDK's policy engine and a call of POST /v6/verify.                *)
(*                                                                          *)
(* A pack version is known by the evidence it passes, an artifact file by   *)
(* the setup run that wrote it, a proof by the attempt that made it and the *)
(* setup of its proving key.  PolicyCase looks into the data, ProofWorker   *)
(* into the steps on the job's row that are taken together here.            *)
(***************************************************************************)
EXTENDS Integers, Sequences, FiniteSets

CONSTANTS Evidence,     \* pieces of evidence
          Passes,       \* Passes[v]: the evidence that version v of the policy passes
          Attempts,     \* attempts at the run
          MaxSetups,    \* bound: setup runs
          MaxFaults,    \* bound: calls that fail by themselves
          Loads         \* workloads: the way the run is made, "http", "sdk" or "verify",
                        \* PROOF_JOB_MAX_ATTEMPTS, and bounds on evidence, attempts,
                        \* versions, setup runs and restarts

ASSUME RunAssumption ==
    /\ {MaxSetups, MaxFaults} \subseteq Nat /\ MaxSetups > 0
    /\ Loads \subseteq [way : {"http", "sdk", "verify"}, evidence : SUBSET Evidence,
                        attempts : SUBSET Attempts, max : Nat \ {0}, versions : Nat,
                        setups : 1..MaxSetups, restarts : Nat]

VARIABLES
    load,      \* the workload of this behaviour
    pack,      \* version of the policy pack and circuit source on disk
    loaded,    \* loaded[p]: the version process p read when it started
    file,      \* file[f]: the setup run that wrote artifact f, or Torn
    source,    \* source[s]: the version that setup run s compiled
    setup,     \* where setup_framework.sh is: the files still to write
    keyCache,  \* verification_key_cache of the native prover: a setup, or None
    keys,      \* history: the keys its file has held since the native prover started
    row,       \* the run's row of proof_jobs (of an SDK run: its caller's view)
    att,       \* att[a]: where attempt a is
    tries,     \* attempt_count: in the row's metadata, and as attempt a has it
    audit,     \* the proofs of the run's completed audit rows, in order
    export,    \* what export_attestation has read, then the bundle it answers
    restarts, faults,
    lost,      \* history: restarts that interrupted an attempt
    calm,      \* history: nothing the run depends on has changed since its submission
    overlap,   \* history: two attempts were under way at once
    attested   \* history: the proofs named by attestations of the run

deployVars == <<pack, loaded, restarts, lost>>
artifactVars == <<file, source, setup>>
keyVars == <<keyCache, keys>>
runVars == <<row, audit, faults, overlap, tries>>
exportVars == <<export, attested>>
vars == <<load, deployVars, artifactVars, keyVars, att, runVars, exportVars, calm>>

Files == {"zkey", "vk", "wasm"}
FileOrder == <<"zkey", "vk", "wasm">>

None == 0
Torn == 0

Processes == CASE load.way = "http" -> {"prover", "worker", "verifier"}
               [] load.way = "sdk" -> {"sdk"}
               [] load.way = "verify" -> {}

Verdict(b) == IF b THEN "pass" ELSE "fail"

NoProof == [by |-> None, setup |-> None, signal |-> FALSE, genuine |-> FALSE]

NoRow == [status |-> "none", evidence |-> None, reference |-> "none", submitted |-> None,
          version |-> None, decision |-> "none", sealed |-> FALSE, proof |-> NoProof]

NoAttempt == [pc |-> "idle", wasm |-> None, proof |-> NoProof, valid |-> FALSE]

NoExport == [pc |-> "idle", version |-> None, decision |-> "none", proof |-> NoProof,
             digests |-> [f \in Files |-> None]]

NoSetup == [run |-> None, next |-> 1, writing |-> FALSE]

Init ==
    /\ load \in Loads
    /\ pack = 1
    /\ loaded = [p \in {"prover", "worker", "verifier", "sdk"} |-> 1]
    /\ file = [f \in Files |-> 1]
    /\ source = [s \in 1..MaxSetups |-> IF s = 1 THEN 1 ELSE None]
    /\ setup = NoSetup
    /\ keyCache \in {None, 1} /\ keys = {1}
    /\ row = NoRow
    /\ att = [a \in Attempts |-> NoAttempt]
    /\ tries = [row |-> 0, of |-> [a \in Attempts |-> 0]]
    /\ audit = << >>
    /\ export = NoExport /\ attested = {}
    /\ restarts = 0 /\ faults = 0 /\ lost = 0
    /\ calm = FALSE /\ overlap = FALSE

InFlight(a) == att[a].pc \notin {"idle", "done", "lost"}

-----------------------------------------------------------------------------
(* Deployment and setup *)

(* New files in policy_packs/ and circuits/, and a new image.               *)
Deploy ==
    /\ pack < load.versions
    /\ pack' = pack + 1
    /\ UNCHANGED <<load, loaded, restarts, lost, artifactVars, keyVars, att, runVars, exportVars, calm>>

(* A process starts again and reads the pack (PolicyRegistry.refresh and    *)
(* the reference policies); what it was doing is lost.                      *)
Restart(p) ==
    /\ p \in Processes /\ restarts < load.restarts
    /\ restarts' = restarts + 1
    /\ loaded' = [loaded EXCEPT ![p] = pack]
    /\ calm' = (calm /\ loaded[p] = pack)
    /\ att' = IF p \in {"worker", "sdk"}
              THEN [a \in Attempts |-> IF InFlight(a) THEN [NoAttempt EXCEPT !.pc = "lost"]
                                       ELSE att[a]]
              ELSE att
    /\ lost' = IF att' = att THEN lost ELSE lost + 1
    /\ export' = IF p = "verifier" THEN NoExport ELSE export
    /\ UNCHANGED <<load, pack, artifactVars, keyVars, runVars, attested>>

RestartNative ==
    /\ restarts < load.restarts
    /\ restarts' = restarts + 1
    /\ keyCache' = None /\ keys' = {file["vk"]} \ {Torn}
    /\ UNCHANGED <<load, pack, loaded, lost, artifactVars, att, runVars, exportVars, calm>>

(* compile_circuit: circom and the ceremony work in the build directory.    *)
SetupCompiles(s) ==
    /\ setup.run = None /\ s <= load.setups /\ source[s] = None /\ source[s - 1] # None
    /\ source' = [source EXCEPT ![s] = pack]
    /\ setup' = [NoSetup EXCEPT !.run = s]
    /\ UNCHANGED <<load, deployVars, file, keyVars, att, runVars, exportVars, calm>>

(* The shared files are then written in place, one after the other.         *)
SetupWrites ==
    /\ setup.run # None
    /\ LET f == FileOrder[setup.next]
       IN IF setup.writing
          THEN /\ file' = [file EXCEPT ![f] = setup.run]
               /\ setup' = IF setup.next = Len(FileOrder) THEN NoSetup
                           ELSE [setup EXCEPT !.next = @ + 1, !.writing = FALSE]
               /\ keys' = IF f = "vk" THEN keys \cup {setup.run} ELSE keys
          ELSE /\ file' = [file EXCEPT ![f] = Torn]
               /\ UNCHANGED keys
               /\ setup' = [setup EXCEPT !.writing = TRUE]
    /\ calm' = FALSE
    /\ UNCHANGED <<load, deployVars, source, keyCache, att, runVars, exportVars>>

(* A command of the script fails, and set -e ends it where it is.           *)
SetupStops ==
    /\ setup.run # None
    /\ setup' = NoSetup
    /\ UNCHANGED <<load, deployVars, file, source, keyVars, att, runVars, exportVars, calm>>

Settled ==
    /\ setup.run = None
    /\ \E s \in 1..MaxSetups :
          /\ \A f \in Files : file[f] = s
          /\ \A p \in Processes : loaded[p] = source[s]

-----------------------------------------------------------------------------
(* The run is created *)

Reference(v, e) == Verdict(e \in Passes[v])

(* create_policy_run: the reference track is computed by the API process    *)
(* and sealed with the job.                                                 *)
create_policy_run(e) ==
    /\ load.way = "http" /\ row = NoRow /\ e \in load.evidence
    /\ row' = [NoRow EXCEPT !.status = "queued", !.evidence = e, !.sealed = TRUE,
                            !.reference = Reference(loaded["prover"], e),
                            !.submitted = loaded["prover"], !.version = loaded["prover"]]
    /\ calm' = Settled
    /\ UNCHANGED <<load, deployVars, artifactVars, keyVars, att, audit, faults, overlap, tries, exportVars>>

(* PolicyEngine.run, up to the call of the proof engine.                    *)
EngineRun(a, e) ==
    /\ load.way = "sdk" /\ row = NoRow /\ a \in load.attempts /\ e \in load.evidence
    /\ row' = [NoRow EXCEPT !.status = "running", !.evidence = e,
                            !.reference = Reference(loaded["sdk"], e),
                            !.submitted = loaded["sdk"], !.version = loaded["sdk"]]
    /\ att' = [att EXCEPT ![a].pc = "started"]
    /\ calm' = Settled
    /\ UNCHANGED <<load, deployVars, artifactVars, keyVars, audit, faults, overlap, tries, exportVars>>

\* Mutant of GetJob: a run is taken up as long as it has its payload.
GetJob_Sealed(a) ==
    /\ load.way = "http" /\ row # NoRow /\ att[a] = NoAttempt /\ a \in load.attempts
    /\ IF row.sealed
       THEN /\ att' = [att EXCEPT ![a].pc = "got"]
            /\ tries' = [tries EXCEPT !.of[a] = tries.row + 1]
            /\ overlap' = (overlap \/ \E b \in Attempts : InFlight(b))
       ELSE att' = [att EXCEPT ![a].pc = "done"] /\ UNCHANGED <<tries, overlap>>
    /\ UNCHANGED <<load, deployVars, artifactVars, keyVars, row, audit, faults, exportVars, calm>>

(* The message is delivered, perhaps again while an attempt is under way;   *)
(* a run that is over is skipped, and another one's attempts are counted    *)
(* (next_attempt_metadata).                                                 *)
GetJob(a) ==
    /\ load.way = "http" /\ row # NoRow /\ att[a] = NoAttempt /\ a \in load.attempts
    /\ IF row.status \in {"queued", "running"}
       THEN /\ att' = [att EXCEPT ![a].pc = "got"]
            /\ tries' = [tries EXCEPT !.of[a] = tries.row + 1]
            /\ overlap' = (overlap \/ \E b \in Attempts : InFlight(b))
       ELSE att' = [att EXCEPT ![a].pc = "done"] /\ UNCHANGED <<tries, overlap>>
    /\ UNCHANGED <<load, deployVars, artifactVars, keyVars, row, audit, faults, exportVars, calm>>

Goto(a, pc) == att' = [att EXCEPT ![a].pc = pc]

(* The exception branches: the row is marked and its payload purged.        *)
Failed(a) ==
    /\ row' = [row EXCEPT !.status = "failed", !.sealed = FALSE]
    /\ att' = [att EXCEPT ![a] = [NoAttempt EXCEPT !.pc = "done"]]

\* Mutant of Exceeded: off by one, the last attempt is not made.
Exceeded_OffByOne(n) == n >= load.max

Exceeded(n) == n > load.max

(* The count is written back, with "running" or, when there were too many   *)
(* attempts, with "failed" (max_attempts_exceeded).                         *)
StartRunning(a) ==
    /\ att[a].pc = "got"
    /\ tries' = [tries EXCEPT !.row = tries.of[a]]
    /\ IF Exceeded(tries.of[a]) \/ ~ row.sealed THEN Failed(a)
       ELSE row' = [row EXCEPT !.status = "running"] /\ Goto(a, "started")
    /\ UNCHANGED <<load, deployVars, artifactVars, keyVars, audit, faults, overlap, exportVars, calm>>

-----------------------------------------------------------------------------
(* The proof engine and the native prover.  A call of POST /v6/verify whose *)
(* proof engine raises is answered with an error.                           *)

EngineRaises(a) ==
    IF load.way = "verify" THEN Goto(a, "done") /\ UNCHANGED row ELSE Failed(a)

(* generate: ensure_artifacts finds the files, whole or not; the witness is *)
(* computed with the wasm file ...                                          *)
GenerateWitness(a) ==
    /\ att[a].pc = "started"
    /\ IF file["wasm"] = Torn THEN EngineRaises(a)
       ELSE /\ att' = [att EXCEPT ![a].pc = "witness", ![a].wasm = file["wasm"]]
            /\ UNCHANGED row
    /\ UNCHANGED <<load, deployVars, artifactVars, keyVars, audit, faults, overlap, tries, exportVars, calm>>

(* ... and proved with the proving key.  A key of another circuit is        *)
(* refused or yields a proof that nothing verifies.                         *)
GenerateProof(a) ==
    LET same == file["zkey"] # Torn /\ source[file["zkey"]] = source[att[a].wasm]
        proof == [by |-> a, setup |-> file["zkey"], genuine |-> same,
                  signal |-> row.evidence \in Passes[source[att[a].wasm]]]
    IN
    /\ att[a].pc = "witness"
    /\ \/ /\ file["zkey"] # Torn
          /\ att' = [att EXCEPT ![a].pc = "proved", ![a].wasm = None, ![a].proof = proof]
          /\ UNCHANGED row
       \/ ~ same /\ EngineRaises(a)
    /\ UNCHANGED <<load, deployVars, artifactVars, keyVars, audit, faults, overlap, tries, exportVars, calm>>

Verifies(proof, key) == proof.genuine /\ proof.setup = key

\* Mutant of VerifyNative: a key that cannot be read makes the proof valid.
VerifyNative_UnwrapTrue(a) ==
    LET key == IF keyCache # None THEN keyCache ELSE file["vk"]
        valid == key = None \/ Verifies(att[a].proof, key)
    IN
    /\ att[a].pc = "proved"
    /\ keyCache' = key
    /\ att' = [att EXCEPT ![a].pc = IF valid THEN "verified" ELSE "again", ![a].valid = valid]
    /\ UNCHANGED <<load, deployVars, artifactVars, keys, runVars, exportVars, calm>>

(* verify_proof of the native prover: the cached key, or the file's, which  *)
(* is cached if it can be read; unless it accepts the proof, snarkjs is     *)
(* asked.                                                                   *)
VerifyNative(a) ==
    LET key == IF keyCache # None THEN keyCache ELSE file["vk"]
        valid == key # None /\ Verifies(att[a].proof, key)
    IN
    /\ att[a].pc = "proved"
    /\ keyCache' = key
    /\ att' = [att EXCEPT ![a].pc = IF valid THEN "verified" ELSE "again", ![a].valid = valid]
    /\ UNCHANGED <<load, deployVars, artifactVars, keys, runVars, exportVars, calm>>

(* snarkjs reads the key from the file.  When it rejects the proof, the     *)
(* answer is "invalid" if it says so on stderr, and an error otherwise.     *)
VerifySnarkjs(a) ==
    LET valid == file["vk"] # Torn /\ Verifies(att[a].proof, file["vk"]) IN
    /\ att[a].pc = "again"
    /\ \/ /\ file["vk"] # Torn
          /\ att' = [att EXCEPT ![a].pc = "verified", ![a].valid = valid]
          /\ UNCHANGED row
       \/ ~ valid /\ EngineRaises(a)
    /\ UNCHANGED <<load, deployVars, artifactVars, keyVars, audit, faults, overlap, tries, exportVars, calm>>

(* A call fails by itself: prover away, deadline, soft time limit, or the   *)
(* database or Vault once the tracks have agreed.                           *)
CallFails(a) ==
    /\ att[a].pc \in {"started", "witness", "proved", "again", "agreed", "purge", "audit"}
    /\ faults < MaxFaults
    /\ faults' = faults + 1
    /\ EngineRaises(a)
    /\ UNCHANGED <<load, deployVars, artifactVars, keyVars, audit, overlap, tries, exportVars, calm>>

-----------------------------------------------------------------------------
(* The decision *)

\* Mutant of CircuitDecision: the proof's signal counts although it does not verify.
CircuitDecision_Unverified(a) == Verdict(att[a].proof.signal)

CircuitDecision(a) == Verdict(att[a].valid /\ att[a].proof.signal)

(* evaluate_circuit_track and assert_dual_track_consistency; the decision   *)
(* signal is also one of the outputs compared.                              *)
Consistent(a) ==
    /\ row.reference = CircuitDecision(a)
    /\ (row.reference = "pass") = att[a].proof.signal

DualTrack(a) ==
    /\ att[a].pc = "verified" /\ load.way # "verify"
    /\ IF Consistent(a) THEN Goto(a, "agreed") /\ UNCHANGED row ELSE Failed(a)
    /\ UNCHANGED <<load, deployVars, artifactVars, keyVars, audit, faults, overlap, tries, exportVars, calm>>

MarkCompleted(a) ==
    /\ load.way = "http" /\ att[a].pc = "agreed"
    /\ row' = [row EXCEPT !.status = "completed", !.proof = att[a].proof,
                          !.decision = CircuitDecision(a), !.version = loaded["worker"]]
    /\ Goto(a, "purge")
    /\ UNCHANGED <<load, deployVars, artifactVars, keyVars, audit, faults, overlap, tries, exportVars, calm>>

PurgeCompleted(a) ==
    /\ att[a].pc = "purge"
    /\ row' = [row EXCEPT !.sealed = FALSE]
    /\ Goto(a, "audit")
    /\ UNCHANGED <<load, deployVars, artifactVars, keyVars, audit, faults, overlap, tries, exportVars, calm>>

AuditCompleted(a) ==
    /\ att[a].pc = "audit"
    /\ audit' = Append(audit, att[a].proof)
    /\ att' = [att EXCEPT ![a] = [NoAttempt EXCEPT !.pc = "done"]]
    /\ UNCHANGED <<load, deployVars, artifactVars, keyVars, row, faults, overlap, tries, exportVars, calm>>

(* A call of POST /v6/verify, with a proof of any age, and its answer.      *)
Verify(a, proof) ==
    /\ load.way = "verify" /\ att[a] = NoAttempt /\ a \in load.attempts
    /\ source[proof.setup] # None
    /\ att' = [att EXCEPT ![a].pc = "proved", ![a].proof = proof]
    /\ UNCHANGED <<load, deployVars, artifactVars, keyVars, runVars, exportVars, calm>>

VerifyAnswered(a) ==
    /\ load.way = "verify" /\ att[a].pc = "verified"
    /\ att' = [att EXCEPT ![a] = [NoAttempt EXCEPT !.pc = "done"]]
    /\ UNCHANGED <<load, deployVars, artifactVars, keyVars, runVars, exportVars, calm>>

-----------------------------------------------------------------------------
(* Attestation *)

artifact_digests == file

(* AttestationService.create.                                               *)
create(a) == [pc |-> "built", version |-> row.version, decision |-> CircuitDecision(a),
              proof |-> att[a].proof, digests |-> artifact_digests]

(* The rest of PolicyEngine.run when the tracks agree.                      *)
EngineCompletes(a) ==
    /\ load.way = "sdk" /\ att[a].pc = "agreed"
    /\ row' = [row EXCEPT !.status = "completed", !.proof = att[a].proof,
                          !.decision = CircuitDecision(a)]
    /\ export' = create(a)
    /\ attested' = attested \cup {att[a].proof.by}
    /\ att' = [att EXCEPT ![a] = [NoAttempt EXCEPT !.pc = "done"]]
    /\ UNCHANGED <<load, deployVars, artifactVars, keyVars, audit, faults, overlap, tries, calm>>

(* export_attestation reads the row, takes the version that its own process *)
(* has loaded and hashes the files as they are; a run that is not completed *)
(* is refused.                                                              *)
ExportReads ==
    /\ load.way = "http" /\ export = NoExport
    /\ row.status = "completed"
    /\ export' = [pc |-> "rows", version |-> loaded["verifier"], decision |-> row.decision,
                  proof |-> row.proof, digests |-> artifact_digests]
    /\ UNCHANGED <<load, deployVars, artifactVars, keyVars, att, runVars, attested, calm>>

(* Then the audit rows: the last completed one stands in for a proof that   *)
(* was pruned; without it the export is refused.                            *)
ExportBuilds ==
    /\ export.pc = "rows"
    /\ LET pruned == export.proof = NoProof
           proof == IF pruned THEN audit[Len(audit)] ELSE export.proof
       IN IF pruned /\ audit = << >> THEN export' = NoExport /\ UNCHANGED attested
          ELSE /\ export' = [export EXCEPT !.pc = "built", !.proof = proof]
               /\ attested' = attested \cup {proof.by}
    /\ UNCHANGED <<load, deployVars, artifactVars, keyVars, att, runVars, calm>>

(* The bundle is answered, and forgotten.                                   *)
Exported ==
    /\ export.pc = "built"
    /\ export' = NoExport
    /\ UNCHANGED <<load, deployVars, artifactVars, keyVars, att, runVars, attested, calm>>

\* Mutant of Prune: the metadata goes with the proof.
Prune_Metadata ==
    /\ row.status = "completed" /\ row.proof # NoProof /\ load.way = "http"
    /\ row' = [row EXCEPT !.proof = NoProof, !.decision = "none"]
    /\ UNCHANGED <<load, deployVars, artifactVars, keyVars, att, audit, faults, overlap, tries, exportVars, calm>>

(* prune_terminal_job_runtime_data takes the proof out of an aged row.      *)
Prune ==
    /\ row.status = "completed" /\ row.proof # NoProof /\ load.way = "http"
    /\ row' = [row EXCEPT !.proof = NoProof]
    /\ UNCHANGED <<load, deployVars, artifactVars, keyVars, att, audit, faults, overlap, tries, exportVars, calm>>

-----------------------------------------------------------------------------
AttemptStep(a) ==
    \/ GetJob(a) \/ StartRunning(a)
    \/ GenerateWitness(a) \/ GenerateProof(a) \/ VerifyNative(a) \/ VerifySnarkjs(a)
    \/ CallFails(a) \/ DualTrack(a)
    \/ MarkCompleted(a) \/ PurgeCompleted(a) \/ AuditCompleted(a)
    \/ VerifyAnswered(a) \/ EngineCompletes(a)

Next ==
    \/ Deploy \/ SetupWrites \/ SetupStops \/ RestartNative
    \/ \E p \in {"prover", "worker", "verifier", "sdk"} : Restart(p)
    \/ \E s \in 2..MaxSetups : SetupCompiles(s)
    \/ \E e \in Evidence : create_policy_run(e)
    \/ \E a \in Attempts, e \in Evidence : EngineRun(a, e)
    \/ \E a \in Attempts, s \in 1..MaxSetups, g \in BOOLEAN :
          Verify(a, [by |-> a, setup |-> s, signal |-> TRUE, genuine |-> g])
    \/ \E a \in Attempts : AttemptStep(a)
    \/ ExportReads \/ ExportBuilds \/ Exported \/ Prune

Spec == Init /\ [][Next]_vars

-----------------------------------------------------------------------------
(* A run that completed with "pass" carries a proof that verifies under the *)
(* key made with its proving key, for a circuit whose policy passes the     *)
(* evidence, and the version that the API had loaded passes it too: neither *)
(* a setup run half-way nor processes of different versions turn a "fail"   *)
(* into a "pass" (evaluate_circuit_track, assert_dual_track_consistency).   *)
PassIsProved ==
    row.status = "completed" /\ row.decision = "pass" =>
        /\ row.evidence \in Passes[row.submitted]
        /\ row.proof # NoProof => /\ row.proof.genuine
                                  /\ row.evidence \in Passes[source[row.proof.setup]]

(* A run submitted to a settled system, whose attempts do not overlap, only *)
(* fails if a call failed, if so many attempts were interrupted as the run  *)
(* may have, or if something it depends on was changed: a key cached before *)
(* the last setup run fails no run, nor do restarts that interrupt less     *)
(* than PROOF_JOB_MAX_ATTEMPTS attempts.                                    *)
FailureHasCause ==
    row.status = "failed" /\ calm /\ ~ overlap => faults > 0 \/ lost >= load.max

(* A proof is called valid only under a key that its file has held since    *)
(* the native prover started, so that a restart ends the use of every older *)
(* key, and invalid only if it is not valid under the key in the file       *)
(* (get_or_load_verification_key, verify_proof).                            *)
AnswersFollowKeys ==
    [][\A a \in Attempts :
          att[a].pc # "verified" /\ att'[a].pc = "verified" =>
             IF att'[a].valid THEN \E key \in keys : Verifies(att[a].proof, key)
             ELSE ~ Verifies(att[a].proof, file["vk"])]_vars

(* If nothing the run depends on has changed since its submission, its      *)
(* attestation names the version that decided it, the decision of that      *)
(* version, and the digests of the files that proved it.                    *)
AttestationDescribesRun ==
    export.pc = "built" /\ calm =>
        /\ export.version = row.submitted
        /\ export.decision = Reference(row.submitted, row.evidence)
        /\ \A f \in Files : export.digests[f] = export.proof.setup

(* All attestations of a run whose attempts did not overlap name the same   *)
(* proof, before and after the row is pruned and whatever was delivered     *)
(* again or lost in between.                                                *)
AttestationsAgree == ~ overlap => Cardinality(attested) <= 1
=============================================================================
