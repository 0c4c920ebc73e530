------------------------------ MODULE PolicyCase ------------------------------
(***************************************************************************)
(* One policy run seen as data: the policy as written, the artifacts the    *)
(* compiler keeps of it on disk and the drift gate, the evidence and        *)
(* parameters of POST /v6/runs, the reference track computed when the run   *)
(* is accepted, the circuit track computed by the worker, the comparison of *)
(* the two, and the explanation and class kept with a failed run.           *)
(*                                                                          *)
(* A policy written in the DSL is a record of its decision, its declared    *)
(* parameters, its outputs with their declared types, and its circuit:      *)
(* "generated", or the batch_credit_check that the lending packs of the     *)
(* repository name.  The two packs without a DSL file are known by their    *)
(* circuit alone.  A generated file stands for the policy it was made of:   *)
(* each one contains the hash of its spec.                                  *)
(***************************************************************************)
EXTENDS PolicyRules

CONSTANTS Policies,   \* the policies looked at
          Earlier(_), \* specs that a policy's files on disk may come from
          Values,     \* integers of a scalar policy's evidence
          RowValues,  \* integers of a batch policy's evidence
          Lists,      \* balances and limits sent as lists
          Given(_)    \* parameters sent with a policy: records [found, file, inline]

VARIABLES policy,      \* the policy of this run
          stage,       \* written, generated, drifted, unsupported, deployed, then of the
                       \* run: refused, queued, unsealed, proved, completed, failed
          disk,        \* the spec each generated file was made of
          body,        \* evidence.payload
          given,       \* the file behind policy_params_ref and the parameters in the payload
          input,       \* private_input of the reference track
          reference,   \* dual_track_reference, sealed with the job
          decrypted,   \* the worker has unsealed the payload
          signal,      \* the decision signal of the proof
          verified,    \* verify_result.valid: "yes" or "no", "unknown" before the answer,
                       \* "cut" when the soft time limit ended the verification
          decision,    \* metadata "decision" of a completed run
          explanation, \* error_details.explainability of a failed run
          error_class  \* of the dead letter of a failed run

pack == <<policy, disk>>
request == <<body, given, input, reference>>
opened == <<request, decrypted>>
outcome == <<decision, explanation, error_class>>
vars == <<pack, stage, opened, signal, verified, outcome>>

Nothing == << >>

(* An exception where a value was expected.                                 *)
Raised == << >>

IsDsl(p) == "decision" \in DOMAIN p

Verdict(b) == IF b THEN "pass" ELSE "fail"

-----------------------------------------------------------------------------
(* policy_parameters.py and _resolve_policy_parameters.                     *)

(* policy_params_ref is empty or names a readable file of integers.         *)
resolve_accepts(g) == g.found

(* The parameters of the file win over those of the payload; neither adds   *)
(* to the other.                                                            *)
effective_parameters(g) == IF g.file # Nothing THEN g.file ELSE g.inline

parameters_accepted(p, ps) ==
    p.parameters = Nothing
    \/ /\ DOMAIN ps \subseteq DOMAIN p.parameters
       /\ \A x \in DOMAIN p.parameters :
            IF x \in DOMAIN ps THEN ps[x] \in p.parameters[x].range
            ELSE p.parameters[x].default # {}

_resolve_policy_parameters(p, ps) ==
    [x \in DOMAIN p.parameters |->
        IF x \in DOMAIN ps THEN ps[x] ELSE CHOOSE v \in p.parameters[x].default : TRUE]

(* Two hash functions: compute_policy_params_hash and the circuit's.        *)
compute_policy_params_hash(ps) == <<"sha256", ps>>
Poseidon(ps) == <<"poseidon", ps>>
ZeroHash == <<"zero", Nothing>>

ResolvedFrom(p, g) ==
    IF IsDsl(p) THEN _resolve_policy_parameters(p, effective_parameters(g)) ELSE Nothing

Resolved == ResolvedFrom(disk.python, given)

-----------------------------------------------------------------------------
(* The reference policies of policies/generated.                            *)

zk_kyc_accepts(b) ==
    /\ b.age \in 0..MaxAge /\ b.min_age \in 0..MaxAge
    /\ b.country_code \in 0..MaxCountry /\ b.allowed_country_code \in 0..MaxCountry

zk_kyc_passed(in) == in.age >= in.min_age /\ in.country_code = in.allowed_country_code

proof_of_reserves_accepts(b) == b.liabilities >= 0 /\ b.assets >= 0

proof_of_reserves_passed(in) == in.liabilities <= in.assets

IsPadded(b) == "active_count" \in DOMAIN b

(* policies/normalization.py.                                               *)
require_integer(value, minimum, maximum) == value >= minimum /\ value <= maximum

require_integer_list(values, minimum, maximum) ==
    \A k \in DOMAIN values : require_integer(values[k], minimum, maximum)

normalize_accepts(p, b, ps) ==
    CASE IsDsl(p) ->
           /\ parameters_accepted(p, ps)
           /\ IF IsPadded(b) THEN batch_prepare_from_private_input_accepts(b, FALSE)
              ELSE /\ require_integer_list(b.balances, 0, M32 - 1)
                   /\ require_integer_list(b.limits, 0, M32 - 1)
                   /\ batch_prepare_accepts(b)
      [] p.circuit = "zk_kyc_v1" -> zk_kyc_accepts(b)
      [] p.circuit = "proof_of_reserves_v1" -> proof_of_reserves_accepts(b)

normalize(p, b) == IF IsDsl(p) /\ ~ IsPadded(b) THEN batch_prepare_input(b) ELSE b

passed(p, in, ps) ==
    CASE IsDsl(p) -> evaluate_reference(p.decision, in, ps)
      [] p.circuit = "zk_kyc_v1" -> zk_kyc_passed(in)
      [] p.circuit = "proof_of_reserves_v1" -> proof_of_reserves_passed(in)

(* differential_outputs: the value_type declared for each output.           *)
outputs(p) == IF IsDsl(p) THEN p.outputs ELSE [decision |-> "bool"]

project_public_outputs(p, in, ps) ==
    [o \in DOMAIN outputs(p) |->
        CASE o = "decision" -> <<"bool", passed(p, in, ps)>>
          [] o = "active_count" -> <<"int", in.active_count>>
          [] o = "policy_params_hash" -> <<"string", compute_policy_params_hash(ps)>>]

(* A projected value keeps its type, and any other declared one is refused. *)
_normalize_reference_value(value, value_type) ==
    IF value[1] = value_type THEN value ELSE Raised

prepare_reference_track(p, in, ps) ==
    [decision |-> Verdict(passed(p, in, ps)),
     outputs |-> [o \in DOMAIN outputs(p) |->
                    _normalize_reference_value(project_public_outputs(p, in, ps)[o],
                                               outputs(p)[o])]]

(* The manifest of a generated circuit takes the rows and, when the policy  *)
(* has parameters, their values and hash, which batch_credit_check refuses. *)
schema_accepts(p, in) ==
    CASE p.circuit = "generated" -> in \in batch_schema
      [] p.circuit = Batch -> p.parameters = Nothing /\ in \in batch_schema
      [] OTHER -> validate_private_input_schema(p.circuit, in)

-----------------------------------------------------------------------------
(* The circuit track.                                                       *)

HashHolds(p, ps) == p.parameters = Nothing \/ Poseidon(ps) = compute_policy_params_hash(ps)

decision_signal(p, in, ps) ==
    IF p.circuit = "generated"
    THEN Output(generated_constraints(p.decision, in, ps) /\ HashHolds(p, ps),
                aggregate_value(p.decision, in, ps))
    ELSE Witness(p.circuit, in)

(* The outputs of a proof with decision signal s; batch_credit_check has    *)
(* the first two only.                                                      *)
public_signals(p, in, ps, s) ==
    [o \in DOMAIN outputs(p) \ (IF p.circuit = Batch THEN {"policy_params_hash"} ELSE {}) |->
        CASE o = "decision" -> s
          [] o = "active_count" -> in.active_count
          [] o = "policy_params_hash" -> IF p.parameters = Nothing THEN ZeroHash ELSE Poseidon(ps)]

_signal_at(signals, o) == IF o \in DOMAIN signals THEN <<signals[o]>> ELSE Raised

_normalize_signal_value(at, value_type) ==
    CASE at = Raised -> Raised
      [] at # Raised /\ value_type = "bool" ->
           IF at[1] \in {0, 1} THEN <<"bool", at[1] = 1>> ELSE Raised
      [] OTHER -> <<value_type, at[1]>>

(* A proof that does not verify counts as "fail"; the outputs are read from *)
(* its public signals all the same.                                         *)
evaluate_circuit_track(p, in, ps, s, valid) ==
    LET signals == public_signals(p, in, ps, s)
    IN [decision |-> Verdict(valid /\ _signal_at(signals, "decision") = <<1>>),
        outputs |-> [o \in DOMAIN outputs(p) |->
                       _normalize_signal_value(_signal_at(signals, o), outputs(p)[o])]]

\* Mutant of consistent: only the outputs are compared.
consistent_OutputsOnly(ref, circ) == ref.outputs = circ.outputs

consistent(ref, circ) == ref.decision = circ.decision /\ ref.outputs = circ.outputs

(* setup_framework.sh builds a circuit only when circom accepts it.         *)
Built(p) == p.circuit = "generated" => Quadratic(p.decision)

-----------------------------------------------------------------------------
(* drift.py and manifest.py: what generate writes, in this order, and what  *)
(* check-drift compares.  The manifest stands for its compiler_metadata.    *)
(* Before the first command each file may be of another spec: a spec can be *)
(* committed without some of them.                                          *)

Sources == <<"python", "circom", "debug">>

Files == Range(Sources) \cup {"manifest"}

(* The first n writes, when the command is stopped there.                   *)
write_generated_artifacts(n) ==
    [f \in Files |-> IF \E k \in DOMAIN Sources : k <= n /\ Sources[k] = f
                     THEN policy ELSE disk[f]]

sync_manifest_compiler_metadata(d, n) ==
    IF n > Len(Sources) THEN [d EXCEPT !["manifest"] = policy] ELSE d

manifest_metadata_matches == disk["manifest"] = policy

check_drift ==
    (\A f \in Range(Sources) : disk[f] = policy) /\ manifest_metadata_matches

-----------------------------------------------------------------------------
(* failure_triage.py: the first class that has one of the words.            *)

\* Mutant of Classes: the proving pipeline is looked at before the network.
Classes_CryptoFirst ==
    <<<<"timeout", {"soft_time_limit_exceeded", "time limit", "timeout"}>>,
      <<"crypto", {"decrypt", "dual_track_mismatch", "snarkjs"}>>,
      <<"dependency", {"grpc"}>>,
      <<"artifact", {"missing_artifacts"}>>>>

Classes ==
    <<<<"timeout", {"soft_time_limit_exceeded", "time limit", "timeout"}>>,
      <<"dependency", {"connection refused", "temporarily unavailable", "service unavailable",
                       "grpc", "redis", "postgres", "database", "network"}>>,
      <<"artifact", {"missing_artifacts", "required circuit artifacts are missing",
                     "no such file", "final.zkey", ".wasm"}>>,
      <<"schema", {"invalid_private_input_schema", "private_input does not satisfy",
                   "validation failed", "dual_track_reference"}>>,
      <<"crypto", {"decrypt", "vault", "signature", "invalid proof", "proof verification failed",
                   "dual_track_mismatch", "snarkjs", "rapidsnark"}>>,
      <<"retry_exhausted", {"max_attempts_exceeded"}>>>>

classify_failure(words) ==
    LET met == SelectSeq(Classes, LAMBDA c : c[2] \cap words # {})
    IN IF met = << >> THEN "unknown" ELSE Head(met)[1]

(* "gRPC native prover ... call failed", with what the prover said.         *)
CallFailed == {{"grpc"}, {"grpc", "snarkjs"}, {"grpc", "timeout"}}

(* The soft time limit met the worker's own code.  In the provider's code   *)
(* it is an exception like any other, which the proof engine wraps, and its *)
(* text, SoftTimeLimitExceeded(), has none of the words.                    *)
SoftLimit == {"soft_time_limit_exceeded", "time limit"}

(* The proof engine's own message for whatever its verify meets.            *)
VerificationFailed == "proof verification failed"

(* What the database says, and what httpx says of an answer of Vault, whose *)
(* URL has its name.                                                        *)
AppendFailed == {{}, {"connection refused"}, {"vault", "service unavailable"}, {"vault"}}

-----------------------------------------------------------------------------
Bodies(p) ==
    CASE IsDsl(p) ->
           [balances : Lists, limits : Lists]
           \cup [active_count : 0..(N + 1), balances : [Rows -> RowValues],
                 limits : [Rows -> RowValues]]
      [] OTHER -> [DOMAIN input_schema[p.circuit] -> Values]

Init ==
    /\ policy \in Policies
    /\ disk \in [Files -> Earlier(policy)]
    /\ stage = "written" /\ body = Nothing /\ given = Nothing /\ input = Nothing
    /\ reference = Nothing /\ decrypted = FALSE /\ signal = Unsat /\ verified = "unknown"
    /\ decision = "none" /\ explanation = Nothing /\ error_class = "none"

Supported == ensure_supported_decision(policy.decision, DOMAIN policy.parameters)

(* Both commands that compile raise on a decision outside the language.     *)
Unsupported ==
    /\ stage = "written" /\ IsDsl(policy) /\ ~ Supported
    /\ stage' = "unsupported"
    /\ UNCHANGED <<pack, opened, signal, verified, outcome>>

(* vellum-compiler generate, which may be stopped after n of its writes.    *)
generate_policy_artifacts(n) ==
    /\ stage \in {"written", "drifted"} /\ IsDsl(policy) /\ Supported
    /\ disk' = sync_manifest_compiler_metadata(write_generated_artifacts(n), n)
    /\ stage' = "generated"
    /\ UNCHANGED <<policy, opened, signal, verified, outcome>>

(* vellum-compiler check-drift, the gate in front of a release.  A pack     *)
(* without a DSL file has nothing to check.                                 *)
Release ==
    /\ stage \in {"written", "generated"} /\ (IsDsl(policy) => Supported)
    /\ stage' = IF IsDsl(policy) => check_drift THEN "deployed" ELSE "drifted"
    /\ UNCHANGED <<pack, opened, signal, verified, outcome>>

create_policy_run(b, g) ==
    /\ stage = "deployed"
    /\ body' = b /\ given' = g
    /\ LET in == normalize(disk.python, b)
           ref == prepare_reference_track(disk.python, in, ResolvedFrom(disk.python, g))
           accepted == /\ resolve_accepts(g)
                       /\ normalize_accepts(disk.python, b, effective_parameters(g))
                       /\ \A o \in DOMAIN ref.outputs : ref.outputs[o] # Raised
                       /\ schema_accepts(policy, in)
       IN \/ accepted /\ stage' = "queued" /\ input' = in /\ reference' = ref
          \/ ~ accepted /\ stage' = "refused" /\ UNCHANGED <<input, reference>>
    /\ UNCHANGED <<pack, decrypted, signal, verified, outcome>>

(* The replay has the file's parameters only, without the declared defaults *)
(* and without those of the payload.  Without a DSL file, or without the    *)
(* payload, there is none.                                                  *)
build_explainability ==
    IF IsDsl(policy) /\ decrypted THEN _evaluate_policy_trace(policy.decision, input, given.file)
    ELSE [reason |-> "none", failed |-> << >>]

(* The except branches, with the words that the reason and the message of   *)
(* the exception have.                                                      *)
Fail(words) ==
    /\ stage' = "failed"
    /\ explanation' = build_explainability
    /\ error_class' = classify_failure(words)
    /\ UNCHANGED decision

Proof == decision_signal(disk.circom, input, Resolved)

(* unseal_job_payload, by a call to Vault.                                  *)
Unseal ==
    /\ stage = "queued"
    /\ \/ stage' = "unsealed" /\ decrypted' = TRUE /\ UNCHANGED outcome
       \/ Fail({"decrypt"}) /\ UNCHANGED decrypted
    /\ UNCHANGED <<pack, request, signal, verified>>

(* proof_engine.generate.  A circuit that was not built has no artifacts;   *)
(* the call fails without a witness, and may fail for the prover's sake.    *)
Generate ==
    /\ stage = "unsealed"
    /\ \/ /\ Built(disk.circom) /\ Proof # Unsat
          /\ stage' = "proved" /\ signal' = Proof
          /\ UNCHANGED outcome
       \/ ~ Built(disk.circom) /\ Fail({"missing_artifacts"}) /\ UNCHANGED signal
       \/ /\ Built(disk.circom)
          /\ \E words \in CallFailed \cup {SoftLimit, {}} : Fail(words)
          /\ UNCHANGED signal
    /\ UNCHANGED <<pack, opened, verified>>

(* proof_engine.verify and the dual-track comparison.  The proof may fail   *)
(* to verify (see PolicyRun for how).                                       *)
Conclude(valid) ==
    /\ stage = "proved"
    /\ verified' = IF valid THEN "yes" ELSE "no"
    /\ LET circuit == evaluate_circuit_track(disk.circom, input, Resolved, signal, valid)
       IN \/ /\ consistent(reference, circuit)
             /\ stage' = "completed" /\ decision' = circuit.decision
             /\ UNCHANGED <<explanation, error_class>>
          \/ ~ consistent(reference, circuit) /\ Fail({"dual_track_mismatch"})
    /\ UNCHANGED <<pack, opened, signal>>

VerifyFails ==
    /\ stage = "proved"
    /\ \/ /\ \E words \in {w \cup {VerificationFailed} : w \in CallFailed} \cup {SoftLimit} : Fail(words)
          /\ UNCHANGED verified
       \/ Fail({VerificationFailed}) /\ verified' = "cut"
    /\ UNCHANGED <<pack, opened, signal>>

(* The append of the event "completed" fails, at the database or at Vault.  *)
AuditFails ==
    /\ stage = "completed"
    /\ \E words \in AppendFailed : Fail(words)
    /\ UNCHANGED <<pack, opened, signal, verified>>

Next ==
    \/ Unsupported
    \/ \E n \in 0..(Len(Sources) + 1) : generate_policy_artifacts(n)
    \/ Release
    \/ \E b \in Bodies(policy), g \in Given(policy) : create_policy_run(b, g)
    \/ Unseal
    \/ Generate
    \/ \E valid \in BOOLEAN : Conclude(valid)
    \/ VerifyFails
    \/ AuditFails

Spec == Init /\ [][Next]_vars

-----------------------------------------------------------------------------
(* The evidence as it was sent, not padded.                                 *)
Sent == IF IsDsl(policy) /\ ~ IsPadded(body)
        THEN [balances |-> [i \in 0..(Len(body.balances) - 1) |-> body.balances[i + 1]],
              limits |-> [i \in 0..(Len(body.limits) - 1) |-> body.limits[i + 1]],
              active_count |-> Len(body.balances)]
        ELSE body

Constants(p) ==
    UNION {LET e == Comparisons(p.decision)[k]
           IN {v.const_int : v \in {u \in {e.left, e.right} : "const_int" \in DOMAIN u}}
           : k \in DOMAIN Comparisons(p.decision)}

RECURSIVE NotFree(_)
NotFree(e) == e.kind # "not" /\ \A k \in DOMAIN Inners(e) : NotFree(Inners(e)[k])

(* What the generated circuit can represent: 32-bit constants, and no       *)
(* parameters (whose SHA-256 no Poseidon hash equals).                      *)
Representable(p) ==
    IsDsl(p) => /\ Constants(p) \subseteq 0..(M32 - 1)
                /\ p.parameters = Nothing /\ "policy_params_hash" \notin DOMAIN p.outputs

(* The two tracks are written by two renderers, or by hand, kept in two     *)
(* files, and run in the integers and in the field: for every accepted run  *)
(* of a representable policy that passed the drift gate the circuit has a   *)
(* witness, and its decision and outputs are those of the reference,        *)
(* whatever the padding rows hold and wherever a generate was stopped.      *)
TracksAgree ==
    stage = "queued" /\ Representable(policy) =>
        /\ Proof # Unsat
        /\ evaluate_circuit_track(disk.circom, input, Resolved, Proof, TRUE) = reference

(* docs/DLQ_LIFECYCLE.md tells operators to treat a dead letter of class    *)
(* "crypto" as a regression of the release.  For a representable policy     *)
(* whose files passed the drift gate, classify_failure says so of a run     *)
(* between the unsealing and the verdict exactly when its proof did not     *)
(* verify, or when the soft time limit ended the verification inside the    *)
(* provider: whatever words the errors of the prover contain, and although  *)
(* the proof engine calls each of them "Proof verification failed".         *)
(* (Vault failing before and after is "crypto" too: see AppendFailed and    *)
(* Unseal.)                                                                 *)
CryptoMeansUnverified ==
    stage = "failed" /\ Representable(policy) /\ decrypted /\ decision = "none" =>
        (error_class = "crypto" <=> verified \in {"no", "cut"})

(* A decision that is recorded, at completion, is that of its policy on the *)
(* rows that were sent, for every policy, and stays so when the run fails   *)
(* afterwards: a constant that does not fit the field, or a proof that does *)
(* not verify, may fail the run but never turns the answer.                 *)
CompletedMeansAgreed ==
    decision # "none" => decision = Verdict(passed(policy, Sent, Resolved))

(* The replay of a failed run blames the policy exactly when the policy did *)
(* not hold, provided that the file sent gives every parameter and that the *)
(* payload could be unsealed.                                               *)
ExplanationAgrees ==
    stage = "failed" /\ decrypted /\ IsDsl(policy) /\ Resolved = given.file =>
        (explanation.reason = "policy_rule_failed" <=> reference.decision = "fail")

(* When it does blame the policy, and the policy has no `not`, it names a   *)
(* rule, and the one it names first is false in a row that was sent.        *)
NamedRuleFails ==
    stage = "failed" /\ IsDsl(policy) /\ Resolved = given.file =>
        (explanation.reason = "policy_rule_failed" /\ NotFree(policy.decision) =>
            /\ explanation.failed # << >>
            /\ LET rule == Comparisons(policy.decision.inner)[explanation.failed[1]]
               IN \E i \in Active(Sent) : ~ python_boolean_expr(rule, i, Sent, Resolved))

(* A policy whose parameters the compiler and the API accept can be proved. *)
ParameterisedRunIsProvable ==
    stage = "queued" /\ IsDsl(policy) /\ Constants(policy) \subseteq 0..(M32 - 1)
        /\ policy.parameters # Nothing /\ Quadratic(policy.decision)
    => Proof # Unsat
=============================================================================
