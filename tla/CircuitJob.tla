------------------------------ MODULE CircuitJob ------------------------------
(***************************************************************************)
(* One proof job seen as data: the request body that create_batch_proof     *)
(* accepts or refuses, the private input it queues, and what the worker's   *)
(* own checks and the circuit make of that input.  The queue, the database  *)
(* and the audit log between the two are the subject of ProofPipeline.      *)
(***************************************************************************)
EXTENDS CircuitInput

CONSTANT Values   \* the integers a request may carry

VARIABLES circuit,  \* circuit_id of the request
          mode,     \* "direct" (balances/limits) or "private_input"
          body,     \* the input as sent
          float,    \* a number of it is a float of an integral value (25.0)
          stage,    \* "sent", "refused", "queued", "failed" or "proved"
          input,    \* private_input of the queued job
          output    \* the circuit's output signal, Unsat before there is one

vars == <<circuit, mode, body, float, stage, input, output>>

-----------------------------------------------------------------------------
Lists == UNION {[1..n -> Values] : n \in 0..(N + 1)}

(* A scalar request has the circuit's fields, or none of them.  The arrays  *)
(* of a batch sent as private_input have N rows (another length is refused  *)
(* by the schema, as in direct mode).                                       *)
Bodies(c, m) ==
    IF m = "direct" THEN [balances : Lists, limits : Lists]
    ELSE IF c = Batch
    THEN [active_count : Values, balances : [0..(N - 1) -> Values],
          limits : [0..(N - 1) -> Values]]
    ELSE [DOMAIN input_schema[c] -> Values] \cup {NoInput}

Init ==
    /\ circuit \in Scalars \cup {Batch}
    /\ mode \in IF circuit = Batch THEN {"direct", "private_input"} ELSE {"private_input"}
    /\ body \in Bodies(circuit, mode)
    /\ float \in BOOLEAN
    /\ stage = "sent" /\ input = NoInput /\ output = Unsat

Prepared == IF mode = "direct" THEN batch_prepare_input(body) ELSE body

SubmitOk ==
    /\ mode = "direct" => batch_prepare_accepts(body)
    /\ validate_private_input_schema(circuit, Prepared)

(* BatchProveRequest makes ints of the two lists and takes private_input as *)
(* it comes.                                                                *)
create_batch_proof ==
    /\ stage = "sent"
    /\ float' = (float /\ mode = "private_input")
    /\ \/ SubmitOk /\ stage' = "queued" /\ input' = Prepared
       \/ ~SubmitOk /\ stage' = "refused" /\ UNCHANGED input
    /\ UNCHANGED <<circuit, mode, body, output>>

WorkerOk ==
    /\ circuit = Batch => batch_prepare_from_private_input_accepts(input, float)
    /\ validate_private_input_schema(circuit, input)
    /\ normalize_json_value_accepts(float)
    /\ Witness(circuit, input) # Unsat

process_proof_job ==
    /\ stage = "queued"
    /\ \/ WorkerOk /\ stage' = "proved" /\ output' = Witness(circuit, input)
       \/ ~WorkerOk /\ stage' = "failed" /\ UNCHANGED output
    /\ UNCHANGED <<circuit, mode, body, float, input>>

Next == create_batch_proof \/ process_proof_job

Spec == Init /\ [][Next]_vars

-----------------------------------------------------------------------------
Bit(b) == IF b THEN 1 ELSE 0

Signed(x) == IF 2 * x > P THEN x - P ELSE x

(* What a circuit's output is meant to say of its input, in the integers.   *)
ScalarMeaning(c, in, out) ==
    CASE c = "credit_check" ->
           Signed(out) = in.credit_score * ScoreScale - in.debt_ratio
      [] c = "aml_check" -> out = in.amount * in.risk_weight
      [] c = "proof_of_reserves_v1" -> out = Bit(in.assets >= in.liabilities)
      [] c = "zk_kyc_v1" ->
           out = Bit(in.age >= in.min_age /\ in.country_code = in.allowed_country_code)
      [] c = "dti_check" ->
           out = Bit(in.monthly_debt_payment * Scale <= in.monthly_income * in.max_dti_bps)
      [] c = "reserve_ratio_check" ->
           out = Bit(in.liquid_assets * Scale
                       >= in.short_term_liabilities * in.min_reserve_ratio_bps)

(* The manifests' schemas and the circuits' range constraints agree: the    *)
(* worker fails a scalar job that the submission accepted, for the input's  *)
(* sake, only when a number was written as a float, which the schema admits *)
(* and the provider does not.  No product or sum of accepted values leaves  *)
(* the width of the comparator it is fed to.                                *)
AcceptedScalarIsProvable ==
    circuit # Batch /\ stage \in {"failed", "proved"} => (stage = "failed" <=> float)

(* A batch sent as two lists is always provable; one sent as private_input  *)
(* fails in the worker exactly when its padding is not zero, which the      *)
(* submission does not look at, or a number was written as a float.         *)
AcceptedBatchIsProvable ==
    circuit = Batch /\ stage \in {"failed", "proved"} =>
        (stage = "failed" <=>
            /\ mode = "private_input"
            /\ \/ float
               \/ ~zero_tail(body.balances, body.active_count)
               \/ ~zero_tail(body.limits, body.active_count))

(* The public output of a proved scalar job is the comparison or score in   *)
(* the integers, although the circuit computes it in the field.             *)
ScalarDecided ==
    stage = "proved" /\ circuit # Batch => ScalarMeaning(circuit, body, output)

(* A proved batch says whether every balance sent exceeds its limit: the    *)
(* padding of short lists, and the neutral rows, never tip the decision.    *)
BatchDecided ==
    stage = "proved" /\ circuit = Batch =>
        LET rows == IF mode = "direct" THEN DOMAIN body.balances
                    ELSE 0..(body.active_count - 1)
        IN output = Bit(\A i \in rows : body.balances[i] > body.limits[i])
=============================================================================
