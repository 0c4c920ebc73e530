----------------------------- MODULE CircuitInput -----------------------------
(***************************************************************************)
(* The private input of a job on its way to a circuit: the input_schema of  *)
(* the circuits' manifests, the batch preparation of logic/batcher.py and   *)
(* the witness a circuit has for an input.                                  *)
(***************************************************************************)
EXTENDS Circuits, Sequences

Batch == "batch_credit_check"

(* The input_schema of every manifest.json: the integers allowed for each   *)
(* field.  All fields are required and no others are allowed.  The          *)
(* "integer" of JSON Schema is also a number written 25.0.                  *)
input_schema ==
    [credit_check |-> [credit_score |-> 0..MaxScore, debt_ratio |-> 0..MaxDebtRatio],
     aml_check |-> [amount |-> 0..MaxAmount, risk_weight |-> 0..Scale],
     proof_of_reserves_v1 |-> [liabilities |-> 0..MaxReserves, assets |-> 0..MaxReserves],
     zk_kyc_v1 |-> [age |-> 0..MaxAge, country_code |-> 0..MaxCountry,
                    min_age |-> 0..MaxAge, allowed_country_code |-> 0..MaxCountry],
     dti_check |-> [monthly_income |-> 1..MaxAmount, monthly_debt_payment |-> 0..MaxAmount,
                    max_dti_bps |-> 1..Scale],
     reserve_ratio_check |-> [liquid_assets |-> 0..MaxAmount,
                              short_term_liabilities |-> 1..MaxAmount,
                              min_reserve_ratio_bps |-> 1..(2 * Scale)]]

Scalars == DOMAIN input_schema

(* The schema of the batch circuit says nothing of how the rows relate to   *)
(* active_count.                                                            *)
batch_schema == [active_count : 1..N,
                 balances : [0..(N - 1) -> 0..(M32 - 1)],
                 limits : [0..(N - 1) -> 0..(M32 - 1)]]

validate_private_input_schema(c, in) ==
    IF c = Batch THEN in \in batch_schema
    ELSE /\ DOMAIN in = DOMAIN input_schema[c]
         /\ \A f \in DOMAIN in : in[f] \in input_schema[c][f]

-----------------------------------------------------------------------------
(* logic/batcher.py.                                                        *)

u32_list(values) == \A i \in DOMAIN values : values[i] \in 0..(M32 - 1)

zero_tail(values, active_count) ==
    \A i \in DOMAIN values : i >= active_count => values[i] = 0

\* Mutant of padded: the last value is repeated.
padded_Repeat(values) ==
    [i \in 0..(N - 1) |-> values[IF i < Len(values) THEN i + 1 ELSE Len(values)]]

padded(values) ==
    [i \in 0..(N - 1) |-> IF i < Len(values) THEN values[i + 1] ELSE 0]

(* BatchProveRequest's length rules repeat those of batch_prepare_input.    *)
batch_prepare_accepts(b) ==
    /\ Len(b.balances) \in 1..N /\ Len(b.limits) = Len(b.balances)
    /\ u32_list(b.balances) /\ u32_list(b.limits)

\* Mutant of batch_prepare_input: the padding is counted as active.
batch_prepare_input_CountAll(b) ==
    [balances |-> padded(b.balances), limits |-> padded(b.limits), active_count |-> N]

batch_prepare_input(b) ==
    [balances |-> padded(b.balances), limits |-> padded(b.limits),
     active_count |-> Len(b.balances)]

(* A number written 25.0 is a float of Python, and no int.                  *)
batch_prepare_from_private_input_accepts(in, float) ==
    /\ ~float
    /\ in.active_count \in 1..N
    /\ u32_list(in.balances) /\ u32_list(in.limits)
    /\ zero_tail(in.balances, in.active_count)
    /\ zero_tail(in.limits, in.active_count)

-----------------------------------------------------------------------------
(* The provider's _normalize_json_value writes ints as strings and refuses  *)
(* a float.                                                                 *)
normalize_json_value_accepts(float) == ~float

(* GenerateProof with the circuit's artifacts: the output of the witness.   *)
Witness(c, in) ==
    CASE c = "credit_check" -> CreditCheck(in)
      [] c = "aml_check" -> AMLCheck(in)
      [] c = "proof_of_reserves_v1" -> ProofOfReservesV1(in)
      [] c = "zk_kyc_v1" -> ZkKycV1(in)
      [] c = "dti_check" -> DTICheck(in)
      [] c = "reserve_ratio_check" -> ReserveRatioCheck(in)
      [] c = Batch -> BatchCreditCheck(in)

NoInput == << >>
=============================================================================
