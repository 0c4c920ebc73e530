------------------------------ MODULE JobProofs ------------------------------
(***************************************************************************)
(* Proofs about the two ends of a proof job: the circuit that decides       *)
(* whether an accepted job can be proved and what its output says, and the  *)
(* operations page that shows what became of it.                            *)
(*                                                                         *)
(* The first part is about scalar jobs and the second about batches, for    *)
(* every field, width, bound and number of rows that satisfies              *)
(* CircuitConstants.  The third is about the page, for any number of jobs,  *)
(* concurrent calls, filters and clicks.                                    *)
(***************************************************************************)
EXTENDS CircuitJob, Console, WellFoundedInduction, TLAPS

(* A comparator is exact on values that fit its width, 2^n as the successor  *)
(* of a value included.                                                      *)
LEMMA LessThanExact ==
    ASSUME NEW M \in Nat \ {0}, 2 * M < P, P \in Nat,
           NEW a \in 0..M, NEW b \in 0..M, a < M \/ b > 0
    PROVE  LessThan(M, a, b) = IF a < b THEN 1 ELSE 0
  <1> DEFINE d == a + M - b
  <1>1. d \in 0..(2 * M - 1)  OBVIOUS
  <1>2. d % P = d  BY <1>1
  <1>3. d < M <=> a < b  OBVIOUS
  <1> QED  BY <1>1, <1>2, <1>3 DEF LessThan, Unsat

(* The two comparators accept exactly the values from min to max, whatever   *)
(* the field element.                                                        *)
LEMMA BetweenExact ==
    ASSUME NEW M \in Nat \ {0}, P \in Nat, 2 * M < P,
           NEW value \in Field, NEW min \in Nat, NEW max \in Nat,
           min <= max, max < M
    PROVE  Between(M, value, min, max) <=> value \in min..max
  <1> DEFINE g == min + M - (value + 1)
             l == value + M - (max + 1)
  <1>1. GreaterEqThan(M, value, min) = 1 <=> value \in min..(min + M - 1)
    <2>1. CASE g >= 0
      <3>1. g % P = g  BY <2>1 DEF Field
      <3> QED  BY <2>1, <3>1 DEF GreaterEqThan, LessThan, Unsat, Field
    <2>2. CASE g < 0
      <3>1. g % P = g + P  BY <2>2 DEF Field
      <3> QED  BY <2>2, <3>1 DEF GreaterEqThan, LessThan, Unsat, Field
    <2> QED  BY <2>1, <2>2 DEF Field
  <1>2. ASSUME value \in min..(min + M - 1)
        PROVE  LessEqThan(M, value, max) = 1 <=> value <= max
    <2>1. l \in 0..(P - 1)  BY <1>2 DEF Field
    <2>2. l % P = l  BY <2>1
    <2> QED  BY <1>2, <2>1, <2>2 DEF LessEqThan, LessThan, Unsat
  <1> QED  BY <1>1, <1>2 DEF Between, Field
(* A product of bounded factors is bounded by the product of the bounds.     *)
LEMMA ProductBound ==
    ASSUME NEW A \in Nat, NEW B \in Nat, NEW a \in 0..A, NEW b \in 0..B
    PROVE  a * b \in 0..(A * B)
  <1>1. a * b \in Nat  OBVIOUS
  <1>2. a * b <= A * b  OBVIOUS
  <1>3. A * b <= A * B  OBVIOUS
  <1>4. A * B \in Nat /\ A * b \in Nat  OBVIOUS
  <1> QED  BY <1>1, <1>2, <1>3, <1>4

-----------------------------------------------------------------------------
(* What every circuit makes of an input within the manifest's ranges.        *)

(* The widths are positive and fit the field twice.                          *)
LEMMA Widths ==
    /\ M32 \in Nat \ {0} /\ M64 \in Nat \ {0} /\ P \in Nat
    /\ 2 * M32 < P /\ 2 * M64 < P
    /\ MaxAmount < M64 /\ Scale < M32 /\ 1 <= 2 * Scale
  <1>1. MaxAmount <= MaxAmount * (2 * Scale)  BY CircuitConstants
  <1> QED  BY <1>1, CircuitConstants

(* A value within its bounds passes the two comparators that check them.     *)
LEMMA InBounds ==
    ASSUME NEW M \in Nat \ {0}, P \in Nat, 2 * M < P,
           NEW min \in Nat, NEW max \in Nat, max < M, NEW value \in min..max
    PROVE  Between(M, value, min, max)
  <1>1. value \in Field /\ min <= max  BY DEF Field
  <1> QED  BY <1>1, BetweenExact, Zenon

(* Only such a value passes them.                                            *)
LEMMA OnlyInBounds ==
    ASSUME NEW M \in Nat \ {0}, P \in Nat, 2 * M < P,
           NEW min \in Nat, NEW max \in Nat, min <= max, max < M,
           NEW value \in Field, Between(M, value, min, max)
    PROVE  value \in min..max
  BY BetweenExact, Zenon

(* The remainder of a number below the order of the field is the number.     *)
LEMMA NoWrap ==
    ASSUME NEW x \in Nat, P \in Nat, x < P
    PROVE  x % P = x
  OBVIOUS

(* The credit score's output is the signed score.                            *)
LEMMA CreditExact ==
    ASSUME NEW in, in.credit_score \in 0..MaxScore, in.debt_ratio \in 0..MaxDebtRatio
    PROVE  /\ CreditCheck(in) # Unsat
           /\ Signed(CreditCheck(in)) = in.credit_score * ScoreScale - in.debt_ratio
  <1> DEFINE x == in.credit_score * ScoreScale
             r == (x - in.debt_ratio) % P
  <1>1. x \in 0..(MaxScore * ScoreScale)  BY ProductBound, CircuitConstants
  <1>2. MaxScore * ScoreScale \in Nat /\ MaxScore * ScoreScale < M64
    BY CircuitConstants
  <1>3. x \in Nat /\ x < M64  BY <1>1, <1>2, CircuitConstants
  <1>4. in.debt_ratio \in Nat /\ in.debt_ratio < M64  BY CircuitConstants
  <1>5. CreditCheck(in) = r
    <2>1. Between(M32, in.credit_score, 0, MaxScore)
      BY InBounds, Widths, CircuitConstants, Zenon
    <2>2. Between(M32, in.debt_ratio, 0, MaxDebtRatio)
      BY InBounds, Widths, CircuitConstants, Zenon
    <2> QED  BY <2>1, <2>2 DEF CreditCheck, Output
  <1> HIDE DEF x
  <1>6. CASE x >= in.debt_ratio
    <2>1. r = x - in.debt_ratio  BY <1>3, <1>4, <1>6, Widths
    <2> QED  BY <1>3, <1>4, <1>5, <1>6, <2>1, Widths DEF Signed, Unsat, x
  <1>7. CASE x < in.debt_ratio
    <2>1. r = x - in.debt_ratio + P  BY <1>3, <1>4, <1>7, Widths
    <2> QED  BY <1>3, <1>4, <1>5, <1>7, <2>1, Widths DEF Signed, Unsat, x
  <1> QED  BY <1>3, <1>4, <1>6, <1>7

(* The AML score is the product, which the field holds.                      *)
LEMMA AMLExact ==
    ASSUME NEW in, in.amount \in 0..MaxAmount, in.risk_weight \in 0..Scale
    PROVE  AMLCheck(in) = in.amount * in.risk_weight /\ AMLCheck(in) # Unsat
  <1> DEFINE x == in.amount * in.risk_weight
  <1>1. in.risk_weight \in 0..(2 * Scale)  BY CircuitConstants
  <1>2. x \in 0..(MaxAmount * (2 * Scale))
    BY <1>1, ProductBound, CircuitConstants
  <1>3. MaxAmount * (2 * Scale) \in Nat /\ MaxAmount * (2 * Scale) < M64
    BY CircuitConstants
  <1>4. x \in Nat /\ x < P  BY <1>2, <1>3, Widths
  <1>5. x % P = x  BY <1>4, NoWrap, Widths, Zenon
  <1>6. Between(M64, in.amount, 0, MaxAmount)
    BY InBounds, Widths, CircuitConstants, Zenon
  <1>7. Between(M32, in.risk_weight, 0, Scale)
    BY InBounds, Widths, CircuitConstants, Zenon
  <1>8. AMLCheck(in) = x  BY <1>5, <1>6, <1>7 DEF AMLCheck, Output
  <1> QED  BY <1>4, <1>8 DEF Unsat

(* The proof of reserves compares assets with liabilities.                   *)
LEMMA ReservesExact ==
    ASSUME NEW in, in.liabilities \in 0..MaxReserves, in.assets \in 0..MaxReserves
    PROVE  ProofOfReservesV1(in) = Bit(in.assets >= in.liabilities)
  <1>1. Between(M64, in.liabilities, 0, MaxReserves)
    BY InBounds, Widths, CircuitConstants, Zenon
  <1>2. Between(M64, in.assets, 0, MaxReserves)
    BY InBounds, Widths, CircuitConstants, Zenon
  <1>3. GreaterEqThan(M64, in.assets, in.liabilities)
          = IF in.liabilities < in.assets + 1 THEN 1 ELSE 0
    <2>1. in.liabilities \in 0..M64 /\ in.assets + 1 \in 0..M64 /\ in.assets + 1 > 0
      BY Widths, CircuitConstants
    <2> QED  BY <2>1, LessThanExact, Widths, ZenonT(60) DEF GreaterEqThan
  <1>4. in.liabilities < in.assets + 1 <=> in.assets >= in.liabilities
    BY CircuitConstants
  <1> QED  BY <1>1, <1>2, <1>3, <1>4 DEF ProofOfReservesV1, Output, Bit

(* The KYC output is 1 when the age suffices and the countries are equal.    *)
LEMMA KycExact ==
    ASSUME NEW in, in.age \in 0..MaxAge, in.min_age \in 0..MaxAge,
           in.country_code \in 0..MaxCountry, in.allowed_country_code \in 0..MaxCountry
    PROVE  ZkKycV1(in) = Bit(/\ in.age >= in.min_age
                             /\ in.country_code = in.allowed_country_code)
  <1> DEFINE cmp == GreaterEqThan(M32, in.age, in.min_age)
             eq == IsEqual(in.country_code, in.allowed_country_code)
  <1>1. Between(M32, in.age, 0, MaxAge)  BY InBounds, Widths, CircuitConstants, Zenon
  <1>2. Between(M32, in.min_age, 0, MaxAge)
    BY InBounds, Widths, CircuitConstants, Zenon
  <1>3. Between(M32, in.country_code, 0, MaxCountry)
    BY InBounds, Widths, CircuitConstants, Zenon
  <1>4. cmp = IF in.age >= in.min_age THEN 1 ELSE 0
    <2>1. in.min_age \in 0..M32 /\ in.age + 1 \in 0..M32 /\ in.age + 1 > 0
      BY Widths, CircuitConstants
    <2>2. cmp = IF in.min_age < in.age + 1 THEN 1 ELSE 0
      BY <2>1, LessThanExact, Widths, Zenon DEF GreaterEqThan
    <2>3. in.min_age < in.age + 1 <=> in.age >= in.min_age  BY CircuitConstants
    <2> QED  BY <2>2, <2>3
  <1>5. eq = IF in.country_code = in.allowed_country_code THEN 1 ELSE 0
    <2> DEFINE d == in.country_code - in.allowed_country_code
    <2>1. d \in Int /\ d < P /\ -d < P  BY Widths, CircuitConstants
    <2>2. d % P = 0 <=> d = 0
      <3>1. CASE d >= 0
        <4> HIDE DEF d
        <4>1. d \in Nat  BY <2>1, <3>1
        <4>2. d % P = d  BY <2>1, <4>1, NoWrap, Widths, Zenon
        <4> QED  BY <4>2
      <3>2. CASE d < 0
        <4>1. d % P = d + P  BY <2>1, <3>2, Widths
        <4> QED  BY <2>1, <3>2, <4>1, Widths
      <3> QED  BY <2>1, <3>1, <3>2
    <2>3. d = 0 <=> in.country_code = in.allowed_country_code
      BY CircuitConstants
    <2> QED  BY <2>2, <2>3 DEF IsEqual
  <1>6. ZkKycV1(in) = cmp * eq
    BY <1>1, <1>2, <1>3, <1>4 DEF ZkKycV1, Output, Unsat
  <1> HIDE DEF cmp, eq
  <1> QED  BY <1>4, <1>5, <1>6 DEF Bit

(* The debt-to-income output is the cross-multiplied comparison.             *)
LEMMA DTIExact ==
    ASSUME NEW in, in.monthly_income \in 1..MaxAmount,
           in.monthly_debt_payment \in 0..MaxAmount, in.max_dti_bps \in 1..Scale
    PROVE  DTICheck(in)
             = Bit(in.monthly_debt_payment * Scale <= in.monthly_income * in.max_dti_bps)
  <1> DEFINE debt == in.monthly_debt_payment * Scale
             limit == in.monthly_income * in.max_dti_bps
             bound == MaxAmount * (2 * Scale)
  <1>1. bound \in Nat /\ bound < M64  BY CircuitConstants
  <1>2. debt \in 0..bound
    <2>1. Scale \in 0..(2 * Scale)  BY CircuitConstants
    <2> QED  BY <2>1, ProductBound, CircuitConstants
  <1>3. limit \in 0..bound
    <2>1. in.max_dti_bps \in 0..(2 * Scale) /\ in.monthly_income \in 0..MaxAmount
      BY CircuitConstants
    <2> QED  BY <2>1, ProductBound, CircuitConstants
  <1>4. Between(M64, in.monthly_income, 1, MaxAmount)
    BY InBounds, Widths, CircuitConstants, Zenon
  <1>5. Between(M64, in.monthly_debt_payment, 0, MaxAmount)
    BY InBounds, Widths, CircuitConstants, Zenon
  <1>6. Between(M32, in.max_dti_bps, 1, Scale)
    BY InBounds, Widths, CircuitConstants, Zenon
  <1> HIDE DEF debt, limit, bound
  <1>7. debt % P = debt /\ limit % P = limit
    <2>1. debt \in Nat /\ debt < P /\ limit \in Nat /\ limit < P
      BY <1>1, <1>2, <1>3, Widths
    <2> QED  BY <2>1, NoWrap, Widths, Zenon
  <1>8. DTICheck(in) = LessEqThan(M64, debt, limit)
    BY <1>4, <1>5, <1>6, <1>7 DEF DTICheck, Output, debt, limit
  <1>9. LessEqThan(M64, debt, limit) = IF debt < limit + 1 THEN 1 ELSE 0
    <2>1. debt \in 0..M64 /\ limit + 1 \in 0..M64 /\ limit + 1 > 0
      BY <1>1, <1>2, <1>3, Widths
    <2> QED  BY <2>1, LessThanExact, Widths, Zenon DEF LessEqThan
  <1>10. debt < limit + 1 <=> debt <= limit  BY <1>1, <1>2, <1>3
  <1> QED  BY <1>8, <1>9, <1>10 DEF Bit, debt, limit

(* The reserve-ratio output is the cross-multiplied comparison.              *)
LEMMA RatioExact ==
    ASSUME NEW in, in.liquid_assets \in 0..MaxAmount,
           in.short_term_liabilities \in 1..MaxAmount,
           in.min_reserve_ratio_bps \in 1..(2 * Scale)
    PROVE  ReserveRatioCheck(in)
             = Bit(in.liquid_assets * Scale
                     >= in.short_term_liabilities * in.min_reserve_ratio_bps)
  <1> DEFINE assets == in.liquid_assets * Scale
             required == in.short_term_liabilities * in.min_reserve_ratio_bps
             bound == MaxAmount * (2 * Scale)
  <1>1. bound \in Nat /\ bound < M64  BY CircuitConstants
  <1>2. assets \in 0..bound
    <2>1. Scale \in 0..(2 * Scale)  BY CircuitConstants
    <2> QED  BY <2>1, ProductBound, CircuitConstants
  <1>3. required \in 0..bound
    <2>1. /\ in.min_reserve_ratio_bps \in 0..(2 * Scale)
          /\ in.short_term_liabilities \in 0..MaxAmount
      BY CircuitConstants
    <2> QED  BY <2>1, ProductBound, CircuitConstants
  <1>4. Between(M64, in.liquid_assets, 0, MaxAmount)
    BY InBounds, Widths, CircuitConstants, Zenon
  <1>5. Between(M64, in.short_term_liabilities, 1, MaxAmount)
    BY InBounds, Widths, CircuitConstants, Zenon
  <1>6. Between(M32, in.min_reserve_ratio_bps, 1, 2 * Scale)
    <2>1. 2 * Scale \in Nat /\ 2 * Scale < M32  BY CircuitConstants
    <2> QED  BY <2>1, InBounds, Widths, Zenon
  <1> HIDE DEF assets, required, bound
  <1>7. assets % P = assets /\ required % P = required
    <2>1. assets \in Nat /\ assets < P /\ required \in Nat /\ required < P
      BY <1>1, <1>2, <1>3, Widths
    <2> QED  BY <2>1, NoWrap, Widths, Zenon
  <1>8. ReserveRatioCheck(in) = GreaterEqThan(M64, assets, required)
    BY <1>4, <1>5, <1>6, <1>7 DEF ReserveRatioCheck, Output, assets, required
  <1>9. GreaterEqThan(M64, assets, required) = IF required < assets + 1 THEN 1 ELSE 0
    <2>1. required \in 0..M64 /\ assets + 1 \in 0..M64 /\ assets + 1 > 0
      BY <1>1, <1>2, <1>3, Widths
    <2> QED  BY <2>1, LessThanExact, Widths, Zenon DEF GreaterEqThan
  <1>10. required < assets + 1 <=> assets >= required  BY <1>1, <1>2, <1>3
  <1> QED  BY <1>8, <1>9, <1>10 DEF Bit, assets, required

(* Every scalar input that satisfies the schema has a witness, and its       *)
(* output says what it is meant to say.                                      *)
LEMMA WitnessMeaning ==
    ASSUME NEW c \in Scalars, NEW in, validate_private_input_schema(c, in)
    PROVE  /\ Witness(c, in) # Unsat
           /\ ScalarMeaning(c, in, Witness(c, in))
  <1>1. /\ c # Batch /\ DOMAIN in = DOMAIN input_schema[c]
        /\ \A f \in DOMAIN in : in[f] \in input_schema[c][f]
    BY DEF validate_private_input_schema, Scalars, input_schema, Batch
  <1>2. CASE c = "credit_check"
    <2>1. {"credit_score", "debt_ratio"}
            \subseteq DOMAIN input_schema[c]
      BY <1>2 DEF input_schema
    <2>2. /\ in.credit_score \in 0..MaxScore
          /\ in.debt_ratio \in 0..MaxDebtRatio
      <3>1. in.credit_score \in input_schema[c].credit_score  BY <1>1, <2>1
      <3>2. in.debt_ratio \in input_schema[c].debt_ratio  BY <1>1, <2>1
      <3> QED  BY <1>2, <3>1, <3>2, Zenon DEF input_schema
    <2>3. Witness(c, in) = CreditCheck(in)  BY <1>2 DEF Witness, Batch
    <2> QED  BY <1>2, <2>2, <2>3, CreditExact DEF ScalarMeaning
  <1>3. CASE c = "aml_check"
    <2>1. {"amount", "risk_weight"}
            \subseteq DOMAIN input_schema[c]
      BY <1>3 DEF input_schema
    <2>2. /\ in.amount \in 0..MaxAmount
          /\ in.risk_weight \in 0..Scale
      <3>1. in.amount \in input_schema[c].amount  BY <1>1, <2>1
      <3>2. in.risk_weight \in input_schema[c].risk_weight  BY <1>1, <2>1
      <3> QED  BY <1>3, <3>1, <3>2, Zenon DEF input_schema
    <2>3. Witness(c, in) = AMLCheck(in)  BY <1>3 DEF Witness, Batch
    <2> QED  BY <1>3, <2>2, <2>3, AMLExact DEF ScalarMeaning
  <1>4. CASE c = "proof_of_reserves_v1"
    <2>1. {"liabilities", "assets"}
            \subseteq DOMAIN input_schema[c]
      BY <1>4 DEF input_schema
    <2>2. /\ in.liabilities \in 0..MaxReserves
          /\ in.assets \in 0..MaxReserves
      <3>1. in.liabilities \in input_schema[c].liabilities  BY <1>1, <2>1
      <3>2. in.assets \in input_schema[c].assets  BY <1>1, <2>1
      <3> QED  BY <1>4, <3>1, <3>2, Zenon DEF input_schema
    <2>3. Witness(c, in) = ProofOfReservesV1(in)  BY <1>4 DEF Witness, Batch
    <2> QED  BY <1>4, <2>2, <2>3, ReservesExact DEF ScalarMeaning, Bit, Unsat
  <1>5. CASE c = "zk_kyc_v1"
    <2>1. {"age", "min_age", "country_code", "allowed_country_code"}
            \subseteq DOMAIN input_schema[c]
      BY <1>5 DEF input_schema
    <2>2. /\ in.age \in 0..MaxAge
          /\ in.min_age \in 0..MaxAge
          /\ in.country_code \in 0..MaxCountry
          /\ in.allowed_country_code \in 0..MaxCountry
      <3>1. in.age \in input_schema[c].age  BY <1>1, <2>1
      <3>2. in.min_age \in input_schema[c].min_age  BY <1>1, <2>1
      <3>3. in.country_code \in input_schema[c].country_code  BY <1>1, <2>1
      <3>4. in.allowed_country_code \in input_schema[c].allowed_country_code
        BY <1>1, <2>1
      <3> QED  BY <1>5, <3>1, <3>2, <3>3, <3>4, Zenon DEF input_schema
    <2>3. Witness(c, in) = ZkKycV1(in)  BY <1>5 DEF Witness, Batch
    <2> QED  BY <1>5, <2>2, <2>3, KycExact DEF ScalarMeaning, Bit, Unsat
  <1>6. CASE c = "dti_check"
    <2>1. {"monthly_income", "monthly_debt_payment", "max_dti_bps"}
            \subseteq DOMAIN input_schema[c]
      BY <1>6 DEF input_schema
    <2>2. /\ in.monthly_income \in 1..MaxAmount
          /\ in.monthly_debt_payment \in 0..MaxAmount
          /\ in.max_dti_bps \in 1..Scale
      <3>1. in.monthly_income \in input_schema[c].monthly_income  BY <1>1, <2>1
      <3>2. in.monthly_debt_payment \in input_schema[c].monthly_debt_payment
        BY <1>1, <2>1
      <3>3. in.max_dti_bps \in input_schema[c].max_dti_bps  BY <1>1, <2>1
      <3> QED  BY <1>6, <3>1, <3>2, <3>3, Zenon DEF input_schema
    <2>3. Witness(c, in) = DTICheck(in)  BY <1>6 DEF Witness, Batch
    <2> QED  BY <1>6, <2>2, <2>3, DTIExact DEF ScalarMeaning, Bit, Unsat
  <1>7. CASE c = "reserve_ratio_check"
    <2>1. {"liquid_assets", "short_term_liabilities", "min_reserve_ratio_bps"}
            \subseteq DOMAIN input_schema[c]
      BY <1>7 DEF input_schema
    <2>2. /\ in.liquid_assets \in 0..MaxAmount
          /\ in.short_term_liabilities \in 1..MaxAmount
          /\ in.min_reserve_ratio_bps \in 1..(2 * Scale)
      <3>1. in.liquid_assets \in input_schema[c].liquid_assets  BY <1>1, <2>1
      <3>2. in.short_term_liabilities \in input_schema[c].short_term_liabilities
        BY <1>1, <2>1
      <3>3. in.min_reserve_ratio_bps \in input_schema[c].min_reserve_ratio_bps
        BY <1>1, <2>1
      <3> QED  BY <1>7, <3>1, <3>2, <3>3, Zenon DEF input_schema
    <2>3. Witness(c, in) = ReserveRatioCheck(in)  BY <1>7 DEF Witness, Batch
    <2> QED  BY <1>7, <2>2, <2>3, RatioExact DEF ScalarMeaning, Bit, Unsat
  <1> QED  BY <1>2, <1>3, <1>4, <1>5, <1>6, <1>7 DEF Scalars, input_schema

(* The circuits bound their own inputs: of all assignments of field elements *)
(* a witness exists for exactly those that the manifest's schema allows, so  *)
(* a proof speaks of integers in those ranges whoever prepared its input.    *)
(* zk_kyc_v1 leaves the public allowed_country_code to the schema.           *)
THEOREM WitnessIffSchema ==
    ASSUME NEW c \in Scalars \ {"zk_kyc_v1"},
           NEW in \in [DOMAIN input_schema[c] -> Field]
    PROVE  Witness(c, in) # Unsat <=> validate_private_input_schema(c, in)
  <1>1. validate_private_input_schema(c, in) => Witness(c, in) # Unsat
    BY WitnessMeaning
  <1> SUFFICES ASSUME Witness(c, in) # Unsat
               PROVE  validate_private_input_schema(c, in)
    BY <1>1
  <1>2. SUFFICES \A f \in DOMAIN input_schema[c] : in[f] \in input_schema[c][f]
    BY DEF validate_private_input_schema, Scalars, input_schema, Batch
  <1>3. CASE c = "credit_check"
    <2>1. DOMAIN input_schema[c]
            = {"credit_score", "debt_ratio"}
      BY <1>3 DEF input_schema
    <2>2. CreditCheck(in) # Unsat  BY <1>3 DEF Witness, Batch
    <2>3. in.credit_score \in input_schema[c].credit_score
      <3>1. in.credit_score \in Field  BY <2>1
      <3>2. Between(M32, in.credit_score, 0, MaxScore)
        BY <2>2 DEF CreditCheck, Output
      <3>3. MaxScore \in Nat /\ 0 <= MaxScore /\ MaxScore < M32
        BY Widths, CircuitConstants
      <3>4. in.credit_score \in 0..MaxScore
        BY <3>1, <3>2, <3>3, OnlyInBounds, Widths, Zenon
      <3> QED  BY <1>3, <3>4, Zenon DEF input_schema
    <2>4. in.debt_ratio \in input_schema[c].debt_ratio
      <3>1. in.debt_ratio \in Field  BY <2>1
      <3>2. Between(M32, in.debt_ratio, 0, MaxDebtRatio)
        BY <2>2 DEF CreditCheck, Output
      <3>3. MaxDebtRatio \in Nat /\ 0 <= MaxDebtRatio /\ MaxDebtRatio < M32
        BY Widths, CircuitConstants
      <3>4. in.debt_ratio \in 0..MaxDebtRatio
        BY <3>1, <3>2, <3>3, OnlyInBounds, Widths, Zenon
      <3> QED  BY <1>3, <3>4, Zenon DEF input_schema
    <2> QED  BY <2>1, <2>3, <2>4
  <1>4. CASE c = "aml_check"
    <2>1. DOMAIN input_schema[c]
            = {"amount", "risk_weight"}
      BY <1>4 DEF input_schema
    <2>2. AMLCheck(in) # Unsat  BY <1>4 DEF Witness, Batch
    <2>3. in.amount \in input_schema[c].amount
      <3>1. in.amount \in Field  BY <2>1
      <3>2. Between(M64, in.amount, 0, MaxAmount)  BY <2>2 DEF AMLCheck, Output
      <3>3. MaxAmount \in Nat /\ 0 <= MaxAmount /\ MaxAmount < M64
        BY Widths, CircuitConstants
      <3>4. in.amount \in 0..MaxAmount
        BY <3>1, <3>2, <3>3, OnlyInBounds, Widths, Zenon
      <3> QED  BY <1>4, <3>4, Zenon DEF input_schema
    <2>4. in.risk_weight \in input_schema[c].risk_weight
      <3>1. in.risk_weight \in Field  BY <2>1
      <3>2. Between(M32, in.risk_weight, 0, Scale)
        BY <2>2 DEF AMLCheck, Output
      <3>3. Scale \in Nat /\ 0 <= Scale /\ Scale < M32
        BY Widths, CircuitConstants
      <3>4. in.risk_weight \in 0..Scale
        BY <3>1, <3>2, <3>3, OnlyInBounds, Widths, Zenon
      <3> QED  BY <1>4, <3>4, Zenon DEF input_schema
    <2> QED  BY <2>1, <2>3, <2>4
  <1>5. CASE c = "proof_of_reserves_v1"
    <2>1. DOMAIN input_schema[c]
            = {"liabilities", "assets"}
      BY <1>5 DEF input_schema
    <2>2. ProofOfReservesV1(in) # Unsat  BY <1>5 DEF Witness, Batch
    <2>3. in.liabilities \in input_schema[c].liabilities
      <3>1. in.liabilities \in Field  BY <2>1
      <3>2. Between(M64, in.liabilities, 0, MaxReserves)
        BY <2>2 DEF ProofOfReservesV1, Output
      <3>3. MaxReserves \in Nat /\ 0 <= MaxReserves /\ MaxReserves < M64
        BY Widths, CircuitConstants
      <3>4. in.liabilities \in 0..MaxReserves
        BY <3>1, <3>2, <3>3, OnlyInBounds, Widths, Zenon
      <3> QED  BY <1>5, <3>4, Zenon DEF input_schema
    <2>4. in.assets \in input_schema[c].assets
      <3>1. in.assets \in Field  BY <2>1
      <3>2. Between(M64, in.assets, 0, MaxReserves)
        BY <2>2 DEF ProofOfReservesV1, Output
      <3>3. MaxReserves \in Nat /\ 0 <= MaxReserves /\ MaxReserves < M64
        BY Widths, CircuitConstants
      <3>4. in.assets \in 0..MaxReserves
        BY <3>1, <3>2, <3>3, OnlyInBounds, Widths, Zenon
      <3> QED  BY <1>5, <3>4, Zenon DEF input_schema
    <2> QED  BY <2>1, <2>3, <2>4
  <1>6. CASE c = "dti_check"
    <2>1. DOMAIN input_schema[c]
            = {"monthly_income", "monthly_debt_payment", "max_dti_bps"}
      BY <1>6 DEF input_schema
    <2>2. DTICheck(in) # Unsat  BY <1>6 DEF Witness, Batch
    <2>3. in.monthly_income \in input_schema[c].monthly_income
      <3>1. in.monthly_income \in Field  BY <2>1
      <3>2. Between(M64, in.monthly_income, 1, MaxAmount)
        BY <2>2 DEF DTICheck, Output
      <3>3. MaxAmount \in Nat /\ 1 <= MaxAmount /\ MaxAmount < M64
        BY Widths, CircuitConstants
      <3>4. in.monthly_income \in 1..MaxAmount
        BY <3>1, <3>2, <3>3, OnlyInBounds, Widths, Zenon
      <3> QED  BY <1>6, <3>4, Zenon DEF input_schema
    <2>4. in.monthly_debt_payment \in input_schema[c].monthly_debt_payment
      <3>1. in.monthly_debt_payment \in Field  BY <2>1
      <3>2. Between(M64, in.monthly_debt_payment, 0, MaxAmount)
        BY <2>2 DEF DTICheck, Output
      <3>3. MaxAmount \in Nat /\ 0 <= MaxAmount /\ MaxAmount < M64
        BY Widths, CircuitConstants
      <3>4. in.monthly_debt_payment \in 0..MaxAmount
        BY <3>1, <3>2, <3>3, OnlyInBounds, Widths, Zenon
      <3> QED  BY <1>6, <3>4, Zenon DEF input_schema
    <2>5. in.max_dti_bps \in input_schema[c].max_dti_bps
      <3>1. in.max_dti_bps \in Field  BY <2>1
      <3>2. Between(M32, in.max_dti_bps, 1, Scale)
        BY <2>2 DEF DTICheck, Output
      <3>3. Scale \in Nat /\ 1 <= Scale /\ Scale < M32
        BY Widths, CircuitConstants
      <3>4. in.max_dti_bps \in 1..Scale
        BY <3>1, <3>2, <3>3, OnlyInBounds, Widths, Zenon
      <3> QED  BY <1>6, <3>4, Zenon DEF input_schema
    <2> QED  BY <2>1, <2>3, <2>4, <2>5
  <1>7. CASE c = "reserve_ratio_check"
    <2>1. DOMAIN input_schema[c]
            = {"liquid_assets", "short_term_liabilities", "min_reserve_ratio_bps"}
      BY <1>7 DEF input_schema
    <2>2. ReserveRatioCheck(in) # Unsat  BY <1>7 DEF Witness, Batch
    <2>3. in.liquid_assets \in input_schema[c].liquid_assets
      <3>1. in.liquid_assets \in Field  BY <2>1
      <3>2. Between(M64, in.liquid_assets, 0, MaxAmount)
        BY <2>2 DEF ReserveRatioCheck, Output
      <3>3. MaxAmount \in Nat /\ 0 <= MaxAmount /\ MaxAmount < M64
        BY Widths, CircuitConstants
      <3>4. in.liquid_assets \in 0..MaxAmount
        BY <3>1, <3>2, <3>3, OnlyInBounds, Widths, Zenon
      <3> QED  BY <1>7, <3>4, Zenon DEF input_schema
    <2>4. in.short_term_liabilities \in input_schema[c].short_term_liabilities
      <3>1. in.short_term_liabilities \in Field  BY <2>1
      <3>2. Between(M64, in.short_term_liabilities, 1, MaxAmount)
        BY <2>2 DEF ReserveRatioCheck, Output
      <3>3. MaxAmount \in Nat /\ 1 <= MaxAmount /\ MaxAmount < M64
        BY Widths, CircuitConstants
      <3>4. in.short_term_liabilities \in 1..MaxAmount
        BY <3>1, <3>2, <3>3, OnlyInBounds, Widths, Zenon
      <3> QED  BY <1>7, <3>4, Zenon DEF input_schema
    <2>5. in.min_reserve_ratio_bps \in input_schema[c].min_reserve_ratio_bps
      <3>1. in.min_reserve_ratio_bps \in Field  BY <2>1
      <3>2. Between(M32, in.min_reserve_ratio_bps, 1, 2 * Scale)
        BY <2>2 DEF ReserveRatioCheck, Output
      <3>3. (2 * Scale) \in Nat /\ 1 <= 2 * Scale /\ 2 * Scale < M32
        BY Widths, CircuitConstants
      <3>4. in.min_reserve_ratio_bps \in 1..(2 * Scale)
        BY <3>1, <3>2, <3>3, OnlyInBounds, Widths, Zenon
      <3> QED  BY <1>7, <3>4, Zenon DEF input_schema
    <2> QED  BY <2>1, <2>3, <2>4, <2>5
  <1> QED  BY <1>3, <1>4, <1>5, <1>6, <1>7, Zenon DEF Scalars, input_schema

-----------------------------------------------------------------------------
(* The inductive invariant: a queued scalar job holds the body as sent, and  *)
(* that body satisfies the schema.                                           *)
ScalarInv ==
    /\ circuit \in Scalars \cup {Batch}
    /\ circuit # Batch => mode = "private_input"
    /\ circuit # Batch /\ stage = "queued" =>
         input = body /\ validate_private_input_schema(circuit, input)
    /\ AcceptedScalarIsProvable
    /\ ScalarDecided

(* For every field, width and bound that satisfies the assumptions, an       *)
(* accepted scalar job fails in the worker for its input exactly when a      *)
(* number was written as a float, and a proved one publishes the comparison  *)
(* or score of the integers sent.                                            *)
THEOREM ScalarJobsSafe == Spec => [](AcceptedScalarIsProvable /\ ScalarDecided)
  <1>1. Init => ScalarInv
    BY DEF Init, ScalarInv, AcceptedScalarIsProvable, ScalarDecided
  <1>2. ScalarInv /\ [Next]_vars => ScalarInv'
    <2> SUFFICES ASSUME ScalarInv, [Next]_vars PROVE ScalarInv'
      OBVIOUS
    <2>1. CASE create_batch_proof
      BY <2>1 DEF create_batch_proof, SubmitOk, Prepared, ScalarInv,
                  AcceptedScalarIsProvable, ScalarDecided
    <2>2. CASE process_proof_job
      <3>1. CASE circuit = Batch
        BY <2>2, <3>1 DEF process_proof_job, ScalarInv, AcceptedScalarIsProvable,
                          ScalarDecided
      <3>2. CASE circuit # Batch
        <4>1. circuit \in Scalars /\ input = body
              /\ validate_private_input_schema(circuit, input)
          BY <2>2, <3>2 DEF process_proof_job, ScalarInv
        <4>2. /\ Witness(circuit, input) # Unsat
              /\ ScalarMeaning(circuit, input, Witness(circuit, input))
          BY <4>1, WitnessMeaning
        <4>3. WorkerOk <=> ~float
          BY <3>2, <4>1, <4>2, Zenon DEF WorkerOk, normalize_json_value_accepts
        <4>4. /\ circuit' = circuit /\ mode' = mode /\ body' = body
              /\ float' = float /\ input' = input
          BY <2>2, Zenon DEF process_proof_job
        <4>5. \/ ~float' /\ stage' = "proved" /\ output' = Witness(circuit, input)
              \/ float' /\ stage' = "failed"
          <5>1. \/ ~float /\ stage' = "proved" /\ output' = Witness(circuit, input)
                \/ float /\ stage' = "failed"
            BY <2>2, <4>3, Zenon DEF process_proof_job
          <5>2. float' <=> float
            BY <4>4
          <5> QED BY <5>1, <5>2, Zenon
        <4>6. AcceptedScalarIsProvable'
          BY <4>5, Zenon DEF AcceptedScalarIsProvable
        <4>7. ScalarDecided'
          <5>1. stage' = "proved" => ScalarMeaning(circuit', body', output')
            <6>1. CASE stage' = "proved"
              <7>1. output' = Witness(circuit, input) /\ body' = input
                BY <4>1, <4>4, <4>5, <6>1, Zenon
              <7> QED BY <4>2, <4>4, <7>1, Zenon
            <6> QED BY <6>1, Zenon
          <5> QED BY <5>1, Zenon DEF ScalarDecided
        <4>8. stage' # "queued"
          BY <4>5, Zenon
        <4> QED  BY <4>4, <4>6, <4>7, <4>8, Zenon DEF ScalarInv
      <3> QED  BY <3>1, <3>2
    <2>3. CASE UNCHANGED vars
      BY <2>3 DEF vars, ScalarInv, AcceptedScalarIsProvable, ScalarDecided
    <2> QED  BY <2>1, <2>2, <2>3 DEF Next
  <1>3. ScalarInv => AcceptedScalarIsProvable /\ ScalarDecided
    BY DEF ScalarInv
  <1> QED  BY <1>1, <1>2, <1>3, PTL DEF Spec

(* An accepted scalar job never fails in the worker for its input, since the *)
(* manifests' schemas and the circuits' range constraints agree              *)
(* (validate_private_input_schema, *.circom).                                *)
COROLLARY AcceptedScalarsAreProvable == Spec => []AcceptedScalarIsProvable
  BY ScalarJobsSafe, PTL

-----------------------------------------------------------------------------
(* Batches *)

(* A set of naturals that is not empty has a least element.                  *)
LEMMA LeastExists ==
    ASSUME NEW S \in SUBSET Nat, S # {}
    PROVE  \E x \in S : \A y \in S : ~(y < x)
<1>1. PICK x \in S : \A y \in S : ~(<<y, x>> \in OpToRel(<, Nat))
  BY NatLessThanWellFounded, WFMin, Zenon
<1>2. \A y \in S : ~(y < x)
  BY <1>1, Zenon DEF OpToRel
<1> QED BY <1>2, Zenon

(* The chain of a batch is one exactly when every row's decision is.         *)
LEMMA ChainExact ==
    ASSUME NEW d \in [0..(N - 1) -> {0, 1}]
    PROVE  all_valid_chain(d) = IF \A i \in 0..(N - 1) : d[i] = 1 THEN 1 ELSE 0
<1> DEFINE Chain(c) == [i \in 0..N |-> IF i = 0 THEN 1 ELSE c[i - 1] * d[i - 1]]
           Valid(i) == \A k \in 0..(i - 1) : d[k] = 1
           g == [i \in 0..N |-> IF Valid(i) THEN 1 ELSE 0]
           f == CHOOSE c : c = Chain(c)
<1>0. N \in Nat \ {0}
  BY CircuitConstants
<1>1. ASSUME NEW i \in 0..N
      PROVE  g[i] = IF i = 0 THEN 1 ELSE g[i - 1] * d[i - 1]
  <2>1. CASE i = 0
    BY <2>1
  <2>2. CASE i # 0
    <3>1. i - 1 \in 0..N /\ i - 1 \in 0..(N - 1) /\ d[i - 1] \in {0, 1}
      BY <1>0, <2>2
    <3>2. Valid(i) <=> Valid(i - 1) /\ d[i - 1] = 1
      BY <1>0, <2>2
    <3>3. g[i - 1] = (IF Valid(i - 1) THEN 1 ELSE 0) /\ g[i] = IF Valid(i) THEN 1 ELSE 0
      BY <3>1, Zenon
    <3> HIDE DEF g, Valid
    <3> QED BY <2>2, <3>1, <3>2, <3>3
  <2> QED BY <2>1, <2>2
<1>2. g = Chain(g)
  <2>1. g = [i \in 0..N |-> g[i]]
    BY Zenon
  <2> HIDE DEF g
  <2> QED BY <1>1, <2>1, Zenon
<1>3. f = Chain(f)
  <2> HIDE DEF g, Chain
  <2> QED BY <1>2, Zenon
<1>4. \A i \in 0..N : f[i] = g[i]
  <2> DEFINE S == {i \in 0..N : f[i] # g[i]}
  <2> SUFFICES ASSUME S # {} PROVE FALSE
    BY Zenon
  <2>1. S \in SUBSET Nat
    BY <1>0
  <2>2. PICK x \in S : \A y \in S : ~(y < x)
    <3> HIDE DEF S
    <3> QED BY <2>1, LeastExists, Zenon
  <2>3. x \in 0..N /\ f[x] # g[x]
    OBVIOUS
  <2>4. f[x] = IF x = 0 THEN 1 ELSE f[x - 1] * d[x - 1]
    <3> HIDE DEF f
    <3> QED BY <1>3, <2>3, Zenon
  <2>5. g[x] = IF x = 0 THEN 1 ELSE g[x - 1] * d[x - 1]
    BY <1>1, <2>3, Zenon
  <2> HIDE DEF f, g
  <2>6. x # 0
    BY <2>3, <2>4, <2>5
  <2>7. x - 1 \in 0..N /\ x - 1 < x
    BY <1>0, <2>3, <2>6
  <2>8. f[x - 1] = g[x - 1]
    BY <2>2, <2>7, Zenon
  <2> QED BY <2>3, <2>4, <2>5, <2>6, <2>8, Zenon
<1>5. all_valid_chain(d) = f[N]
  BY DEF all_valid_chain
<1>6. f[N] = IF Valid(N) THEN 1 ELSE 0
  <2>1. N \in 0..N
    BY <1>0
  <2> HIDE DEF f
  <2> QED BY <1>4, <2>1, Zenon
<1> QED BY <1>5, <1>6, Zenon

(* The comparators of one row of a batch, and of the number of active rows. *)
LEMMA RowExact ==
    ASSUME NEW in \in batch_schema
    PROVE  /\ GreaterThan(M16, in.active_count, 0) = 1
           /\ LessThan(M16, in.active_count, N + 1) = 1
           /\ \A i \in 0..(N - 1) :
                /\ GreaterThan(M16, in.active_count, i) = IF i < in.active_count THEN 1 ELSE 0
                /\ GreaterThan(M32, in.balances[i], in.limits[i])
                     = IF in.balances[i] > in.limits[i] THEN 1 ELSE 0
<1>1. PICK c \in 1..N : c = in.active_count
  BY DEF batch_schema
<1>2. /\ M16 \in Nat \ {0} /\ 2 * M16 < P /\ P \in Nat /\ M32 \in Nat \ {0} /\ 2 * M32 < P
      /\ N \in Nat \ {0} /\ N + 1 < M16
  BY CircuitConstants
<1>3. LessThan(M16, 0, c) = 1
  <2>1. 0 \in 0..M16 /\ c \in 0..M16 /\ 0 < M16 /\ 0 < c
    BY <1>2
  <2> QED BY <1>2, <2>1, LessThanExact, Zenon
<1>4. LessThan(M16, c, N + 1) = 1
  <2>1. c \in 0..M16 /\ N + 1 \in 0..M16 /\ c < M16 /\ c < N + 1
    BY <1>2
  <2> QED BY <1>2, <2>1, LessThanExact, Zenon
<1>5. ASSUME NEW i \in 0..(N - 1)
      PROVE  /\ LessThan(M16, i, c) = IF i < c THEN 1 ELSE 0
             /\ LessThan(M32, in.limits[i], in.balances[i]) = IF in.balances[i] > in.limits[i] THEN 1 ELSE 0
  <2>1. i \in 0..M16 /\ c \in 0..M16 /\ i < M16
    BY <1>2
  <2>2. LessThan(M16, i, c) = IF i < c THEN 1 ELSE 0
    BY <1>2, <2>1, LessThanExact, Zenon
  <2>3. PICK a \in 0..(M32 - 1), b \in 0..(M32 - 1) : a = in.limits[i] /\ b = in.balances[i]
    BY Zenon DEF batch_schema
  <2>4. a \in 0..M32 /\ b \in 0..M32 /\ a < M32
    BY <1>2
  <2>5. LessThan(M32, a, b) = IF a < b THEN 1 ELSE 0
    BY <1>2, <2>4, LessThanExact, Zenon
  <2>6. a < b <=> b > a
    BY <2>3
  <2> QED BY <2>2, <2>3, <2>5, <2>6, Zenon
<1> QED BY <1>1, <1>3, <1>4, <1>5, Zenon DEF GreaterThan

(* The batch circuit has a witness exactly for an input whose rows beyond    *)
(* the active ones are zero, and its output then says whether every active   *)
(* balance exceeds its limit.                                                *)
LEMMA BatchExact ==
    ASSUME NEW in \in batch_schema
    PROVE  BatchCreditCheck(in) =
             IF zero_tail(in.balances, in.active_count) /\ zero_tail(in.limits, in.active_count)
             THEN Bit(\A i \in 0..(in.active_count - 1) : in.balances[i] > in.limits[i])
             ELSE Unsat
<1> DEFINE Row == 0..(N - 1)
           active(i) == GreaterThan(M16, in.active_count, i)
           greater(i) == GreaterThan(M32, in.balances[i], in.limits[i])
           valid == [i \in Row |-> greater(i) * active(i) + (1 - active(i))]
           Constraints == /\ GreaterThan(M16, in.active_count, 0) = 1
                          /\ LessThan(M16, in.active_count, N + 1) = 1
                          /\ \A i \in Row : /\ Unsat \notin {active(i), greater(i)}
                                            /\ in.balances[i] * (1 - active(i)) = 0
                                            /\ in.limits[i] * (1 - active(i)) = 0
           Tails == zero_tail(in.balances, in.active_count) /\ zero_tail(in.limits, in.active_count)
<1>1. BatchCreditCheck(in) = IF Constraints THEN all_valid_chain(valid) ELSE Unsat
  BY Zenon DEF BatchCreditCheck, Output
<1>2. PICK c \in 1..N : c = in.active_count
  BY DEF batch_schema
<1>3. /\ in.balances \in [Row -> 0..(M32 - 1)] /\ in.limits \in [Row -> 0..(M32 - 1)]
      /\ N \in Nat \ {0} /\ M32 \in Nat
  BY CircuitConstants DEF batch_schema
<1>4. \A i \in Row : /\ active(i) = IF i < c THEN 1 ELSE 0
                     /\ greater(i) = IF in.balances[i] > in.limits[i] THEN 1 ELSE 0
  BY <1>2, RowExact, Zenon
<1>5. GreaterThan(M16, in.active_count, 0) = 1 /\ LessThan(M16, in.active_count, N + 1) = 1
  BY RowExact, Zenon
<1> HIDE DEF active, greater
<1>6. ASSUME NEW i \in Row
      PROVE  /\ Unsat \notin {active(i), greater(i)}
             /\ in.balances[i] * (1 - active(i)) = 0 <=> (i >= c => in.balances[i] = 0)
             /\ in.limits[i] * (1 - active(i)) = 0 <=> (i >= c => in.limits[i] = 0)
             /\ greater(i) * active(i) + (1 - active(i)) \in {0, 1}
             /\ greater(i) * active(i) + (1 - active(i)) = 1 <=> (i < c => in.balances[i] > in.limits[i])
  <2>1. in.balances[i] \in Nat /\ in.limits[i] \in Nat /\ i \in Nat /\ c \in Nat
    BY <1>3
  <2>2. CASE i < c
    <3>1. active(i) = 1 /\ greater(i) = IF in.balances[i] > in.limits[i] THEN 1 ELSE 0
      BY <1>4, <2>2, Zenon
    <3> QED BY <2>1, <2>2, <3>1 DEF Unsat
  <2>3. CASE ~(i < c)
    <3>1. active(i) = 0 /\ greater(i) = IF in.balances[i] > in.limits[i] THEN 1 ELSE 0
      BY <1>4, <2>3, Zenon
    <3> QED BY <2>1, <2>3, <3>1 DEF Unsat
  <2> QED BY <2>2, <2>3, Zenon
<1>7. Constraints <=> Tails
  <2>1. DOMAIN in.balances = Row /\ DOMAIN in.limits = Row
    BY <1>3, Zenon
  <2>2. Tails <=> \A i \in Row : (i >= c => in.balances[i] = 0) /\ (i >= c => in.limits[i] = 0)
    BY <1>2, <2>1, Zenon DEF zero_tail
  <2> QED BY <1>5, <1>6, <2>2, Zenon
<1>8. all_valid_chain(valid) = IF \A i \in Row : valid[i] = 1 THEN 1 ELSE 0
  <2>1. valid \in [Row -> {0, 1}]
    BY <1>6, Zenon
  <2> HIDE DEF valid
  <2> QED BY <2>1, ChainExact, Zenon
<1>9. (\A i \in Row : valid[i] = 1) <=> \A i \in 0..(c - 1) : in.balances[i] > in.limits[i]
  <2>1. \A i \in Row : valid[i] = 1 <=> (i < c => in.balances[i] > in.limits[i])
    BY <1>6, Zenon
  <2>2. \A i : i \in 0..(c - 1) <=> i \in Row /\ i < c
    BY <1>3
  <2> QED BY <2>1, <2>2, Zenon
<1> HIDE DEF valid, Constraints, Tails
<1>10. BatchCreditCheck(in) = IF Tails THEN Bit(\A i \in 0..(c - 1) : in.balances[i] > in.limits[i]) ELSE Unsat
  BY <1>1, <1>7, <1>8, <1>9, Zenon DEF Bit
<1> QED BY <1>2, <1>10, Zenon DEF Tails

(* The batch sent as two lists is padded to one whose active rows are the    *)
(* lists and whose other rows are zero.                                      *)
LEMMA PreparedExact ==
    ASSUME NEW b \in [balances : Lists, limits : Lists], batch_prepare_accepts(b)
    PROVE  LET in == batch_prepare_input(b) IN
           /\ in \in batch_schema
           /\ zero_tail(in.balances, in.active_count) /\ zero_tail(in.limits, in.active_count)
           /\ (\A i \in 0..(in.active_count - 1) : in.balances[i] > in.limits[i])
                <=> \A i \in DOMAIN b.balances : b.balances[i] > b.limits[i]
<1>1. N \in Nat \ {0} /\ M32 \in Nat \ {0}
  BY CircuitConstants
<1>2. PICK x \in Lists, y \in Lists : x = b.balances /\ y = b.limits
  BY Zenon
<1>3. PICK m \in 0..(N + 1) : x \in [1..m -> Values]
  BY Zenon DEF Lists
<1>4. PICK n \in 0..(N + 1) : y \in [1..n -> Values]
  BY Zenon DEF Lists
<1>5. x \in Seq(Values) /\ y \in Seq(Values) /\ Len(x) = m /\ Len(y) = n /\ DOMAIN x = 1..m /\ DOMAIN y = 1..n
  BY <1>1, <1>3, <1>4
<1>6. /\ m \in 1..N /\ n = m
      /\ \A i \in 1..m : x[i] \in 0..(M32 - 1) /\ y[i] \in 0..(M32 - 1)
  BY <1>2, <1>5, Zenon DEF batch_prepare_accepts, u32_list
<1> DEFINE Pad(s) == [i \in 0..(N - 1) |-> IF i < m THEN s[i + 1] ELSE 0]
<1>7. padded(x) = Pad(x) /\ padded(y) = Pad(y)
  BY <1>5, <1>6, Zenon DEF padded
<1>8. ASSUME NEW i \in 0..(N - 1)
      PROVE  /\ Pad(x)[i] \in 0..(M32 - 1) /\ Pad(y)[i] \in 0..(M32 - 1)
             /\ i < m => i + 1 \in 1..m /\ Pad(x)[i] = x[i + 1] /\ Pad(y)[i] = y[i + 1]
             /\ ~(i < m) => Pad(x)[i] = 0 /\ Pad(y)[i] = 0
             /\ i >= m <=> ~(i < m)
  <2>1. /\ i < m => i + 1 \in 1..m
        /\ 0 \in 0..(M32 - 1)
        /\ i >= m <=> ~(i < m)
    BY <1>1, <1>6
  <2> QED BY <1>6, <2>1, Zenon
<1>9. /\ Pad(x) = [i \in 0..(N - 1) |-> Pad(x)[i]] /\ Pad(y) = [i \in 0..(N - 1) |-> Pad(y)[i]]
      /\ DOMAIN Pad(x) = 0..(N - 1) /\ DOMAIN Pad(y) = 0..(N - 1)
  BY Zenon
<1> HIDE DEF Pad
<1>10. PICK u, v : u = Pad(x) /\ v = Pad(y)
  BY Zenon
<1>11. u \in [0..(N - 1) -> 0..(M32 - 1)] /\ v \in [0..(N - 1) -> 0..(M32 - 1)]
  BY <1>8, <1>9, <1>10, Zenon
<1>12. PICK in : in = [balances |-> u, limits |-> v, active_count |-> m]
  BY Zenon
<1>13. in = batch_prepare_input(b)
  BY <1>2, <1>5, <1>7, <1>10, <1>12, Zenon DEF batch_prepare_input
<1>14. in \in batch_schema /\ in.balances = u /\ in.limits = v /\ in.active_count = m
  BY <1>6, <1>11, <1>12 DEF batch_schema
<1>15. zero_tail(u, m) /\ zero_tail(v, m)
  BY <1>8, <1>9, <1>10, Zenon DEF zero_tail
<1>16. (\A i \in 0..(m - 1) : u[i] > v[i]) <=> \A i \in 1..m : x[i] > y[i]
  <2>1. ASSUME \A i \in 0..(m - 1) : u[i] > v[i], NEW j \in 1..m PROVE x[j] > y[j]
    <3>1. PICK i \in 0..(m - 1) : j = i + 1
      <4>1. j - 1 \in 0..(m - 1) /\ j = (j - 1) + 1
        BY <1>6
      <4> QED BY <4>1, Zenon
    <3>2. i \in 0..(N - 1) /\ i < m
      BY <1>1, <1>6, <3>1
    <3> QED BY <1>8, <1>10, <2>1, <3>1, <3>2, Zenon
  <2>2. ASSUME \A i \in 1..m : x[i] > y[i], NEW i \in 0..(m - 1) PROVE u[i] > v[i]
    <3>1. i \in 0..(N - 1) /\ i < m
      BY <1>1, <1>6
    <3> QED BY <1>8, <1>10, <2>2, <3>1, Zenon
  <2> QED BY <2>1, <2>2, Zenon
<1>17. /\ batch_prepare_input(b) \in batch_schema
       /\ batch_prepare_input(b).balances = u /\ batch_prepare_input(b).limits = v
       /\ batch_prepare_input(b).active_count = m /\ DOMAIN b.balances = 1..m
  BY <1>2, <1>5, <1>13, <1>14, Zenon
<1> QED BY <1>2, <1>15, <1>16, <1>17, Zenon

BatchInv ==
    /\ circuit \in Scalars \cup {Batch}
    /\ circuit = Batch => mode \in {"direct", "private_input"} /\ body \in Bodies(Batch, mode)
    /\ circuit = Batch /\ stage = "queued" =>
          SubmitOk /\ input = Prepared /\ (mode = "direct" => ~float)
    /\ AcceptedBatchIsProvable
    /\ BatchDecided

(* The batch circuit is none of the scalar ones.                             *)
LEMMA BatchWitness ==
    Batch \notin Scalars /\ \A in : Witness(Batch, in) = BatchCreditCheck(in)
<1>1. Batch \notin Scalars
  BY Zenon DEF Batch, Scalars, input_schema
<1>2. \A in : Witness(Batch, in) = BatchCreditCheck(in)
  BY Zenon DEF Batch, Witness
<1> QED BY <1>1, <1>2, Zenon

(* What the worker makes of an accepted batch.                               *)
LEMMA BatchProcessed ==
    ASSUME BatchInv, circuit = Batch, process_proof_job
    PROVE  BatchInv'
<1>1. /\ stage = "queued" /\ SubmitOk /\ input = Prepared /\ (mode = "direct" => ~float)
      /\ mode \in {"direct", "private_input"} /\ body \in Bodies(Batch, mode)
  BY Zenon DEF process_proof_job, BatchInv
<1>2. circuit' = circuit /\ mode' = mode /\ body' = body /\ float' = float /\ input' = input
  BY Zenon DEF process_proof_job
<1> DEFINE Tails == zero_tail(input.balances, input.active_count) /\ zero_tail(input.limits, input.active_count)
           Exceed == \A i \in 0..(input.active_count - 1) : input.balances[i] > input.limits[i]
<1>3. input \in batch_schema
  BY <1>1, Zenon DEF SubmitOk, validate_private_input_schema
<1>4. Witness(circuit, input) = IF Tails THEN Bit(Exceed) ELSE Unsat
  BY <1>3, BatchWitness, BatchExact, Zenon
<1>5. Bit(Exceed) # Unsat
  BY DEF Bit, Unsat
<1>6. WorkerOk <=> Tails /\ ~float
  <2>1. input.active_count \in 1..N /\ u32_list(input.balances) /\ u32_list(input.limits)
    BY <1>3, Zenon DEF batch_schema, u32_list
  <2>2. WorkerOk => Tails /\ ~float
    BY <1>4, Zenon DEF WorkerOk, normalize_json_value_accepts
  <2>3. Tails /\ ~float => WorkerOk
    BY <1>3, <1>4, <1>5, <2>1, Zenon DEF WorkerOk, batch_prepare_from_private_input_accepts,
       validate_private_input_schema, normalize_json_value_accepts
  <2> QED BY <2>2, <2>3, Zenon
<1> HIDE DEF Tails, Exceed
<1>7. IF Tails /\ ~float THEN stage' = "proved" /\ output' = Bit(Exceed) ELSE stage' = "failed"
  BY <1>4, <1>6, Zenon DEF process_proof_job
<1>8. CASE mode = "direct"
  <2>1. body \in [balances : Lists, limits : Lists] /\ batch_prepare_accepts(body) /\ input = batch_prepare_input(body)
    BY <1>1, <1>8, Zenon DEF Bodies, SubmitOk, Prepared
  <2>2. Tails /\ (Exceed <=> \A i \in DOMAIN body.balances : body.balances[i] > body.limits[i])
    BY <2>1, PreparedExact, Zenon DEF Tails, Exceed
  <2>3. stage' = "proved" /\ output' = Bit(Exceed) /\ mode' = "direct"
    BY <1>1, <1>2, <1>7, <1>8, <2>2, Zenon
  <2>4. AcceptedBatchIsProvable'
    BY <2>3, Zenon DEF AcceptedBatchIsProvable
  <2>5. BatchDecided'
    BY <1>2, <2>2, <2>3, Zenon DEF BatchDecided, Bit
  <2> QED BY <1>1, <1>2, <2>3, <2>4, <2>5, Zenon DEF BatchInv
<1>9. CASE mode = "private_input"
  <2>1. input = body /\ mode' = "private_input" /\ mode' # "direct"
    BY <1>1, <1>2, <1>9, Zenon DEF Prepared
  <2>2. AcceptedBatchIsProvable'
    BY <1>2, <1>7, <2>1, Zenon DEF AcceptedBatchIsProvable, Tails
  <2>3. BatchDecided'
    BY <1>2, <1>7, <2>1, Zenon DEF BatchDecided, Exceed
  <2>4. stage' # "queued"
    BY <1>7, Zenon
  <2> QED BY <1>1, <1>2, <2>2, <2>3, <2>4, Zenon DEF BatchInv
<1> QED BY <1>1, <1>8, <1>9, Zenon

(* For every number of rows, field and width that satisfies the assumptions, *)
(* an accepted batch fails in the worker for its input exactly when it came  *)
(* as private_input with a padding that is not zero or a number written as a *)
(* float, and a proved one says whether every balance sent exceeds its limit *)
(* (batch_prepare_input, batch_prepare_from_private_input,                   *)
(* batch_credit_check.circom).                                               *)
THEOREM BatchJobsSafe == Spec => [](AcceptedBatchIsProvable /\ BatchDecided)
<1>1. Init => BatchInv
  <2> SUFFICES ASSUME Init PROVE BatchInv
    OBVIOUS
  <2>1. stage = "sent" /\ circuit \in Scalars \cup {Batch}
    BY Zenon DEF Init
  <2>2. circuit = Batch => mode \in {"direct", "private_input"} /\ body \in Bodies(Batch, mode)
    BY Zenon DEF Init
  <2> QED BY <2>1, <2>2, Zenon DEF BatchInv, AcceptedBatchIsProvable, BatchDecided
<1>2. BatchInv /\ [Next]_vars => BatchInv'
  <2> SUFFICES ASSUME BatchInv, [Next]_vars PROVE BatchInv'
    OBVIOUS
  <2>1. CASE create_batch_proof
    <3>1. circuit' = circuit /\ mode' = mode /\ body' = body /\ stage' \in {"queued", "refused"}
      BY <2>1, Zenon DEF create_batch_proof
    <3>2. stage' = "queued" => SubmitOk' /\ input' = Prepared' /\ (mode' = "direct" => ~float')
      BY <2>1, <3>1, Zenon DEF create_batch_proof, SubmitOk, Prepared
    <3> QED BY <3>1, <3>2, Zenon DEF BatchInv, AcceptedBatchIsProvable, BatchDecided
  <2>2. CASE process_proof_job /\ circuit = Batch
    BY <2>2, BatchProcessed, Zenon
  <2>3. CASE process_proof_job /\ circuit # Batch
    BY <2>3, Zenon DEF process_proof_job, BatchInv, AcceptedBatchIsProvable, BatchDecided
  <2>4. CASE UNCHANGED vars
    BY <2>4, Zenon DEF vars, BatchInv, SubmitOk, Prepared, AcceptedBatchIsProvable, BatchDecided
  <2> QED BY <2>1, <2>2, <2>3, <2>4, Zenon DEF Next
<1>3. BatchInv => AcceptedBatchIsProvable /\ BatchDecided
  BY Zenon DEF BatchInv
<1> QED BY <1>1, <1>2, <1>3, PTL DEF Spec

(* An accepted batch fails in the worker for its input exactly when it came  *)
(* as private_input with a padding that is not zero or a number written as a *)
(* float (batch_prepare_from_private_input).                                 *)
COROLLARY AcceptedBatchesAreProvable == Spec => []AcceptedBatchIsProvable
  BY BatchJobsSafe, PTL

-----------------------------------------------------------------------------
(* The operations page *)

TableLists == [Jobs -> Statuses \cup {"none"}]

TaskRecords ==
    [pc     : {"idle", "list", "listed", "rest", "detail", "detailed", "submit", "submitted"},
     next   : {"end", "poll", "select"},
     id     : Jobs \cup {NoJob},
     filter : Filters,
     got    : TableLists]

\* The job a task is about is known from the moment at which a submission is
\* answered or a job is selected.
GoodTasks ==
    {k \in TaskRecords :
        /\ k.pc \in {"detail", "detailed", "submitted"} => k.id \in Jobs
        /\ k.pc \in {"list", "listed", "rest"} /\ k.next = "select" => k.id \in Jobs}

ConsoleTyped ==
    /\ stored \in TableLists
    /\ rows \in TableLists
    /\ summary \in Jobs \cup {NoJob}
    /\ full \in Jobs \cup {NoJob}
    /\ filter \in Filters
    /\ task \in [Tasks -> GoodTasks]
    /\ overtaken \in [Tasks -> BOOLEAN]

\* As long as every selection was of a listed job and alone, each detail that
\* is shown or under way is the one of the selected job.
PanelInv ==
    clean => /\ full # NoJob => full = summary
             /\ \A t \in Tasks : task[t].pc \in {"detail", "detailed"} => task[t].id = summary

\* What a list says has completed has completed, and a list that no other has
\* overtaken is not older than the table.
ListsInv ==
    /\ \A j \in Jobs : rows[j] = "completed" => stored[j] = "completed"
    /\ \A t \in Tasks : task[t].pc = "listed" => \A j \in Jobs :
        /\ task[t].got[j] = "completed" => stored[j] = "completed"
        /\ ~overtaken[t] /\ rows[j] = "completed" => task[t].got[j] # "queued"

ConsoleInv == ConsoleTyped /\ PanelInv /\ ListsInv

-----------------------------------------------------------------------------
\* A non-empty set of jobs has a newest one, by the least distance from the
\* last job.
LEMMA NewestExists ==
    ASSUME NEW S \in SUBSET Jobs, S # {}
    PROVE  \E j \in S : \A k \in S : k <= j
<1> DEFINE T == {MaxJobs - j : j \in S}
<1>1. T \subseteq Nat /\ T # {}
  <2>1. T \subseteq Nat
    BY ConsoleAssumption DEF Jobs
  <2>2. PICK j \in S : TRUE
    OBVIOUS
  <2>3. MaxJobs - j \in T
    BY <2>2
  <2> QED BY <2>1, <2>3
<1>2. PICK x \in T : \A y \in T : ~(y < x)
  <2> HIDE DEF T
  <2> QED BY <1>1, LeastExists, Zenon
<1>3. PICK j \in S : x = MaxJobs - j
  OBVIOUS
<1>4. \A k \in S : ~(MaxJobs - k < MaxJobs - j)
  BY <1>2, <1>3
<1> QED BY <1>4, ConsoleAssumption DEF Jobs

\* refreshJobs selects a job if it changes the selection at all, and changes it
\* only if nothing was selected.
LEMMA ReselectedJob ==
    ASSUME ConsoleTyped, NEW listed
    PROVE  /\ Reselected(listed) \in Jobs \cup {NoJob}
           /\ summary # NoJob => Reselected(listed) = summary
<1> DEFINE present == {j \in Jobs : listed[j] # "none"}
<1>1. CASE summary = NoJob /\ present # {}
  <2>1. \E j \in present : \A k \in present : k <= j
    <3>1. present \in SUBSET Jobs /\ present # {}
      BY <1>1
    <3> HIDE DEF present
    <3> QED BY <3>1, NewestExists
  <2> QED BY <1>1, <2>1 DEF Reselected
<1>2. CASE ~(summary = NoJob /\ present # {})
  BY <1>2 DEF Reselected, ConsoleTyped
<1> QED BY <1>1, <1>2

\* The records with which a task begins and ends.
LEMMA NewTasksGood ==
    /\ NoTask \in GoodTasks
    /\ [NoTask EXCEPT !.pc = "submit"] \in GoodTasks
    /\ \A f \in Filters : \A j \in Jobs \cup {NoJob} : \A n \in {"end", "poll", "select"} :
           (n = "select" => j \in Jobs) =>
               /\ [NoTask EXCEPT !.pc = "list", !.next = n, !.id = j, !.filter = f] \in GoodTasks
               /\ [NoTask EXCEPT !.pc = "rest", !.next = n, !.id = j] \in GoodTasks
    /\ \A j \in Jobs : [NoTask EXCEPT !.pc = "detail", !.id = j] \in GoodTasks
<1> USE DEF GoodTasks, TaskRecords
<1>1. NoTask \in GoodTasks
  BY ConsoleAssumption DEF NoTask, NoRows, NoJob, TableLists
<1>2. NoTask \in TaskRecords /\ NoTask.pc = "idle" /\ NoTask.next = "end"
  BY <1>1 DEF NoTask
<1>3. [NoTask EXCEPT !.pc = "submit"] \in GoodTasks
  BY <1>2
<1>4. ASSUME NEW f \in Filters, NEW j \in Jobs \cup {NoJob}, NEW n \in {"end", "poll", "select"},
             n = "select" => j \in Jobs
      PROVE  /\ [NoTask EXCEPT !.pc = "list", !.next = n, !.id = j, !.filter = f] \in GoodTasks
             /\ [NoTask EXCEPT !.pc = "rest", !.next = n, !.id = j] \in GoodTasks
  <2>1. [NoTask EXCEPT !.pc = "list", !.next = n, !.id = j, !.filter = f] \in GoodTasks
    BY <1>2, <1>4, Zenon
  <2>2. [NoTask EXCEPT !.pc = "rest", !.next = n, !.id = j] \in GoodTasks
    BY <1>2, <1>4, Zenon
  <2> QED BY <2>1, <2>2
<1>5. ASSUME NEW j \in Jobs PROVE [NoTask EXCEPT !.pc = "detail", !.id = j] \in GoodTasks
  BY <1>2, Zenon
<1> HIDE DEF GoodTasks
<1> QED BY <1>1, <1>3, <1>4, <1>5, Zenon

\* The answers a task gets.
LEMMA AnsweredTasksGood ==
    ASSUME NEW k \in GoodTasks
    PROVE  /\ k.pc = "list" => \A g \in TableLists : [k EXCEPT !.pc = "listed", !.got = g] \in GoodTasks
           /\ k.pc = "detail" => \A g \in TableLists : [k EXCEPT !.pc = "detailed", !.got = g] \in GoodTasks
           /\ \A j \in Jobs : [k EXCEPT !.pc = "submitted", !.id = j] \in GoodTasks
           /\ k.got \in TableLists /\ k.id \in Jobs \cup {NoJob} /\ k.next \in {"end", "poll", "select"}
           /\ k.pc \in {"detail", "detailed", "submitted"} => k.id \in Jobs
           /\ k.pc \in {"list", "listed", "rest"} /\ k.next = "select" => k.id \in Jobs
<1> USE DEF GoodTasks, TaskRecords
<1>1. ASSUME NEW g \in TableLists, k.pc = "list" PROVE [k EXCEPT !.pc = "listed", !.got = g] \in GoodTasks
  BY <1>1, Zenon
<1>2. ASSUME NEW g \in TableLists, k.pc = "detail" PROVE [k EXCEPT !.pc = "detailed", !.got = g] \in GoodTasks
  BY <1>2, Zenon
<1>3. ASSUME NEW j \in Jobs PROVE [k EXCEPT !.pc = "submitted", !.id = j] \in GoodTasks
  BY Zenon
<1>4. /\ k.got \in TableLists /\ k.id \in Jobs \cup {NoJob} /\ k.next \in {"end", "poll", "select"}
      /\ k.pc \in {"detail", "detailed", "submitted"} => k.id \in Jobs
      /\ k.pc \in {"list", "listed", "rest"} /\ k.next = "select" => k.id \in Jobs
  OBVIOUS
<1> HIDE DEF GoodTasks
<1> QED BY <1>1, <1>2, <1>3, <1>4, Zenon

\* refreshJobs leaves the other tasks alone, and its own has no list any more.
LEMMA AppliedTask ==
    ASSUME ConsoleTyped, NEW t \in Tasks, ApplyList(t)
    PROVE  /\ task'[t].pc \in {"idle", "rest"}
           /\ \A u \in Tasks \ {t} : task'[u] = task[u]
<1>1. CASE task[t].next = "end"
  <2>1. task' = [task EXCEPT ![t] = NoTask]
    BY <1>1 DEF ApplyList, End
  <2> QED BY <2>1 DEF ConsoleTyped, NoTask
<1>2. CASE task[t].next # "end"
  <2>1. task' = [task EXCEPT ![t] = [NoTask EXCEPT !.pc = "rest", !.next = task[t].next, !.id = task[t].id]]
    BY <1>2 DEF ApplyList
  <2> QED BY <2>1 DEF ConsoleTyped, NoTask
<1> QED BY <1>1, <1>2

\* Every step keeps the types.
LEMMA TypedStep == ConsoleTyped /\ [ConsoleNext]_consoleVars => ConsoleTyped'
<1> SUFFICES ASSUME ConsoleTyped, [ConsoleNext]_consoleVars PROVE ConsoleTyped'
  OBVIOUS
<1> USE DEF ConsoleTyped, pageVars, historyVars, Idle, End, AskList, SelectJob, Click
<1>1. ASSUME NEW t \in Tasks, AnswerList(t) PROVE ConsoleTyped'
  <2>1. [j \in Jobs |-> IF j \in Listed(task[t].filter) THEN stored[j] ELSE "none"] \in TableLists
    BY DEF TableLists
  <2>2. PICK g \in TableLists : task' = [task EXCEPT ![t] = [task[t] EXCEPT !.pc = "listed", !.got = g]]
    BY <1>1, <2>1, Zenon DEF AnswerList
  <2>3. task[t] \in GoodTasks /\ task[t].pc = "list"
    BY <1>1 DEF AnswerList
  <2>4. task' \in [Tasks -> GoodTasks]
    BY <2>2, <2>3, AnsweredTasksGood, Zenon
  <2> QED BY <1>1, <2>4 DEF AnswerList
<1>2. ASSUME NEW t \in Tasks, AnswerDetail(t) PROVE ConsoleTyped'
  <2>1. task[t] \in GoodTasks /\ task[t].pc = "detail"
    BY <1>2 DEF AnswerDetail
  <2>2. task[t].id \in Jobs
    BY <2>1, AnsweredTasksGood, Zenon
  <2>3. [NoRows EXCEPT ![task[t].id] = stored[task[t].id]] \in TableLists
    BY <2>2 DEF TableLists, NoRows
  <2>4. PICK g \in TableLists : task' = [task EXCEPT ![t] = [task[t] EXCEPT !.pc = "detailed", !.got = g]]
    BY <1>2, <2>3, Zenon DEF AnswerDetail
  <2>5. task' \in [Tasks -> GoodTasks]
    BY <2>1, <2>4, AnsweredTasksGood, Zenon
  <2> QED BY <1>2, <2>5 DEF AnswerDetail
<1>3. ASSUME NEW t \in Tasks, AnswerSubmit(t) PROVE ConsoleTyped'
  <2>1. PICK j \in Jobs : /\ stored' = [stored EXCEPT ![j] = "queued"]
                           /\ task' = [task EXCEPT ![t] = [task[t] EXCEPT !.pc = "submitted", !.id = j]]
    BY <1>3, Zenon DEF AnswerSubmit
  <2>2. task' \in [Tasks -> GoodTasks]
    BY <2>1, AnsweredTasksGood, Zenon
  <2>3. stored' \in TableLists
    BY <2>1 DEF TableLists, Statuses
  <2> QED BY <1>3, <2>2, <2>3 DEF AnswerSubmit
<1>4. ASSUME NEW t \in Tasks, ApplyList(t) PROVE ConsoleTyped'
  <2>1. task[t] \in GoodTasks /\ task[t].pc = "listed"
    BY <1>4 DEF ApplyList
  <2>2. /\ task[t].got \in TableLists /\ task[t].id \in Jobs \cup {NoJob}
        /\ task[t].next \in {"end", "poll", "select"} /\ (task[t].next = "select" => task[t].id \in Jobs)
    BY <2>1, AnsweredTasksGood, Zenon
  <2>3. rows' \in TableLists /\ overtaken' \in [Tasks -> BOOLEAN]
    BY <1>4, <2>2 DEF ApplyList
  <2>4. summary' \in Jobs \cup {NoJob}
    BY <1>4, ReselectedJob DEF ApplyList
  <2>5. [NoTask EXCEPT !.pc = "rest", !.next = task[t].next, !.id = task[t].id] \in GoodTasks
    BY <2>2, NewTasksGood, ConsoleAssumption, Zenon
  <2>6. task' \in [Tasks -> GoodTasks]
    BY <1>4, <2>5, NewTasksGood, Zenon DEF ApplyList
  <2> QED BY <1>4, <2>3, <2>4, <2>6 DEF ApplyList
<1>5. ASSUME NEW t \in Tasks, PollEnds(t) PROVE ConsoleTyped'
  BY <1>5, NewTasksGood, Zenon DEF PollEnds
<1>6. ASSUME NEW t \in Tasks, RestSelects(t) PROVE ConsoleTyped'
  <2>1. task[t].next = "select" => task[t].id \in Jobs
    BY <1>6, AnsweredTasksGood, Zenon DEF RestSelects
  <2>2. PICK j \in Jobs : SelectJob(t, j)
    BY <1>6, <2>1, Zenon DEF RestSelects
  <2> QED BY <1>6, <2>2, NewTasksGood, Zenon DEF RestSelects
<1>7. ASSUME NEW t \in Tasks, ShowDetail(t) PROVE ConsoleTyped'
  <2>1. task[t].id \in Jobs
    BY <1>7, AnsweredTasksGood, Zenon DEF ShowDetail
  <2> QED BY <1>7, <2>1, NewTasksGood, Zenon DEF ShowDetail
<1>8. ASSUME NEW t \in Tasks, SubmitAnswered(t) PROVE ConsoleTyped'
  <2>1. task[t].id \in Jobs
    BY <1>8, AnsweredTasksGood, Zenon DEF SubmitAnswered
  <2>2. [NoTask EXCEPT !.pc = "list", !.next = "select", !.id = task[t].id, !.filter = filter] \in GoodTasks
    BY <2>1, NewTasksGood, Zenon
  <2> QED BY <1>8, <2>2 DEF SubmitAnswered
<1>9. ASSUME NEW t \in Tasks, CallFails(t) PROVE ConsoleTyped'
  BY <1>9, NewTasksGood, Zenon DEF CallFails
<1>10. ASSUME NEW t \in Tasks, PollTimer(t) PROVE ConsoleTyped'
  <2>1. [NoTask EXCEPT !.pc = "list", !.next = "poll", !.id = 0, !.filter = filter] \in GoodTasks
    BY NewTasksGood, Zenon DEF NoJob
  <2> QED BY <1>10, <2>1 DEF PollTimer
<1>11. ASSUME NEW t \in Tasks, ClickSubmit(t) PROVE ConsoleTyped'
  BY <1>11, NewTasksGood, Zenon DEF ClickSubmit
<1>12. ASSUME NEW t \in Tasks, NEW j \in Jobs, ClickRow(t, j) PROVE ConsoleTyped'
  BY <1>12, NewTasksGood, Zenon DEF ClickRow
<1>13. ASSUME NEW t \in Tasks, NEW flt \in Filters, ClickFilter(t, flt) PROVE ConsoleTyped'
  <2>1. [NoTask EXCEPT !.pc = "list", !.next = "end", !.id = 0, !.filter = flt] \in GoodTasks
    BY NewTasksGood, Zenon DEF NoJob
  <2> QED BY <1>13, <2>1 DEF ClickFilter
<1>14. ASSUME ClickPause PROVE ConsoleTyped'
  BY <1>14, NewTasksGood, Zenon DEF ClickPause
<1>15. ASSUME NEW j \in Jobs, CompleteJob(j) PROVE ConsoleTyped'
  BY <1>15 DEF CompleteJob, TableLists, Statuses
<1>16. ASSUME UNCHANGED consoleVars PROVE ConsoleTyped'
  BY <1>16 DEF consoleVars
<1> HIDE DEF ConsoleTyped, pageVars, historyVars, Idle, End, AskList, SelectJob, Click
<1> QED
  BY <1>1, <1>2, <1>3, <1>4, <1>5, <1>6, <1>7, <1>8, <1>9, <1>10, <1>11, <1>12, <1>13, <1>14, <1>15, <1>16
     DEF ConsoleNext, TaskStep

\* Every step keeps the panel's part of the invariant.
LEMMA PanelStep == ConsoleTyped /\ PanelInv /\ [ConsoleNext]_consoleVars => PanelInv'
<1> SUFFICES ASSUME ConsoleTyped, PanelInv, [ConsoleNext]_consoleVars PROVE PanelInv'
  OBVIOUS
<1> USE DEF ConsoleTyped, GoodTasks, TaskRecords, PanelInv, NoTask, NoJob, Jobs,
       pageVars, historyVars, Idle, End, AskList, SelectJob, DetailsUnderWay, Click
<1>1. ASSUME NEW t \in Tasks, AnswerList(t) PROVE PanelInv'
  BY <1>1 DEF AnswerList
<1>2. ASSUME NEW t \in Tasks, AnswerDetail(t) PROVE PanelInv'
  BY <1>2 DEF AnswerDetail
<1>3. ASSUME NEW t \in Tasks, AnswerSubmit(t) PROVE PanelInv'
  BY <1>3 DEF AnswerSubmit
<1>4. ASSUME NEW t \in Tasks, ApplyList(t) PROVE PanelInv'
  <2>1. summary # NoJob => summary' = summary
    BY <1>4, ReselectedJob DEF ApplyList
  <2>2. \A u \in Tasks : task'[u].pc \in {"detail", "detailed"} => task'[u] = task[u]
    BY <1>4, AppliedTask
  <2>3. clean' = clean /\ full' = full
    BY <1>4 DEF ApplyList
  <2>4. ASSUME NEW u \in Tasks, clean, task[u].pc \in {"detail", "detailed"} PROVE summary # NoJob
    BY <2>4
  <2> QED BY <2>1, <2>2, <2>3, <2>4
<1>5. ASSUME NEW t \in Tasks, PollEnds(t) PROVE PanelInv'
  BY <1>5 DEF PollEnds
<1>6. ASSUME NEW t \in Tasks, RestSelects(t) PROVE PanelInv'
  <2>1. PICK j \in Jobs : SelectJob(t, j)
    <3>1. /\ task[t].pc = "rest" /\ (task[t].next = "select" => task[t].id \in Jobs)
          /\ summary # NoJob => summary \in Jobs
      BY <1>6, AnsweredTasksGood, Zenon DEF RestSelects
    <3> HIDE DEF ConsoleTyped, SelectJob, Jobs
    <3> QED BY <1>6, <3>1 DEF RestSelects
  <2> QED BY <2>1, Zenon
<1>7. ASSUME NEW t \in Tasks, ShowDetail(t) PROVE PanelInv'
  BY <1>7 DEF ShowDetail
<1>8. ASSUME NEW t \in Tasks, SubmitAnswered(t) PROVE PanelInv'
  BY <1>8 DEF SubmitAnswered
<1>9. ASSUME NEW t \in Tasks, CallFails(t) PROVE PanelInv'
  BY <1>9 DEF CallFails
<1>10. ASSUME NEW t \in Tasks, PollTimer(t) PROVE PanelInv'
  BY <1>10 DEF PollTimer
<1>11. ASSUME NEW t \in Tasks, ClickSubmit(t) PROVE PanelInv'
  BY <1>11 DEF ClickSubmit
<1>12. ASSUME NEW t \in Tasks, NEW j \in Jobs, ClickRow(t, j) PROVE PanelInv'
  BY <1>12, Zenon DEF ClickRow
<1>13. ASSUME NEW t \in Tasks, NEW flt \in Filters, ClickFilter(t, flt) PROVE PanelInv'
  BY <1>13 DEF ClickFilter
<1>14. ASSUME ClickPause PROVE PanelInv'
  BY <1>14 DEF ClickPause
<1>15. ASSUME NEW j \in Jobs, CompleteJob(j) PROVE PanelInv'
  BY <1>15 DEF CompleteJob
<1>16. ASSUME UNCHANGED consoleVars PROVE PanelInv'
  BY <1>16 DEF consoleVars
<1> HIDE DEF ConsoleTyped, GoodTasks, TaskRecords, PanelInv, NoTask, NoJob, Jobs,
       pageVars, historyVars, Idle, End, AskList, SelectJob, DetailsUnderWay, Click
<1> QED
  BY <1>1, <1>2, <1>3, <1>4, <1>5, <1>6, <1>7, <1>8, <1>9, <1>10, <1>11, <1>12, <1>13, <1>14, <1>15, <1>16
     DEF ConsoleNext, TaskStep

\* Every step keeps the table's part of the invariant.
LEMMA ListsStep == ConsoleTyped /\ ListsInv /\ [ConsoleNext]_consoleVars => ListsInv'
<1> SUFFICES ASSUME ConsoleTyped, ListsInv, [ConsoleNext]_consoleVars PROVE ListsInv'
  OBVIOUS
<1> USE DEF ConsoleTyped, GoodTasks, TaskRecords, TableLists, Statuses, ListsInv, NoTask,
       pageVars, historyVars, Idle, End, AskList, SelectJob, Click
<1>1. ASSUME NEW t \in Tasks, AnswerList(t) PROVE ListsInv'
  BY <1>1 DEF AnswerList
<1>2. ASSUME NEW t \in Tasks, AnswerDetail(t) PROVE ListsInv'
  BY <1>2 DEF AnswerDetail
<1>3. ASSUME NEW t \in Tasks, AnswerSubmit(t) PROVE ListsInv'
  BY <1>3 DEF AnswerSubmit
<1>4. ASSUME NEW t \in Tasks, ApplyList(t) PROVE ListsInv'
  <2>1. /\ task'[t].pc \in {"idle", "rest"}
        /\ \A u \in Tasks \ {t} : task'[u] = task[u]
    BY <1>4, AppliedTask
  <2>2. /\ rows' = task[t].got /\ stored' = stored /\ task[t].pc = "listed"
        /\ \A u \in Tasks \ {t} : task[u].pc = "listed" => overtaken'[u]
    BY <1>4, Zenon DEF ApplyList
  <2> HIDE DEF ConsoleTyped, GoodTasks, TaskRecords, TableLists, Statuses, NoTask
  <2>3. \A j \in Jobs : rows'[j] = "completed" => stored'[j] = "completed"
    BY <2>2, Zenon
  <2>4. ASSUME NEW u \in Tasks, task'[u].pc = "listed"
        PROVE  u # t /\ task'[u] = task[u] /\ overtaken'[u]
    BY <2>1, <2>2, <2>4, Zenon
  <2>5. ASSUME NEW u \in Tasks, task'[u].pc = "listed", NEW j \in Jobs
        PROVE  /\ task'[u].got[j] = "completed" => stored'[j] = "completed"
               /\ ~overtaken'[u] /\ rows'[j] = "completed" => task'[u].got[j] # "queued"
    BY <2>2, <2>4, <2>5, Zenon
  <2> QED BY <2>3, <2>5
<1>5. ASSUME NEW t \in Tasks, PollEnds(t) PROVE ListsInv'
  BY <1>5 DEF PollEnds
<1>6. ASSUME NEW t \in Tasks, RestSelects(t) PROVE ListsInv'
  <2>1. /\ \A u \in Tasks \ {t} : task'[u] = task[u]
        /\ task'[t].pc = "detail"
    <3>1. PICK j : task' = [task EXCEPT ![t] = [NoTask EXCEPT !.pc = "detail", !.id = j]]
      <4> HIDE DEF ConsoleTyped, NoTask
      <4> QED BY <1>6, Zenon DEF RestSelects
    <3> QED BY <3>1
  <2> QED BY <1>6, <2>1 DEF RestSelects
<1>7. ASSUME NEW t \in Tasks, ShowDetail(t) PROVE ListsInv'
  BY <1>7 DEF ShowDetail
<1>8. ASSUME NEW t \in Tasks, SubmitAnswered(t) PROVE ListsInv'
  BY <1>8 DEF SubmitAnswered
<1>9. ASSUME NEW t \in Tasks, CallFails(t) PROVE ListsInv'
  BY <1>9 DEF CallFails
<1>10. ASSUME NEW t \in Tasks, PollTimer(t) PROVE ListsInv'
  BY <1>10 DEF PollTimer
<1>11. ASSUME NEW t \in Tasks, ClickSubmit(t) PROVE ListsInv'
  BY <1>11 DEF ClickSubmit
<1>12. ASSUME NEW t \in Tasks, NEW j \in Jobs, ClickRow(t, j) PROVE ListsInv'
  BY <1>12 DEF ClickRow
<1>13. ASSUME NEW t \in Tasks, NEW flt \in Filters, ClickFilter(t, flt) PROVE ListsInv'
  BY <1>13 DEF ClickFilter
<1>14. ASSUME ClickPause PROVE ListsInv'
  BY <1>14 DEF ClickPause
<1>15. ASSUME NEW j \in Jobs, CompleteJob(j) PROVE ListsInv'
  BY <1>15 DEF CompleteJob
<1>16. ASSUME UNCHANGED consoleVars PROVE ListsInv'
  BY <1>16 DEF consoleVars
<1> HIDE DEF ConsoleTyped, GoodTasks, TaskRecords, TableLists, Statuses, ListsInv, NoTask,
       pageVars, historyVars, Idle, End, AskList, SelectJob, Click
<1> QED
  BY <1>1, <1>2, <1>3, <1>4, <1>5, <1>6, <1>7, <1>8, <1>9, <1>10, <1>11, <1>12, <1>13, <1>14, <1>15, <1>16
     DEF ConsoleNext, TaskStep

\* The invariant holds when the page is loaded.
LEMMA ConsoleInitInv == ConsoleInit => ConsoleInv
<1> SUFFICES ASSUME ConsoleInit PROVE ConsoleInv
  OBVIOUS
<1>1. ConsoleTyped
  <2>1. stored \in TableLists /\ rows \in TableLists
    BY ConsoleAssumption DEF ConsoleInit, NoRows, TableLists, Statuses, Jobs
  <2> QED BY <2>1, NewTasksGood, ConsoleAssumption, Zenon DEF ConsoleInit, ConsoleTyped, NoJob
<1>2. PanelInv
  BY DEF ConsoleInit, PanelInv, NoTask
<1>3. ListsInv
  BY DEF ConsoleInit, ListsInv, NoRows, NoTask
<1> QED BY <1>1, <1>2, <1>3 DEF ConsoleInv

\* Every behaviour of the page satisfies the invariant.
LEMMA ConsoleInvariant == ConsoleSpec => []ConsoleInv
<1>1. ConsoleInv /\ [ConsoleNext]_consoleVars => ConsoleInv'
  BY TypedStep, PanelStep, ListsStep DEF ConsoleInv
<1> QED BY ConsoleInitInv, <1>1, PTL DEF ConsoleSpec

\* Unless a job was selected while the detail of another was under way, or
\* while it was not listed, the panel shows the detail of the selected row
\* (selectJob, refreshJobs and refreshAll in any order).
THEOREM PanelFollowsSelection == ConsoleSpec => []PanelShowsSelection
<1>1. ConsoleInv => PanelShowsSelection
  BY DEF ConsoleInv, PanelInv, PanelShowsSelection
<1> QED BY ConsoleInvariant, <1>1, PTL

\* The table takes a completed job back to queued only by a list answer that was
\* on its way while another one was applied (refreshJobs, overlapping refreshAll).
THEOREM RowsGoForward == ConsoleSpec => RowsNeverGoBack
<1> DEFINE Forward == \A j \in Jobs :
               rows[j] = "completed" /\ rows'[j] = "queued" =>
                  \E t \in Tasks : task[t].pc = "listed" /\ task'[t] # task[t] /\ overtaken[t]
<1>1. ConsoleInv /\ [ConsoleNext]_consoleVars => [Forward]_consoleVars
  <2> SUFFICES ASSUME ConsoleInv, [ConsoleNext]_consoleVars, NEW j \in Jobs,
                      rows[j] = "completed", rows'[j] = "queued"
               PROVE  \E t \in Tasks : task[t].pc = "listed" /\ task'[t] # task[t] /\ overtaken[t]
    OBVIOUS
  <2>1. PICK t \in Tasks : ApplyList(t)
    BY Zenon DEF ConsoleNext, TaskStep, AnswerList, AnswerDetail, AnswerSubmit, PollEnds, RestSelects, ShowDetail,
           SubmitAnswered, CallFails, PollTimer, ClickSubmit, ClickRow, ClickFilter, ClickPause, CompleteJob,
           consoleVars, pageVars
  <2>2. task[t].pc = "listed" /\ task[t].got[j] = "queued"
    BY <2>1 DEF ApplyList
  <2>3. overtaken[t]
    BY <2>2 DEF ConsoleInv, ListsInv
  <2>4. task'[t] # task[t]
    <3>1. task'[t].pc \in {"idle", "rest"}
      BY <2>1, AppliedTask DEF ConsoleInv
    <3> QED BY <2>2, <3>1
  <2> QED BY <2>2, <2>3, <2>4
<1> QED BY ConsoleInvariant, <1>1, PTL DEF ConsoleSpec, RowsNeverGoBack

=============================================================================
