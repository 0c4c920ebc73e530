------------------------------- MODULE Circuits -------------------------------
(***************************************************************************)
(* The circuits under circuits/, each a function of an assignment to its    *)
(* input signals: the value of its output signal, or Unsat when no witness  *)
(* satisfies the constraints.  A signal is an element of the field 0..P-1;  *)
(* the widths 2^16, 2^32 and 2^64 of the comparators are the constants M16, *)
(* M32 and M64, so that a small field has the same boundaries.              *)
(***************************************************************************)
EXTENDS Integers

CONSTANTS P,                       \* order of the field
          M16, M32, M64,           \* widths of the comparators
          N,                       \* rows of a batch (250)
          MaxAmount, MaxReserves,  \* largest amounts (10^9 and 10^12)
          MaxAge, MaxCountry,      \* 130 and 999
          MaxScore, MaxDebtRatio,  \* 900 and 10^6
          ScoreScale,              \* weight of the credit score (1000)
          Scale                    \* basis points of the whole (10000)

ASSUME CircuitConstants ==
    /\ P \in Nat /\ M16 \in Nat \ {0} /\ M32 \in Nat /\ M64 \in Nat
    /\ 2 * M64 < P /\ M32 <= M64 /\ M16 <= M32
    /\ N \in Nat \ {0} /\ N + 1 < M16
    /\ MaxAge \in Nat /\ MaxAge < M32
    /\ MaxCountry \in Nat /\ MaxCountry < M32
    /\ MaxScore \in Nat /\ MaxScore < M32
    /\ MaxDebtRatio \in Nat /\ MaxDebtRatio < M32
    /\ ScoreScale \in Nat /\ MaxScore * ScoreScale < M64
    /\ Scale \in Nat \ {0} /\ 2 * Scale < M32
    /\ MaxReserves \in Nat /\ MaxReserves < M64
    /\ MaxAmount \in Nat \ {0} /\ MaxAmount * (2 * Scale) < M64

Field == 0..(P - 1)

-----------------------------------------------------------------------------
(* circomlib/circuits/comparators.circom.  LessThan(n) decomposes           *)
(* in[0] + 2^n - in[1] into n + 1 bits, which constrains that field element *)
(* to be less than 2^(n+1), and returns the complement of the top bit.      *)

Unsat == -1   \* no assignment satisfies the comparator's constraints

LessThan(M, a, b) ==
    LET d == (a + M - b) % P
    IN IF d < M THEN 1 ELSE IF d < 2 * M THEN 0 ELSE Unsat

LessEqThan(M, a, b) == LessThan(M, a, b + 1)

GreaterThan(M, a, b) == LessThan(M, b, a)

GreaterEqThan(M, a, b) == LessThan(M, b, a + 1)

IsEqual(a, b) == IF (a - b) % P = 0 THEN 1 ELSE 0

-----------------------------------------------------------------------------
(* The pair of comparators with which a circuit bounds one of its inputs.   *)
Between(M, value, min, max) ==
    /\ GreaterEqThan(M, value, min) = 1
    /\ LessEqThan(M, value, max) = 1

Output(constraints, signal) == IF constraints THEN signal ELSE Unsat

CreditCheck(in) ==
    Output(/\ Between(M32, in.credit_score, 0, MaxScore)
           /\ Between(M32, in.debt_ratio, 0, MaxDebtRatio),
           (in.credit_score * ScoreScale - in.debt_ratio) % P)

AMLCheck(in) ==
    Output(/\ Between(M64, in.amount, 0, MaxAmount)
           /\ Between(M32, in.risk_weight, 0, Scale),
           (in.amount * in.risk_weight) % P)

\* Mutant of ProofOfReservesV1: 32-bit comparators for amounts of 40 bits.
ProofOfReservesV1_Narrow(in) ==
    Output(/\ Between(M32, in.liabilities, 0, MaxReserves)
           /\ Between(M32, in.assets, 0, MaxReserves),
           GreaterEqThan(M32, in.assets, in.liabilities))

ProofOfReservesV1(in) ==
    Output(/\ Between(M64, in.liabilities, 0, MaxReserves)
           /\ Between(M64, in.assets, 0, MaxReserves),
           GreaterEqThan(M64, in.assets, in.liabilities))

ZkKycV1(in) ==
    LET age_cmp == GreaterEqThan(M32, in.age, in.min_age)
    IN Output(/\ Between(M32, in.age, 0, MaxAge)
              /\ Between(M32, in.min_age, 0, MaxAge)
              /\ Between(M32, in.country_code, 0, MaxCountry)
              /\ age_cmp # Unsat,
              age_cmp * IsEqual(in.country_code, in.allowed_country_code))

\* Mutant of DTICheck: a ratio equal to the limit is refused.
DTICheck_Strict(in) ==
    Output(/\ Between(M64, in.monthly_income, 1, MaxAmount)
           /\ Between(M64, in.monthly_debt_payment, 0, MaxAmount)
           /\ Between(M32, in.max_dti_bps, 1, Scale),
           LessThan(M64, in.monthly_debt_payment * Scale,
                         in.monthly_income * in.max_dti_bps))

DTICheck(in) ==
    LET scaled_debt == (in.monthly_debt_payment * Scale) % P
        scaled_income_limit == (in.monthly_income * in.max_dti_bps) % P
    IN Output(/\ Between(M64, in.monthly_income, 1, MaxAmount)
              /\ Between(M64, in.monthly_debt_payment, 0, MaxAmount)
              /\ Between(M32, in.max_dti_bps, 1, Scale),
              LessEqThan(M64, scaled_debt, scaled_income_limit))

ReserveRatioCheck(in) ==
    LET scaled_assets == (in.liquid_assets * Scale) % P
        scaled_required == (in.short_term_liabilities * in.min_reserve_ratio_bps) % P
    IN Output(/\ Between(M64, in.liquid_assets, 0, MaxAmount)
              /\ Between(M64, in.short_term_liabilities, 1, MaxAmount)
              /\ Between(M32, in.min_reserve_ratio_bps, 1, 2 * Scale),
              GreaterEqThan(M64, scaled_assets, scaled_required))

(* The chain that multiplies the rows' decisions.                           *)
all_valid_chain(decision_valid) ==
    LET chain[i \in 0..N] == IF i = 0 THEN 1 ELSE chain[i - 1] * decision_valid[i - 1]
    IN chain[N]

(* Rows from active_count on are neutral, and constrained to be zero.       *)
BatchCreditCheck(in) ==
    LET Row == 0..(N - 1)
        is_active(i) == GreaterThan(M16, in.active_count, i)
        greater(i) == GreaterThan(M32, in.balances[i], in.limits[i])
    IN Output(/\ GreaterThan(M16, in.active_count, 0) = 1
              /\ LessThan(M16, in.active_count, N + 1) = 1
              /\ \A i \in Row : /\ Unsat \notin {is_active(i), greater(i)}
                               /\ in.balances[i] * (1 - is_active(i)) = 0
                               /\ in.limits[i] * (1 - is_active(i)) = 0,
              all_valid_chain([i \in Row |-> greater(i) * is_active(i) + (1 - is_active(i))]))
=============================================================================
