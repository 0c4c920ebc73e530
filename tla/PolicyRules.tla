------------------------------ MODULE PolicyRules ------------------------------
(***************************************************************************)
(* The decision language of policy_compiler/models.py and what the code     *)
(* makes of it three times: the Python reference, the generated circuit and *)
(* the replay that explains a failed run.  A value node is                  *)
(* [ref |-> ...], [param |-> ...] or [const_int |-> ...]; an expression is   *)
(* [kind |-> "comparison", op, left, right], [kind |-> "and" or "or", args]  *)
(* or [kind |-> "not", "all" or "any", inner].  An input is a batch input    *)
(* (balances and limits numbered from 0, active_count) and ps the resolved  *)
(* policy parameters.                                                       *)
(***************************************************************************)
EXTENDS CircuitInput, SequencesExt

Rows == 0..(N - 1)

Active(in) == 0..(in.active_count - 1)

Inners(e) ==
    CASE e.kind = "comparison" -> << >>
      [] e.kind \in {"and", "or"} -> e.args
      [] e.kind \in {"not", "all", "any"} -> <<e.inner>>

-----------------------------------------------------------------------------
(* validation.py.  The second argument is the set of declared parameters.   *)

validate_value(v, names) ==
    IF "const_int" \in DOMAIN v THEN v.const_int >= 0
    ELSE IF "param" \in DOMAIN v THEN v.param \in names
    ELSE v.ref \in {"balances", "limits", "active_count"}

RECURSIVE validate_boolean_expr(_, _)
validate_boolean_expr(e, names) ==
    IF e.kind = "comparison"
    THEN validate_value(e.left, names) /\ validate_value(e.right, names)
    ELSE \A k \in DOMAIN Inners(e) : validate_boolean_expr(Inners(e)[k], names)

ensure_supported_decision(d, names) ==
    /\ d.kind \in {"all", "any"}
    /\ validate_boolean_expr(d.inner, names)

-----------------------------------------------------------------------------
(* python_renderer.py: the value of the rendered expression.                *)

Compare(op, left, right) ==
    CASE op = "<" -> left < right
      [] op = ">" -> left > right
      [] op = "<=" -> left <= right
      [] op = ">=" -> left >= right
      [] op = "==" -> left = right

RefValue(ref, i, in) ==
    CASE ref = "balances" -> in.balances[i]
      [] ref = "limits" -> in.limits[i]
      [] ref = "active_count" -> in.active_count

python_value(v, i, in, ps) ==
    IF "const_int" \in DOMAIN v THEN v.const_int
    ELSE IF "param" \in DOMAIN v THEN ps[v.param]
    ELSE RefValue(v.ref, i, in)

RECURSIVE python_boolean_expr(_, _, _, _)
python_boolean_expr(e, i, in, ps) ==
    CASE e.kind = "comparison" ->
           Compare(e.op, python_value(e.left, i, in, ps), python_value(e.right, i, in, ps))
      [] e.kind = "and" ->
           \A k \in DOMAIN e.args : python_boolean_expr(e.args[k], i, in, ps)
      [] e.kind = "or" ->
           \E k \in DOMAIN e.args : python_boolean_expr(e.args[k], i, in, ps)
      [] e.kind = "not" -> ~ python_boolean_expr(e.inner, i, in, ps)
      [] e.kind = "all" -> \A j \in Active(in) : python_boolean_expr(e.inner, j, in, ps)
      [] e.kind = "any" -> \E j \in Active(in) : python_boolean_expr(e.inner, j, in, ps)

(* The decision itself is rendered as an aggregate over idx_0.              *)
evaluate_reference(d, in, ps) == python_boolean_expr(d, 0, in, ps)

-----------------------------------------------------------------------------
(* circom_renderer.py: the value of the generated signals.  Every rendered  *)
(* comparator runs over all N rows, the padding included, so one row out of *)
(* the comparator's range leaves no witness.                                *)

primitive_comparator(op, lhs, rhs) ==
    CASE op = "<" -> LessThan(M32, lhs, rhs)
      [] op = ">" -> GreaterThan(M32, lhs, rhs)
      [] op = "<=" -> LessEqThan(M32, lhs, rhs)
      [] op = ">=" -> GreaterEqThan(M32, lhs, rhs)
      [] op = "==" -> IsEqual(lhs, rhs)

comparator_out(e, i, in, ps) ==
    primitive_comparator(e.op, python_value(e.left, i, in, ps) % P,
                               python_value(e.right, i, in, ps) % P)

RECURSIVE Comparisons(_)
Comparisons(e) ==
    IF e.kind = "comparison" THEN <<e>>
    ELSE FlattenSeq([k \in DOMAIN Inners(e) |-> Comparisons(Inners(e)[k])])

\* Mutant of aggregate_step: an `any` block also counts the padding rows.
aggregate_step_Padding(kind, chain, expression, is_active) ==
    LET decision_valid == IF kind = "all"
                          THEN expression * is_active + (1 - is_active) ELSE expression
    IN IF kind = "all" THEN chain * decision_valid
       ELSE chain + decision_valid - chain * decision_valid

(* One row of an aggregate block.                                           *)
aggregate_step(kind, chain, expression, is_active) ==
    LET decision_valid == IF kind = "all"
                          THEN expression * is_active + (1 - is_active)
                          ELSE expression * is_active
    IN IF kind = "all" THEN chain * decision_valid
       ELSE chain + decision_valid - chain * decision_valid

RECURSIVE circom_boolean_expr(_, _, _, _)
RECURSIVE aggregate_value(_, _, _)
circom_boolean_expr(e, i, in, ps) ==
    CASE e.kind = "comparison" -> comparator_out(e, i, in, ps)
      [] e.kind = "and" ->
           FoldLeft(LAMBDA acc, arg : acc * circom_boolean_expr(arg, i, in, ps), 1, e.args)
      [] e.kind = "or" ->
           FoldLeft(LAMBDA acc, arg :
                        LET part == circom_boolean_expr(arg, i, in, ps)
                        IN acc + part - acc * part, 0, e.args)
      [] e.kind = "not" -> 1 - circom_boolean_expr(e.inner, i, in, ps)
      [] e.kind \in {"all", "any"} -> aggregate_value(e, in, ps)

aggregate_value(e, in, ps) ==
    LET chain[n \in 0..N] ==
            IF n = 0 THEN IF e.kind = "all" THEN 1 ELSE 0
            ELSE aggregate_step(e.kind, chain[n - 1],
                                circom_boolean_expr(e.inner, n - 1, in, ps),
                                GreaterThan(M16, in.active_count, n - 1))
    IN chain[N]

(* The constraints of GeneratedLendingRisk other than the parameter hash.   *)
generated_constraints(d, in, ps) ==
    /\ in.active_count > 0 /\ in.active_count < N + 1
    /\ \A k \in DOMAIN Comparisons(d) : \A i \in Rows :
           comparator_out(Comparisons(d)[k], i, in, ps) # Unsat
    /\ zero_tail(in.balances, in.active_count) /\ zero_tail(in.limits, in.active_count)

(* The degree of a rendered expression in the circuit's signals: a          *)
(* comparator's output and an aggregate's value are signals of their own.   *)
(* circom refuses a constraint of degree above 2, and the row's constraint  *)
(* multiplies the expression by is_active.                                  *)
RECURSIVE degree(_)
degree(e) ==
    IF e.kind \in {"comparison", "all", "any"} THEN 1
    ELSE FoldLeft(LAMBDA acc, arg : acc + degree(arg), 0, Inners(e))

RECURSIVE Quadratic(_)
Quadratic(e) ==
    /\ e.kind \in {"all", "any"} => degree(e.inner) + 1 <= 2
    /\ \A k \in DOMAIN Inners(e) : Quadratic(Inners(e)[k])

-----------------------------------------------------------------------------
(* logic/explainability.py.  A rule is known by its place in the list of    *)
(* the comparisons below decision.inner; equal comparisons are known by the *)
(* first of them.                                                           *)

_resolve_value(v, i, in, ps) ==
    IF "param" \in DOMAIN v /\ v.param \notin DOMAIN ps THEN 0
    ELSE python_value(v, i, in, ps)

\* Mutant of _comparison_index: the fallback for a comparison not found is always taken.
_comparison_index_Fallback(rules, e) == 1

_comparison_index(rules, e) == SelectInSeq(rules, LAMBDA r : r = e)

FailedOf(outcomes) == FlattenSeq([k \in DOMAIN outcomes |-> outcomes[k].failed])

\* Mutant of _combine: one false part of an `or` makes it false.
_combine_OrAsAnd(kind, outcomes) ==
    LET holds == \A k \in DOMAIN outcomes : outcomes[k].value
    IN [value |-> holds,
        failed |-> IF holds /\ kind \in {"or", "any"} THEN << >> ELSE FailedOf(outcomes)]

(* `and` and `all` keep the failed rules of every part; `or` and `any` drop *)
(* them when a part holds.                                                  *)
_combine(kind, outcomes) ==
    LET holds == IF kind \in {"and", "all"}
                 THEN \A k \in DOMAIN outcomes : outcomes[k].value
                 ELSE \E k \in DOMAIN outcomes : outcomes[k].value
    IN [value |-> holds,
        failed |-> IF holds /\ kind \in {"or", "any"} THEN << >> ELSE FailedOf(outcomes)]

RECURSIVE _eval_expr(_, _, _, _, _)
_eval_expr(e, i, in, ps, rules) ==
    CASE e.kind = "comparison" ->
           LET value == Compare(e.op, _resolve_value(e.left, i, in, ps),
                                      _resolve_value(e.right, i, in, ps))
           IN [value |-> value,
               failed |-> IF value THEN << >> ELSE <<_comparison_index(rules, e)>>]
      [] e.kind \in {"and", "or"} ->
           _combine(e.kind, [k \in DOMAIN e.args |-> _eval_expr(e.args[k], i, in, ps, rules)])
      [] e.kind = "not" ->
           LET child == _eval_expr(e.inner, i, in, ps, rules)
           IN [value |-> ~ child.value, failed |-> child.failed]
      [] e.kind \in {"all", "any"} ->
           _combine(e.kind, [k \in 1..in.active_count |->
                                 _eval_expr(e.inner, k - 1, in, ps, rules)])

(* The reason and the failed rules, in the order in which they were met.    *)
_evaluate_policy_trace(d, in, ps) ==
    LET rules == Comparisons(d.inner)
        outcomes == [k \in 1..in.active_count |-> _eval_expr(d.inner, k - 1, in, ps, rules)]
        failed_indices == {k \in DOMAIN outcomes : ~ outcomes[k].value}
        decision_failed == IF d.kind = "all" THEN failed_indices # {}
                           ELSE failed_indices = DOMAIN outcomes
    IN IF ~ decision_failed THEN [reason |-> "policy_trace_passed", failed |-> << >>]
       ELSE [reason |-> "policy_rule_failed",
             failed |-> FailedOf(SelectSeq(outcomes, LAMBDA o : ~ o.value))]
=============================================================================
