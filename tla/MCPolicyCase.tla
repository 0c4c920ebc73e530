----------------------------- MODULE MCPolicyCase -----------------------------
(* Policies of every shape of the language over two rows.                   *)
EXTENDS PolicyCase

B == [ref |-> "balances"]
L == [ref |-> "limits"]
A == [ref |-> "active_count"]
K(n) == [const_int |-> n]
Par == [param |-> "p"]

Cmp(op, l, r) == [kind |-> "comparison", op |-> op, left |-> l, right |-> r]
And(e, f) == [kind |-> "and", args |-> <<e, f>>]
Or(e, f) == [kind |-> "or", args |-> <<e, f>>]
Agg(kind, e) == [kind |-> kind, inner |-> e]

Ops == {"<", ">", "<=", ">=", "=="}

(* 7 is the largest 32-bit value, 8 and 20 are too wide, 38 is 1 in the     *)
(* field.                                                                   *)
Simple == {Cmp(op, B, L) : op \in Ops}
          \cup {Cmp(op, B, K(n)) : op \in {"<", ">="}, n \in {0, 7, 8, 20, 38}}
          \cup {Cmp("==", A, K(1)), Cmp(">", B, K(-1)), Cmp(">", [ref |-> "rates"], L)}

Base == {Cmp(">", B, L), Cmp("<=", L, K(2)), Cmp("==", A, K(1))}

Composed ==
    {Agg(k, e) : k \in {"not", "all", "any"}, e \in Base}
    \cup UNION {{And(e, f), Or(e, f), And(Agg("not", e), f), Or(e, Agg("not", f)),
                 Agg("not", And(e, f)), And(e, Agg("all", f)), Or(Agg("any", e), f),
                 Agg("any", Or(e, f)), Agg("not", Agg("all", f))} : e, f \in Base}

Dsl(d, c, ps, os) == [decision |-> d, circuit |-> c, parameters |-> ps, outputs |-> os]

Plain == [decision |-> "bool", active_count |-> "int"]

Declared(low, high, default) == [p |-> [range |-> low..high, default |-> default]]

MCPolicies ==
    {Dsl(Agg(k, e), "generated", Nothing, Plain) : k \in {"all", "any"}, e \in Simple \cup Composed}
    \cup {Dsl(Agg("all", Cmp(">", B, L)), Batch, Nothing, Plain),
          Dsl(Cmp(">", B, L), "generated", Nothing, Plain),
          Dsl(Agg("all", Cmp(">", B, L)), "generated", Nothing, Plain @@ [policy_params_hash |-> "string"]),
          Dsl(Agg("all", Cmp(">", B, L)), Batch, Nothing, Plain @@ [policy_params_hash |-> "string"]),
          Dsl(Agg("all", Cmp(">", B, L)), "generated", Nothing, [Plain EXCEPT !.decision = "int"])}
    \cup {Dsl(Agg("any", Cmp(">=", B, Par)), c, Declared(1, 4, default), Plain)
            : c \in {"generated", Batch}, default \in {{}, {3}}}
    \cup {[circuit |-> c] : c \in {"zk_kyc_v1", "proof_of_reserves_v1"}}

(* An unchanged spec and an edited one.                                     *)
MCEarlier(p) ==
    IF IsDsl(p) THEN {p, Dsl(Agg("any", Cmp("<", B, L)), "generated", Nothing, Plain)}
    ELSE {p}

MCValues == {-1, 0, 2, 3, 8, 16}
MCRowValues == {0, 3, 7}
MCLists == UNION {[1..n -> MCRowValues] : n \in 0..2} \cup {<<0, 0, 0>>, <<3, 8>>}
MCSent(file, inline) == [found |-> TRUE, file |-> file, inline |-> inline]
MCGiven(p) ==
    {MCSent(Nothing, Nothing)}
    \cup IF IsDsl(p) /\ p.parameters # Nothing
         THEN {MCSent([p |-> 3], Nothing), MCSent(Nothing, [p |-> 2]),
               MCSent([p |-> 3], [p |-> 2]), MCSent([p |-> 5], Nothing),
               MCSent([q |-> 1], Nothing),
               [found |-> FALSE, file |-> Nothing, inline |-> Nothing]}
         ELSE {}
=============================================================================
