----------------------------- MODULE MCPolicyRun -----------------------------
(* One piece of evidence passes both versions of the policy, the others one *)
(* version each.  Everything changes under a run that is delivered once;    *)
(* deliveries overlap and are repeated while artifacts are set up.          *)
EXTENDS PolicyRun

MCEvidence == 1..3
MCPasses == <<{1, 2}, {1, 3}>>

MCLoad(w, e, a, m, v, s, r) ==
    [way |-> w, evidence |-> e, attempts |-> a, max |-> m, versions |-> v, setups |-> s,
     restarts |-> r]

MCLoads == {MCLoad("http", MCEvidence, {1}, 1, 2, 2, 3), MCLoad("http", {1}, {1, 2}, 2, 1, 2, 1),
            MCLoad("http", MCEvidence, {1, 2}, 2, 1, 1, 1),
            MCLoad("http", MCEvidence, {1, 2}, 1, 1, 1, 1),
            MCLoad("sdk", MCEvidence, {1}, 1, 2, 2, 1), MCLoad("verify", {}, {1, 2}, 1, 1, 2, 1)}
=============================================================================
