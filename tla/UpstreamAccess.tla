--------------------------- MODULE UpstreamAccess ---------------------------
(***************************************************************************)
(* The clients of the prover and verifier services and their calls.  The    *)
(* dashboard service (dashboard_service.py) shares one cached token between *)
(* its requests and signs a handshake for every submission it forwards.     *)
(* The stress tester (stress_tester.py) signs one token when it starts and  *)
(* uses it to its end.  Something between a client and the service may send *)
(* a submission again, unchanged.                                           *)
(***************************************************************************)
EXTENDS ServiceAuth

CONSTANTS NoCaller,      \* the lock of the token cache is free
          Ttl,           \* _UPSTREAM_JWT_TTL_SECONDS, and the stress tester's 600
          Skew,          \* refresh_skew_seconds
          VaultTimeout,  \* timeout of a Vault request
          Loads,         \* workloads: who calls, what, which key is rotated, and how
                         \* far the client's clock is ahead of the services'
          MaxCalls,      \* bound: calls of clients
          MaxResends     \* bound: submissions sent again

ASSUME AccessAssumption ==
    /\ {Ttl, Skew, VaultTimeout, MaxCalls, MaxResends} \subseteq Nat
    /\ Skew + VaultTimeout <= Ttl
    /\ \A l \in Loads : l.offset \in Int
    /\ NoCaller \notin Calls

\* Both clients ask for a lifetime that the services accept: 600 seconds, of at
\* most JWT_MAX_TTL_SECONDS = 900.
ASSUME LifetimeAssumption == Ttl <= MaxLifetime

VARIABLES
    token,      \* _token and _expires_at_epoch of _DashboardJWTCache
    lock,       \* the call that holds _lock, or NoCaller
    load,       \* the workload of this behaviour
    begun,      \* calls begun so far
    resent      \* submissions sent again so far

clientVars == <<token, lock, load, begun, resent>>
accessVars == <<keyVars, authVars, clientVars>>

AccessInit ==
    /\ KeysInit
    /\ AuthInit
    /\ token = NoToken
    /\ lock = NoCaller
    /\ load \in Loads
    /\ begun = 0
    /\ resent = 0

-----------------------------------------------------------------------------
\* The call has its token; a submission still needs its handshake.
WithToken(c, op, t, handed) ==
    call' = [call EXCEPT ![c] =
        [NoCall EXCEPT !.pc = IF op = "submit" THEN "handshake" ELSE "sent", !.op = op,
                       !.token = t, !.handed = handed]]

\* get_token: the cached token has more than refresh_skew_seconds left.
Usable == token # NoToken /\ now < token.exp - Skew

Begin(c, client, op) ==
    /\ call[c].pc = "idle"
    /\ client \in load.clients /\ op = load.op
    /\ begun < MaxCalls
    /\ begun' = begun + 1

\* A request of the dashboard with a cached token that is still good.
DashboardCall(c, op) ==
    /\ Begin(c, "dashboard", op)
    /\ Usable
    /\ WithToken(c, op, token, now)
    /\ UNCHANGED <<keyVars, redisVars, token, lock, load, resent>>

\* Without one the request waits for the lock of the token cache.
DashboardWaits(c, op) ==
    /\ Begin(c, "dashboard", op)
    /\ ~Usable
    /\ call' = [call EXCEPT ![c] = [NoCall EXCEPT !.pc = "lock", !.op = op]]
    /\ UNCHANGED <<keyVars, redisVars, token, lock, load, resent>>

\* Mutant of LockTaken: the token is not looked at again under the lock.
LockTaken_NoSecondLook(c) ==
    /\ call[c].pc = "lock"
    /\ lock = NoCaller
    /\ lock' = c /\ StepNoting(c, "sign")
    /\ UNCHANGED <<keyVars, redisVars, token, load, begun, resent>>

\* The lock is free: another request may have refreshed the token meanwhile.
LockTaken(c) ==
    /\ call[c].pc = "lock"
    /\ lock = NoCaller
    /\ IF Usable
       THEN WithToken(c, call[c].op, token, now) /\ UNCHANGED lock
       ELSE lock' = c /\ StepNoting(c, "sign")
    /\ UNCHANGED <<keyVars, redisVars, token, load, begun, resent>>

\* VaultJWTSigner.sign: the claims have the time noted before the request, the
\* signature the latest version when Vault signs.
Signed(noted) == [iat |-> noted, exp |-> noted + Ttl, ver |-> latest["jwt"]]

TokenSigned(c) ==
    LET t == Signed(call[c].noted) IN
    /\ call[c].pc = "sign"
    /\ now - call[c].noted <= VaultTimeout
    /\ token' = t
    /\ lock' = NoCaller
    /\ WithToken(c, call[c].op, t, now)
    /\ UNCHANGED <<keyVars, redisVars, load, begun, resent>>

\* Vault fails or times out: the lock is released and the request answered 500.
SignFails(c) ==
    /\ call[c].pc = "sign"
    /\ lock' = NoCaller
    /\ Answer(c)
    /\ UNCHANGED <<keyVars, redisVars, token, load, begun, resent>>

-----------------------------------------------------------------------------
\* main_async of the stress tester signed its token before the first phase,
\* at time 0; submit_and_wait submits with it and polls with it.
StressToken == [iat |-> 0, exp |-> Ttl, ver |-> 1]

StressCall(c, op) ==
    /\ Begin(c, "stress", op)
    /\ WithToken(c, op, StressToken, 0)
    /\ UNCHANGED <<keyVars, redisVars, token, lock, load, resent>>

-----------------------------------------------------------------------------
FreshNonces == {n \in Nonces : nonceExp[n] = NoKey /\ \A c \in Calls : call[c].nonce # n}

\* _handshake_headers / build_handshake_headers: time (of the client's clock) and
\* nonce, then the signature of the canonical request, then the request is sent.
HandshakeNoted(c) ==
    /\ call[c].pc = "handshake"
    /\ \E n \in FreshNonces :
          call' = [call EXCEPT ![c] =
                      [@ EXCEPT !.pc = "hs_sign", !.noted = now, !.nonce = n,
                                !.ts = now + load.offset, !.ahead = load.offset > 0]]
    /\ UNCHANGED <<keyVars, redisVars, clientVars>>

HandshakeSigned(c) ==
    /\ call[c].pc = "hs_sign"
    /\ now - call[c].noted <= VaultTimeout
    /\ call' = [call EXCEPT ![c] = [@ EXCEPT !.pc = "sent", !.noted = 0,
                                              !.signed = latest["bank"]]]
    /\ UNCHANGED <<keyVars, redisVars, clientVars>>

HandshakeFails(c) ==
    /\ call[c].pc = "hs_sign"
    /\ Answer(c)
    /\ UNCHANGED <<keyVars, redisVars, clientVars>>

\* The signed submission of slot c is on its way in two copies, either of which
\* may be handled late.
Resend(c, d) ==
    /\ resent < MaxResends
    /\ call[c].op = "submit" /\ call[c].pc = "sent"
    /\ call[d].pc = "idle"
    /\ resent' = resent + 1
    /\ call' = [call EXCEPT ![d] = call[c]]
    /\ UNCHANGED <<keyVars, redisVars, token, lock, load, begun>>

-----------------------------------------------------------------------------
CallStep(c) ==
    \/ LockTaken(c) \/ TokenSigned(c) \/ SignFails(c)
    \/ HandshakeNoted(c) \/ HandshakeSigned(c) \/ HandshakeFails(c)
    \/ AuthStep(c) /\ UNCHANGED clientVars

Environment ==
    \/ Tick /\ UNCHANGED <<authVars, clientVars>>
    \/ Rotate(load.rotates) /\ UNCHANGED <<authVars, clientVars>>
    \/ RestartService /\ UNCHANGED clientVars
    \/ \E c, d \in Calls : Resend(c, d)

AccessNext ==
    \/ \E c \in Calls : CallStep(c)
    \/ \E c \in Calls, op \in {"read", "submit"} :
          DashboardCall(c, op) \/ DashboardWaits(c, op) \/ StressCall(c, op)
    \/ Environment

AccessSpec ==
    /\ AccessInit
    /\ [][AccessNext]_accessVars

-----------------------------------------------------------------------------
\* A token that a client signed in good order is refused only for a cause the
\* operator can see: the signing key was rotated within the lifetime of the
\* token or of the service's key cache, or the request came more than the
\* refresh skew and the leeway after the client had taken the token
\* (verify_jwt_credentials with VaultPublicKeyCache and _DashboardJWTCache).
DenialHasCause ==
    \A c \in Calls :
        LET k == call[c]
            refused == \/ k.pc = "sent" /\ Cached("jwt") /\ ~TokenValid(k.token, cache["jwt"].ver)
                       \/ k.pc = "keys" /\ ~TokenValid(k.token, latest["jwt"])
        IN
        refused => \/ rotatedAt["jwt"] >= now - KeyTtl
                   \/ rotatedAt["jwt"] >= k.handed - (Ttl - Skew)
                   \/ now - k.handed >= Skew + Leeway

\* Of two copies of one submission at most one is accepted, also when they are
\* handled at the same time or the service restarts between them: the nonce
\* outlives the time the timestamp is accepted (check_and_store).  There are two
\* exceptions.  The client's clock was ahead, so that the timestamp is accepted
\* longer than the nonce is kept; or the SET of the second copy came to Redis
\* when the timestamp, checked before, had run out.
SubmissionAcceptedOnce ==
    [][\A n \in Nonces :
          nonceExp'[n] # nonceExp[n] /\ nonceExp[n] # NoKey =>
             \A c \in Calls :
                call[c].nonce = n => call[c].ahead \/ now >= call[c].ts + Window]_accessVars

\* However the calls interleave with each other, with the separate EXPIRE and
\* with a restart, no rate-limit window admits more than its limit, unless an
\* INCR for it came to Redis more than a second after the window was over
\* (check_and_store, which names the counter by a time noted before the await).
SubmitsPerWindow ==
    PerMinute > 0 => \A w \in Windows \ late : admitted[w] <= PerMinute

\* The dashboard asks Vault for a token once per lifetime: of the requests that
\* find no token only the first signs one, the others wait and take it.
RefreshesPaced ==
    [][lock = NoCaller /\ lock' # NoCaller =>
          token = NoToken \/ now - token.iat >= Ttl - Skew]_accessVars

=============================================================================
