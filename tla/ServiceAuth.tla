---------------------------- MODULE ServiceAuth -----------------------------
(***************************************************************************)
(* What a service does with a call before its handler runs                  *)
(* (vellum_core/auth.py, vellum_core/http_auth.py): the bearer token is     *)
(* checked against the latest cached public key, and a submission's bank    *)
(* handshake against the key version that signed it; then the replay guard  *)
(* stores the nonce in Redis and the rate limiter counts the call.  Each    *)
(* await of the code (Vault, Redis) is a step, so that the calls, the clock *)
(* and key rotations interleave between them.                               *)
(***************************************************************************)
EXTENDS VaultKeys

CONSTANTS Calls,         \* call slots
          Nonces,        \* nonces of handshakes
          NoNonce,       \* a call without a handshake
          Leeway,        \* jwt_leeway_seconds
          MaxLifetime,   \* jwt_max_ttl_seconds
          Window,        \* nonce_window_seconds
          Minute,        \* length of a rate-limit window
          PerMinute,     \* submit_rate_limit_per_minute; 0 switches the limiter off
          MaxRestarts    \* bound: restarts of the service

ASSUME AuthAssumption ==
    /\ {Leeway, MaxLifetime, PerMinute, MaxRestarts} \subseteq Nat
    /\ {Window, Minute} \subseteq Nat \ {0}
    /\ NoNonce \notin Nonces

VARIABLES
    call,        \* call[c]: the call in slot c
    nonceExp,    \* nonceExp[n]: expiry of the nonce's key in Redis, or NoKey
    hits,        \* hits[w]: the rate-limit counter of window w in Redis
    admitted,    \* history: submissions admitted in window w
    late,        \* history: windows with an INCR after their counter could expire
    restarts     \* restarts so far

authVars == <<call, nonceExp, hits, admitted, late, restarts>>

NoKey == -1

Windows == 0..(MaxClock \div Minute)

\* NoExpiry: a counter whose EXPIRE has not been sent.
NoExpiry == MaxClock + Minute + 2

NoToken == [iat |-> 0, exp |-> 0, ver |-> 0]

\* token: iat, exp and signing version; handed: when the client got it; ts,
\* nonce, signed: the handshake; ahead (history): its timestamp was in the future
\* when the client wrote it; noted: the time a step noted before it waited; win:
\* the rate-limit window noted before the counter is asked for.
NoCall == [pc |-> "idle", op |-> "read", token |-> NoToken, handed |-> 0,
           ts |-> 0, nonce |-> NoNonce, signed |-> 0, ahead |-> FALSE,
           noted |-> 0, win |-> 0]

AtService == {"sent", "keys", "bank", "bank_read", "bank_again", "nonce", "nonce_set",
              "limit", "incr", "expire"}

AuthInit ==
    /\ call = [c \in Calls |-> NoCall]
    /\ nonceExp = [n \in Nonces |-> NoKey]
    /\ hits = [w \in Windows |-> [n |-> 0, exp |-> NoExpiry]]
    /\ admitted = [w \in Windows |-> 0]
    /\ late = {}
    /\ restarts = 0

Step(c, pc) == call' = [call EXCEPT ![c].pc = pc, ![c].noted = 0]

StepNoting(c, pc) == call' = [call EXCEPT ![c].pc = pc, ![c].noted = now]

\* The call is answered: with its result, or with an APIError after the event
\* was recorded (_emit_security_event, whose own errors are swallowed).  The
\* client takes the answer and the slot is free.
Answer(c) == call' = [call EXCEPT ![c] = NoCall]

redisVars == <<nonceExp, hits, admitted, late, restarts>>

-----------------------------------------------------------------------------
(* verify_jwt_credentials *)

\* jwt.decode with the latest of the versions at hand, then the lifetime check
\* (the scopes of the clients modelled cover the routes they call).
TokenValid(t, keyver) ==
    /\ t.ver = keyver
    /\ t.exp > now - Leeway
    /\ t.iat <= now + Leeway
    /\ t.exp - t.iat <= MaxLifetime

\* The token is judged: a denial is answered, a read goes to its handler, a
\* submission goes on with its handshake.
JudgeToken(c, keyver) ==
    IF call[c].op = "read" \/ ~TokenValid(call[c].token, keyver)
    THEN Answer(c)
    ELSE call' = [call EXCEPT ![c] = [@ EXCEPT !.pc = "bank", !.token = NoToken,
                                               !.handed = 0, !.noted = 0]]

JwtFromCache(c) ==
    /\ call[c].pc = "sent"
    /\ Cached("jwt")
    /\ JudgeToken(c, cache["jwt"].ver)
    /\ UNCHANGED <<keyVars, redisVars>>

JwtMiss(c) ==
    /\ call[c].pc = "sent"
    /\ ~Cached("jwt")
    /\ StepNoting(c, "keys")
    /\ UNCHANGED <<keyVars, redisVars>>

JwtKeysRead(c) ==
    /\ call[c].pc = "keys"
    /\ StoreVersions("jwt", call[c].noted)
    /\ JudgeToken(c, latest["jwt"])
    /\ UNCHANGED <<now, latest, rotatedAt, redisVars>>

-----------------------------------------------------------------------------
(* verify_handshake *)

BankFromCache(c) ==
    /\ call[c].pc = "bank"
    /\ Cached("bank")
    /\ call[c].signed <= cache["bank"].ver
    /\ Step(c, "nonce")
    /\ UNCHANGED <<keyVars, redisVars>>

\* The cached versions miss the one that signed: dropped and read again, once.
BankRefresh(c) ==
    /\ call[c].pc = "bank"
    /\ Cached("bank")
    /\ call[c].signed > cache["bank"].ver
    /\ DropEntry("bank")
    /\ StepNoting(c, "bank_again")
    /\ UNCHANGED <<now, latest, rotatedAt, redisVars>>

BankMiss(c) ==
    /\ call[c].pc = "bank"
    /\ ~Cached("bank")
    /\ StepNoting(c, "bank_read")
    /\ UNCHANGED <<keyVars, redisVars>>

\* The versions arrive from Vault; the one that signed is among them, as no
\* version is ever taken back.
BankKeysRead(c) ==
    /\ call[c].pc \in {"bank_read", "bank_again"}
    /\ StoreVersions("bank", call[c].noted)
    /\ Step(c, "nonce")
    /\ UNCHANGED <<now, latest, rotatedAt, redisVars>>

\* Vault does not answer: the call fails with an internal error.
VaultReadFails(c) ==
    /\ call[c].pc \in {"keys", "bank_read", "bank_again"}
    /\ Answer(c)
    /\ UNCHANGED <<keyVars, redisVars>>

\* check_and_store notes the time and compares it with the timestamp, which may
\* lie on either side of it ...
Fresh(ts) == now - ts <= Window /\ ts - now <= Window

NonceStale(c) ==
    /\ call[c].pc = "nonce"
    /\ ~Fresh(call[c].ts)
    /\ Answer(c)
    /\ UNCHANGED <<keyVars, redisVars>>

NonceFresh(c) ==
    /\ call[c].pc = "nonce"
    /\ Fresh(call[c].ts)
    /\ Step(c, "nonce_set")
    /\ UNCHANGED <<keyVars, redisVars>>

\* Redis drops a key somewhere in its last tick.
Absent(n) == nonceExp[n] = NoKey \/ nonceExp[n] <= now
Present(n) == nonceExp[n] # NoKey /\ nonceExp[n] >= now

\* Mutant of NonceStored: the key expires one tick early.
NonceStored_Short(c) ==
    /\ call[c].pc = "nonce_set"
    /\ Absent(call[c].nonce)
    /\ nonceExp' = [nonceExp EXCEPT ![call[c].nonce] = now + Window - 1]
    /\ Step(c, "limit")
    /\ UNCHANGED <<keyVars, hits, admitted, late, restarts>>

\* ... and then asks Redis, which may answer later: SET NX EX succeeds.
NonceStored(c) ==
    /\ call[c].pc = "nonce_set"
    /\ Absent(call[c].nonce)
    /\ nonceExp' = [nonceExp EXCEPT ![call[c].nonce] = now + Window]
    /\ Step(c, "limit")
    /\ UNCHANGED <<keyVars, hits, admitted, late, restarts>>

NonceReplayed(c) ==
    /\ call[c].pc = "nonce_set"
    /\ Present(call[c].nonce)
    /\ Answer(c)
    /\ UNCHANGED <<keyVars, redisVars>>

-----------------------------------------------------------------------------
(* RedisSubmitRateLimiter *)

\* check_and_store notes the window of the call, unless the limiter is switched off.
NoteWindow(c) ==
    /\ call[c].pc = "limit"
    /\ IF PerMinute < 1
       THEN Answer(c)
       ELSE call' = [call EXCEPT ![c].pc = "incr", ![c].win = now \div Minute]
    /\ UNCHANGED <<keyVars, redisVars>>

Admit(c, count, w) ==
    /\ Answer(c)
    /\ admitted' = [admitted EXCEPT ![w] = IF count > PerMinute THEN @ ELSE @ + 1]

\* What INCR makes of the window's counter, which Redis may have dropped.
Increments(w) ==
    {k \in {[n |-> 1, exp |-> NoExpiry]} : hits[w].exp <= now}
        \cup {k \in {[hits[w] EXCEPT !.n = @ + 1]} : hits[w].exp >= now}

\* The counter of a window lives, at the least, one second longer than the window.
Late(w) == now > (w + 1) * Minute

\* Mutant of CountSubmit: the counter is compared before it is incremented.
CountSubmit_Stale(c) ==
    LET w == call[c].win IN
    /\ call[c].pc = "incr"
    /\ \E counter \in Increments(w) :
          /\ hits' = [hits EXCEPT ![w] = counter]
          /\ IF counter.n = 1
             THEN Step(c, "expire") /\ UNCHANGED admitted
             ELSE Admit(c, counter.n - 1, w)
    /\ late' = late \cup {v \in {w} : Late(v)}
    /\ UNCHANGED <<keyVars, nonceExp, restarts>>

\* INCR of the window noted, which may be over when Redis gets to it.  The first
\* call of a window goes on to set the counter's expiry.
CountSubmit(c) ==
    LET w == call[c].win IN
    /\ call[c].pc = "incr"
    /\ \E counter \in Increments(w) :
          /\ hits' = [hits EXCEPT ![w] = counter]
          /\ IF counter.n = 1
             THEN Step(c, "expire") /\ UNCHANGED admitted
             ELSE Admit(c, counter.n, w)
    /\ late' = late \cup {v \in {w} : Late(v)}
    /\ UNCHANGED <<keyVars, nonceExp, restarts>>

\* EXPIRE, an await of its own, then the comparison with the count of 1.
ExpireCounter(c) ==
    LET w == call[c].win IN
    /\ call[c].pc = "expire"
    /\ hits' = [hits EXCEPT ![w].exp = now + Minute + 1]
    /\ Admit(c, 1, w)
    /\ UNCHANGED <<keyVars, nonceExp, late, restarts>>

\* The service restarts: its calls get no answer and its cache is empty.
RestartService ==
    /\ restarts < MaxRestarts
    /\ restarts' = restarts + 1
    /\ cache' = [k \in Keys |-> NoEntry]
    /\ call' = [c \in Calls |->
                   IF call[c].pc \in AtService THEN NoCall ELSE call[c]]
    /\ UNCHANGED <<now, latest, rotatedAt, nonceExp, hits, admitted, late>>

AuthStep(c) ==
    \/ JwtFromCache(c) \/ JwtMiss(c) \/ JwtKeysRead(c)
    \/ BankFromCache(c) \/ BankRefresh(c) \/ BankMiss(c) \/ BankKeysRead(c)
    \/ VaultReadFails(c)
    \/ NonceStale(c) \/ NonceFresh(c) \/ NonceStored(c) \/ NonceReplayed(c)
    \/ NoteWindow(c) \/ CountSubmit(c) \/ ExpireCounter(c)

=============================================================================
