---------------------------- MODULE AccessProofs ----------------------------
(***************************************************************************)
(* Proofs about authenticated calls, for any number of calls, nonces and    *)
(* windows, any lifetimes and limits, and any bounds on the clock,          *)
(* rotations, restarts, calls and copies.                                   *)
(*                                                                         *)
(* The four properties rest on separate parts of one invariant: what a      *)
(* token, a cached key, a nonce and a rate-limit counter say about the      *)
(* moment at which they were made, which later steps can only let pass.     *)
(***************************************************************************)
EXTENDS UpstreamAccess, TLAPS

Tokens == [iat : Nat, exp : Nat, ver : Nat]

Entries == [exp : Nat, ver : Nat]

\* The points at which a call has a token, and at which it has a handshake.
WithCredential == {"handshake", "hs_sign", "sent", "keys"}
WithHandshake == {"hs_sign", "bank", "bank_read", "bank_again", "nonce", "nonce_set",
                  "limit", "incr", "expire"}

CallRecords ==
    [pc     : {"idle", "lock", "sign"} \cup WithCredential \cup WithHandshake,
     op     : {"read", "submit"},
     token  : Tokens,
     handed : Nat,
     ts     : Int,
     nonce  : Nonces \cup {NoNonce},
     signed : Nat,
     ahead  : BOOLEAN,
     noted  : Nat,
     win    : Nat]

\* The clock and the keys, the Redis keys, and the clients.
KeysTyped ==
    /\ now \in 0..MaxClock
    /\ latest \in [Keys -> Nat]
    /\ rotatedAt \in [Keys -> Int]
    /\ cache \in [Keys -> Entries]

AuthTyped ==
    /\ call \in [Calls -> CallRecords]
    /\ nonceExp \in [Nonces -> Int]
    /\ hits \in [Windows -> [n : Nat, exp : Nat]]
    /\ admitted \in [Windows -> Nat]
    /\ restarts \in Nat

AccessTyped == KeysTyped /\ AuthTyped /\ token \in Tokens

\* A token has its full lifetime, and its key version is the latest unless the
\* key was rotated after the token's time of issue.
Sound(t) ==
    /\ t.exp = t.iat + Ttl
    /\ t.iat <= now
    /\ t.ver = latest["jwt"] \/ rotatedAt["jwt"] >= t.iat

\* The times a call carries are in the past, but for a timestamp that was ahead,
\* and when its client took the token, more than the skew of the token's life
\* was left.
CallSound(k) ==
    /\ k.ahead \/ k.ts <= now
    /\ k.noted <= now /\ k.handed <= now
    /\ k.pc \in WithCredential => Sound(k.token) /\ k.token.exp >= k.handed + Skew

CallsSound == \A c \in Calls : CallSound(call[c])

TokenSound == token # NoToken => Sound(token)

\* A cached key version is the latest, unless the key was rotated after the
\* service had asked for it.
CacheSound ==
    cache["jwt"] # NoEntry =>
        /\ cache["jwt"].exp <= now + KeyTtl
        /\ cache["jwt"].ver = latest["jwt"] \/ rotatedAt["jwt"] >= cache["jwt"].exp - KeyTtl

\* A key that is not in its first version has been rotated.
NeverOrRotated == latest["jwt"] = 1 \/ rotatedAt["jwt"] >= 0

\* The call carries a handshake.
Hand(k) == k.pc \in WithHandshake \/ (k.pc \in {"sent", "keys"} /\ k.op = "submit")

\* Calls with one nonce are copies of one submission, and a stored nonce
\* outlives the time its timestamp is accepted, unless that was ahead.
NonceSound(k) ==
    /\ Hand(k) => k.nonce \in Nonces
    /\ k.nonce \in Nonces /\ nonceExp[k.nonce] # NoKey /\ ~k.ahead => nonceExp[k.nonce] >= k.ts + Window

NoncesSound ==
    /\ \A c \in Calls : NonceSound(call[c])
    /\ \A c, d \in Calls :
        call[c].nonce = call[d].nonce /\ call[c].nonce # NoNonce =>
            call[c].ts = call[d].ts /\ call[c].ahead = call[d].ahead

\* A call counted as the first of window w has not been admitted yet.
Pending(w) == \E c \in Calls : call[c].pc = "expire" /\ call[c].win = w

\* A window's counter outlives the window by more than a second, and counts at
\* least the submissions that were admitted or are about to be.
Outlives(w) == hits[w].exp > (w + 1) * Minute

Counts(w) ==
    /\ admitted[w] <= hits[w].n /\ admitted[w] <= PerMinute
    /\ Pending(w) => admitted[w] < hits[w].n /\ admitted[w] < PerMinute

\* So it is until the counter of a window is asked for late.
CountersSound == \A w \in Windows \ late : Outlives(w) /\ Counts(w)

\* The window that a call has noted is one that has begun, and no two calls are
\* to set the expiry of one counter.
FirstsSound ==
    /\ \A c \in Calls : call[c].pc \in {"incr", "expire"} =>
        call[c].win \in Windows /\ call[c].win * Minute <= now
    /\ \A c, d \in Calls :
        call[c].pc = "expire" /\ call[d].pc = "expire" /\ call[c].win = call[d].win /\ call[c].win \notin late
            => c = d

TokenInv == CallsSound /\ TokenSound /\ CacheSound /\ NeverOrRotated
RateInv == PerMinute > 0 => CountersSound /\ FirstsSound

AccessInv == load \in Loads /\ AccessTyped /\ TokenInv /\ NoncesSound /\ RateInv

-----------------------------------------------------------------------------
\* What most steps do to the record o of a call: the new record k has a token
\* or a handshake only if o had it, and then the same one.
Kept(o, k) ==
    /\ k \in CallRecords
    /\ k.pc # "expire" /\ (k.pc = "incr" => k.win = now \div Minute)
    /\ k.noted \in {0, now, o.noted} /\ k.handed \in {0, o.handed}
    /\ k.ts = 0 \/ (k.ts = o.ts /\ k.ahead = o.ahead)
    /\ k.pc \in WithCredential => o.pc \in WithCredential /\ k.token = o.token /\ k.handed = o.handed
    /\ \/ k.nonce = NoNonce /\ ~Hand(k)
       \/ k.nonce = o.nonce /\ k.ts = o.ts /\ k.ahead = o.ahead /\ (Hand(k) => Hand(o))

Still == now' = now /\ latest' = latest /\ rotatedAt' = rotatedAt

RedisKept ==
    nonceExp' = nonceExp /\ hits' = hits /\ admitted' = admitted /\ late' = late /\ restarts' = restarts

\* The steps with such an effect, and no other but on the bank key's entry of
\* the cache.
Ordinary(c) ==
    /\ \E k : call' = [call EXCEPT ![c] = k] /\ Kept(call[c], k)
    /\ Still /\ RedisKept /\ token' = token
    /\ cache' \in [Keys -> Entries] /\ cache'["jwt"] = cache["jwt"]

\* The record of a call that has its token t, taken at time h.
HandedRecord(op, t, h) ==
    [NoCall EXCEPT !.pc = IF op = "submit" THEN "handshake" ELSE "sent", !.op = op, !.token = t, !.handed = h]

\* A client has its token t, that it took at time h.
Handed(c) ==
    \E op \in {"read", "submit"}, t \in Tokens, h \in 0..now :
        /\ WithToken(c, op, t, h)
        /\ token' = token \/ token' = t
        /\ Still /\ RedisKept /\ cache' = cache
        /\ TokenInv => Sound(t) /\ t.exp >= h + Skew

\* The record of a call that has its time and its nonce x.
NotedRecord(o, x) ==
    [o EXCEPT !.pc = "hs_sign", !.noted = now, !.nonce = x, !.ts = now + load.offset, !.ahead = load.offset > 0]

\* Every step is an ordinary one, or one of these.
StepKind ==
    \/ \E c \in Calls : Ordinary(c) \/ Handed(c)
    \/ \E c \in Calls : JwtKeysRead(c) /\ token' = token
    \/ \E c \in Calls : HandshakeNoted(c) \/ (NonceStored(c) /\ token' = token)
    \/ \E c \in Calls : (CountSubmit(c) \/ ExpireCounter(c)) /\ token' = token
    \/ \E c, d \in Calls : Resend(c, d)
    \/ Tick /\ UNCHANGED <<authVars, clientVars>>
    \/ Rotate(load.rotates) /\ UNCHANGED <<authVars, clientVars>>
    \/ RestartService /\ UNCHANGED clientVars
    \/ UNCHANGED accessVars

-----------------------------------------------------------------------------
\* Division by the length of a rate-limit window.
LEMMA DivFacts ==
    ASSUME NEW n \in Nat, NEW m \in Nat \ {0}
    PROVE  /\ n \div m \in Nat
           /\ m * (n \div m) <= n
           /\ n < m * (n \div m) + m
OBVIOUS

\* Windows follow one another in time.
LEMMA DivMono ==
    ASSUME NEW s \in Nat, NEW t \in Nat, NEW m \in Nat \ {0}, s <= t
    PROVE  s \div m <= t \div m
<1> DEFINE a == s \div m
           b == t \div m
<1>1. a \in Nat /\ b \in Nat /\ m * a <= s /\ t < m * b + m
  BY DivFacts
<1> SUFFICES ASSUME a > b PROVE FALSE
  BY <1>1
<1> HIDE DEF a, b
<1>2. a >= b + 1
  BY <1>1
<1>3. m * a >= m * (b + 1)
  BY <1>1, <1>2
<1>4. m * (b + 1) = m * b + m
  BY <1>1
<1>5. m * a \in Nat /\ m * b \in Nat
  BY <1>1
<1> QED BY <1>1, <1>3, <1>4, <1>5

\* The clock is always in one of the modelled windows.
LEMMA WindowNow == AccessTyped => now \div Minute \in Windows
<1> SUFFICES ASSUME AccessTyped PROVE now \div Minute \in Windows
  OBVIOUS
<1>1. now \in Nat /\ MaxClock \in Nat /\ Minute \in Nat \ {0} /\ now <= MaxClock
  BY KeyAssumption, AuthAssumption DEF AccessTyped, KeysTyped
<1>2. now \div Minute \in Nat /\ MaxClock \div Minute \in Nat /\ now \div Minute <= MaxClock \div Minute
  BY <1>1, DivFacts, DivMono
<1> QED BY <1>2 DEF Windows

-----------------------------------------------------------------------------
\* An empty slot has the type of a call.
LEMMA NoCallTyped == NoCall \in CallRecords
BY DEF NoCall, NoToken, CallRecords, Tokens, WithCredential, WithHandshake

\* An answered call leaves nothing behind.
LEMMA AnsweredKept == \A o : Kept(o, NoCall)
<1>1. NoCall \in CallRecords
  BY NoCallTyped
<1>2. /\ NoCall.pc = "idle" /\ NoCall.noted = 0 /\ NoCall.handed = 0 /\ NoCall.ts = 0
      /\ NoCall.nonce = NoNonce
  BY DEF NoCall
<1> QED BY <1>1, <1>2, Zenon DEF Kept, Hand, WithCredential, WithHandshake

\* A call goes on to another step, and may note the time.
LEMMA SteppedKept ==
    ASSUME now \in Nat, NEW o \in CallRecords, NEW x \in {0, now}, NEW p, p \notin {"incr", "expire"},
           p \in {"idle", "lock", "sign"} \cup WithCredential \cup WithHandshake,
           p \in WithCredential => o.pc \in WithCredential,
           Hand([o EXCEPT !.pc = p]) => Hand(o)
    PROVE  Kept(o, [o EXCEPT !.pc = p, !.noted = x])
<1>1. PICK k : k = [o EXCEPT !.pc = p, !.noted = x]
  OBVIOUS
<1>2. k \in CallRecords
  <2>1. x \in Nat
    OBVIOUS
  <2> QED BY <1>1, <2>1, Zenon DEF CallRecords
<1>3. /\ k.pc = p /\ k.noted = x /\ k.op = o.op /\ k.token = o.token /\ k.handed = o.handed
      /\ k.ts = o.ts /\ k.ahead = o.ahead /\ k.nonce = o.nonce
  BY <1>1 DEF CallRecords
<1>4. [o EXCEPT !.pc = p].pc = p /\ [o EXCEPT !.pc = p].op = o.op
  BY DEF CallRecords
<1>5. Hand(k) => Hand(o)
  BY <1>3, <1>4, Zenon DEF Hand
<1> QED BY <1>1, <1>2, <1>3, <1>5, Zenon DEF Kept

\* A submission whose token was accepted drops it and keeps its handshake.
LEMMA JudgedKept ==
    ASSUME NEW o \in CallRecords, o.pc \in {"sent", "keys"}, o.op = "submit"
    PROVE  Kept(o, [o EXCEPT !.pc = "bank", !.token = NoToken, !.handed = 0, !.noted = 0])
<1>1. PICK k : k = [o EXCEPT !.pc = "bank", !.token = NoToken, !.handed = 0, !.noted = 0]
  OBVIOUS
<1>2. NoToken \in Tokens
  BY DEF NoToken, Tokens
<1>3. k \in CallRecords
  BY <1>1, <1>2, Zenon DEF CallRecords, WithHandshake
<1>4. k.pc = "bank" /\ k.noted = 0 /\ k.handed = 0 /\ k.ts = o.ts /\ k.ahead = o.ahead /\ k.nonce = o.nonce
  BY <1>1 DEF CallRecords
<1>5. Hand(o)
  BY Zenon DEF Hand
<1> QED BY <1>1, <1>3, <1>4, <1>5, Zenon DEF Kept, WithCredential

\* A submission goes out with the signature of its handshake.
LEMMA SignedKept ==
    ASSUME NEW o \in CallRecords, o.pc = "hs_sign", NEW v \in Nat
    PROVE  Kept(o, [o EXCEPT !.pc = "sent", !.noted = 0, !.signed = v])
<1>1. PICK k : k = [o EXCEPT !.pc = "sent", !.noted = 0, !.signed = v]
  OBVIOUS
<1>2. k \in CallRecords
  BY <1>1, Zenon DEF CallRecords, WithCredential
<1>3. /\ k.pc = "sent" /\ k.noted = 0 /\ k.token = o.token /\ k.handed = o.handed
      /\ k.ts = o.ts /\ k.ahead = o.ahead /\ k.nonce = o.nonce
  BY <1>1 DEF CallRecords
<1>4. Hand(o) /\ o.pc \in WithCredential
  BY Zenon DEF Hand, WithHandshake, WithCredential
<1> QED BY <1>1, <1>2, <1>3, <1>4, Zenon DEF Kept

\* A submission notes the window it is counted in.
LEMMA NotedWindowKept ==
    ASSUME NEW o \in CallRecords, o.pc = "limit", now \div Minute \in Nat
    PROVE  Kept(o, [o EXCEPT !.pc = "incr", !.win = now \div Minute])
<1>0. PICK w \in Nat : w = now \div Minute
  OBVIOUS
<1>1. PICK k : k = [o EXCEPT !.pc = "incr", !.win = w]
  OBVIOUS
<1>2. k \in CallRecords
  BY <1>1, Zenon DEF CallRecords, WithHandshake
<1>3. /\ k.pc = "incr" /\ k.noted = o.noted /\ k.handed = o.handed /\ k.win = w
      /\ k.ts = o.ts /\ k.ahead = o.ahead /\ k.nonce = o.nonce
  BY <1>1 DEF CallRecords
<1>4. Hand(o) /\ k.pc \notin WithCredential
  BY <1>3, Zenon DEF Hand, WithHandshake, WithCredential
<1> QED BY <1>0, <1>1, <1>2, <1>3, <1>4, Zenon DEF Kept

\* A request of the dashboard begins without token or handshake.
LEMMA WaitingKept ==
    ASSUME NEW o, NEW op \in {"read", "submit"}
    PROVE  Kept(o, [NoCall EXCEPT !.pc = "lock", !.op = op])
<1>1. PICK k : k = [NoCall EXCEPT !.pc = "lock", !.op = op]
  OBVIOUS
<1>2. k \in CallRecords
  BY <1>1, NoCallTyped, Zenon DEF CallRecords
<1>3. k.pc = "lock" /\ k.noted = 0 /\ k.handed = 0 /\ k.ts = 0 /\ k.nonce = NoNonce
  BY <1>1 DEF NoCall
<1> QED BY <1>1, <1>2, <1>3, Zenon DEF Kept, Hand, WithCredential, WithHandshake

\* The steps that answer a call.
LEMMA AnswerOrdinary ==
    ASSUME AccessTyped, NEW c \in Calls, Answer(c), UNCHANGED <<keyVars, redisVars>>, token' = token
    PROVE  Ordinary(c)
<1>1. call' = [call EXCEPT ![c] = NoCall] /\ Kept(call[c], NoCall)
  BY AnsweredKept, Zenon DEF Answer
<1>2. Still /\ RedisKept /\ cache' = cache
  BY Zenon DEF Still, RedisKept, keyVars, redisVars
<1>3. cache' \in [Keys -> Entries]
  BY <1>2, Zenon DEF AccessTyped, KeysTyped
<1> QED BY <1>1, <1>2, <1>3, Zenon DEF Ordinary

\* The steps that move a call on.
LEMMA MoveOrdinary ==
    ASSUME AccessTyped, NEW c \in Calls, NEW p, Step(c, p) \/ StepNoting(c, p),
           Still, RedisKept, token' = token, cache' \in [Keys -> Entries], cache'["jwt"] = cache["jwt"],
           \/ call[c].pc \in {"lock", "sign"} /\ p = "sign"
           \/ call[c].pc = "sent" /\ p = "keys"
           \/ call[c].pc \in {"bank", "bank_read", "bank_again"} /\ p \in {"bank_read", "bank_again", "nonce"}
           \/ call[c].pc = "nonce" /\ p = "nonce_set"
    PROVE  Ordinary(c)
<1>1. call[c] \in CallRecords /\ now \in Nat
  BY KeyAssumption DEF AccessTyped, AuthTyped, KeysTyped
<1>2. PICK x \in {0, now} : call' = [call EXCEPT ![c] = [call[c] EXCEPT !.pc = p, !.noted = x]]
  BY Zenon DEF Step, StepNoting
<1>3. /\ p \notin {"incr", "expire"} /\ p \in {"idle", "lock", "sign"} \cup WithCredential \cup WithHandshake
      /\ p \in WithCredential => call[c].pc \in WithCredential
  BY Zenon DEF WithCredential, WithHandshake
<1>4. Hand([call[c] EXCEPT !.pc = p]) => Hand(call[c])
  <2>1. [call[c] EXCEPT !.pc = p].pc = p /\ [call[c] EXCEPT !.pc = p].op = call[c].op
    BY <1>1 DEF CallRecords
  <2> QED BY <2>1, Zenon DEF Hand, WithHandshake
<1>5. Kept(call[c], [call[c] EXCEPT !.pc = p, !.noted = x])
  BY <1>1, <1>3, <1>4, SteppedKept, Zenon
<1> QED BY <1>2, <1>5, Zenon DEF Ordinary

\* A token is judged: the call is answered, or goes on with its handshake.
LEMMA JudgeKept ==
    ASSUME AccessTyped, NEW c \in Calls, NEW v, JudgeToken(c, v), call[c].pc \in {"sent", "keys"}
    PROVE  \E k : call' = [call EXCEPT ![c] = k] /\ Kept(call[c], k)
<1>1. call[c] \in CallRecords /\ call[c].op \in {"read", "submit"}
  BY DEF AccessTyped, AuthTyped, CallRecords
<1>2. CASE Answer(c)
  BY <1>2, AnsweredKept, Zenon DEF Answer
<1>3. CASE ~Answer(c)
  <2>1. /\ call[c].op = "submit"
        /\ call' = [call EXCEPT ![c] = [call[c] EXCEPT !.pc = "bank", !.token = NoToken, !.handed = 0, !.noted = 0]]
    BY <1>1, <1>3, Zenon DEF JudgeToken
  <2> QED BY <1>1, <2>1, JudgedKept, Zenon
<1> QED BY <1>2, <1>3, Zenon

\* The steps before a request is sent.
LEMMA ClientKind ==
    ASSUME AccessTyped, NEW c \in Calls, NEW op \in {"read", "submit"},
           \/ LockTaken(c) \/ TokenSigned(c) \/ SignFails(c)
           \/ HandshakeSigned(c) \/ HandshakeFails(c)
           \/ DashboardCall(c, op) \/ DashboardWaits(c, op) \/ StressCall(c, op)
    PROVE  Ordinary(c) \/ Handed(c)
<1> USE KeyAssumption, AccessAssumption
<1>1. /\ call[c] \in CallRecords /\ call[c].op \in {"read", "submit"} /\ token \in Tokens
      /\ now \in Nat /\ now \in 0..now /\ 0 \in 0..now /\ cache \in [Keys -> Entries]
      /\ latest["jwt"] \in Nat /\ latest["bank"] \in Nat
  BY DEF AccessTyped, AuthTyped, KeysTyped, CallRecords, Keys
<1>2. ASSUME Usable PROVE TokenInv => Sound(token) /\ token.exp >= now + Skew
  <2>1. token # NoToken /\ now < token.exp - Skew /\ token.exp \in Nat
    BY <1>1, <1>2 DEF Usable, Tokens
  <2>2. token.exp >= now + Skew
    BY <1>1, <2>1
  <2> QED BY <2>1, <2>2, Zenon DEF TokenInv, TokenSound
<1>3. CASE LockTaken(c)
  <2>1. Still /\ RedisKept /\ cache' = cache /\ token' = token /\ call[c].pc = "lock"
    BY <1>3, Zenon DEF LockTaken, Still, RedisKept, keyVars, redisVars
  <2>2. CASE Usable
    <3>1. WithToken(c, call[c].op, token, now)
      BY <1>3, <2>2, Zenon DEF LockTaken
    <3> QED BY <1>1, <1>2, <2>1, <2>2, <3>1, Zenon DEF Handed
  <2>3. CASE ~Usable
    <3>1. StepNoting(c, "sign")
      BY <1>3, <2>3, Zenon DEF LockTaken
    <3> QED BY <1>1, <2>1, <3>1, MoveOrdinary, Zenon
  <2> QED BY <2>2, <2>3, Zenon
<1>4. CASE TokenSigned(c)
  <2>1. PICK t : t = Signed(call[c].noted)
    OBVIOUS
  <2>2. /\ Still /\ RedisKept /\ cache' = cache /\ token' = t /\ WithToken(c, call[c].op, t, now)
        /\ now - call[c].noted <= VaultTimeout
    BY <1>4, <2>1, Zenon DEF TokenSigned, Still, RedisKept, keyVars, redisVars
  <2>3. t = [iat |-> call[c].noted, exp |-> call[c].noted + Ttl, ver |-> latest["jwt"]] /\ call[c].noted \in Nat
    BY <1>1, <2>1 DEF Signed, CallRecords
  <2>4. t \in Tokens
    BY <1>1, <2>3 DEF Tokens
  <2>5. TokenInv => call[c].noted <= now
    BY Zenon DEF TokenInv, CallsSound, CallSound
  <2>6. t.iat = call[c].noted /\ t.exp = call[c].noted + Ttl /\ t.ver = latest["jwt"]
    BY <2>3
  <2>7. t.exp >= now + Skew
    BY <1>1, <2>2, <2>3, <2>6
  <2>8. TokenInv => Sound(t)
    BY <2>5, <2>6, Zenon DEF Sound
  <2> QED BY <1>1, <2>2, <2>4, <2>7, <2>8, Zenon DEF Handed
<1>5. CASE SignFails(c)
  <2>1. Answer(c) /\ UNCHANGED <<keyVars, redisVars>> /\ token' = token
    BY <1>5, Zenon DEF SignFails
  <2> QED BY <2>1, AnswerOrdinary, Zenon
<1>6. CASE HandshakeSigned(c)
  <2>1. /\ call' = [call EXCEPT ![c] = [call[c] EXCEPT !.pc = "sent", !.noted = 0, !.signed = latest["bank"]]]
        /\ call[c].pc = "hs_sign" /\ Still /\ RedisKept /\ cache' = cache /\ token' = token
    BY <1>6, Zenon DEF HandshakeSigned, Still, RedisKept, keyVars, redisVars, clientVars
  <2>2. Kept(call[c], [call[c] EXCEPT !.pc = "sent", !.noted = 0, !.signed = latest["bank"]])
    BY <1>1, <2>1, SignedKept, Zenon
  <2> QED BY <1>1, <2>1, <2>2, Zenon DEF Ordinary
<1>7. CASE HandshakeFails(c)
  <2>1. Answer(c) /\ UNCHANGED <<keyVars, redisVars>> /\ token' = token
    BY <1>7, Zenon DEF HandshakeFails, clientVars
  <2> QED BY <2>1, AnswerOrdinary, Zenon
<1>8. CASE DashboardCall(c, op)
  <2>1. Usable /\ WithToken(c, op, token, now) /\ Still /\ RedisKept /\ cache' = cache /\ token' = token
    BY <1>8, Zenon DEF DashboardCall, Still, RedisKept, keyVars, redisVars
  <2> QED BY <1>1, <1>2, <2>1, Zenon DEF Handed
<1>9. CASE DashboardWaits(c, op)
  <2>1. /\ call' = [call EXCEPT ![c] = [NoCall EXCEPT !.pc = "lock", !.op = op]]
        /\ Still /\ RedisKept /\ cache' = cache /\ token' = token
    BY <1>9, Zenon DEF DashboardWaits, Still, RedisKept, keyVars, redisVars
  <2> QED BY <1>1, <2>1, WaitingKept, Zenon DEF Ordinary
<1>10. CASE StressCall(c, op)
  <2>1. WithToken(c, op, StressToken, 0) /\ Still /\ RedisKept /\ cache' = cache /\ token' = token
    BY <1>10, Zenon DEF StressCall, Still, RedisKept, keyVars, redisVars
  <2>2. StressToken \in Tokens
    BY DEF StressToken, Tokens
  <2>3. StressToken.iat = 0 /\ StressToken.exp = Ttl /\ StressToken.ver = 1
    BY DEF StressToken
  <2>4. Ttl = 0 + Ttl /\ 0 <= now /\ Ttl >= 0 + Skew
    BY <1>1
  <2>5. TokenInv => latest["jwt"] = 1 \/ rotatedAt["jwt"] >= 0
    BY Zenon DEF TokenInv, NeverOrRotated
  <2>6. TokenInv => Sound(StressToken)
    BY <2>3, <2>4, <2>5, Zenon DEF Sound
  <2> QED BY <1>1, <2>1, <2>2, <2>3, <2>4, <2>6, Zenon DEF Handed
<1> QED BY <1>3, <1>4, <1>5, <1>6, <1>7, <1>8, <1>9, <1>10, Zenon

\* The steps of the service on a call, but the six that write a nonce, a
\* counter or the cached version of the JWT key.
LEMMA ServiceKind ==
    ASSUME AccessTyped, NEW c \in Calls, token' = token,
           \/ JwtFromCache(c) \/ JwtMiss(c) \/ BankFromCache(c) \/ BankRefresh(c)
           \/ BankMiss(c) \/ BankKeysRead(c) \/ VaultReadFails(c) \/ NonceStale(c) \/ NonceReplayed(c)
           \/ NonceFresh(c) \/ NoteWindow(c)
    PROVE  Ordinary(c)
<1>1. cache \in [Keys -> Entries]
  BY Zenon DEF AccessTyped, KeysTyped
<1>2. CASE JwtFromCache(c)
  <2>1. /\ JudgeToken(c, cache["jwt"].ver) /\ call[c].pc \in {"sent", "keys"}
        /\ Still /\ RedisKept /\ cache' = cache
    BY <1>2, Zenon DEF JwtFromCache, Still, RedisKept, keyVars, redisVars
  <2>2. \E k : call' = [call EXCEPT ![c] = k] /\ Kept(call[c], k)
    BY <2>1, JudgeKept, Zenon
  <2> QED BY <1>1, <2>1, <2>2, Zenon DEF Ordinary
<1>3. CASE JwtMiss(c)
  <2>1. StepNoting(c, "keys") /\ call[c].pc = "sent" /\ Still /\ RedisKept /\ cache' = cache
    BY <1>3, Zenon DEF JwtMiss, Still, RedisKept, keyVars, redisVars
  <2> QED BY <1>1, <2>1, MoveOrdinary, Zenon
<1>4. CASE BankFromCache(c)
  <2>1. Step(c, "nonce") /\ call[c].pc = "bank" /\ Still /\ RedisKept /\ cache' = cache
    BY <1>4, Zenon DEF BankFromCache, Still, RedisKept, keyVars, redisVars
  <2> QED BY <1>1, <2>1, MoveOrdinary, Zenon
<1>5. CASE BankRefresh(c)
  <2>1. /\ StepNoting(c, "bank_again") /\ call[c].pc = "bank" /\ Still /\ RedisKept
        /\ cache' = [cache EXCEPT !["bank"] = NoEntry]
    BY <1>5, Zenon DEF BankRefresh, Still, RedisKept, redisVars, DropEntry
  <2>2. cache' \in [Keys -> Entries] /\ cache'["jwt"] = cache["jwt"]
    BY <1>1, <2>1 DEF Keys, Entries, NoEntry
  <2> QED BY <2>1, <2>2, MoveOrdinary, Zenon
<1>6. CASE BankMiss(c)
  <2>1. StepNoting(c, "bank_read") /\ call[c].pc = "bank" /\ Still /\ RedisKept /\ cache' = cache
    BY <1>6, Zenon DEF BankMiss, Still, RedisKept, keyVars, redisVars
  <2> QED BY <1>1, <2>1, MoveOrdinary, Zenon
<1>7. CASE BankKeysRead(c)
  <2>1. /\ Step(c, "nonce") /\ call[c].pc \in {"bank", "bank_read", "bank_again"} /\ Still /\ RedisKept
        /\ cache' = [cache EXCEPT !["bank"] = [exp |-> call[c].noted + KeyTtl, ver |-> latest["bank"]]]
    BY <1>7, Zenon DEF BankKeysRead, Still, RedisKept, redisVars, StoreVersions
  <2>2. call[c].noted + KeyTtl \in Nat /\ latest["bank"] \in Nat
    BY KeyAssumption DEF AccessTyped, AuthTyped, KeysTyped, CallRecords, Keys
  <2>3. cache' \in [Keys -> Entries] /\ cache'["jwt"] = cache["jwt"]
    BY <1>1, <2>1, <2>2 DEF Keys, Entries
  <2> QED BY <2>1, <2>3, MoveOrdinary, Zenon
<1>8. CASE VaultReadFails(c) \/ NonceStale(c) \/ NonceReplayed(c)
  <2>1. Answer(c) /\ UNCHANGED <<keyVars, redisVars>>
    BY <1>8, Zenon DEF VaultReadFails, NonceStale, NonceReplayed
  <2> QED BY <2>1, AnswerOrdinary, Zenon
<1>9. CASE NonceFresh(c)
  <2>1. Step(c, "nonce_set") /\ call[c].pc = "nonce" /\ Still /\ RedisKept /\ cache' = cache
    BY <1>9, Zenon DEF NonceFresh, Still, RedisKept, keyVars, redisVars
  <2> QED BY <1>1, <2>1, MoveOrdinary, Zenon
<1>10. CASE NoteWindow(c)
  <2>1. UNCHANGED <<keyVars, redisVars>> /\ call[c].pc = "limit"
    BY <1>10, Zenon DEF NoteWindow
  <2>2. CASE Answer(c)
    BY <2>1, <2>2, AnswerOrdinary, Zenon
  <2>3. CASE ~Answer(c)
    <3>1. PICK k : k = [call[c] EXCEPT !.pc = "incr", !.win = now \div Minute]
      OBVIOUS
    <3>2. call' = [call EXCEPT ![c] = k]
      BY <1>10, <2>3, <3>1, Zenon DEF NoteWindow
    <3>3. call[c] \in CallRecords /\ now \div Minute \in Nat
      BY WindowNow DEF AccessTyped, AuthTyped, Windows
    <3>4. Kept(call[c], k)
      BY <2>1, <3>1, <3>3, NotedWindowKept, Zenon
    <3>5. Still /\ RedisKept /\ cache' = cache
      BY <2>1, Zenon DEF Still, RedisKept, keyVars, redisVars
    <3> QED BY <1>1, <3>2, <3>4, <3>5, Zenon DEF Ordinary
  <2> QED BY <2>2, <2>3, Zenon
<1> QED BY <1>2, <1>3, <1>4, <1>5, <1>6, <1>7, <1>8, <1>9, <1>10, Zenon

\* Every step is of one of the kinds.
LEMMA StepKinds == AccessTyped /\ [AccessNext]_accessVars => StepKind
<1> SUFFICES ASSUME AccessTyped, [AccessNext]_accessVars PROVE StepKind
  OBVIOUS
<1>1. ASSUME NEW c \in Calls, NEW op \in {"read", "submit"},
             DashboardCall(c, op) \/ DashboardWaits(c, op) \/ StressCall(c, op)
      PROVE  StepKind
  BY <1>1, ClientKind, Zenon DEF StepKind
<1>2. ASSUME NEW c \in Calls, CallStep(c) PROVE StepKind
  <2>1. CASE LockTaken(c) \/ TokenSigned(c) \/ SignFails(c) \/ HandshakeSigned(c) \/ HandshakeFails(c)
    <3>1. Ordinary(c) \/ Handed(c)
      BY <2>1, ClientKind, Zenon
    <3> QED BY <3>1, Zenon DEF StepKind
  <2>2. CASE HandshakeNoted(c)
    BY <2>2, Zenon DEF StepKind
  <2>3. CASE AuthStep(c) /\ UNCHANGED clientVars
    <3>1. token' = token
      BY <2>3, Zenon DEF clientVars
    <3>2. CASE JwtKeysRead(c) \/ NonceStored(c) \/ CountSubmit(c) \/ ExpireCounter(c)
      BY <3>1, <3>2, Zenon DEF StepKind
    <3>3. CASE ~(JwtKeysRead(c) \/ NonceStored(c) \/ CountSubmit(c) \/ ExpireCounter(c))
      <4>1. Ordinary(c)
        BY <2>3, <3>1, <3>3, ServiceKind, Zenon DEF AuthStep
      <4> QED BY <4>1, Zenon DEF StepKind
    <3> QED BY <3>2, <3>3, Zenon
  <2> QED BY <1>2, <2>1, <2>2, <2>3, Zenon DEF CallStep
<1>3. CASE Environment \/ UNCHANGED accessVars
  BY <1>3, Zenon DEF Environment, StepKind
<1> QED BY <1>1, <1>2, <1>3, Zenon DEF AccessNext

-----------------------------------------------------------------------------
\* A call with a token, with a handshake and with a counter has its type.
LEMMA WrittenTyped ==
    /\ \A op \in {"read", "submit"}, t \in Tokens, h \in Nat :
           HandedRecord(op, t, h) \in CallRecords
    /\ \A k \in CallRecords, x \in Nonces :
           AccessTyped /\ load \in Loads => NotedRecord(k, x) \in CallRecords
    /\ \A k \in CallRecords : [k EXCEPT !.pc = "limit", !.noted = 0] \in CallRecords
    /\ \A k \in CallRecords : [k EXCEPT !.pc = "expire", !.noted = 0] \in CallRecords
<1>1. ASSUME NEW op \in {"read", "submit"}, NEW t \in Tokens, NEW h \in Nat
      PROVE  HandedRecord(op, t, h) \in CallRecords
  <2>1. PICK p \in WithCredential : p = IF op = "submit" THEN "handshake" ELSE "sent"
    BY Zenon DEF WithCredential
  <2>2. [NoCall EXCEPT !.pc = p, !.op = op, !.token = t, !.handed = h] \in CallRecords
    BY <2>1, NoCallTyped, Zenon DEF CallRecords
  <2> QED BY <2>1, <2>2, Zenon DEF HandedRecord
<1> USE DEF CallRecords, WithCredential, WithHandshake
<1>2. ASSUME NEW k \in CallRecords, NEW x \in Nonces, AccessTyped, load \in Loads
      PROVE  NotedRecord(k, x) \in CallRecords
  <2>1. now \in Nat
    BY <1>2, KeyAssumption DEF AccessTyped, KeysTyped
  <2>2. load.offset \in Int
    BY <1>2, AccessAssumption, Zenon
  <2>3. now + load.offset \in Int
    BY <2>1, <2>2
  <2>4. (load.offset > 0) \in BOOLEAN
    BY <2>2
  <2>5. PICK t \in Int, b \in BOOLEAN : t = now + load.offset /\ b = (load.offset > 0)
    BY <2>3, <2>4, Zenon
  <2>6. [k EXCEPT !.pc = "hs_sign", !.noted = now, !.nonce = x, !.ts = t, !.ahead = b] \in CallRecords
    BY <2>1, Zenon
  <2> QED BY <2>5, <2>6, Zenon DEF NotedRecord
<1>3. ASSUME NEW k \in CallRecords PROVE [k EXCEPT !.pc = "limit", !.noted = 0] \in CallRecords
  BY Zenon
<1>4. ASSUME NEW k \in CallRecords PROVE [k EXCEPT !.pc = "expire", !.noted = 0] \in CallRecords
  BY Zenon
<1> HIDE DEF CallRecords, WithCredential, WithHandshake
<1> QED BY <1>1, <1>2, <1>3, <1>4, Zenon

\* A write to one slot keeps the types when its record and the rest have them.
LEMMA PutTyped ==
    ASSUME AccessTyped, NEW c \in Calls, NEW k \in CallRecords, call' = [call EXCEPT ![c] = k], Still,
           cache' \in [Keys -> Entries], nonceExp' \in [Nonces -> Int],
           hits' \in [Windows -> [n : Nat, exp : Nat]], admitted' \in [Windows -> Nat], restarts' \in Nat,
           token' \in Tokens
    PROVE  AccessTyped'
<1>1. call' \in [Calls -> CallRecords]
  BY Zenon DEF AccessTyped, AuthTyped
<1> QED BY <1>1, Zenon DEF AccessTyped, AuthTyped, KeysTyped, Still

\* Every step keeps the types.
LEMMA TypedStep ==
    ASSUME AccessTyped, load \in Loads, [AccessNext]_accessVars
    PROVE  AccessTyped'
<1> USE KeyAssumption, AuthAssumption
<1>1. /\ call \in [Calls -> CallRecords] /\ nonceExp \in [Nonces -> Int] /\ restarts \in Nat
      /\ hits \in [Windows -> [n : Nat, exp : Nat]] /\ admitted \in [Windows -> Nat] /\ token \in Tokens
      /\ cache \in [Keys -> Entries] /\ latest \in [Keys -> Nat] /\ rotatedAt \in [Keys -> Int]
  BY Zenon DEF AccessTyped, AuthTyped, KeysTyped
<1>2. now \in Nat /\ now \in 0..MaxClock
  BY DEF AccessTyped, KeysTyped
<1>3. ASSUME NEW c \in Calls, Ordinary(c) PROVE AccessTyped'
  <2>1. PICK k : call' = [call EXCEPT ![c] = k] /\ k \in CallRecords
    BY <1>3, Zenon DEF Ordinary, Kept
  <2> QED BY <1>1, <1>3, <2>1, PutTyped, Zenon DEF Ordinary, RedisKept
<1>4. ASSUME NEW c \in Calls, Handed(c) PROVE AccessTyped'
  <2>1. PICK op \in {"read", "submit"}, t \in Tokens, h \in 0..now :
            /\ WithToken(c, op, t, h) /\ (token' = token \/ token' = t) /\ Still /\ RedisKept /\ cache' = cache
    BY <1>4, Zenon DEF Handed
  <2>2. h \in Nat
    BY <1>2
  <2>3. PICK k : k = HandedRecord(op, t, h)
    OBVIOUS
  <2>4. k \in CallRecords /\ call' = [call EXCEPT ![c] = k]
    BY <2>1, <2>2, <2>3, WrittenTyped, Zenon DEF WithToken, HandedRecord
  <2> QED BY <1>1, <2>1, <2>4, PutTyped, Zenon DEF RedisKept
<1>5. ASSUME NEW c \in Calls, JwtKeysRead(c), token' = token PROVE AccessTyped'
  <2>1. /\ JudgeToken(c, latest["jwt"]) /\ call[c].pc \in {"sent", "keys"} /\ Still /\ RedisKept
        /\ cache' = [cache EXCEPT !["jwt"] = [exp |-> call[c].noted + KeyTtl, ver |-> latest["jwt"]]]
    BY <1>5, Zenon DEF JwtKeysRead, Still, RedisKept, redisVars, StoreVersions
  <2>2. PICK k : call' = [call EXCEPT ![c] = k] /\ k \in CallRecords
    BY <2>1, JudgeKept, Zenon DEF Kept
  <2>3. call[c].noted + KeyTtl \in Nat /\ latest["jwt"] \in Nat
    BY <1>1 DEF CallRecords, Keys
  <2>4. cache' \in [Keys -> Entries]
    BY <1>1, <2>1, <2>3, Zenon DEF Entries
  <2> QED BY <1>1, <1>5, <2>1, <2>2, <2>4, PutTyped, Zenon DEF RedisKept
<1>6. ASSUME NEW c \in Calls, HandshakeNoted(c) PROVE AccessTyped'
  <2>1. PICK x \in FreshNonces : call' = [call EXCEPT ![c] = NotedRecord(call[c], x)]
    BY <1>6, Zenon DEF HandshakeNoted, NotedRecord
  <2>2. PICK k : k = NotedRecord(call[c], x)
    OBVIOUS
  <2>3. call' = [call EXCEPT ![c] = k] /\ call[c] \in CallRecords
    BY <1>1, <2>1, <2>2, Zenon
  <2>4. x \in Nonces
    BY Zenon DEF FreshNonces
  <2>5. k \in CallRecords
    BY <1>2, <2>2, <2>3, <2>4, WrittenTyped, Zenon
  <2>6. Still /\ RedisKept /\ cache' = cache /\ token' = token
    BY <1>6, Zenon DEF HandshakeNoted, Still, RedisKept, keyVars, redisVars, clientVars
  <2> QED BY <1>1, <2>3, <2>5, <2>6, PutTyped, Zenon DEF RedisKept
<1>7. ASSUME NEW c \in Calls, NonceStored(c), token' = token PROVE AccessTyped'
  <2>1. PICK k : k = [call[c] EXCEPT !.pc = "limit", !.noted = 0]
    OBVIOUS
  <2>2. /\ call' = [call EXCEPT ![c] = k] /\ Still /\ cache' = cache
        /\ nonceExp' = [nonceExp EXCEPT ![call[c].nonce] = now + Window]
        /\ hits' = hits /\ admitted' = admitted /\ restarts' = restarts
    BY <1>7, <2>1, Zenon DEF NonceStored, Step, Still, keyVars
  <2>3. k \in CallRecords
    BY <1>1, <2>1, WrittenTyped, Zenon
  <2>4. now + Window \in Int
    BY <1>2
  <2>5. nonceExp' \in [Nonces -> Int]
    BY <1>1, <2>2, <2>4, Zenon
  <2> QED BY <1>1, <1>7, <2>2, <2>3, <2>5, PutTyped, Zenon
<1>8. ASSUME NEW c \in Calls, CountSubmit(c), token' = token PROVE AccessTyped'
  <2>1. PICK w : w = call[c].win
    OBVIOUS
  <2>2. PICK counter \in Increments(w) :
            /\ hits' = [hits EXCEPT ![w] = counter] /\ Still /\ cache' = cache
            /\ nonceExp' = nonceExp /\ restarts' = restarts
            /\ \/ Step(c, "expire") /\ admitted' = admitted
               \/ Admit(c, counter.n, w)
    BY <1>8, <2>1, Zenon DEF CountSubmit, Still, keyVars
  <2>3. hits' \in [Windows -> [n : Nat, exp : Nat]]
    <3>1. CASE w \in Windows
      <4>1. hits[w] \in [n : Nat, exp : Nat]
        BY <1>1, <3>1, Zenon
      <4>2. counter \in [n : Nat, exp : Nat]
        BY <2>2, <4>1 DEF Increments, NoExpiry
      <4> QED BY <1>1, <2>2, <4>2, Zenon
    <3>2. CASE w \notin Windows
      BY <1>1, <2>2, <3>2, Zenon
    <3> QED BY <3>1, <3>2, Zenon
  <2>4. admitted' \in [Windows -> Nat]
    BY <1>1, <2>2 DEF Admit
  <2>5. PICK k \in CallRecords : call' = [call EXCEPT ![c] = k]
    <3>1. CASE Answer(c)
      BY <3>1, NoCallTyped, Zenon DEF Answer
    <3>2. CASE Step(c, "expire")
      BY <1>1, <3>2, WrittenTyped, Zenon DEF Step
    <3> QED BY <2>2, <3>1, <3>2, Zenon DEF Admit
  <2> QED BY <1>1, <1>8, <2>2, <2>3, <2>4, <2>5, PutTyped, Zenon
<1>9. ASSUME NEW c \in Calls, ExpireCounter(c), token' = token PROVE AccessTyped'
  <2>1. PICK w : w = call[c].win
    OBVIOUS
  <2>2. /\ hits' = [hits EXCEPT ![w].exp = now + Minute + 1] /\ Still /\ cache' = cache
        /\ nonceExp' = nonceExp /\ restarts' = restarts /\ call' = [call EXCEPT ![c] = NoCall]
        /\ Admit(c, 1, w)
    BY <1>9, <2>1, Zenon DEF ExpireCounter, Admit, Answer, Still, keyVars
  <2>3. now + Minute + 1 \in Nat
    BY <1>2
  <2>4. hits' \in [Windows -> [n : Nat, exp : Nat]]
    <3>1. CASE w \in Windows
      <4>1. [hits[w] EXCEPT !.exp = now + Minute + 1] \in [n : Nat, exp : Nat]
        BY <1>1, <2>3, <3>1
      <4>2. hits' = [hits EXCEPT ![w] = [hits[w] EXCEPT !.exp = now + Minute + 1]]
        BY <2>2, Zenon
      <4> QED BY <1>1, <4>1, <4>2, Zenon
    <3>2. CASE w \notin Windows
      <4>1. hits' = hits
        BY <1>1, <2>2, <3>2
      <4> QED BY <1>1, <4>1, Zenon
    <3> QED BY <3>1, <3>2, Zenon
  <2>5. admitted' \in [Windows -> Nat]
    <3>1. admitted' = admitted \/ admitted' = [admitted EXCEPT ![w] = @ + 1]
      BY <1>1, <2>2 DEF Admit
    <3> QED BY <1>1, <3>1
  <2> QED BY <1>1, <1>9, <2>2, <2>4, <2>5, NoCallTyped, PutTyped, Zenon
<1>10. ASSUME NEW c \in Calls, NEW d \in Calls, Resend(c, d) PROVE AccessTyped'
  <2>1. call' = [call EXCEPT ![d] = call[c]] /\ Still /\ RedisKept /\ cache' = cache /\ token' = token
    BY <1>10, Zenon DEF Resend, Still, RedisKept, keyVars, redisVars
  <2> QED BY <1>1, <2>1, PutTyped, Zenon DEF RedisKept
<1>11. ASSUME Tick, UNCHANGED <<authVars, clientVars>> PROVE AccessTyped'
  <2>1. now' \in 0..MaxClock
    BY <1>2, <1>11 DEF Tick
  <2> QED BY <1>1, <1>11, <2>1, Zenon DEF Tick, authVars, clientVars, AccessTyped, AuthTyped, KeysTyped
<1>12. ASSUME Rotate(load.rotates), UNCHANGED <<authVars, clientVars>> PROVE AccessTyped'
  <2>1. PICK r : r = load.rotates
    OBVIOUS
  <2>2. /\ latest' = [latest EXCEPT ![r] = @ + 1] /\ rotatedAt' = [rotatedAt EXCEPT ![r] = now]
        /\ now' = now /\ cache' = cache
    BY <1>12, <2>1, Zenon DEF Rotate
  <2>3. latest' \in [Keys -> Nat]
    <3>1. CASE r \in Keys
      BY <1>1, <2>2, <3>1
    <3>2. CASE r \notin Keys
      <4>1. latest' = latest
        BY <1>1, <2>2, <3>2
      <4> QED BY <1>1, <4>1, Zenon
    <3> QED BY <3>1, <3>2, Zenon
  <2>4. rotatedAt' \in [Keys -> Int]
    <3>1. now \in Int
      BY <1>2
    <3> QED BY <1>1, <2>2, <3>1, Zenon
  <2> QED BY <1>1, <1>2, <1>12, <2>2, <2>3, <2>4, Zenon DEF authVars, clientVars, AccessTyped, AuthTyped, KeysTyped
<1>13. ASSUME RestartService, UNCHANGED clientVars PROVE AccessTyped'
  <2>1. call' \in [Calls -> CallRecords]
    BY <1>1, <1>13, NoCallTyped, Zenon DEF RestartService
  <2>2. NoEntry \in Entries
    BY DEF NoEntry, Entries
  <2>3. cache' \in [Keys -> Entries]
    BY <1>13, <2>2, Zenon DEF RestartService
  <2>4. restarts' \in Nat
    BY <1>1, <1>13 DEF RestartService
  <2>5. /\ now' = now /\ latest' = latest /\ rotatedAt' = rotatedAt /\ nonceExp' = nonceExp
        /\ hits' = hits /\ admitted' = admitted /\ token' = token
    BY <1>13, Zenon DEF RestartService, clientVars
  <2> QED BY <1>1, <1>2, <2>1, <2>3, <2>4, <2>5, Zenon DEF AccessTyped, AuthTyped, KeysTyped
<1>14. CASE UNCHANGED accessVars
  BY <1>1, <1>2, <1>14, Zenon DEF accessVars, keyVars, authVars, clientVars, AccessTyped, AuthTyped, KeysTyped
<1> QED BY <1>3, <1>4, <1>5, <1>6, <1>7, <1>8, <1>9, <1>10, <1>11, <1>12, <1>13, <1>14, StepKinds, Zenon DEF StepKind

-----------------------------------------------------------------------------
\* A sound token stays sound as time passes and the JWT key stays.
LEMMA SoundStays ==
    ASSUME AccessTyped, now' \in Nat, now <= now', latest'["jwt"] = latest["jwt"], rotatedAt'["jwt"] = rotatedAt["jwt"]
    PROVE  /\ \A t \in Tokens : Sound(t) => Sound(t)'
           /\ \A k \in CallRecords : CallSound(k) => CallSound(k)'
           /\ TokenSound /\ token' = token => TokenSound'
           /\ CacheSound /\ cache'["jwt"] = cache["jwt"] => CacheSound'
           /\ NeverOrRotated => NeverOrRotated'
<1>1. now \in Nat /\ token \in Tokens /\ cache["jwt"].exp \in Nat
  BY KeyAssumption DEF AccessTyped, KeysTyped, Entries, Keys
<1>2. ASSUME NEW t \in Tokens, Sound(t) PROVE Sound(t)'
  <2>1. t.iat \in Nat /\ t.iat <= now
    BY <1>2 DEF Tokens, Sound
  <2>2. t.iat <= now'
    BY <1>1, <2>1
  <2> QED BY <1>2, <2>2, Zenon DEF Sound
<1>3. ASSUME NEW k \in CallRecords, CallSound(k) PROVE CallSound(k)'
  <2>1. k.ts \in Int /\ k.noted \in Nat /\ k.handed \in Nat /\ k.token \in Tokens
    BY DEF CallRecords
  <2>2. (k.ahead \/ k.ts <= now) /\ k.noted <= now /\ k.handed <= now
    BY <1>3, Zenon DEF CallSound
  <2>3. (k.ts <= now => k.ts <= now') /\ k.noted <= now' /\ k.handed <= now'
    BY <1>1, <2>1, <2>2
  <2> QED BY <1>2, <1>3, <2>1, <2>2, <2>3, Zenon DEF CallSound
<1>4. TokenSound /\ token' = token => TokenSound'
  BY <1>1, <1>2, Zenon DEF TokenSound
<1>5. ASSUME CacheSound, cache'["jwt"] = cache["jwt"] PROVE CacheSound'
  <2>1. now + KeyTtl <= now' + KeyTtl /\ now + KeyTtl \in Nat /\ now' + KeyTtl \in Nat
    BY <1>1, KeyAssumption
  <2>2. cache["jwt"].exp <= now + KeyTtl => cache["jwt"].exp <= now' + KeyTtl
    BY <1>1, <2>1
  <2> QED BY <1>5, <2>2, Zenon DEF CacheSound
<1>6. NeverOrRotated => NeverOrRotated'
  BY Zenon DEF NeverOrRotated
<1> QED BY <1>2, <1>3, <1>4, <1>5, <1>6, Zenon

\* A write of a sound record.
LEMMA PutSound ==
    ASSUME AccessTyped, TokenInv, NEW c \in Calls, NEW k \in CallRecords, call' = [call EXCEPT ![c] = k], Still, CallSound(k),
           token' = token \/ (token' \in Tokens /\ Sound(token')), cache'["jwt"] = cache["jwt"] \/ CacheSound'
    PROVE  TokenInv'
<1>1. now \in Nat /\ now' \in Nat /\ now <= now' /\ now' = now /\ latest' = latest /\ rotatedAt' = rotatedAt
  BY KeyAssumption DEF Still, AccessTyped, KeysTyped
<1>2. call \in [Calls -> CallRecords]
  BY Zenon DEF AccessTyped, AuthTyped
<1>3. CallsSound'
  <2> SUFFICES ASSUME NEW d \in Calls PROVE CallSound(call[d])'
    BY Zenon DEF CallsSound
  <2>1. call'[d] = k \/ call'[d] = call[d]
    BY <1>2, Zenon
  <2>2. CallSound(call[d]) /\ call[d] \in CallRecords
    BY <1>2, Zenon DEF TokenInv, CallsSound
  <2>3. PICK m \in CallRecords : m = call'[d] /\ CallSound(m)
    BY <2>1, <2>2, Zenon
  <2>4. CallSound(m)'
    BY <1>1, <2>3, SoundStays, Zenon
  <2> QED BY <1>1, <2>3, <2>4, Zenon DEF CallSound, Sound
<1>4. TokenSound'
  <2>1. CASE token' = token
    BY <1>1, <2>1, SoundStays, Zenon DEF TokenInv
  <2>2. CASE token' \in Tokens /\ Sound(token')
    BY <1>1, <2>2, Zenon DEF TokenSound, Sound
  <2> QED BY <2>1, <2>2, Zenon
<1>5. CacheSound' /\ NeverOrRotated'
  BY <1>1, SoundStays, Zenon DEF TokenInv
<1> QED BY <1>3, <1>4, <1>5, Zenon DEF TokenInv

\* A record that is kept stays sound.
LEMMA KeptSound ==
    ASSUME now \in Nat, NEW o \in CallRecords, NEW k \in CallRecords, Kept(o, k), CallSound(o)
    PROVE  CallSound(k)
<1>1. 0 <= now /\ now <= now
  OBVIOUS
<1>2. (k.ahead \/ k.ts <= now) /\ k.noted <= now /\ k.handed <= now
  BY <1>1, Zenon DEF Kept, CallSound
<1> QED BY <1>2, Zenon DEF Kept, CallSound

\* A write to one slot leaves the others, and writes this one.
LEMMA PutFields ==
    ASSUME AccessTyped, NEW c \in Calls, NEW k, call' = [call EXCEPT ![c] = k]
    PROVE  call'[c] = k /\ \A d \in Calls \ {c} : call'[d] = call[d]
<1>1. call \in [Calls -> CallRecords]
  BY Zenon DEF AccessTyped, AuthTyped
<1> QED BY <1>1, Zenon

\* The record of a call that got its token.
LEMMA HandedFields ==
    \A op \in {"read", "submit"} : \A t, h :
        /\ HandedRecord(op, t, h).pc \notin {"incr", "expire"} /\ ~Hand(HandedRecord(op, t, h))
        /\ HandedRecord(op, t, h).nonce = NoNonce /\ HandedRecord(op, t, h).ts = 0
        /\ HandedRecord(op, t, h).noted = 0 /\ HandedRecord(op, t, h).handed = h
        /\ HandedRecord(op, t, h).token = t
<1> TAKE op \in {"read", "submit"}
<1> TAKE t, h
<1>0. PICK k : k = HandedRecord(op, t, h)
  OBVIOUS
<1>1. PICK p : p = IF op = "submit" THEN "handshake" ELSE "sent"
  OBVIOUS
<1>2. (op = "submit" /\ p = "handshake") \/ (op = "read" /\ p = "sent")
  BY <1>1, Zenon
<1>3. k = [NoCall EXCEPT !.pc = p, !.op = op, !.token = t, !.handed = h]
  BY <1>0, <1>1, Zenon DEF HandedRecord
<1>4. /\ k.pc = p /\ k.op = op /\ k.nonce = NoNonce /\ k.ts = 0 /\ k.noted = 0 /\ k.handed = h
      /\ k.token = t
  BY <1>3, Zenon DEF NoCall
<1>5. ~Hand(k) /\ k.pc \notin {"incr", "expire"}
  BY <1>2, <1>4, Zenon DEF Hand, WithHandshake
<1> QED BY <1>0, <1>4, <1>5, Zenon

\* The part of the invariant about tokens, their times and the key cache.
LEMMA TokenStep ==
    ASSUME AccessTyped, AccessTyped', load \in Loads, TokenInv, [AccessNext]_accessVars
    PROVE  TokenInv'
<1>1. /\ call \in [Calls -> CallRecords] /\ token \in Tokens /\ now \in Nat /\ KeyTtl \in Nat /\ now' \in Nat
      /\ latest["jwt"] \in Nat /\ rotatedAt["jwt"] \in Int /\ cache["jwt"] \in Entries
  BY KeyAssumption DEF AccessTyped, AuthTyped, KeysTyped, Keys
<1>2. CallsSound /\ TokenSound /\ CacheSound /\ NeverOrRotated
  BY Zenon DEF TokenInv
<1>3. ASSUME NEW c \in Calls, Ordinary(c) PROVE TokenInv'
  <2>1. PICK k : call' = [call EXCEPT ![c] = k] /\ Kept(call[c], k)
    BY <1>3, Zenon DEF Ordinary
  <2>2. k \in CallRecords /\ CallSound(k)
    BY <1>1, <1>2, <2>1, KeptSound, Zenon DEF CallsSound, Kept
  <2> QED BY <1>3, <2>1, <2>2, PutSound, Zenon DEF Ordinary
<1>4. ASSUME NEW c \in Calls, Handed(c) PROVE TokenInv'
  <2>1. PICK op \in {"read", "submit"}, t \in Tokens, h \in 0..now :
            /\ WithToken(c, op, t, h) /\ (token' = token \/ token' = t) /\ Still /\ RedisKept /\ cache' = cache
            /\ Sound(t) /\ t.exp >= h + Skew
    BY <1>4, Zenon DEF Handed
  <2>2. h \in Nat /\ h <= now /\ 0 <= now
    BY <1>1
  <2>3. PICK k : k = HandedRecord(op, t, h)
    OBVIOUS
  <2>4. k \in CallRecords /\ call' = [call EXCEPT ![c] = k]
    BY <2>1, <2>2, <2>3, WrittenTyped, Zenon DEF WithToken, HandedRecord
  <2>5. k.ts = 0 /\ k.noted = 0 /\ k.handed = h /\ k.token = t
    <3>1. /\ HandedRecord(op, t, h).ts = 0 /\ HandedRecord(op, t, h).noted = 0
          /\ HandedRecord(op, t, h).handed = h /\ HandedRecord(op, t, h).token = t
      BY <2>1, HandedFields, SMT
    <3> QED BY <2>3, <3>1, Zenon
  <2>6. CallSound(k)
    BY <2>1, <2>2, <2>5, Zenon DEF CallSound
  <2> QED BY <2>1, <2>4, <2>6, PutSound, Zenon
<1>5. ASSUME NEW c \in Calls, JwtKeysRead(c), token' = token PROVE TokenInv'
  <2>1. /\ JudgeToken(c, latest["jwt"]) /\ call[c].pc \in {"sent", "keys"} /\ Still
        /\ cache' = [cache EXCEPT !["jwt"] = [exp |-> call[c].noted + KeyTtl, ver |-> latest["jwt"]]]
    BY <1>5, Zenon DEF JwtKeysRead, Still, StoreVersions
  <2>2. PICK k : call' = [call EXCEPT ![c] = k] /\ Kept(call[c], k)
    BY <2>1, JudgeKept, Zenon
  <2>3. k \in CallRecords /\ CallSound(k)
    BY <1>1, <1>2, <2>2, KeptSound, Zenon DEF CallsSound, Kept
  <2>4. cache'["jwt"] = [exp |-> call[c].noted + KeyTtl, ver |-> latest["jwt"]]
    BY <2>1 DEF AccessTyped, KeysTyped, Keys
  <2>5. cache'["jwt"].exp = call[c].noted + KeyTtl /\ cache'["jwt"].ver = latest'["jwt"]
    BY <2>1, <2>4 DEF Still
  <2>6. call[c].noted \in Nat /\ call[c].noted <= now /\ now' = now
    BY <1>1, <1>2, <2>1 DEF CallsSound, CallSound, CallRecords, Still
  <2>7. cache'["jwt"].exp <= now' + KeyTtl
    BY <1>1, <2>5, <2>6
  <2>8. CacheSound'
    BY <2>5, <2>7, Zenon DEF CacheSound
  <2> QED BY <1>5, <2>1, <2>2, <2>3, <2>8, PutSound, Zenon
<1>6. ASSUME NEW c \in Calls, HandshakeNoted(c) PROVE TokenInv'
  <2>1. PICK x \in FreshNonces : call' = [call EXCEPT ![c] = NotedRecord(call[c], x)]
    BY <1>6, Zenon DEF HandshakeNoted, NotedRecord
  <2>2. PICK k : k = NotedRecord(call[c], x)
    OBVIOUS
  <2>3. call' = [call EXCEPT ![c] = k] /\ call[c] \in CallRecords /\ x \in Nonces /\ call[c].pc \in WithCredential
    BY <1>1, <1>6, <2>1, <2>2, Zenon DEF HandshakeNoted, FreshNonces, WithCredential
  <2>4. k \in CallRecords
    BY <1>1, <2>2, <2>3, WrittenTyped, Zenon
  <2>9. PICK b : b = (load.offset > 0)
    OBVIOUS
  <2>5. /\ k.noted = now /\ k.handed = call[c].handed /\ k.token = call[c].token /\ now <= now
        /\ k.ts = now + load.offset /\ k.ahead = b
    <3>1. k = [call[c] EXCEPT !.pc = "hs_sign", !.noted = now, !.nonce = x, !.ts = now + load.offset, !.ahead = b]
      BY <2>2, <2>9, Zenon DEF NotedRecord
    <3> QED BY <1>1, <2>3, <3>1 DEF CallRecords
  <2>8. k.ahead \/ k.ts <= now
    <3>1. load.offset \in Int
      BY AccessAssumption, Zenon
    <3>2. load.offset > 0 \/ now + load.offset <= now
      BY <1>1, <3>1
    <3> QED BY <2>5, <2>9, <3>2, Zenon
  <2>6. CallSound(k)
    BY <1>2, <2>3, <2>5, <2>8, Zenon DEF CallsSound, CallSound
  <2>7. Still /\ cache' = cache /\ token' = token
    BY <1>6, Zenon DEF HandshakeNoted, Still, keyVars, clientVars
  <2> QED BY <2>3, <2>4, <2>6, <2>7, PutSound, Zenon
<1>7. ASSUME NEW c \in Calls, NonceStored(c), token' = token PROVE TokenInv'
  <2>1. PICK k : k = [call[c] EXCEPT !.pc = "limit", !.noted = 0]
    OBVIOUS
  <2>2. call' = [call EXCEPT ![c] = k] /\ Still /\ cache' = cache
    BY <1>7, <2>1, Zenon DEF NonceStored, Step, Still, keyVars
  <2>3. k \in CallRecords
    BY <1>1, <2>1, WrittenTyped, Zenon
  <2>4. k.pc = "limit" /\ k.ts = call[c].ts /\ k.ahead = call[c].ahead /\ k.noted = 0 /\ k.handed = call[c].handed /\ 0 <= now
    BY <1>1, <2>1 DEF CallRecords
  <2>5. CallSound(k)
    BY <1>2, <2>4, Zenon DEF CallsSound, CallSound, WithCredential
  <2> QED BY <1>7, <2>2, <2>3, <2>5, PutSound, Zenon
<1>8. ASSUME NEW c \in Calls, CountSubmit(c) \/ ExpireCounter(c), token' = token PROVE TokenInv'
  <2>1. Still /\ cache' = cache
    BY <1>8, Zenon DEF CountSubmit, ExpireCounter, Still, keyVars
  <2>2. CASE Answer(c)
    <3>1. Kept(call[c], NoCall) /\ NoCall \in CallRecords /\ call' = [call EXCEPT ![c] = NoCall]
      BY <2>2, AnsweredKept, Zenon DEF Kept, Answer
    <3>2. CallSound(NoCall)
      BY <1>1, <1>2, <3>1, KeptSound, Zenon DEF CallsSound
    <3> QED BY <1>8, <2>1, <3>1, <3>2, PutSound, Zenon
  <2>3. CASE ~Answer(c)
    <3>1. PICK k : k = [call[c] EXCEPT !.pc = "expire", !.noted = 0]
      OBVIOUS
    <3>2. call' = [call EXCEPT ![c] = k]
      BY <1>8, <2>3, <3>1, Zenon DEF CountSubmit, ExpireCounter, Admit, Step
    <3>3. k \in CallRecords
      BY <1>1, <3>1, WrittenTyped, Zenon
    <3>4. /\ k.pc = "expire" /\ k.ts = call[c].ts /\ k.ahead = call[c].ahead /\ k.noted = 0
          /\ k.handed = call[c].handed /\ 0 <= now
      BY <1>1, <3>1 DEF CallRecords
    <3>5. CallSound(k)
      BY <1>2, <3>4, Zenon DEF CallsSound, CallSound, WithCredential
    <3> QED BY <1>8, <2>1, <3>2, <3>3, <3>5, PutSound, Zenon
  <2> QED BY <2>2, <2>3, Zenon
<1>9. ASSUME NEW c \in Calls, NEW d \in Calls, Resend(c, d) PROVE TokenInv'
  <2>1. call' = [call EXCEPT ![d] = call[c]] /\ Still /\ cache' = cache /\ token' = token
    BY <1>9, Zenon DEF Resend, Still, keyVars
  <2>2. call[c] \in CallRecords /\ CallSound(call[c])
    BY <1>1, <1>2, Zenon DEF CallsSound
  <2> QED BY <2>1, <2>2, PutSound, Zenon
<1>10. ASSUME Tick, UNCHANGED <<authVars, clientVars>> PROVE TokenInv'
  <2>1. /\ now <= now' /\ latest' = latest /\ rotatedAt' = rotatedAt /\ cache' = cache
        /\ call' = call /\ token' = token
    BY <1>1, <1>10 DEF Tick, authVars, clientVars
  <2>2. CallsSound'
    <3> SUFFICES ASSUME NEW c \in Calls PROVE CallSound(call[c])'
      BY Zenon DEF CallsSound
    <3>1. PICK k \in CallRecords : k = call[c] /\ CallSound(k)
      BY <1>1, <1>2, Zenon DEF CallsSound
    <3>2. CallSound(k)'
      BY <1>1, <2>1, <3>1, SoundStays, Zenon
    <3> QED BY <2>1, <3>1, <3>2, Zenon DEF CallSound, Sound
  <2> QED BY <1>1, <1>2, <2>1, <2>2, SoundStays, Zenon DEF TokenInv
<1>11. ASSUME Rotate(load.rotates), UNCHANGED <<authVars, clientVars>> PROVE TokenInv'
  <2>1. PICK r : r = load.rotates
    OBVIOUS
  <2>2. /\ latest' = [latest EXCEPT ![r] = @ + 1] /\ rotatedAt' = [rotatedAt EXCEPT ![r] = now]
        /\ now' = now /\ cache' = cache /\ call' = call /\ token' = token
    BY <1>11, <2>1, Zenon DEF Rotate, authVars, clientVars
  <2>3. \/ rotatedAt'["jwt"] = now
        \/ rotatedAt'["jwt"] = rotatedAt["jwt"] /\ latest'["jwt"] = latest["jwt"]
    BY <2>2 DEF AccessTyped, KeysTyped, Keys
  <2>4. ASSUME NEW t \in Tokens, Sound(t) PROVE Sound(t)'
    <3>1. t.iat \in Nat /\ t.iat <= now
      BY <2>4 DEF Tokens, Sound
    <3> QED BY <2>2, <2>3, <2>4, <3>1, Zenon DEF Sound
  <2>5. CallsSound'
    <3> SUFFICES ASSUME NEW c \in Calls PROVE CallSound(call[c])'
      BY Zenon DEF CallsSound
    <3>1. CallSound(call[c]) /\ call[c].token \in Tokens
      BY <1>1, <1>2 DEF CallsSound, CallRecords
    <3>2. PICK t \in Tokens : t = call[c].token
      BY <3>1, Zenon
    <3>3. call[c].pc \in WithCredential => Sound(t)'
      BY <2>4, <3>1, <3>2, Zenon DEF CallSound
    <3> QED BY <2>2, <3>1, <3>2, <3>3, Zenon DEF CallSound, Sound
  <2>6. TokenSound'
    BY <1>1, <1>2, <2>2, <2>4, Zenon DEF TokenSound, Sound
  <2>7. CacheSound'
    <3>1. cache["jwt"].exp \in Nat
      BY <1>1 DEF Entries
    <3>2. cache["jwt"].exp <= now + KeyTtl => now >= cache["jwt"].exp - KeyTtl
      BY <1>1, <3>1
    <3> QED BY <1>2, <2>2, <2>3, <3>2, Zenon DEF CacheSound
  <2>8. NeverOrRotated'
    <3>1. now >= 0
      BY <1>1
    <3> QED BY <1>2, <2>3, <3>1 DEF NeverOrRotated
  <2> QED BY <2>5, <2>6, <2>7, <2>8, Zenon DEF TokenInv
<1>12. ASSUME RestartService, UNCHANGED clientVars PROVE TokenInv'
  <2>1. /\ now' = now /\ latest' = latest /\ rotatedAt' = rotatedAt /\ token' = token
        /\ cache' = [k \in Keys |-> NoEntry]
        /\ call' = [c \in Calls |-> IF call[c].pc \in AtService THEN NoCall ELSE call[c]]
    BY <1>12, Zenon DEF RestartService, clientVars
  <2>2. CallsSound'
    <3> SUFFICES ASSUME NEW c \in Calls PROVE CallSound(call[c])'
      BY Zenon DEF CallsSound
    <3>1. call'[c] = NoCall \/ call'[c] = call[c]
      BY <2>1, Zenon
    <3>2. CallSound(call[c]) /\ call[c] \in CallRecords
      BY <1>1, <1>2, Zenon DEF CallsSound
    <3>3. CallSound(NoCall)
      BY <1>1, <3>2, AnsweredKept, NoCallTyped, KeptSound, Zenon
    <3> QED BY <2>1, <3>1, <3>2, <3>3, Zenon DEF CallSound, Sound
  <2>3. TokenSound' /\ NeverOrRotated'
    BY <1>2, <2>1, Zenon DEF TokenSound, Sound, NeverOrRotated
  <2>4. CacheSound'
    BY <2>1, Zenon DEF CacheSound, Keys
  <2> QED BY <2>2, <2>3, <2>4, Zenon DEF TokenInv
<1>13. CASE UNCHANGED accessVars
  BY <1>2, <1>13, Zenon DEF accessVars, keyVars, authVars, clientVars, TokenInv, CallsSound, CallSound,
     TokenSound, Sound, CacheSound, NeverOrRotated
<1> QED BY <1>3, <1>4, <1>5, <1>6, <1>7, <1>8, <1>9, <1>10, <1>11, <1>12, <1>13, StepKinds, Zenon DEF StepKind

-----------------------------------------------------------------------------
\* A step that keeps every call's handshake or drops it keeps the replay
\* guard's part of the invariant.
LEMMA HandsKept ==
    ASSUME NoncesSound, nonceExp' = nonceExp,
           \A c \in Calls :
              \/ call'[c].nonce = NoNonce /\ ~Hand(call'[c])
              \/ /\ call'[c].nonce = call[c].nonce /\ call'[c].ts = call[c].ts /\ call'[c].ahead = call[c].ahead
                 /\ Hand(call'[c]) => Hand(call[c])
    PROVE  NoncesSound'
<1>1. NoNonce \notin Nonces
  BY AuthAssumption
<1>2. ASSUME NEW c \in Calls PROVE NonceSound(call[c])'
  <2>1. NonceSound(call[c])
    BY Zenon DEF NoncesSound
  <2>2. CASE call'[c].nonce = NoNonce /\ ~Hand(call'[c])
    BY <1>1, <2>2, Zenon DEF NonceSound, Hand
  <2>3. CASE /\ call'[c].nonce = call[c].nonce /\ call'[c].ts = call[c].ts /\ call'[c].ahead = call[c].ahead
             /\ Hand(call'[c]) => Hand(call[c])
    BY <2>1, <2>3, Zenon DEF NonceSound, Hand
  <2> QED BY <2>2, <2>3, Zenon
<1>3. ASSUME NEW c \in Calls, NEW d \in Calls, call'[c].nonce = call'[d].nonce, call'[c].nonce # NoNonce
      PROVE  call'[c].ts = call'[d].ts /\ call'[c].ahead = call'[d].ahead
  <2>1. /\ call'[c].nonce = call[c].nonce /\ call'[c].ts = call[c].ts /\ call'[c].ahead = call[c].ahead
        /\ call'[d].nonce = call[d].nonce /\ call'[d].ts = call[d].ts /\ call'[d].ahead = call[d].ahead
    BY <1>3, Zenon
  <2> QED BY <1>3, <2>1, Zenon DEF NoncesSound
<1> QED BY <1>2, <1>3, Zenon DEF NoncesSound

\* The SET NX of a handshake's nonce keeps the replay guard sound: the key it
\* writes expires no earlier than the handshake's own time window ends.
LEMMA NonceStoredSound ==
    ASSUME AccessTyped, CallsSound, NoncesSound, NEW c \in Calls, NonceStored(c)
    PROVE  NoncesSound'
<1>1. \A d \in Calls : call[d].ts \in Int /\ (call[d].ahead \/ call[d].ts <= now)
  BY DEF AccessTyped, AuthTyped, CallRecords, CallsSound, CallSound
<1>2. now \in Int /\ Window \in Int
  BY AuthAssumption DEF AccessTyped, KeysTyped
<1>3. call[c].nonce \in Nonces /\ call[c].pc = "nonce_set"
  BY Zenon DEF NoncesSound, NonceSound, Hand, WithHandshake, NonceStored
<1>4. \A d \in Calls : /\ call'[d].nonce = call[d].nonce /\ call'[d].ts = call[d].ts /\ call'[d].op = call[d].op
                       /\ call'[d].ahead = call[d].ahead
                       /\ call'[d].pc = IF d = c THEN "limit" ELSE call[d].pc
  BY DEF AccessTyped, AuthTyped, CallRecords, NonceStored, Step
<1>5. \A x \in Nonces : nonceExp'[x] = IF x = call[c].nonce THEN now + Window ELSE nonceExp[x]
  BY <1>3, Zenon DEF AccessTyped, AuthTyped, NonceStored
<1>6. ASSUME NEW d \in Calls, Hand(call'[d]) PROVE call'[d].nonce \in Nonces
  <2>1. CASE d = c
    BY <1>3, <1>4, <2>1, Zenon
  <2>2. CASE d # c
    BY <1>4, <1>6, <2>2, Zenon DEF NoncesSound, NonceSound, Hand
  <2> QED BY <2>1, <2>2, Zenon
<1>7. ASSUME NEW d \in Calls, call'[d].nonce \in Nonces, nonceExp'[call'[d].nonce] # NoKey, ~call'[d].ahead
      PROVE  nonceExp'[call'[d].nonce] >= call'[d].ts + Window
  <2>1. CASE call[d].nonce = call[c].nonce
    <3>1. nonceExp'[call'[d].nonce] = now + Window /\ call'[d].ts = call[d].ts
      BY <1>3, <1>4, <1>5, <2>1, Zenon
    <3>2. call[d].ts \in Int /\ call[d].ts <= now
      BY <1>1, <1>4, <1>7, Zenon
    <3> QED BY <1>2, <3>1, <3>2
  <2>2. CASE call[d].nonce # call[c].nonce
    <3>1. nonceExp'[call'[d].nonce] = nonceExp[call[d].nonce] /\ call[d].nonce \in Nonces
      BY <1>4, <1>5, <1>7, <2>2, Zenon
    <3> QED BY <1>4, <1>7, <3>1, Zenon DEF NoncesSound, NonceSound
  <2> QED BY <2>1, <2>2, Zenon
<1>8. ASSUME NEW d \in Calls, NEW e \in Calls, call'[d].nonce = call'[e].nonce, call'[d].nonce # NoNonce
      PROVE  call'[d].ts = call'[e].ts /\ call'[d].ahead = call'[e].ahead
  <2>1. call[d].nonce = call[e].nonce /\ call[d].nonce # NoNonce
    BY <1>4, <1>8, Zenon
  <2>2. call[d].ts = call[e].ts /\ call[d].ahead = call[e].ahead
    BY <2>1, Zenon DEF NoncesSound
  <2>3. call'[d].ts = call[d].ts /\ call'[d].ahead = call[d].ahead
    BY <1>4, Zenon
  <2>4. call'[e].ts = call[e].ts /\ call'[e].ahead = call[e].ahead
    BY <1>4, Zenon
  <2> QED BY <2>2, <2>3, <2>4, Zenon
<1> QED BY <1>6, <1>7, <1>8, Zenon DEF NoncesSound, NonceSound, Hand

\* The replay guard's part of the invariant.
LEMMA NonceStep ==
    ASSUME AccessTyped, CallsSound, NoncesSound, [AccessNext]_accessVars
    PROVE  NoncesSound'
<1>1. call \in [Calls -> CallRecords] /\ NoNonce \notin Nonces
  BY AuthAssumption, Zenon DEF AccessTyped, AuthTyped
<1>2. ASSUME NEW c \in Calls, NEW k, call' = [call EXCEPT ![c] = k], nonceExp' = nonceExp,
             \/ k.nonce = NoNonce /\ ~Hand(k)
             \/ k.nonce = call[c].nonce /\ k.ts = call[c].ts /\ k.ahead = call[c].ahead /\ (Hand(k) => Hand(call[c]))
      PROVE  NoncesSound'
  <2>1. call'[c] = k /\ \A d \in Calls \ {c} : call'[d] = call[d]
    BY <1>2, PutFields, Zenon
  <2> QED BY <1>2, <2>1, HandsKept, Zenon
<1>3. ASSUME NEW c \in Calls, Ordinary(c) PROVE NoncesSound'
  BY <1>2, <1>3, Zenon DEF Ordinary, Kept, RedisKept
<1>4. ASSUME NEW c \in Calls, Handed(c) PROVE NoncesSound'
  <2>1. PICK op \in {"read", "submit"}, t \in Tokens, h \in 0..now : WithToken(c, op, t, h) /\ RedisKept
    BY <1>4, Zenon DEF Handed
  <2>2. PICK k : k = HandedRecord(op, t, h)
    OBVIOUS
  <2>3. k.nonce = NoNonce /\ ~Hand(k)
    <3>1. HandedRecord(op, t, h).nonce = NoNonce /\ ~Hand(HandedRecord(op, t, h))
      BY <2>1, HandedFields, SMT
    <3> QED BY <2>2, <3>1, Zenon
  <2> QED BY <1>2, <2>1, <2>2, <2>3, Zenon DEF WithToken, HandedRecord, RedisKept
<1>5. ASSUME NEW c \in Calls, JwtKeysRead(c) PROVE NoncesSound'
  <2>1. JudgeToken(c, latest["jwt"]) /\ call[c].pc \in {"sent", "keys"} /\ nonceExp' = nonceExp
    BY <1>5, Zenon DEF JwtKeysRead, redisVars
  <2>2. PICK k : call' = [call EXCEPT ![c] = k] /\ Kept(call[c], k)
    BY <2>1, JudgeKept, Zenon
  <2> QED BY <1>2, <2>1, <2>2, Zenon DEF Kept
<1>6. ASSUME NEW c \in Calls, HandshakeNoted(c) PROVE NoncesSound'
  <2>1. PICK x \in FreshNonces : call' = [call EXCEPT ![c] = NotedRecord(call[c], x)]
    BY <1>6, Zenon DEF HandshakeNoted, NotedRecord
  <2>2. nonceExp' = nonceExp
    BY <1>6, Zenon DEF HandshakeNoted, redisVars
  <2>3. x \in Nonces /\ nonceExp'[x] = NoKey /\ \A d \in Calls : call[d].nonce # x
    BY <2>2, Zenon DEF FreshNonces
  <2>4. \A d \in Calls \ {c} : call'[d] = call[d]
    BY <1>1, <2>1, Zenon
  <2>5. call'[c].nonce = x
    BY <1>1, <2>1 DEF CallRecords, NotedRecord
  <2>6. ASSUME NEW d \in Calls PROVE NonceSound(call[d])'
    <3>1. CASE d = c
      BY <2>3, <2>5, <3>1, Zenon DEF NonceSound
    <3>2. CASE d # c
      BY <2>2, <2>4, <3>2, Zenon DEF NoncesSound, NonceSound, Hand
    <3> QED BY <3>1, <3>2, Zenon
  <2>7. ASSUME NEW d \in Calls, NEW e \in Calls, call'[d].nonce = call'[e].nonce, call'[d].nonce # NoNonce
        PROVE  call'[d].ts = call'[e].ts /\ call'[d].ahead = call'[e].ahead
    <3>1. CASE d = c \/ e = c
      BY <2>3, <2>4, <2>5, <2>7, <3>1, Zenon
    <3>2. CASE d # c /\ e # c
      <4>1. call'[d] = call[d] /\ call'[e] = call[e]
        BY <2>4, <3>2, Zenon
      <4> QED BY <2>7, <4>1, Zenon DEF NoncesSound
    <3> QED BY <3>1, <3>2, Zenon
  <2> QED BY <2>6, <2>7, Zenon DEF NoncesSound
<1>7. ASSUME NEW c \in Calls, NonceStored(c) PROVE NoncesSound'
  BY <1>7, NonceStoredSound, Zenon
<1>8. ASSUME NEW c \in Calls, CountSubmit(c) \/ ExpireCounter(c) PROVE NoncesSound'
  <2>1. nonceExp' = nonceExp
    BY <1>8, Zenon DEF CountSubmit, ExpireCounter
  <2>2. CASE Answer(c)
    BY <1>2, <2>1, <2>2, AnsweredKept, Zenon DEF Answer, Kept
  <2>3. CASE ~Answer(c)
    <3>1. PICK k : k = [call[c] EXCEPT !.pc = "expire", !.noted = 0]
      OBVIOUS
    <3>2. call' = [call EXCEPT ![c] = k] /\ call[c].pc = "incr"
      BY <1>8, <2>3, <3>1, Zenon DEF CountSubmit, ExpireCounter, Admit, Step
    <3>3. k.nonce = call[c].nonce /\ k.ts = call[c].ts /\ k.ahead = call[c].ahead
      BY <1>1, <3>1 DEF CallRecords
    <3>4. Hand(call[c])
      BY <3>2, Zenon DEF Hand, WithHandshake
    <3> QED BY <1>2, <2>1, <3>2, <3>3, <3>4, Zenon
  <2> QED BY <2>2, <2>3, Zenon
<1>9. ASSUME NEW c \in Calls, NEW d \in Calls, Resend(c, d) PROVE NoncesSound'
  <2>1. call' = [call EXCEPT ![d] = call[c]] /\ nonceExp' = nonceExp
    BY <1>9, Zenon DEF Resend, redisVars
  <2>2. \A e \in Calls : \E b \in Calls : call'[e] = call[b]
    BY <1>1, <2>1, Zenon
  <2>3. ASSUME NEW e \in Calls PROVE NonceSound(call[e])'
    <3>1. PICK b \in Calls : call'[e] = call[b]
      BY <2>2, Zenon
    <3>2. NonceSound(call[b])
      BY Zenon DEF NoncesSound
    <3> QED BY <2>1, <3>1, <3>2, Zenon DEF NonceSound, Hand
  <2>4. ASSUME NEW e \in Calls, NEW f \in Calls, call'[e].nonce = call'[f].nonce, call'[e].nonce # NoNonce
        PROVE  call'[e].ts = call'[f].ts /\ call'[e].ahead = call'[f].ahead
    <3>1. PICK a \in Calls, b \in Calls : call'[e] = call[a] /\ call'[f] = call[b]
      BY <2>2, Zenon
    <3>2. call[a].nonce = call[b].nonce /\ call[a].nonce # NoNonce
      BY <2>4, <3>1, Zenon
    <3>3. call[a].ts = call[b].ts /\ call[a].ahead = call[b].ahead
      BY <3>2, Zenon DEF NoncesSound
    <3> QED BY <3>1, <3>3, Zenon
  <2> QED BY <2>3, <2>4, Zenon DEF NoncesSound
<1>10. ASSUME RestartService PROVE NoncesSound'
  <2>1. /\ nonceExp' = nonceExp
        /\ call' = [c \in Calls |-> IF call[c].pc \in AtService THEN NoCall ELSE call[c]]
    BY <1>10, Zenon DEF RestartService
  <2>2. NoCall.nonce = NoNonce /\ ~Hand(NoCall)
    BY DEF NoCall, Hand, WithHandshake
  <2>3. \A c \in Calls : call'[c] = NoCall \/ call'[c] = call[c]
    BY <2>1, Zenon
  <2> QED BY <2>1, <2>2, <2>3, HandsKept, Zenon
<1>11. CASE call' = call /\ nonceExp' = nonceExp
  BY <1>11, HandsKept, Zenon
<1>12. CASE \/ Tick /\ UNCHANGED <<authVars, clientVars>>
            \/ Rotate(load.rotates) /\ UNCHANGED <<authVars, clientVars>>
            \/ UNCHANGED accessVars
  BY <1>11, <1>12, Zenon DEF authVars, accessVars
<1> QED BY <1>3, <1>4, <1>5, <1>6, <1>7, <1>8, <1>9, <1>10, <1>12, StepKinds, Zenon DEF StepKind

-----------------------------------------------------------------------------
\* The window of the current moment has begun.
LEMMA WindowBegun == AccessTyped => now \div Minute \in Windows /\ (now \div Minute) * Minute <= now
<1> SUFFICES ASSUME AccessTyped PROVE (now \div Minute) * Minute <= now
  BY WindowNow, Zenon
<1>1. now \in Nat /\ Minute \in Nat \ {0}
  BY KeyAssumption, AuthAssumption DEF AccessTyped, KeysTyped
<1>2. now \div Minute \in Nat /\ Minute * (now \div Minute) <= now
  BY <1>1, DivFacts
<1> QED BY <1>1, <1>2

\* A step that writes no counter, and after which the calls that are to set an
\* expiry are ones that were to set it before.
LEMMA FirstsKept ==
    ASSUME AccessTyped, RateInv, hits' = hits, admitted' = admitted, late' = late, now' \in Nat, now <= now',
           \A c \in Calls : call'[c].pc = "expire" => call[c].pc = "expire" /\ call'[c].win = call[c].win,
           \A c \in Calls : call'[c].pc = "incr" =>
               \/ call[c].pc = "incr" /\ call'[c].win = call[c].win
               \/ call'[c].win = now \div Minute
    PROVE  RateInv'
<1> SUFFICES ASSUME PerMinute > 0 PROVE CountersSound' /\ FirstsSound'
  BY Zenon DEF RateInv
<1>0. CountersSound /\ FirstsSound
  BY Zenon DEF RateInv
<1>1. \A w \in Windows : Pending(w)' => Pending(w)
  BY Zenon DEF Pending
<1>2. CountersSound'
  BY <1>0, <1>1, Zenon DEF CountersSound, Outlives, Counts
<1>3. now \in Nat /\ Minute \in Nat /\ \A w \in Windows : w * Minute <= now => w * Minute <= now'
  BY KeyAssumption, AuthAssumption DEF AccessTyped, KeysTyped, Windows
<1>4. FirstsSound'
  <2>1. ASSUME NEW c \in Calls, call'[c].pc \in {"incr", "expire"}
        PROVE  call'[c].win \in Windows /\ call'[c].win * Minute <= now'
    <3>1. CASE call[c].pc \in {"incr", "expire"} /\ call'[c].win = call[c].win
      BY <1>0, <1>3, <3>1, Zenon DEF FirstsSound
    <3>2. CASE call'[c].win = now \div Minute
      BY <1>3, <3>2, WindowBegun, Zenon
    <3> QED BY <2>1, <3>1, <3>2, Zenon
  <2>2. ASSUME NEW c \in Calls, NEW d \in Calls, call'[c].pc = "expire", call'[d].pc = "expire",
               call'[c].win = call'[d].win, call'[c].win \notin late'
        PROVE  c = d
    BY <1>0, <2>2, Zenon DEF FirstsSound
  <2> QED BY <2>1, <2>2, Zenon DEF FirstsSound
<1> QED BY <1>2, <1>4, Zenon

\* A submission is counted.  In time, the counter of its window has not expired,
\* so that the first of the window is the only one.
LEMMA CountKept ==
    ASSUME AccessTyped, RateInv, NEW c \in Calls, CountSubmit(c)
    PROVE  RateInv'
<1> SUFFICES ASSUME PerMinute > 0 PROVE CountersSound' /\ FirstsSound'
  BY Zenon DEF RateInv
<1>w. PICK w : w = call[c].win
  OBVIOUS
<1>0. CountersSound /\ FirstsSound /\ PerMinute \in Nat
  BY AuthAssumption, Zenon DEF RateInv
<1>1. call[c].pc = "incr" /\ w \in Windows /\ w * Minute <= now
  BY <1>w, <1>0, Zenon DEF FirstsSound, CountSubmit
<1>2. /\ hits[w] \in [n : Nat, exp : Nat] /\ admitted[w] \in Nat /\ hits \in [Windows -> [n : Nat, exp : Nat]]
      /\ admitted \in [Windows -> Nat] /\ call \in [Calls -> CallRecords]
  BY <1>1, Zenon DEF AccessTyped, AuthTyped
<1>3. PICK counter \in Increments(w) :
          /\ hits' = [hits EXCEPT ![w] = counter]
          /\ IF counter.n = 1 THEN Step(c, "expire") /\ admitted' = admitted ELSE Admit(c, counter.n, w)
  BY <1>w, Zenon DEF CountSubmit
<1>4. now' = now /\ late' = late \cup {v \in {w} : Late(v)}
  BY <1>w, Zenon DEF CountSubmit, keyVars
<1>5. \A v \in Windows \ {w} : hits'[v] = hits[v] /\ admitted'[v] = admitted[v]
  BY <1>2, <1>3, Zenon DEF Admit
<1>6. \A d \in Calls \ {c} : call'[d] = call[d]
  BY <1>2, <1>3, PutFields, Zenon DEF Step, Admit, Answer
<1>7. /\ call'[c].pc \notin {"expire", "incr"} \/ (call'[c].pc = "expire" /\ call'[c].win = w)
      /\ call'[c].pc = "expire" => counter.n = 1 /\ admitted' = admitted
  <2>1. CASE counter.n = 1
    <3>1. call'[c].pc = "expire" /\ call'[c].win = w
      BY <1>w, <1>2, <1>3, <2>1 DEF Step, CallRecords
    <3> QED BY <1>3, <2>1, <3>1, Zenon
  <2>2. CASE counter.n # 1
    <3>1. call'[c] = NoCall
      BY <1>3, <2>2, PutFields, Zenon DEF Admit, Answer
    <3>2. NoCall.pc \notin {"expire", "incr"}
      BY Zenon DEF NoCall
    <3> QED BY <3>1, <3>2, Zenon
  <2> QED BY <2>1, <2>2, Zenon
<1>8. ASSUME w \notin late'
      PROVE  /\ Outlives(w)' /\ Counts(w) /\ hits'[w].n = hits[w].n + 1 /\ counter.n = hits[w].n + 1
             /\ hits[w].n \in Nat
  <2>1. w \notin late /\ ~Late(w)
    BY <1>4, <1>8, Zenon
  <2>2. Outlives(w) /\ Counts(w)
    BY <1>0, <1>1, <2>1, Zenon DEF CountersSound
  <2>3. now \in Nat /\ (w + 1) * Minute \in Nat /\ hits[w].exp \in Nat /\ hits[w].n \in Nat
    BY <1>1, <1>2, KeyAssumption, AuthAssumption DEF AccessTyped, KeysTyped, Windows
  <2>4. ~(hits[w].exp <= now)
    BY <2>1, <2>2, <2>3 DEF Late, Outlives
  <2>5. counter = [hits[w] EXCEPT !.n = @ + 1]
    BY <1>3, <2>4, Zenon DEF Increments
  <2>6. hits'[w] = counter
    BY <1>1, <1>2, <1>3, Zenon
  <2>7. counter.n = hits[w].n + 1 /\ counter.exp = hits[w].exp
    BY <1>2, <2>5
  <2> QED BY <2>2, <2>3, <2>6, <2>7, Zenon DEF Outlives
<1>9. ASSUME NEW v \in Windows, v # w PROVE Pending(v)' => Pending(v)
  BY <1>6, <1>7, <1>9, Zenon DEF Pending
<1>10. ASSUME w \notin late' PROVE Counts(w)'
  <2>1. Counts(w) /\ hits'[w].n = hits[w].n + 1 /\ counter.n = hits[w].n + 1 /\ hits[w].n \in Nat
    BY <1>8, <1>10, Zenon
  <2>2. CASE counter.n = 1
    <3>1. hits'[w].n = 1 /\ admitted'[w] = 0
      BY <1>2, <1>3, <2>1, <2>2 DEF Counts
    <3> QED BY <1>0, <3>1 DEF Counts
  <2>3. CASE counter.n # 1
    <3>1. admitted'[w] = admitted[w] \/ (hits[w].n + 1 <= PerMinute /\ admitted'[w] = admitted[w] + 1)
      BY <1>0, <1>1, <1>2, <1>3, <2>1, <2>3 DEF Admit
    <3>2. Pending(w)' => Pending(w)
      BY <1>6, <1>7, <2>3, Zenon DEF Pending
    <3> QED BY <1>0, <1>2, <2>1, <3>1, <3>2 DEF Counts
  <2> QED BY <2>2, <2>3, Zenon
<1>11. ASSUME NEW v \in Windows \ late' PROVE Outlives(v)' /\ Counts(v)'
  <2>1. CASE v = w
    BY <1>8, <1>10, <1>11, <2>1, Zenon
  <2>2. CASE v # w
    <3>1. Outlives(v) /\ Counts(v) /\ (Pending(v)' => Pending(v))
      BY <1>0, <1>4, <1>9, <2>2, Zenon DEF CountersSound
    <3> QED BY <1>5, <2>2, <3>1, Zenon DEF Outlives, Counts
  <2> QED BY <2>1, <2>2, Zenon
<1>12. FirstsSound'
  <2>1. ASSUME NEW d \in Calls, call'[d].pc \in {"incr", "expire"}
        PROVE  call'[d].win \in Windows /\ call'[d].win * Minute <= now'
    <3>1. CASE d = c
      BY <1>1, <1>4, <1>7, <2>1, <3>1, Zenon
    <3>2. CASE d # c
      BY <1>0, <1>4, <1>6, <2>1, <3>2, Zenon DEF FirstsSound
    <3> QED BY <3>1, <3>2, Zenon
  <2>2. ASSUME NEW d \in Calls, NEW e \in Calls, call'[d].pc = "expire", call'[e].pc = "expire",
               call'[d].win = call'[e].win, call'[d].win \notin late'
        PROVE  d = e
    <3>1. CASE d # c /\ e # c
      BY <1>0, <1>4, <1>6, <2>2, <3>1, Zenon DEF FirstsSound
    <3>2. CASE d = c \/ e = c
      <4>1. call'[c].pc = "expire" /\ call'[c].win = w /\ w \notin late' /\ counter.n = 1
        BY <1>7, <2>2, <3>2, Zenon
      <4>2. hits[w].n = 0 /\ Counts(w)
        BY <1>8, <4>1
      <4>3. ~Pending(w)
        BY <1>2, <4>2 DEF Counts
      <4> QED BY <1>6, <2>2, <3>2, <4>1, <4>3, Zenon DEF Pending
    <3> QED BY <3>1, <3>2, Zenon
  <2> QED BY <2>1, <2>2, Zenon DEF FirstsSound
<1> QED BY <1>11, <1>12, Zenon DEF CountersSound

\* The first call of a window sets the expiry of its counter, which outlives
\* the window, and is admitted.
LEMMA ExpireKept ==
    ASSUME AccessTyped, RateInv, NEW c \in Calls, ExpireCounter(c)
    PROVE  RateInv'
<1> SUFFICES ASSUME PerMinute > 0 PROVE CountersSound' /\ FirstsSound'
  BY Zenon DEF RateInv
<1>0. PICK w : w = call[c].win
  OBVIOUS
<1>1. CountersSound /\ FirstsSound /\ call[c].pc = "expire" /\ w \in Windows /\ w * Minute <= now
  BY <1>0, Zenon DEF ExpireCounter, RateInv, FirstsSound
<1>2. /\ admitted[w] \in Nat /\ hits \in [Windows -> [n : Nat, exp : Nat]]
      /\ admitted \in [Windows -> Nat] /\ call \in [Calls -> CallRecords]
  BY <1>1, Zenon DEF AccessTyped, AuthTyped
<1>3. now \in Nat /\ Minute \in Nat \ {0} /\ PerMinute \in Nat /\ w \in Nat /\ hits[w].n \in Nat
  <2>1. now \in Nat /\ Minute \in Nat \ {0} /\ PerMinute \in Nat
    BY KeyAssumption, AuthAssumption DEF AccessTyped, KeysTyped
  <2>2. w \in Nat
    BY <1>1 DEF Windows
  <2>3. hits[w].n \in Nat
    BY <1>1, <1>2
  <2> QED BY <2>1, <2>2, <2>3, Zenon
<1>5. /\ hits' = [hits EXCEPT ![w].exp = now + Minute + 1] /\ now' = now /\ late' = late
      /\ Admit(c, 1, w)
  BY <1>0, Zenon DEF ExpireCounter, keyVars
<1>6. Answer(c) /\ admitted' = [admitted EXCEPT ![w] = @ + 1]
  <2>1. ~(1 > PerMinute)
    BY <1>3
  <2> QED BY <1>5, <2>1, Zenon DEF Admit
<1>7. /\ hits'[w].exp = now + Minute + 1 /\ hits'[w].n = hits[w].n /\ admitted'[w] = admitted[w] + 1
      /\ \A v \in Windows \ {w} : hits'[v] = hits[v] /\ admitted'[v] = admitted[v]
  BY <1>1, <1>2, <1>5, <1>6
<1>8. call'[c] = NoCall /\ \A d \in Calls \ {c} : call'[d] = call[d]
  BY <1>6, PutFields, Zenon DEF Answer
<1>9. \A d \in Calls : call'[d].pc \in {"incr", "expire"} => call'[d] = call[d] /\ d # c
  <2>1. NoCall.pc \notin {"incr", "expire"}
    BY Zenon DEF NoCall
  <2> QED BY <1>8, <2>1, Zenon
<1>10. /\ Pending(w) /\ (w \notin late => ~Pending(w)')
       /\ \A v \in Windows : Pending(v)' => Pending(v)
  <2>1. Pending(w)
    BY <1>0, <1>1, Zenon DEF Pending
  <2>2. ASSUME w \notin late PROVE ~Pending(w)'
    BY <1>0, <1>1, <1>9, <2>2 DEF Pending, FirstsSound
  <2>3. \A v \in Windows : Pending(v)' => Pending(v)
    BY <1>9, Zenon DEF Pending
  <2> QED BY <2>1, <2>2, <2>3, Zenon
<1>11. ASSUME NEW v \in Windows \ late' PROVE Outlives(v)' /\ Counts(v)'
  <2>1. v \in Windows \ late /\ Outlives(v) /\ Counts(v)
    BY <1>1, <1>5, Zenon DEF CountersSound
  <2>2. CASE v = w
    <3>1. (w + 1) * Minute = w * Minute + Minute /\ w * Minute \in Nat
      BY <1>3
    <3>2. Outlives(v)'
      BY <1>1, <1>3, <1>7, <2>2, <3>1 DEF Outlives
    <3>3. Counts(v)'
      BY <1>2, <1>3, <1>7, <1>10, <2>1, <2>2 DEF Counts
    <3> QED BY <3>2, <3>3, Zenon
  <2>3. CASE v # w
    BY <1>7, <1>10, <2>1, <2>3, Zenon DEF Outlives, Counts
  <2> QED BY <2>2, <2>3, Zenon
<1>12. FirstsSound'
  BY <1>1, <1>5, <1>9, Zenon DEF FirstsSound
<1> QED BY <1>11, <1>12, Zenon DEF CountersSound

\* A step keeps what the rate limiter's counters rest on.
LEMMA RateStep ==
    ASSUME AccessTyped, AccessTyped', RateInv, [AccessNext]_accessVars
    PROVE  RateInv'
<1>1. call \in [Calls -> CallRecords] /\ NoCall.pc \notin {"incr", "expire"}
  BY Zenon DEF AccessTyped, AuthTyped, NoCall
<1>2. now' \in Nat
  BY KeyAssumption DEF AccessTyped, KeysTyped
<1>3. now \in Nat /\ now <= now
  BY KeyAssumption DEF AccessTyped, KeysTyped
<1>4. ASSUME hits' = hits, admitted' = admitted, late' = late, now' = now,
             \A d \in Calls : call'[d].pc \in {"incr", "expire"} =>
                 call'[d] = call[d] \/ (call'[d].pc = "incr" /\ call'[d].win = now \div Minute)
      PROVE  RateInv'
  <2>1. \A d \in Calls : call'[d].pc = "expire" => call[d].pc = "expire" /\ call'[d].win = call[d].win
    BY <1>4, Zenon
  <2>2. \A d \in Calls : call'[d].pc = "incr" =>
            \/ call[d].pc = "incr" /\ call'[d].win = call[d].win
            \/ call'[d].win = now \div Minute
    BY <1>4, Zenon
  <2> QED BY <1>2, <1>3, <1>4, <2>1, <2>2, FirstsKept, Zenon
<1>5. ASSUME NEW c \in Calls, NEW k, call' = [call EXCEPT ![c] = k], k.pc # "expire",
             k.pc = "incr" => k.win = now \div Minute,
             hits' = hits, admitted' = admitted, late' = late, now' = now
      PROVE  RateInv'
  <2>1. call'[c] = k /\ \A d \in Calls \ {c} : call'[d] = call[d]
    BY <1>5, PutFields, Zenon
  <2> QED BY <1>4, <1>5, <2>1, Zenon
<1>6. ASSUME NEW c \in Calls, Ordinary(c) PROVE RateInv'
  BY <1>5, <1>6, Zenon DEF Ordinary, Kept, Still, RedisKept
<1>7. ASSUME NEW c \in Calls, Handed(c) PROVE RateInv'
  <2>1. PICK op \in {"read", "submit"}, t \in Tokens, h \in 0..now : WithToken(c, op, t, h) /\ RedisKept /\ Still
    BY <1>7, Zenon DEF Handed
  <2>3. HandedRecord(op, t, h).pc \notin {"incr", "expire"}
    BY <2>1, HandedFields, SMT
  <2>4. PICK k : k = HandedRecord(op, t, h)
    OBVIOUS
  <2>5. call' = [call EXCEPT ![c] = k] /\ k.pc \notin {"incr", "expire"}
    BY <2>1, <2>3, <2>4, Zenon DEF WithToken, HandedRecord
  <2> QED BY <1>5, <2>1, <2>5, Zenon DEF RedisKept, Still
<1>8. ASSUME NEW c \in Calls, JwtKeysRead(c) PROVE RateInv'
  <2>1. /\ JudgeToken(c, latest["jwt"]) /\ call[c].pc \in {"sent", "keys"}
        /\ hits' = hits /\ admitted' = admitted /\ late' = late /\ now' = now
    BY <1>8, Zenon DEF JwtKeysRead, redisVars
  <2>2. PICK k : call' = [call EXCEPT ![c] = k] /\ Kept(call[c], k)
    BY <2>1, JudgeKept, Zenon
  <2> QED BY <1>5, <2>1, <2>2, Zenon DEF Kept
<1>9. ASSUME NEW c \in Calls, HandshakeNoted(c) PROVE RateInv'
  <2>1. PICK x : call' = [call EXCEPT ![c] = NotedRecord(call[c], x)]
    BY <1>9, Zenon DEF HandshakeNoted, NotedRecord
  <2>2. hits' = hits /\ admitted' = admitted /\ late' = late /\ now' = now
    BY <1>9, Zenon DEF HandshakeNoted, redisVars, keyVars
  <2>3. call'[c].pc = "hs_sign" /\ \A d \in Calls \ {c} : call'[d] = call[d]
    BY <1>1, <2>1 DEF CallRecords, NotedRecord
  <2> QED BY <1>4, <2>2, <2>3, Zenon
<1>10. ASSUME NEW c \in Calls, NonceStored(c) PROVE RateInv'
  <2>1. call'[c].pc = "limit" /\ \A d \in Calls \ {c} : call'[d] = call[d]
    BY <1>1, <1>10 DEF NonceStored, Step, CallRecords
  <2>2. hits' = hits /\ admitted' = admitted /\ late' = late /\ now' = now
    BY <1>10, Zenon DEF NonceStored, redisVars, keyVars
  <2> QED BY <1>4, <2>1, <2>2, Zenon
<1>11. ASSUME NEW c \in Calls, CountSubmit(c) \/ ExpireCounter(c) PROVE RateInv'
  BY <1>11, CountKept, ExpireKept, Zenon
<1>12. ASSUME NEW c \in Calls, NEW d \in Calls, Resend(c, d) PROVE RateInv'
  <2>1. call' = [call EXCEPT ![d] = call[c]] /\ call[c].pc \notin {"incr", "expire"}
    BY <1>12, Zenon DEF Resend
  <2>2. hits' = hits /\ admitted' = admitted /\ late' = late /\ now' = now
    BY <1>12, Zenon DEF Resend, redisVars, keyVars
  <2> QED BY <1>5, <2>1, <2>2, Zenon
<1>13. ASSUME Tick, UNCHANGED <<authVars, clientVars>> PROVE RateInv'
  <2>1. now <= now'
    BY <1>3, <1>13 DEF Tick
  <2>2. call' = call /\ hits' = hits /\ admitted' = admitted /\ late' = late
    BY <1>13, Zenon DEF authVars
  <2> QED BY <1>2, <2>1, <2>2, FirstsKept, Zenon
<1>14. ASSUME RestartService PROVE RateInv'
  <2>1. /\ hits' = hits /\ admitted' = admitted /\ late' = late /\ now' = now
        /\ call' = [c \in Calls |-> IF call[c].pc \in AtService THEN NoCall ELSE call[c]]
    BY <1>14, Zenon DEF RestartService
  <2>2. \A c \in Calls : call'[c] = NoCall \/ call'[c] = call[c]
    BY <2>1, Zenon
  <2> QED BY <1>1, <1>4, <2>1, <2>2, Zenon
<1>15. CASE (Rotate(load.rotates) /\ UNCHANGED <<authVars, clientVars>>) \/ UNCHANGED accessVars
  <2>1. call' = call /\ hits' = hits /\ admitted' = admitted /\ late' = late /\ now' = now
    BY <1>15, Zenon DEF Rotate, authVars, keyVars, accessVars
  <2> QED BY <1>4, <2>1, Zenon
<1> QED BY <1>6, <1>7, <1>8, <1>9, <1>10, <1>11, <1>12, <1>13, <1>14, <1>15, StepKinds, Zenon DEF StepKind

\* The invariant holds when the clients and the service start.
LEMMA AccessInitInv == AccessInit => AccessInv
<1> SUFFICES ASSUME AccessInit PROVE AccessInv
  OBVIOUS
<1> USE KeyAssumption, AuthAssumption DEF AccessInit, KeysInit, AuthInit
<1>1. AccessTyped
  <2>1. call \in [Calls -> CallRecords]
    BY NoCallTyped
  <2>2. KeysTyped /\ token \in Tokens
    BY DEF KeysTyped, Entries, NoEntry, LongAgo, Tokens, NoToken
  <2>3. nonceExp \in [Nonces -> Int] /\ restarts \in Nat /\ admitted \in [Windows -> Nat]
    BY DEF NoKey
  <2>4. hits \in [Windows -> [n : Nat, exp : Nat]]
    BY DEF NoExpiry
  <2> QED BY <2>1, <2>2, <2>3, <2>4 DEF AccessTyped, AuthTyped
<1>2. \A c \in Calls : call[c] = NoCall
  OBVIOUS
<1>3. TokenInv
  <2>1. NoCall.pc \notin WithCredential /\ NoCall.ts = 0 /\ NoCall.noted = 0 /\ NoCall.handed = 0
    BY Zenon DEF NoCall, WithCredential
  <2>2. now \in Nat
    OBVIOUS
  <2>3. CallsSound
    BY <1>2, <2>1, <2>2 DEF CallsSound, CallSound
  <2>4. TokenSound
    BY Zenon DEF TokenSound
  <2>5. CacheSound /\ NeverOrRotated
    BY DEF CacheSound, NeverOrRotated, Keys
  <2> QED BY <2>3, <2>4, <2>5, Zenon DEF TokenInv
<1>4. NoncesSound
  <2>1. NoCall.nonce = NoNonce /\ ~Hand(NoCall)
    BY Zenon DEF Hand, WithHandshake, NoCall
  <2> QED BY <1>2, <2>1, Zenon DEF NoncesSound, NonceSound
<1>5. RateInv
  <2>1. \A w \in Windows : /\ hits[w].exp = MaxClock + Minute + 2 /\ hits[w].n = 0 /\ admitted[w] = 0
                           /\ MaxClock + Minute + 2 > (w + 1) * Minute
    <3>1. ASSUME NEW w \in Windows PROVE MaxClock + Minute + 2 > (w + 1) * Minute
      <4>1. MaxClock \in Nat /\ Minute \in Nat \ {0}
        OBVIOUS
      <4>2. MaxClock \div Minute \in Nat /\ Minute * (MaxClock \div Minute) <= MaxClock
        BY <4>1, DivFacts
      <4>3. PICK last \in Nat : last = MaxClock \div Minute
        BY <4>2
      <4>4. w \in Nat /\ w <= last
        BY <4>2, <4>3 DEF Windows
      <4>5. Minute * w <= Minute * last
        BY <4>1, <4>3, <4>4
      <4>6. (w + 1) * Minute = Minute * w + Minute /\ Minute * w \in Nat /\ Minute * last \in Nat
        BY <4>1, <4>3, <4>4
      <4> QED BY <4>1, <4>2, <4>3, <4>5, <4>6
    <3> QED BY <3>1 DEF NoExpiry
  <2>2. \A w \in Windows : ~Pending(w)
    BY <1>2, Zenon DEF Pending, NoCall
  <2>3. CountersSound
    BY <2>1, <2>2, AuthAssumption DEF CountersSound, Outlives, Counts
  <2>4. FirstsSound
    BY <1>2, Zenon DEF FirstsSound, NoCall
  <2> QED BY <2>3, <2>4 DEF RateInv
<1>6. load \in Loads
  BY Zenon
<1> HIDE DEF AccessInit
<1> QED BY <1>1, <1>3, <1>4, <1>5, <1>6 DEF AccessInv

\* No step changes the workload.
LEMMA LoadStep == [AccessNext]_accessVars => load' = load
BY Zenon DEF AccessNext, CallStep, Environment, accessVars, clientVars, StressCall, DashboardCall,
       DashboardWaits, LockTaken, TokenSigned, SignFails, HandshakeNoted, HandshakeSigned, HandshakeFails, Resend

\* Every behaviour of the clients and the service satisfies the invariant.
LEMMA AccessInvariant == AccessSpec => []AccessInv
<1>1. AccessInv /\ [AccessNext]_accessVars => AccessInv'
  BY LoadStep, TypedStep, TokenStep, NonceStep, RateStep, Zenon DEF AccessInv, TokenInv
<1> QED BY AccessInitInv, <1>1, PTL DEF AccessSpec

\* A token that a client signed in good order is refused only after a rotation
\* within its lifetime or that of the service's key cache, or when the call was
\* on its way for more than the refresh skew and the leeway
\* (verify_jwt_credentials, VaultPublicKeyCache, _DashboardJWTCache).
THEOREM DenialsHaveCauses == AccessSpec => []DenialHasCause
<1>1. AccessInv => DenialHasCause
  <2> SUFFICES ASSUME AccessInv, NEW c \in Calls,
                      \/ call[c].pc = "sent" /\ Cached("jwt") /\ ~TokenValid(call[c].token, cache["jwt"].ver)
                      \/ call[c].pc = "keys" /\ ~TokenValid(call[c].token, latest["jwt"])
               PROVE  \/ rotatedAt["jwt"] >= now - KeyTtl
                      \/ rotatedAt["jwt"] >= call[c].handed - (Ttl - Skew)
                      \/ now - call[c].handed >= Skew + Leeway
    BY Zenon DEF DenialHasCause
  <2> DEFINE t == call[c].token
             rotated == rotatedAt["jwt"]
  <2>1. /\ now \in Nat /\ rotated \in Int /\ call[c].handed \in Nat /\ cache["jwt"].exp \in Nat
        /\ t.iat \in Nat /\ t.exp \in Nat
    BY DEF AccessInv, AccessTyped, KeysTyped, AuthTyped, CallRecords, Tokens, Entries, Keys
  <2>2. KeyTtl \in Nat /\ Ttl \in Nat /\ Skew \in Nat /\ Leeway \in Nat /\ MaxLifetime \in Nat
    BY KeyAssumption, AuthAssumption, AccessAssumption
  <2>3. /\ t.exp = t.iat + Ttl /\ t.iat <= now /\ t.exp >= call[c].handed + Skew
        /\ t.ver = latest["jwt"] \/ rotated >= t.iat
    <3>1. call[c].pc \in WithCredential /\ CallSound(call[c])
      BY Zenon DEF AccessInv, TokenInv, CallsSound, WithCredential
    <3> QED BY <3>1, Zenon DEF CallSound, Sound
  <2>4. CASE t.exp <= now - Leeway
    BY <2>1, <2>2, <2>3, <2>4
  <2>5. CASE t.exp > now - Leeway
    <3>1. t.iat <= now + Leeway /\ t.exp - t.iat <= MaxLifetime
      BY <2>1, <2>2, <2>3, LifetimeAssumption
    <3>2. CASE rotated >= t.iat
      BY <2>1, <2>2, <2>3, <3>2
    <3>3. CASE t.ver = latest["jwt"]
      <4>1. Cached("jwt") /\ cache["jwt"].ver # latest["jwt"]
        BY <2>5, <3>1, <3>3 DEF TokenValid
      <4>2. rotated >= cache["jwt"].exp - KeyTtl /\ cache["jwt"].exp > now
        BY <4>1 DEF AccessInv, TokenInv, CacheSound, Cached
      <4> QED BY <2>1, <2>2, <4>2
    <3> QED BY <2>3, <3>2, <3>3, Zenon
  <2> QED BY <2>1, <2>2, <2>4, <2>5
<1> QED BY AccessInvariant, <1>1, PTL

\* However calls, the separate EXPIRE, the clock and restarts interleave, no
\* rate-limit window admits more submissions than its limit, unless one of its
\* INCRs reached Redis when the counter may have been dropped
\* (RedisSubmitRateLimiter).
THEOREM WindowsKeepTheirLimit == AccessSpec => []SubmitsPerWindow
<1>1. AccessInv => SubmitsPerWindow
  BY Zenon DEF AccessInv, RateInv, CountersSound, Counts, SubmitsPerWindow
<1> QED BY AccessInvariant, <1>1, PTL

\* Of two copies of one submission at most one passes the replay guard, unless
\* its timestamp was ahead of the service's clock, or the second SET reached
\* Redis when the time window of the handshake was over (RedisReplayGuard).
THEOREM CopiesAcceptedOnce == AccessSpec => SubmissionAcceptedOnce
<1> DEFINE Once == \A n \in Nonces :
                       nonceExp'[n] # nonceExp[n] /\ nonceExp[n] # NoKey =>
                           \A c \in Calls :
                               call[c].nonce = n => call[c].ahead \/ now >= call[c].ts + Window
<1>1. AccessInv /\ [AccessNext]_accessVars => [Once]_accessVars
  <2> SUFFICES ASSUME AccessInv, [AccessNext]_accessVars,
                      NEW n \in Nonces, nonceExp'[n] # nonceExp[n], nonceExp[n] # NoKey,
                      NEW d \in Calls, call[d].nonce = n, ~call[d].ahead
               PROVE  now >= call[d].ts + Window
    OBVIOUS
  <2>1. AccessTyped /\ NoncesSound
    BY DEF AccessInv
  <2>2. PICK c \in Calls : NonceStored(c)
    <3>1. /\ \A c \in Calls : ~Ordinary(c) /\ ~Handed(c) /\ ~JwtKeysRead(c) /\ ~HandshakeNoted(c)
          /\ \A c \in Calls : ~CountSubmit(c) /\ ~ExpireCounter(c) /\ \A e \in Calls : ~Resend(c, e)
      BY Zenon DEF Ordinary, Handed, RedisKept, JwtKeysRead, HandshakeNoted, CountSubmit, ExpireCounter, Resend, redisVars
    <3>2. ~UNCHANGED authVars /\ ~RestartService
      BY Zenon DEF authVars, RestartService
    <3> QED BY <2>1, <3>1, <3>2, StepKinds, Zenon DEF StepKind, accessVars
  <2>3. call[c].nonce = n
    BY <2>1, <2>2 DEF NonceStored, AccessTyped, AuthTyped
  <2>4. nonceExp[n] >= call[d].ts + Window
    BY <2>1, Zenon DEF NoncesSound, NonceSound
  <2>5. nonceExp[n] <= now
    BY <2>2, <2>3, Zenon DEF NonceStored, Absent
  <2>6. now \in Int /\ Window \in Int /\ nonceExp[n] \in Int /\ call[d].ts \in Int
    BY <2>1, AuthAssumption DEF AccessTyped, KeysTyped, AuthTyped, CallRecords
  <2> QED BY <2>4, <2>5, <2>6
<1> QED BY AccessInvariant, <1>1, PTL DEF AccessSpec, SubmissionAcceptedOnce

\* Of the requests that find no usable token only the first asks Vault for one:
\* the lock of the cache is taken only when the cached token has come within
\* the refresh skew of its end (_DashboardJWTCache.get_token).
THEOREM TokensRefreshedOnce == AccessSpec => RefreshesPaced
<1> DEFINE Paced == lock = NoCaller /\ lock' # NoCaller =>
                        token = NoToken \/ now - token.iat >= Ttl - Skew
<1>1. AccessInv /\ [AccessNext]_accessVars => [Paced]_accessVars
  <2> SUFFICES ASSUME AccessInv, [AccessNext]_accessVars, lock = NoCaller, lock' # NoCaller, token # NoToken
               PROVE  now - token.iat >= Ttl - Skew
    OBVIOUS
  <2>1. ~Usable
    <3>1. PICK c \in Calls : LockTaken(c)
      BY Zenon DEF AccessNext, CallStep, Environment, accessVars, clientVars, TokenSigned, SignFails,
             HandshakeNoted, HandshakeSigned, HandshakeFails, Resend, DashboardCall, DashboardWaits, StressCall
    <3> QED BY <3>1, Zenon DEF LockTaken
  <2>2. token.exp = token.iat + Ttl
    BY Zenon DEF AccessInv, TokenInv, TokenSound, Sound
  <2>3. now \in Int /\ token.iat \in Int /\ token.exp \in Int /\ Ttl \in Int /\ Skew \in Int
    BY AccessAssumption DEF AccessInv, AccessTyped, KeysTyped, Tokens
  <2> QED BY <2>1, <2>2, <2>3 DEF Usable
<1> QED BY AccessInvariant, <1>1, PTL DEF AccessSpec, RefreshesPaced

=============================================================================
