----------------------------- MODULE VaultKeys ------------------------------
(***************************************************************************)
(* The clock, the versions of the Vault Transit keys that sign tokens and   *)
(* bank handshakes, and the public-key cache of one service                 *)
(* (VaultPublicKeyCache, vellum_core/vault.py).  Vault keeps the versions   *)
(* before the latest, so a set of versions is told by its largest member.   *)
(* Time is counted in whole ticks; the containers share the host's clock.   *)
(***************************************************************************)
EXTENDS Integers

CONSTANTS KeyTtl,        \* ttl_seconds of the public-key cache
          MaxClock,      \* bound: ticks
          MaxRotations   \* bound: rotations of the two keys

ASSUME KeyAssumption == KeyTtl \in Nat \ {0} /\ MaxClock \in Nat /\ MaxRotations \in Nat

VARIABLES
    now,        \* time.time()
    latest,     \* latest[k]: the latest version of key k in Vault
    rotatedAt,  \* history: when key k was last rotated
    cache       \* cache[k]: _cache of the service, its expiry and versions

keyVars == <<now, latest, rotatedAt, cache>>

Keys == {"jwt", "bank"}

\* A key that was never rotated, and a cache without an entry.
LongAgo == -1000
NoEntry == [exp |-> 0, ver |-> 0]

KeysInit ==
    /\ now = 0
    /\ latest = [k \in Keys |-> 1]
    /\ rotatedAt = [k \in Keys |-> LongAgo]
    /\ cache = [k \in Keys |-> NoEntry]

Tick ==
    /\ now < MaxClock
    /\ now' = now + 1
    /\ UNCHANGED <<latest, rotatedAt, cache>>

\* An operator rotates a Transit key: signatures use the new version at once.
Rotate(k) ==
    /\ latest["jwt"] + latest["bank"] < MaxRotations + 2
    /\ latest' = [latest EXCEPT ![k] = @ + 1]
    /\ rotatedAt' = [rotatedAt EXCEPT ![k] = now]
    /\ UNCHANGED <<now, cache>>

-----------------------------------------------------------------------------
\* Mutant of Cached: an entry of the cache never expires.
Cached_Forever(k) == cache[k] # NoEntry

\* _get_versions answers from the cache.
Cached(k) == cache[k] # NoEntry /\ cache[k].exp > now

\* _get_versions read the versions from Vault: asked is the time it noted
\* before it waited for the answer.
StoreVersions(k, asked) == cache' = [cache EXCEPT ![k] = [exp |-> asked + KeyTtl, ver |-> latest[k]]]

\* get_public_key drops the entry that misses the version it was asked for.
DropEntry(k) == cache' = [cache EXCEPT ![k] = NoEntry]

=============================================================================
