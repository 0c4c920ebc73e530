----------------------------- MODULE AuditVerify ----------------------------
(***************************************************************************)
(* VellumIntegrityService.verify_chain (vellum_core/proof_store.py) over a  *)
(* chain that writers go on extending, with the shared VaultPublicKeyCache  *)
(* (vellum_core/vault.py) of the verifier process and a Vault key that is   *)
(* rotated meanwhile.  Verifiers are concurrent requests of one process:    *)
(* they interleave at each await, and share the cache.                      *)
(*                                                                         *)
(* Storage may damage a field of a stored row, as the repository's tests do *)
(* to see verify_chain report it; "written" remembers what append_event     *)
(* stored.                                                                  *)
(***************************************************************************)
EXTENDS AuditChain

CONSTANTS Verifiers,    \* concurrent verify_chain requests
          MaxDamage     \* bound: fields damaged in storage

ASSUME VerifyAssumption == MaxDamage \in Nat

VARIABLES
    written,    \* history: the rows as append_event wrote them
    damage,     \* fields damaged so far
    cache,      \* versions in the key cache; {} is no entry, or an expired one
    vpc,        \* vpc[v]: the point of verify_chain that v has reached
    snap,       \* snap[v]: the rows v has listed
    idx,        \* idx[v]: the row of snap[v] that v checks
    refreshed,  \* refreshed[v]: the cache entry was dropped for this row
    got,        \* got[v]: versions in Vault's answer, not stored yet
    report,     \* report[v]: what verify_chain answered
    vaultFailed \* history: Vault failed a read of this verification

callVars == <<vpc, snap, idx, refreshed, got, report, vaultFailed>>
verifyVars == <<written, damage, cache, callVars>>
allVars == <<chainVars, verifyVars>>

-----------------------------------------------------------------------------
\* A signature that is not vault:vN:<base64>, the "" of a blank key_version,
\* and a version Vault does not have.
Malformed == [digest |-> Genesis, key |-> 0]
Blank == 0
UnknownVersion == MaxKeyVersion + 1

NoReport == [kind |-> "none", at |-> 0]

Row(v) == snap[v][idx[v]]

\* previous_entry_hash of the verification loop.
ExpectedLink(v) == IF idx[v] = 1 THEN Genesis ELSE snap[v][idx[v] - 1].entry_hash

\* Mutant of LinkAndHashHold: the hash is not recomputed from the row.
LinkAndHashHold_NoHash(v) ==
    Row(v).previous_entry_hash = ExpectedLink(v)

LinkAndHashHold(v) ==
    /\ Row(v).previous_entry_hash = ExpectedLink(v)
    /\ Row(v).entry_hash = HashRecord(Row(v).content, Row(v).previous_entry_hash)

\* Mutant of ResolvedVersion: the row's version is not asked for.
ResolvedVersion_Latest(v) == keyVersion

\* row.key_version, or the version inside the signature when it is blank.
ResolvedVersion(v) ==
    IF Row(v).key_version # Blank THEN Row(v).key_version ELSE Row(v).signature.key

SignatureHolds(v) ==
    Row(v).signature = [digest |-> Row(v).entry_hash, key |-> ResolvedVersion(v)]

-----------------------------------------------------------------------------
VerifyInit ==
    /\ ChainInit
    /\ written = <<>>
    /\ damage = 0
    /\ cache = {}
    /\ vpc = [v \in Verifiers |-> "idle"]
    /\ snap = [v \in Verifiers |-> <<>>]
    /\ idx = [v \in Verifiers |-> 1]
    /\ refreshed = [v \in Verifiers |-> FALSE]
    /\ got = [v \in Verifiers |-> {}]
    /\ report = [v \in Verifiers |-> NoReport]
    /\ vaultFailed = [v \in Verifiers |-> FALSE]

\* The writers, the clock and the key rotation of AuditChain.
ChainStep ==
    /\ ChainNext
    /\ written' = IF Len(rows') > Len(rows) THEN Append(written, rows'[Len(rows')]) ELSE written
    /\ UNCHANGED <<damage, cache, callVars>>

Answer(v, kind, at) ==
    /\ report' = [report EXCEPT ![v] = [kind |-> kind, at |-> at]]
    /\ vpc' = [vpc EXCEPT ![v] = "done"]

\* rows = await list_audit_rows(): one read of the whole table.
ListAuditRows(v) ==
    /\ vpc[v] \in {"idle", "done"}
    /\ vpc' = [vpc EXCEPT ![v] = "check"]
    /\ snap' = [snap EXCEPT ![v] = rows]
    /\ idx' = [idx EXCEPT ![v] = 1]
    /\ refreshed' = [refreshed EXCEPT ![v] = FALSE]
    /\ got' = [got EXCEPT ![v] = {}]
    /\ report' = [report EXCEPT ![v] = NoReport]
    /\ vaultFailed' = [vaultFailed EXCEPT ![v] = FALSE]
    /\ UNCHANGED <<chainVars, written, damage, cache>>

ChainValid(v) ==
    /\ vpc[v] = "check"
    /\ idx[v] > Len(snap[v])
    /\ Answer(v, "valid", 0)
    /\ UNCHANGED <<chainVars, written, damage, cache, snap, idx, refreshed, got, vaultFailed>>

\* Broken link, or entry hash mismatch.
RowBroken(v) ==
    /\ vpc[v] = "check"
    /\ idx[v] <= Len(snap[v])
    /\ ~LinkAndHashHold(v)
    /\ Answer(v, "broken", idx[v])
    /\ UNCHANGED <<chainVars, written, damage, cache, snap, idx, refreshed, got, vaultFailed>>

\* decode_signature raises: the request fails without a report.
SignatureUndecodable(v) ==
    /\ vpc[v] = "check"
    /\ idx[v] <= Len(snap[v])
    /\ LinkAndHashHold(v)
    /\ Row(v).signature = Malformed
    /\ Answer(v, "raised", idx[v])
    /\ UNCHANGED <<chainVars, written, damage, cache, snap, idx, refreshed, got, vaultFailed>>

\* With the key at hand the signature decides: the next row, or the answer.
JudgeSignature(v) ==
    \/ /\ SignatureHolds(v)
       /\ idx' = [idx EXCEPT ![v] = @ + 1]
       /\ vpc' = [vpc EXCEPT ![v] = "check"]
       /\ UNCHANGED report
    \/ /\ ~SignatureHolds(v)
       /\ Answer(v, "broken", idx[v])
       /\ UNCHANGED idx

ReadyForKey(v) ==
    /\ vpc[v] = "check"
    /\ idx[v] <= Len(snap[v])
    /\ LinkAndHashHold(v)
    /\ Row(v).signature # Malformed

\* get_public_key finds the version in a fresh cache entry.
KeyCached(v) ==
    /\ ReadyForKey(v)
    /\ ResolvedVersion(v) \in cache
    /\ JudgeSignature(v)
    /\ UNCHANGED <<chainVars, written, damage, cache, snap, refreshed, got, vaultFailed>>

\* Mutant of KeyMissing: a version that is not in a fresh entry is an error.
KeyMissing_NoRefresh(v) ==
    /\ ReadyForKey(v)
    /\ ResolvedVersion(v) \notin cache
    /\ refreshed' = [refreshed EXCEPT ![v] = TRUE]
    /\ cache' = {}
    /\ IF cache = {} THEN vpc' = [vpc EXCEPT ![v] = "fetch"] /\ UNCHANGED report
                     ELSE Answer(v, "raised", idx[v])
    /\ UNCHANGED <<chainVars, written, damage, snap, idx, got, vaultFailed>>

\* No entry: fetch it.  An entry without the version: drop it and fetch once.
KeyMissing(v) ==
    /\ ReadyForKey(v)
    /\ ResolvedVersion(v) \notin cache
    /\ refreshed' = [refreshed EXCEPT ![v] = cache # {}]
    /\ cache' = {}
    /\ vpc' = [vpc EXCEPT ![v] = "fetch"]
    /\ UNCHANGED <<chainVars, written, damage, snap, idx, got, report, vaultFailed>>

\* Vault answers read_public_keys; the coroutine resumes later.
ReadPublicKeys(v) ==
    /\ vpc[v] = "fetch"
    /\ got' = [got EXCEPT ![v] = 1..keyVersion]
    /\ vpc' = [vpc EXCEPT ![v] = "store"]
    /\ UNCHANGED <<chainVars, written, damage, cache, snap, idx, refreshed, report, vaultFailed>>

\* raise_for_status, a timeout or a connection error of the Vault request.
ReadPublicKeysFails(v) ==
    /\ vpc[v] = "fetch"
    /\ vaultFailed' = [vaultFailed EXCEPT ![v] = TRUE]
    /\ Answer(v, "raised", idx[v])
    /\ UNCHANGED <<chainVars, written, damage, cache, snap, idx, refreshed, got>>

\* The coroutine stores the answer, over whatever entry is there by now, and
\* uses its own copy of it.
StoreKeys(v) ==
    /\ vpc[v] = "store"
    /\ ResolvedVersion(v) \in got[v]
    /\ cache' = got[v]
    /\ got' = [got EXCEPT ![v] = {}]
    /\ JudgeSignature(v)
    /\ UNCHANGED <<chainVars, written, damage, snap, refreshed, vaultFailed>>

\* Mutant of StoreKeysMissing: the refresh is repeated without end.
StoreKeysMissing_Again(v) ==
    /\ vpc[v] = "store"
    /\ ResolvedVersion(v) \notin got[v]
    /\ got' = [got EXCEPT ![v] = {}]
    /\ cache' = {}
    /\ refreshed' = [refreshed EXCEPT ![v] = TRUE]
    /\ vpc' = [vpc EXCEPT ![v] = "fetch"]
    /\ UNCHANGED <<report, chainVars, written, damage, snap, idx, vaultFailed>>

\* The answer lacks the version: drop it and fetch once more, or raise.
StoreKeysMissing(v) ==
    /\ vpc[v] = "store"
    /\ ResolvedVersion(v) \notin got[v]
    /\ got' = [got EXCEPT ![v] = {}]
    /\ \/ /\ ~refreshed[v]
          /\ cache' = {}
          /\ refreshed' = [refreshed EXCEPT ![v] = TRUE]
          /\ vpc' = [vpc EXCEPT ![v] = "fetch"]
          /\ UNCHANGED report
       \/ /\ refreshed[v]
          /\ cache' = got[v]
          /\ Answer(v, "raised", idx[v])
          /\ UNCHANGED refreshed
    /\ UNCHANGED <<chainVars, written, damage, snap, idx, vaultFailed>>

\* ttl_seconds pass.
ExpireCache ==
    /\ cache # {}
    /\ cache' = {}
    /\ UNCHANGED <<chainVars, written, damage, callVars>>

\* The values a damaged field of row r may have.
DamagedRows(r) ==
    LET other == HashRecord([r.content EXCEPT !.timestamp = @ + 1], r.previous_entry_hash) IN
    {[r EXCEPT !.content.timestamp = @ + 1],
     [r EXCEPT !.previous_entry_hash = other],
     [r EXCEPT !.entry_hash = other],
     [r EXCEPT !.signature = Malformed],
     [r EXCEPT !.signature.digest = Genesis],
     [r EXCEPT !.key_version = Blank],
     [r EXCEPT !.key_version = UnknownVersion]}

\* Storage damages one field of one row.
DamageRow ==
    /\ damage < MaxDamage
    /\ damage' = damage + 1
    /\ \E n \in 1..Len(rows) : \E r \in DamagedRows(rows[n]) :
           rows' = [rows EXCEPT ![n] = r]
    /\ UNCHANGED <<lock, keyVersion, clock, pc, event, tries, prev, stamp, signedBy, calls, base,
                   written, cache, callVars>>

VerifyStep(v) ==
    \/ ChainValid(v)
    \/ RowBroken(v)
    \/ SignatureUndecodable(v)
    \/ KeyCached(v)
    \/ KeyMissing(v)
    \/ ReadPublicKeys(v)
    \/ StoreKeys(v)
    \/ StoreKeysMissing(v)

VerifyNext ==
    \/ ChainStep
    \/ \E v \in Verifiers : ListAuditRows(v) \/ VerifyStep(v) \/ ReadPublicKeysFails(v)
    \/ ExpireCache
    \/ DamageRow

\* Every await of a verification completes; nobody has to call it.
VerifySpec ==
    /\ VerifyInit
    /\ [][VerifyNext]_allVars
    /\ \A v \in Verifiers : WF_allVars(VerifyStep(v))

-----------------------------------------------------------------------------
\* The columns that the signature protects.
Audited(r) == [content |-> r.content, link |-> r.previous_entry_hash, hash |-> r.entry_hash]

\* "valid" is only answered when every row that was listed says what
\* append_event wrote, in content, link and hash.
ValidMeansUndamaged ==
    \A v \in Verifiers :
        report[v].kind = "valid" =>
            \A n \in 1..Len(snap[v]) : Audited(snap[v][n]) = Audited(written[n])

\* first_broken_index names a row that storage damaged, and the rows before
\* it say what append_event wrote.  A chain nobody damaged is never reported
\* broken, whatever is appended, rotated or cached meanwhile.
BrokenMeansDamagedThere ==
    \A v \in Verifiers :
        report[v].kind = "broken" =>
            /\ snap[v][report[v].at] # written[report[v].at]
            /\ \A n \in 1..(report[v].at - 1) : Audited(snap[v][n]) = Audited(written[n])

\* verify_chain fails without a report only if Vault could not be read or a
\* stored row is damaged: a key version created after the cache entry, or a
\* concurrent request that stores an older answer over a newer one, never
\* makes it fail.
ErrorMeansVaultOrDamage ==
    \A v \in Verifiers :
        report[v].kind = "raised" =>
            vaultFailed[v] \/ snap[v][report[v].at] # written[report[v].at]

\* A verification that began ends, whatever versions the rows name.
VerificationEnds ==
    \A v \in Verifiers : vpc[v] = "check" ~> vpc[v] = "done"

=============================================================================
