----------------------------- MODULE AuditChain -----------------------------
(***************************************************************************)
(* The signed audit chain: VellumAuditStore.append_event                    *)
(* (vellum_core/proof_store.py) on top of Database.append_audit_row         *)
(* (vellum_core/database.py).  Writers are the processes that call          *)
(* append_event concurrently: prover requests, Celery workers, verifier     *)
(* requests.  Each writer reads the latest row, signs a link to it in       *)
(* Vault, and appends it under a PostgreSQL advisory lock if the latest row *)
(* is still the one it read; otherwise it tries again, MaxTries times in    *)
(* all (the literal 8 of the code).                                         *)
(*                                                                         *)
(* A digest is modelled by the sequence of contents it commits to, so two   *)
(* digests are equal exactly when everything hashed is equal: SHA-256       *)
(* collisions are left out, and nothing else is.                            *)
(***************************************************************************)
EXTENDS Integers, Sequences

CONSTANTS Writers,        \* processes that append audit events
          Events,         \* what an event says: proof id, status, metadata...
          NoWriter,       \* the advisory lock is free
          MaxTries,       \* tries of one append_event call
          MaxCalls,       \* bound: calls one writer makes
          MaxClock,       \* bound: the clock, in the seconds of a timestamp
          MaxKeyVersion   \* bound: versions of the Vault audit key

ASSUME ChainAssumption ==
    /\ NoWriter \notin Writers
    /\ Events # {}
    /\ MaxTries \in Nat \ {0}
    /\ MaxCalls \in Nat
    /\ MaxClock \in Nat
    /\ MaxKeyVersion \in Nat \ {0}

VARIABLES
    rows,         \* the audit_log table, in id order
    lock,         \* the writer whose transaction holds the advisory lock
    keyVersion,   \* latest version of the Vault transit key
    clock,        \* wall clock, truncated to seconds
    pc,           \* pc[w]: the point of append_event that w has reached
    event,        \* event[w]: the event w appends
    tries,        \* tries[w]: iterations of the retry loop begun
    prev,         \* prev[w]: previous_entry_hash that w has read
    stamp,        \* stamp[w]: timestamp that w has computed
    signedBy,     \* signedBy[w]: key version of w's signature
    calls,        \* calls[w]: calls begun by w
    base          \* history: length of the chain when w's call began

chainVars == <<rows, lock, keyVersion, clock, pc, event, tries, prev, stamp,
               signedBy, calls, base>>

-----------------------------------------------------------------------------
Contents == [event : Events, timestamp : Nat]

Digests == Seq(Contents)

\* The "" that stands before the first row.
Genesis == <<>>

\* The hash of a link payload: everything in the row and the link itself.
HashRecord(content, previous) == Append(previous, content)

Signatures == [digest : Digests, key : Nat]

Rows == [content             : Contents,
         previous_entry_hash : Digests,
         entry_hash          : Digests,
         signature           : Signatures,
         key_version         : Nat]

\* entry_hash of the n-th row; the empty table has the genesis hash.
HashAt(n) == IF n = 0 THEN Genesis ELSE rows[n].entry_hash

LatestHash == HashAt(Len(rows))

\* The row w inserts: its content, the link, the digest and the signature.
RowOf(w) ==
    LET content == [event |-> event[w], timestamp |-> stamp[w]]
        digest  == HashRecord(content, prev[w])
    IN  [content             |-> content,
         previous_entry_hash |-> prev[w],
         entry_hash          |-> digest,
         signature           |-> [digest |-> digest, key |-> signedBy[w]],
         key_version         |-> signedBy[w]]

\* No call in progress: not begun, returned, or raised.
Idle == {"idle", "ok", "exhausted", "failed"}

\* Inside the transaction that holds the advisory lock.
Locked == {"check", "insert"}

\* A link has been read and not yet appended.
Linking == {"sign", "lock"} \cup Locked

Active == {"read", "committed"} \cup Linking

-----------------------------------------------------------------------------
ChainInit ==
    /\ rows = <<>>
    /\ lock = NoWriter
    /\ keyVersion = 1
    /\ clock = 0
    /\ pc = [w \in Writers |-> "idle"]
    /\ event \in [Writers -> Events]
    /\ tries = [w \in Writers |-> 0]
    /\ prev = [w \in Writers |-> Genesis]
    /\ stamp = [w \in Writers |-> 0]
    /\ signedBy = [w \in Writers |-> 0]
    /\ calls = [w \in Writers |-> 0]
    /\ base = [w \in Writers |-> 0]

\* Mutant of AppendEvent: the retry counter survives from the last call.
AppendEvent_KeepTries(w, e) ==
    /\ pc[w] \in Idle
    /\ calls[w] < MaxCalls
    /\ pc' = [pc EXCEPT ![w] = "read"]
    /\ event' = [event EXCEPT ![w] = e]
    /\ calls' = [calls EXCEPT ![w] = @ + 1]
    /\ base' = [base EXCEPT ![w] = Len(rows)]
    /\ UNCHANGED <<rows, lock, keyVersion, clock, tries, prev, stamp, signedBy>>

\* append_event is called with an event.
AppendEvent(w, e) ==
    /\ pc[w] \in Idle
    /\ calls[w] < MaxCalls
    /\ pc' = [pc EXCEPT ![w] = "read"]
    /\ event' = [event EXCEPT ![w] = e]
    /\ tries' = [tries EXCEPT ![w] = 0]
    /\ calls' = [calls EXCEPT ![w] = @ + 1]
    /\ base' = [base EXCEPT ![w] = Len(rows)]
    /\ UNCHANGED <<rows, lock, keyVersion, clock, prev, stamp, signedBy>>

\* Mutant of ReadLatest: the timestamp is taken once, outside the loop.
ReadLatest_StampOnce(w) ==
    /\ pc[w] = "read"
    /\ pc' = [pc EXCEPT ![w] = "sign"]
    /\ tries' = [tries EXCEPT ![w] = @ + 1]
    /\ prev' = [prev EXCEPT ![w] = LatestHash]
    /\ stamp' = [stamp EXCEPT ![w] = IF tries[w] = 0 THEN clock ELSE @]
    /\ UNCHANGED <<rows, lock, keyVersion, clock, event, signedBy, calls, base>>

\* Top of the retry loop: get_latest_audit_row, then a fresh timestamp.
ReadLatest(w) ==
    /\ pc[w] = "read"
    /\ pc' = [pc EXCEPT ![w] = "sign"]
    /\ tries' = [tries EXCEPT ![w] = @ + 1]
    /\ prev' = [prev EXCEPT ![w] = LatestHash]
    /\ stamp' = [stamp EXCEPT ![w] = clock]
    /\ UNCHANGED <<rows, lock, keyVersion, clock, event, signedBy, calls, base>>

\* await vault.sign: Vault uses the latest version of the audit key.
VaultSign(w) ==
    /\ pc[w] = "sign"
    /\ pc' = [pc EXCEPT ![w] = "lock"]
    /\ signedBy' = [signedBy EXCEPT ![w] = keyVersion]
    /\ UNCHANGED <<rows, lock, keyVersion, clock, event, tries, prev, stamp,
                   calls, base>>

\* SELECT pg_advisory_xact_lock: waits until no transaction holds the lock.
AcquireLock(w) ==
    /\ pc[w] = "lock"
    /\ lock = NoWriter
    /\ lock' = w
    /\ pc' = [pc EXCEPT ![w] = "check"]
    /\ UNCHANGED <<rows, keyVersion, clock, event, tries, prev, stamp,
                   signedBy, calls, base>>

\* Mutant of PreviousMatches: the latest row is not compared again.
PreviousMatches_NoCompare(w) ==
    /\ pc[w] = "check"
    /\ pc' = [pc EXCEPT ![w] = "insert"]
    /\ UNCHANGED <<rows, lock, keyVersion, clock, event, tries, prev, stamp,
                   signedBy, calls, base>>

\* The latest row, read under the lock, is still the one w linked to.
PreviousMatches(w) ==
    /\ pc[w] = "check"
    /\ prev[w] = LatestHash
    /\ pc' = [pc EXCEPT ![w] = "insert"]
    /\ UNCHANGED <<rows, lock, keyVersion, clock, event, tries, prev, stamp,
                   signedBy, calls, base>>

\* Mutant of ChainConflict: the transaction is left open.
ChainConflict_KeepLock(w) ==
    /\ pc[w] = "check"
    /\ prev[w] # LatestHash
    /\ pc' = [pc EXCEPT ![w] = IF tries[w] < MaxTries THEN "read" ELSE "exhausted"]
    /\ UNCHANGED <<rows, lock, keyVersion, clock, event, tries, prev, stamp,
                   signedBy, calls, base>>

\* audit_chain_conflict: the transaction ends, the loop tries again or,
\* after the last try, append_event raises.
ChainConflict(w) ==
    /\ pc[w] = "check"
    /\ prev[w] # LatestHash
    /\ lock' = NoWriter
    /\ pc' = [pc EXCEPT ![w] = IF tries[w] < MaxTries THEN "read" ELSE "exhausted"]
    /\ UNCHANGED <<rows, keyVersion, clock, event, tries, prev, stamp,
                   signedBy, calls, base>>

\* Mutant of InsertRow: the loop is not left after a successful insert.
InsertRow_NoBreak(w) ==
    /\ pc[w] = "insert"
    /\ rows' = Append(rows, RowOf(w))
    /\ lock' = NoWriter
    /\ pc' = [pc EXCEPT ![w] = IF tries[w] < MaxTries THEN "read" ELSE "committed"]
    /\ UNCHANGED <<keyVersion, clock, event, tries, prev, stamp, signedBy,
                   calls, base>>

\* The row is inserted and committed; the commit releases the lock.
InsertRow(w) ==
    /\ pc[w] = "insert"
    /\ rows' = Append(rows, RowOf(w))
    /\ lock' = NoWriter
    /\ pc' = [pc EXCEPT ![w] = "committed"]
    /\ UNCHANGED <<keyVersion, clock, event, tries, prev, stamp, signedBy,
                   calls, base>>

\* The caller gets the row back.
Return(w) ==
    /\ pc[w] = "committed"
    /\ pc' = [pc EXCEPT ![w] = "ok"]
    /\ UNCHANGED <<rows, lock, keyVersion, clock, event, tries, prev, stamp,
                   signedBy, calls, base>>

\* Any other end of the call: Vault or PostgreSQL raises something that is
\* not a chain conflict, the reply to the commit is lost, or the process
\* dies.  PostgreSQL rolls back what was not committed and drops the lock.
Abort(w) ==
    /\ pc[w] \in Active
    /\ pc' = [pc EXCEPT ![w] = "failed"]
    /\ lock' = IF lock = w THEN NoWriter ELSE lock
    /\ UNCHANGED <<rows, keyVersion, clock, event, tries, prev, stamp,
                   signedBy, calls, base>>

\* An operator rotates the Vault audit key.
RotateKey ==
    /\ keyVersion < MaxKeyVersion
    /\ keyVersion' = keyVersion + 1
    /\ UNCHANGED <<rows, lock, clock, pc, event, tries, prev, stamp, signedBy,
                   calls, base>>

Tick ==
    /\ clock < MaxClock
    /\ clock' = clock + 1
    /\ UNCHANGED <<rows, lock, keyVersion, pc, event, tries, prev, stamp,
                   signedBy, calls, base>>

\* The steps a running call takes by itself.
Progress(w) ==
    \/ ReadLatest(w)
    \/ VaultSign(w)
    \/ AcquireLock(w)
    \/ PreviousMatches(w)
    \/ ChainConflict(w)
    \/ InsertRow(w)
    \/ Return(w)

ChainNext ==
    \/ \E w \in Writers :
        \/ \E e \in Events : AppendEvent(w, e)
        \/ Progress(w)
        \/ Abort(w)
    \/ RotateKey
    \/ Tick

ChainSpec == ChainInit /\ [][ChainNext]_chainVars

\* Every await of a running call completes; PostgreSQL grants a lock to the
\* sessions that wait for it in turn, so a waiting writer is not overtaken
\* forever.
ChainFairness ==
    \A w \in Writers :
        /\ WF_chainVars(ReadLatest(w) \/ VaultSign(w) \/ PreviousMatches(w)
                        \/ ChainConflict(w) \/ InsertRow(w) \/ Return(w))
        /\ SF_chainVars(AcquireLock(w))

ChainFairSpec == ChainSpec /\ ChainFairness

-----------------------------------------------------------------------------
\* Type invariant.
ChainTypeOK ==
    /\ rows \in Seq(Rows)
    /\ lock \in Writers \cup {NoWriter}
    /\ keyVersion \in Nat \ {0}
    /\ clock \in Nat
    /\ pc \in [Writers -> Idle \cup Active]
    /\ event \in [Writers -> Events]
    /\ tries \in [Writers -> 0..MaxTries]
    /\ prev \in [Writers -> Digests]
    /\ stamp \in [Writers -> Nat]
    /\ signedBy \in [Writers -> Nat]
    /\ calls \in [Writers -> Nat]
    /\ base \in [Writers -> Nat]

\* However appends, conflicts, failures and key rotations interleave, the
\* stored chain is one verify_chain accepts: each row links to the one before
\* it, its hash covers its content and its link, and its signature is over
\* that hash by a version of the audit key that exists.
ChainIntact ==
    \A n \in 1..Len(rows) :
        LET row == rows[n] IN
        /\ row.previous_entry_hash = HashAt(n - 1)
        /\ row.entry_hash = HashRecord(row.content, row.previous_entry_hash)
        /\ row.signature = [digest |-> row.entry_hash, key |-> row.key_version]
        /\ row.key_version \in 1..keyVersion

\* Timestamps never go back along the chain, although they are taken before
\* the signature and the lock: a writer overtaken by another conflicts, and
\* takes its timestamp again.
TimestampsMonotone ==
    \A n \in 2..Len(rows) :
        rows[n - 1].content.timestamp <= rows[n].content.timestamp

\* append_event gives up on "persistent chain conflicts" only if, since it
\* was called, the chain has really grown by at least MaxTries rows of other
\* writers: a lock that is only busy, a failed append or a key rotation never
\* uses up a try.
ExhaustionMeansContention ==
    \A w \in Writers : pc[w] = "exhausted" => Len(rows) >= base[w] + MaxTries

\* A call that has begun returns or raises.
EveryCallEnds ==
    \A w \in Writers : pc[w] \in Active ~> pc[w] \in Idle

-----------------------------------------------------------------------------
\* The abstract state of a call.
CallState(w) ==
    CASE pc[w] = "idle" -> "idle"
      [] pc[w] = "committed" -> "applied"
      [] pc[w] = "ok" -> "ok"
      [] pc[w] \in {"exhausted", "failed"} -> "error"
      [] OTHER -> "pending"

Log == INSTANCE AuditLog WITH
           Callers <- Writers,
           log     <- [n \in 1..Len(rows) |-> rows[n].content.event],
           state   <- [w \in Writers |-> CallState(w)]

\* append_event implements the abstract log: a call adds its event at most
\* once, has added it if it returns, and no call disturbs what others added.
ImplementsAuditLog == Log!LogSpec

=============================================================================
