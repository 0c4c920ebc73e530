-------------------------- MODULE AuditChainProofs --------------------------
(***************************************************************************)
(* Proofs about the audit chain, for any number of writers, events, tries,  *)
(* calls, seconds and key versions.                                         *)
(*                                                                         *)
(* ChainIntact is not inductive: that a new row links to the last one needs *)
(* to know what a writer remembers between reading the latest row and       *)
(* inserting its own, and that nobody else inserts in between.              *)
(***************************************************************************)
EXTENDS AuditChain, TLAPS

\* The lock is held exactly by the writer inside the append transaction.
LockHeld ==
    \A w \in Writers : pc[w] \in Locked <=> lock = w

\* A digest tells its row: the n-th row's digest commits to n contents.
DigestsCount ==
    \A n \in 1..Len(rows) :
        /\ Len(rows[n].entry_hash) = n
        /\ rows[n].content.timestamp <= clock

\* What a writer remembers was true of the chain when it read it, and the
\* chain has only grown since.
LinkRead(w) ==
    /\ Len(prev[w]) <= Len(rows)
    /\ prev[w] = HashAt(Len(prev[w]))
    /\ stamp[w] <= clock
    /\ Len(prev[w]) > 0 => rows[Len(prev[w])].content.timestamp <= stamp[w]
    /\ base[w] + tries[w] <= Len(prev[w]) + 1

LinksRead ==
    \A w \in Writers : pc[w] \in Linking => LinkRead(w)

\* Each try but the current one failed because the chain had grown.
TriesPaid ==
    \A w \in Writers :
        pc[w] = "read" => tries[w] < MaxTries /\ base[w] + tries[w] <= Len(rows)

SignedLinks ==
    \A w \in Writers : pc[w] \in {"lock"} \cup Locked => signedBy[w] \in 1..keyVersion

InsertsAtEnd ==
    \A w \in Writers : pc[w] = "insert" => prev[w] = LatestHash

ChainInv ==
    /\ ChainTypeOK
    /\ LockHeld
    /\ DigestsCount
    /\ LinksRead
    /\ TriesPaid
    /\ SignedLinks
    /\ InsertsAtEnd
    /\ ChainIntact
    /\ TimestampsMonotone
    /\ ExhaustionMeansContention

-----------------------------------------------------------------------------
\* The row a writer inserts is a row.
LEMMA RowTyped ==
    ASSUME ChainTypeOK, NEW w \in Writers
    PROVE  /\ RowOf(w) \in Rows
           /\ Len(RowOf(w).entry_hash) = Len(prev[w]) + 1
<1> DEFINE content == [event |-> event[w], timestamp |-> stamp[w]]
<1>1. content \in Contents
  BY DEF ChainTypeOK, Contents
<1>2. prev[w] \in Seq(Contents)
  BY DEF ChainTypeOK, Digests
<1>3. Append(prev[w], content) \in Seq(Contents) /\ Len(Append(prev[w], content)) = Len(prev[w]) + 1
  <2> HIDE DEF content
  <2> QED BY <1>1, <1>2
<1>4. signedBy[w] \in Nat
  BY ChainAssumption DEF ChainTypeOK
<1> HIDE DEF content
<1>5. RowOf(w) = [content             |-> content,
                  previous_entry_hash |-> prev[w],
                  entry_hash          |-> Append(prev[w], content),
                  signature           |-> [digest |-> Append(prev[w], content), key |-> signedBy[w]],
                  key_version         |-> signedBy[w]]
  BY DEF RowOf, HashRecord, content
<1> QED
  BY <1>1, <1>2, <1>3, <1>4, <1>5 DEF Rows, Signatures, Digests

\* An empty audit_log table, with no call under way, satisfies the invariant.
LEMMA ChainInitInv == ChainInit => ChainInv
<1> SUFFICES ASSUME ChainInit PROVE ChainInv
  OBVIOUS
<1>1. ChainTypeOK
  BY ChainAssumption DEF ChainInit, ChainTypeOK, Genesis, Digests, Idle
<1>2. LockHeld /\ LinksRead /\ TriesPaid /\ SignedLinks /\ InsertsAtEnd /\ ExhaustionMeansContention
  BY ChainAssumption DEF ChainInit, LockHeld, LinksRead, TriesPaid, SignedLinks,
     InsertsAtEnd, ExhaustionMeansContention, Locked, Linking
<1>3. DigestsCount /\ ChainIntact /\ TimestampsMonotone
  BY DEF ChainInit, DigestsCount, ChainIntact, TimestampsMonotone
<1> QED BY <1>1, <1>2, <1>3 DEF ChainInv

\* Every step preserves the invariant.
LEMMA ChainNextInv == ChainInv /\ [ChainNext]_chainVars => ChainInv'
<1> SUFFICES ASSUME ChainInv, [ChainNext]_chainVars PROVE ChainInv'
  OBVIOUS
<1> USE ChainAssumption DEF ChainInv
<1>1. ASSUME NEW w \in Writers, NEW e \in Events, AppendEvent(w, e) PROVE ChainInv'
  <2>0. Len(rows) \in Nat /\ 0 \in 0..MaxTries
    BY DEF ChainTypeOK
  <2>1. ChainTypeOK'
    <3>1. tries' \in [Writers -> 0..MaxTries] /\ base' \in [Writers -> Nat]
      BY <1>1, <2>0 DEF AppendEvent, ChainTypeOK
    <3>2. calls' \in [Writers -> Nat]
      BY <1>1 DEF AppendEvent, ChainTypeOK
    <3> QED
      BY <1>1, <3>1, <3>2, Zenon DEF AppendEvent, ChainTypeOK, Active
  <2>2. (LockHeld /\ LinksRead /\ TriesPaid /\ SignedLinks /\ InsertsAtEnd /\ ExhaustionMeansContention)'
    <3>2. (LockHeld /\ SignedLinks /\ InsertsAtEnd)'
      BY <1>1, Zenon DEF AppendEvent, ChainTypeOK, LockHeld, SignedLinks, InsertsAtEnd, Idle, Locked, HashAt, LatestHash
    <3>3. LinksRead'
      BY <1>1 DEF AppendEvent, ChainTypeOK, LinksRead, LinkRead, Idle, Locked, Linking, HashAt
    <3>4. (TriesPaid /\ ExhaustionMeansContention)'
      <4> SUFFICES ASSUME NEW v \in Writers
                   PROVE  /\ pc'[v] = "read" => tries'[v] < MaxTries /\ base'[v] + tries'[v] <= Len(rows')
                          /\ pc'[v] = "exhausted" => Len(rows') >= base'[v] + MaxTries
        BY <1>1 DEF AppendEvent, TriesPaid, ExhaustionMeansContention
      <4>1. CASE v = w
        BY <1>1, <2>0, <4>1 DEF AppendEvent, ChainTypeOK
      <4>2. CASE v # w
        BY <1>1, <4>2, Zenon DEF AppendEvent, ChainTypeOK, TriesPaid, ExhaustionMeansContention
      <4> QED BY <4>1, <4>2
    <3> QED BY <3>2, <3>3, <3>4
  <2>3. (DigestsCount /\ ChainIntact /\ TimestampsMonotone)'
    BY <1>1 DEF AppendEvent, DigestsCount, ChainIntact, TimestampsMonotone, HashAt
  <2> QED BY <2>1, <2>2, <2>3
<1>2. ASSUME NEW w \in Writers, ReadLatest(w) PROVE ChainInv'
  <2>0. LatestHash \in Digests /\ Len(LatestHash) = Len(rows) /\ Len(rows) \in Nat
    <3>1. rows \in Seq(Rows) /\ Len(rows) \in Nat
      BY DEF ChainTypeOK
    <3>2. CASE Len(rows) = 0
      BY <3>1, <3>2 DEF LatestHash, HashAt, Genesis, Digests
    <3>3. CASE Len(rows) # 0
      <4>1. Len(rows) \in 1..Len(rows) /\ rows[Len(rows)] \in Rows
        BY <3>1, <3>3
      <4> QED BY <3>1, <3>3, <4>1 DEF LatestHash, HashAt, DigestsCount, Rows
    <3> QED BY <3>1, <3>2, <3>3
  <2>1. ChainTypeOK'
    <3>1. tries[w] \in 0..MaxTries /\ tries[w] < MaxTries
      BY <1>2 DEF ReadLatest, ChainTypeOK, TriesPaid
    <3>2. tries[w] + 1 \in 0..MaxTries
      BY <3>1
    <3> QED
      BY <1>2, <2>0, <3>2, Zenon DEF ReadLatest, ChainTypeOK, Idle, Active, Linking, Locked
  <2>2. (LockHeld /\ TriesPaid /\ SignedLinks /\ InsertsAtEnd /\ ExhaustionMeansContention)'
    BY <1>2, Zenon DEF ReadLatest, ChainTypeOK, LockHeld, TriesPaid, SignedLinks, InsertsAtEnd,
        ExhaustionMeansContention, Locked, HashAt, LatestHash
  <2>3. LinksRead'
    <3> SUFFICES ASSUME NEW v \in Writers, pc'[v] \in Linking PROVE LinkRead(v)'
      BY DEF LinksRead
    <3>1. CASE v # w
      BY <1>2, <3>1 DEF ReadLatest, ChainTypeOK, LinksRead, LinkRead, HashAt
    <3>2. CASE v = w
      <4>1. /\ prev'[w] = LatestHash /\ stamp'[w] = clock /\ tries'[w] = tries[w] + 1
            /\ base' = base /\ rows' = rows /\ clock' = clock
        BY <1>2 DEF ReadLatest, ChainTypeOK
      <4>2. base[w] + tries[w] <= Len(rows) /\ base[w] \in Nat /\ tries[w] \in Nat
        BY <1>2 DEF ReadLatest, TriesPaid, ChainTypeOK
      <4>3. Len(rows) > 0 => rows[Len(rows)].content.timestamp <= clock
        BY <2>0 DEF DigestsCount
      <4>4. clock \in Nat
        BY DEF ChainTypeOK
      <4> QED BY <2>0, <3>2, <4>1, <4>2, <4>3, <4>4 DEF LinkRead, LatestHash, HashAt
    <3> QED BY <3>1, <3>2
  <2>4. (DigestsCount /\ ChainIntact /\ TimestampsMonotone)'
    BY <1>2, Zenon DEF ReadLatest, DigestsCount, ChainIntact, TimestampsMonotone, HashAt
  <2> QED BY <2>1, <2>2, <2>3, <2>4
<1>3. ASSUME NEW w \in Writers, VaultSign(w) PROVE ChainInv'
  <2>1. ChainTypeOK'
    BY <1>3, Zenon DEF VaultSign, ChainTypeOK, Idle, Active, Linking, Locked
  <2>2. (LockHeld /\ LinksRead /\ TriesPaid /\ SignedLinks /\ InsertsAtEnd /\ ExhaustionMeansContention)'
    <3>1. (LockHeld /\ LinksRead /\ TriesPaid /\ InsertsAtEnd /\ ExhaustionMeansContention)'
      BY <1>3, Zenon DEF VaultSign, ChainTypeOK, LockHeld, LinksRead, LinkRead, TriesPaid, InsertsAtEnd,
          ExhaustionMeansContention, Locked, Linking, HashAt, LatestHash
    <3>2. keyVersion \in 1..keyVersion
      BY DEF ChainTypeOK
    <3>3. SignedLinks'
      BY <1>3, <3>2 DEF VaultSign, ChainTypeOK, SignedLinks, Locked
    <3> QED BY <3>1, <3>3
  <2>3. (DigestsCount /\ ChainIntact /\ TimestampsMonotone)'
    BY <1>3, Zenon DEF VaultSign, DigestsCount, ChainIntact, TimestampsMonotone, HashAt
  <2> QED BY <2>1, <2>2, <2>3
<1>4. ASSUME NEW w \in Writers, AcquireLock(w) PROVE ChainInv'
  <2>1. ChainTypeOK'
    BY <1>4 DEF AcquireLock, ChainTypeOK, Idle, Active, Linking, Locked
  <2>2. (LockHeld /\ LinksRead /\ TriesPaid /\ SignedLinks /\ InsertsAtEnd /\ ExhaustionMeansContention)'
    BY <1>4, Zenon DEF AcquireLock, ChainTypeOK, LockHeld, LinksRead, LinkRead, TriesPaid, SignedLinks, InsertsAtEnd,
        ExhaustionMeansContention, Locked, Linking, HashAt, LatestHash
  <2>3. (DigestsCount /\ ChainIntact /\ TimestampsMonotone)'
    BY <1>4 DEF AcquireLock, DigestsCount, ChainIntact, TimestampsMonotone, HashAt
  <2> QED BY <2>1, <2>2, <2>3
<1>5. ASSUME NEW w \in Writers, PreviousMatches(w) PROVE ChainInv'
  <2>1. ChainTypeOK'
    BY <1>5 DEF PreviousMatches, ChainTypeOK, Idle, Active, Linking, Locked
  <2>2. (LockHeld /\ LinksRead /\ TriesPaid /\ SignedLinks /\ InsertsAtEnd /\ ExhaustionMeansContention)'
    BY <1>5, Zenon DEF PreviousMatches, ChainTypeOK, LockHeld, LinksRead, LinkRead, TriesPaid, SignedLinks, InsertsAtEnd,
        ExhaustionMeansContention, Locked, Linking, HashAt, LatestHash
  <2>3. (DigestsCount /\ ChainIntact /\ TimestampsMonotone)'
    BY <1>5 DEF PreviousMatches, DigestsCount, ChainIntact, TimestampsMonotone, HashAt
  <2> QED BY <2>1, <2>2, <2>3
<1>6. ASSUME NEW w \in Writers, ChainConflict(w) PROVE ChainInv'
  <2>0. base[w] + tries[w] <= Len(rows)
    <3>1. LinkRead(w) /\ Len(rows) \in Nat /\ Len(prev[w]) \in Nat /\ base[w] \in Nat /\ tries[w] \in Nat
      BY <1>6 DEF ChainConflict, LinksRead, Linking, Locked, ChainTypeOK, Digests
    <3>2. Len(prev[w]) # Len(rows)
      BY <1>6, <3>1 DEF ChainConflict, LinkRead, LatestHash
    <3> QED BY <3>1, <3>2 DEF LinkRead
  <2>1. ChainTypeOK'
    BY <1>6 DEF ChainConflict, ChainTypeOK, Idle, Active, Linking, Locked
  <2>2. (LockHeld /\ LinksRead /\ SignedLinks /\ InsertsAtEnd)'
    BY <1>6, Zenon DEF ChainConflict, ChainTypeOK, LockHeld, LinksRead, LinkRead, SignedLinks, InsertsAtEnd,
        Locked, Linking, HashAt, LatestHash
  <2>3. (TriesPaid /\ ExhaustionMeansContention)'
    <3>1. /\ pc' = [pc EXCEPT ![w] = IF tries[w] < MaxTries THEN "read" ELSE "exhausted"]
          /\ rows' = rows /\ tries' = tries /\ base' = base
      BY <1>6, Zenon DEF ChainConflict
    <3>2. /\ pc \in [Writers -> Idle \cup Active] /\ Len(rows) \in Nat
          /\ tries[w] \in 0..MaxTries /\ base[w] \in Nat
      BY DEF ChainTypeOK
    <3>3. ASSUME NEW v \in Writers, v # w
          PROVE  /\ pc'[v] = "read" => tries'[v] < MaxTries /\ base'[v] + tries'[v] <= Len(rows')
                 /\ pc'[v] = "exhausted" => Len(rows') >= base'[v] + MaxTries
      BY <3>1, <3>2, <3>3 DEF TriesPaid, ExhaustionMeansContention
    <3>4. /\ pc'[w] = "read" => tries'[w] < MaxTries /\ base'[w] + tries'[w] <= Len(rows')
          /\ pc'[w] = "exhausted" => Len(rows') >= base'[w] + MaxTries
      BY <2>0, <3>1, <3>2
    <3> QED BY <3>3, <3>4 DEF TriesPaid, ExhaustionMeansContention
  <2>4. (DigestsCount /\ ChainIntact /\ TimestampsMonotone)'
    BY <1>6, Zenon DEF ChainConflict, DigestsCount, ChainIntact, TimestampsMonotone, HashAt
  <2> QED BY <2>1, <2>2, <2>3, <2>4
<1>7. ASSUME NEW w \in Writers, InsertRow(w) PROVE ChainInv'
  <2> DEFINE row == RowOf(w)
             L == Len(rows)
  <2>1. row \in Rows /\ Len(row.entry_hash) = Len(prev[w]) + 1
    BY RowTyped
  <2>2. /\ row.content.timestamp = stamp[w]
        /\ row.previous_entry_hash = prev[w]
        /\ row.entry_hash = HashRecord(row.content, row.previous_entry_hash)
        /\ row.signature = [digest |-> row.entry_hash, key |-> row.key_version]
        /\ row.key_version = signedBy[w]
    BY DEF RowOf
  <2> HIDE DEF row
  <2>3. /\ rows \in Seq(Rows)
        /\ rows' = Append(rows, row)
        /\ UNCHANGED <<keyVersion, clock, event, tries, prev, stamp, signedBy, calls, base>>
        /\ pc' = [pc EXCEPT ![w] = "committed"]
        /\ lock' = NoWriter
        /\ pc[w] = "insert"
    BY <1>7 DEF InsertRow, ChainTypeOK, row
  <2>4. /\ L \in Nat
        /\ Len(rows') = L + 1
        /\ rows'[L + 1] = row
        /\ \A n \in 1..L : rows'[n] = rows[n]
        /\ rows' \in Seq(Rows)
    BY <2>1, <2>3
  <2>5. prev[w] = HashAt(L) /\ Len(prev[w]) <= L /\ prev[w] = HashAt(Len(prev[w])) /\ Len(prev[w]) \in Nat
        /\ stamp[w] <= clock /\ (Len(prev[w]) > 0 => rows[Len(prev[w])].content.timestamp <= stamp[w])
    BY <2>3 DEF InsertsAtEnd, LatestHash, LinksRead, LinkRead, Linking, Locked, ChainTypeOK, Digests
  <2>6. Len(prev[w]) = L
    <3>1. CASE L = 0
      BY <3>1, <2>5, <2>4
    <3>2. CASE L # 0
      BY <3>2, <2>5, <2>4 DEF HashAt, DigestsCount
    <3> QED BY <3>1, <3>2
  <2>7. \A n \in 0..L : HashAt(n)' = HashAt(n)
    BY <2>4 DEF HashAt
  <2>8. ChainTypeOK'
    BY <2>3, <2>4 DEF ChainTypeOK, Active
  <2>9. LockHeld'
    BY <2>3 DEF LockHeld, Locked, ChainTypeOK
  <2>10. DigestsCount'
    <3> SUFFICES ASSUME NEW n \in 1..(L + 1)
                 PROVE  Len(rows'[n].entry_hash) = n /\ rows'[n].content.timestamp <= clock
      BY <2>3, <2>4 DEF DigestsCount
    <3>1. CASE n \in 1..L
      BY <2>4, <3>1 DEF DigestsCount
    <3>2. CASE n = L + 1
      BY <2>1, <2>2, <2>4, <2>5, <2>6, <3>2
    <3> QED BY <2>4, <3>1, <3>2
  <2>11. LinksRead'
    <3> SUFFICES ASSUME NEW v \in Writers, pc'[v] \in Linking PROVE LinkRead(v)'
      BY DEF LinksRead
    <3>1. v # w /\ pc[v] \in Linking
      BY <2>3 DEF Linking, Locked, ChainTypeOK
    <3>2. LinkRead(v) /\ Len(prev[v]) \in Nat
      BY <3>1 DEF LinksRead, ChainTypeOK, Digests
    <3> QED
      BY <2>3, <2>4, <2>7, <3>2 DEF LinkRead
  <2>12. TriesPaid' /\ ExhaustionMeansContention'
    <3> SUFFICES ASSUME NEW v \in Writers
                 PROVE  /\ pc'[v] = "read" => tries[v] < MaxTries /\ base[v] + tries[v] <= Len(rows')
                        /\ pc'[v] = "exhausted" => Len(rows') >= base[v] + MaxTries
      BY <2>3 DEF TriesPaid, ExhaustionMeansContention
    <3>1. base[v] \in Nat /\ tries[v] \in Nat
      BY DEF ChainTypeOK
    <3>2. pc'[v] \in {"read", "exhausted"} => pc[v] = pc'[v]
      BY <2>3 DEF ChainTypeOK
    <3>3. pc'[v] = "read" => tries[v] < MaxTries /\ base[v] + tries[v] <= L
      BY <3>2 DEF TriesPaid
    <3>4. pc'[v] = "exhausted" => L >= base[v] + MaxTries
      BY <3>2 DEF ExhaustionMeansContention
    <3> QED BY <2>4, <3>1, <3>3, <3>4
  <2>13. SignedLinks'
    BY <2>3 DEF SignedLinks, Locked, ChainTypeOK
  <2>14. InsertsAtEnd'
    <3>1. \A v \in Writers : v # w => pc[v] # "insert"
      BY <2>3 DEF LockHeld, Locked
    <3> QED BY <2>3, <3>1 DEF InsertsAtEnd, ChainTypeOK
  <2>15. signedBy[w] \in 1..keyVersion
    BY <2>3 DEF SignedLinks, Locked
  <2>16. ChainIntact'
    <3> SUFFICES ASSUME NEW n \in 1..(L + 1)
                 PROVE  LET r == rows'[n] IN
                        /\ r.previous_entry_hash = HashAt(n - 1)'
                        /\ r.entry_hash = HashRecord(r.content, r.previous_entry_hash)
                        /\ r.signature = [digest |-> r.entry_hash, key |-> r.key_version]
                        /\ r.key_version \in 1..keyVersion
      BY <2>3, <2>4 DEF ChainIntact
    <3>1. CASE n \in 1..L
      <4>1. rows'[n] = rows[n] /\ n - 1 \in 0..L
        BY <2>4, <3>1
      <4>2. HashAt(n - 1)' = HashAt(n - 1)
        BY <2>7, <4>1
      <4> QED BY <3>1, <4>1, <4>2 DEF ChainIntact
    <3>2. CASE n = L + 1
      BY <3>2, <2>2, <2>4, <2>5, <2>7, <2>15
    <3> QED BY <3>1, <3>2, <2>4
  <2>17. TimestampsMonotone'
    <3> SUFFICES ASSUME NEW n \in 2..(L + 1)
                 PROVE  rows'[n - 1].content.timestamp <= rows'[n].content.timestamp
      BY <2>4 DEF TimestampsMonotone
    <3>1. CASE n \in 2..L
      <4>1. n \in 1..L /\ n - 1 \in 1..L
        BY <3>1, <2>4
      <4> QED BY <3>1, <4>1, <2>4 DEF TimestampsMonotone
    <3>2. CASE n = L + 1
      <4>1. L \in 1..L /\ n - 1 = L /\ L > 0
        BY <3>2, <2>4
      <4> QED BY <3>2, <4>1, <2>2, <2>4, <2>5, <2>6
    <3> QED BY <3>1, <3>2, <2>4
  <2> QED BY <2>8, <2>9, <2>10, <2>11, <2>12, <2>13, <2>14, <2>16, <2>17
<1>8. ASSUME NEW w \in Writers, Return(w) PROVE ChainInv'
  <2>1. ChainTypeOK'
    BY <1>8, Zenon DEF Return, ChainTypeOK, Idle
  <2>2. (LockHeld /\ LinksRead /\ TriesPaid /\ SignedLinks /\ InsertsAtEnd /\ ExhaustionMeansContention)'
    BY <1>8 DEF Return, ChainTypeOK, LockHeld, LinksRead, LinkRead, TriesPaid, SignedLinks, InsertsAtEnd,
        ExhaustionMeansContention, Locked, Linking, HashAt, LatestHash
  <2>3. (DigestsCount /\ ChainIntact /\ TimestampsMonotone)'
    BY <1>8 DEF Return, DigestsCount, ChainIntact, TimestampsMonotone, HashAt
  <2> QED BY <2>1, <2>2, <2>3
<1>9. ASSUME NEW w \in Writers, Abort(w) PROVE ChainInv'
  <2>1. ChainTypeOK'
    BY <1>9 DEF Abort, ChainTypeOK, Idle
  <2>2. (LockHeld /\ LinksRead /\ TriesPaid /\ SignedLinks /\ InsertsAtEnd /\ ExhaustionMeansContention)'
    BY <1>9, Zenon DEF Abort, ChainTypeOK, LockHeld, LinksRead, LinkRead, TriesPaid, SignedLinks, InsertsAtEnd,
        ExhaustionMeansContention, Locked, Linking, HashAt, LatestHash
  <2>3. (DigestsCount /\ ChainIntact /\ TimestampsMonotone)'
    BY <1>9, Zenon DEF Abort, DigestsCount, ChainIntact, TimestampsMonotone, HashAt
  <2> QED BY <2>1, <2>2, <2>3
<1>10. ASSUME RotateKey PROVE ChainInv'
  <2>1. ChainTypeOK'
    BY <1>10 DEF RotateKey, ChainTypeOK
  <2>2. (LockHeld /\ LinksRead /\ TriesPaid /\ InsertsAtEnd /\ ExhaustionMeansContention /\ DigestsCount
         /\ TimestampsMonotone)'
    BY <1>10, Zenon DEF RotateKey, LockHeld, LinksRead, LinkRead, TriesPaid, InsertsAtEnd,
       ExhaustionMeansContention, DigestsCount, TimestampsMonotone, HashAt, LatestHash
  <2>3. \A v \in 1..keyVersion : v \in 1..keyVersion'
    BY <1>10 DEF RotateKey, ChainTypeOK
  <2>4. SignedLinks'
    BY <1>10, <2>3 DEF RotateKey, SignedLinks
  <2>5. ChainIntact'
    BY <1>10, <2>3 DEF RotateKey, ChainIntact, HashAt
  <2> QED BY <2>1, <2>2, <2>4, <2>5
<1>11. ASSUME Tick PROVE ChainInv'
  <2>1. ChainTypeOK'
    BY <1>11 DEF Tick, ChainTypeOK
  <2>2. (LockHeld /\ TriesPaid /\ SignedLinks /\ InsertsAtEnd /\ ExhaustionMeansContention
         /\ ChainIntact /\ TimestampsMonotone)'
    BY <1>11, Zenon DEF Tick, LockHeld, TriesPaid, SignedLinks, InsertsAtEnd,
       ExhaustionMeansContention, ChainIntact, TimestampsMonotone, HashAt, LatestHash
  <2>3. clock \in Nat /\ clock' = clock + 1 /\ rows' = rows
    BY <1>11 DEF Tick, ChainTypeOK
  <2>4. DigestsCount'
    <3> SUFFICES ASSUME NEW n \in 1..Len(rows)
                 PROVE  Len(rows[n].entry_hash) = n /\ rows[n].content.timestamp <= clock'
      BY <2>3 DEF DigestsCount
    <3>1. rows[n].content.timestamp \in Nat
      <4>1. rows[n] \in Rows
        BY DEF ChainTypeOK
      <4> QED BY <4>1 DEF Rows, Contents
    <3> QED BY <2>3, <3>1 DEF DigestsCount
  <2>5. LinksRead'
    <3> SUFFICES ASSUME NEW v \in Writers, pc[v] \in Linking PROVE LinkRead(v)'
      BY <1>11 DEF Tick, LinksRead
    <3>1. LinkRead(v) /\ stamp[v] \in Nat
      BY DEF LinksRead, ChainTypeOK
    <3> QED BY <1>11, <2>3, <3>1 DEF Tick, LinkRead, HashAt
  <2> QED BY <2>1, <2>2, <2>4, <2>5
<1>12. ASSUME UNCHANGED chainVars PROVE ChainInv'
  BY <1>12, Zenon DEF chainVars, ChainTypeOK, LockHeld, DigestsCount, LinksRead, LinkRead, TriesPaid, SignedLinks,
     InsertsAtEnd, ChainIntact, TimestampsMonotone, ExhaustionMeansContention, HashAt, LatestHash
<1> QED
  BY <1>1, <1>2, <1>3, <1>4, <1>5, <1>6, <1>7, <1>8, <1>9, <1>10, <1>11, <1>12 DEF ChainNext, Progress

\* In every reachable state of the append protocol the chain is one that
\* verify_chain accepts, its timestamps do not go back, a call that gave up
\* on conflicts met that many, and every variable has its type.
THEOREM ChainSafe ==
    ChainSpec => [](ChainTypeOK /\ ChainIntact /\ TimestampsMonotone /\ ExhaustionMeansContention)
<1>1. ChainInv => ChainTypeOK /\ ChainIntact /\ TimestampsMonotone /\ ExhaustionMeansContention
  BY DEF ChainInv
<1> QED
  BY <1>1, ChainInitInv, ChainNextInv, PTL DEF ChainSpec

\* The timestamps of the stored rows never go back, although each writer reads
\* its own clock before it gets the table's lock (append_event).
COROLLARY TimestampsStayMonotone == ChainSpec => []TimestampsMonotone
BY ChainSafe, PTL

\* append_event gives up only after others have appended MaxTries rows since
\* its call began.
COROLLARY OnlyContentionExhausts == ChainSpec => []ExhaustionMeansContention
BY ChainSafe, PTL

-----------------------------------------------------------------------------
\* Only InsertRow changes the abstract log; it adds the writer's event.
LEMMA LogGrows ==
    ASSUME ChainTypeOK, NEW w \in Writers, rows' = Append(rows, RowOf(w))
    PROVE  [n \in 1..Len(rows') |-> rows'[n].content.event]
             = Append([n \in 1..Len(rows) |-> rows[n].content.event], event[w])
<1> DEFINE row == RowOf(w)
           events == [n \in 1..Len(rows) |-> rows[n].content.event]
           L == Len(rows)
<1>1. row \in Rows /\ row.content.event = event[w]
  BY RowTyped DEF RowOf
<1> HIDE DEF row
<1>2. /\ rows \in Seq(Rows) /\ L \in Nat
      /\ Len(rows') = L + 1
      /\ rows'[L + 1] = row
      /\ \A n \in 1..L : rows'[n] = rows[n]
  BY <1>1, SMTT(40) DEF ChainTypeOK, row
<1>3. events \in Seq(Events) /\ Len(events) = L /\ event[w] \in Events
  <2>1. \A n \in 1..L : rows[n].content.event \in Events
    <3>1. \A n \in 1..L : rows[n] \in Rows
      BY <1>2
    <3> QED BY <3>1 DEF Rows, Contents
  <2> QED BY <1>2, <2>1 DEF ChainTypeOK
<1>4. /\ Append(events, event[w]) \in Seq(Events)
      /\ Len(Append(events, event[w])) = L + 1
      /\ Append(events, event[w])[L + 1] = event[w]
      /\ \A n \in 1..L : Append(events, event[w])[n] = events[n]
  <2> HIDE DEF events
  <2> QED BY <1>3
<1>5. Append(events, event[w]) = [n \in 1..(L + 1) |-> rows'[n].content.event]
  <2> DEFINE longer == Append(events, event[w])
  <2>1. longer = [n \in 1..(L + 1) |-> longer[n]]
    <3> HIDE DEF events
    <3> QED BY <1>4, <1>2
  <2>2. ASSUME NEW n \in 1..(L + 1) PROVE longer[n] = rows'[n].content.event
    <3>1. CASE n \in 1..L
      BY <3>1, <1>2, <1>4
    <3>2. CASE n = L + 1
      BY <3>2, <1>1, <1>2, <1>4
    <3> QED BY <3>1, <3>2, <1>2
  <2> HIDE DEF longer
  <2> QED BY <2>1, <2>2, Zenon DEF longer
<1> QED BY <1>2, <1>5, Zenon

\* A step of a writer changes the abstract state of that writer's call only.
LEMMA CallStateMoves ==
    ASSUME NEW w \in Writers, NEW to, pc \in [Writers -> Idle \cup Active], pc' = [pc EXCEPT ![w] = to]
    PROVE  [v \in Writers |-> CallState(v)']
             = [[v \in Writers |-> CallState(v)] EXCEPT ![w] = CallState(w)']
  BY Zenon DEF CallState

\* An empty table maps to the empty abstract log with every call at rest.
LEMMA LogInitMaps == ChainInit => Log!LogInit
<1> SUFFICES ASSUME ChainInit PROVE Log!LogInit
  OBVIOUS
<1>1. [n \in 1..Len(rows) |-> rows[n].content.event] = <<>>
  BY DEF ChainInit
<1>2. [w \in Writers |-> CallState(w)] = [w \in Writers |-> "idle"]
  BY DEF ChainInit, CallState
<1> QED BY <1>1, <1>2 DEF ChainInit, Log!LogInit

\* Every step of append_event and of its surroundings maps to a step of the
\* abstract log or leaves it alone.
LEMMA LogStepMaps ==
    ASSUME ChainInv, [ChainNext]_chainVars
    PROVE  [Log!LogNext]_(Log!logVars)
<1> DEFINE alog == [n \in 1..Len(rows) |-> rows[n].content.event]
           astate == [v \in Writers |-> CallState(v)]
<1>0. pc \in [Writers -> Idle \cup Active]
  BY DEF ChainInv, ChainTypeOK
<1>a. rows' = rows => alog' = alog
  OBVIOUS
<1>1. ASSUME NEW w \in Writers, NEW e \in Events, AppendEvent(w, e) PROVE Log!Submit(w, e)
  <2>1. astate[w] \in {"idle", "ok", "error"} /\ CallState(w)' = "pending"
    BY <1>0, <1>1 DEF AppendEvent, CallState, Idle
  <2>2. astate' = [astate EXCEPT ![w] = "pending"]
    BY <1>0, <1>1, <2>1, CallStateMoves, Zenon DEF AppendEvent
  <2> QED BY <1>1, <1>a, <2>1, <2>2 DEF AppendEvent, Log!Submit, Log!Resting
<1>2. ASSUME NEW w \in Writers, NEW to \in Active \cup Idle, pc' = [pc EXCEPT ![w] = to],
             rows' = rows, event' = event, CallState(w)' = CallState(w)
      PROVE  UNCHANGED Log!logVars
  <2>1. astate' = astate
    BY <1>0, <1>2, CallStateMoves, Zenon
  <2> QED BY <1>2, <1>a, <2>1 DEF Log!logVars
<1>3. ASSUME NEW w \in Writers,
             ReadLatest(w) \/ VaultSign(w) \/ AcquireLock(w) \/ PreviousMatches(w)
      PROVE  UNCHANGED Log!logVars
  <2>1. PICK to \in Linking : pc' = [pc EXCEPT ![w] = to]
    BY <1>3 DEF ReadLatest, VaultSign, AcquireLock, PreviousMatches, Linking, Locked
  <2>2. rows' = rows /\ event' = event /\ pc[w] \in {"read"} \cup Linking
    BY <1>3 DEF ReadLatest, VaultSign, AcquireLock, PreviousMatches, Linking, Locked
  <2>3. CallState(w)' = "pending" /\ CallState(w) = "pending"
    BY <1>0, <2>1, <2>2 DEF CallState, Linking, Locked
  <2> QED BY <1>2, <2>1, <2>2, <2>3, Zenon DEF Active
<1>4. ASSUME NEW w \in Writers, ChainConflict(w)
      PROVE  Log!Fail(w) \/ UNCHANGED Log!logVars
  <2>1. rows' = rows /\ event' = event /\ CallState(w) = "pending"
    BY <1>4 DEF ChainConflict, CallState
  <2>2. CASE tries[w] < MaxTries
    <3>1. pc' = [pc EXCEPT ![w] = "read"]
      BY <1>4, <2>2 DEF ChainConflict
    <3>2. CallState(w)' = "pending"
      BY <1>0, <3>1 DEF CallState
    <3> QED BY <1>2, <2>1, <3>1, <3>2, Zenon DEF Active
  <2>3. CASE ~(tries[w] < MaxTries)
    <3>1. pc' = [pc EXCEPT ![w] = "exhausted"]
      BY <1>4, <2>3 DEF ChainConflict
    <3>2. CallState(w)' = "error"
      BY <1>0, <3>1 DEF CallState
    <3>3. astate' = [astate EXCEPT ![w] = "error"]
      BY <1>0, <3>1, <3>2, CallStateMoves, Zenon
    <3> QED BY <1>a, <2>1, <3>3 DEF Log!Fail
  <2> QED BY <2>2, <2>3
<1>5. ASSUME NEW w \in Writers, InsertRow(w) PROVE Log!Apply(w)
  <2>1. alog' = Append(alog, event[w])
    BY <1>5, LogGrows DEF InsertRow, ChainInv
  <2>2. CallState(w) = "pending" /\ CallState(w)' = "applied"
    BY <1>0, <1>5 DEF InsertRow, CallState
  <2>3. astate' = [astate EXCEPT ![w] = "applied"]
    BY <1>0, <1>5, <2>2, CallStateMoves, Zenon DEF InsertRow
  <2> QED BY <1>5, <2>1, <2>2, <2>3 DEF InsertRow, Log!Apply
<1>6. ASSUME NEW w \in Writers, Return(w) PROVE Log!Succeed(w)
  <2>1. CallState(w) = "applied" /\ CallState(w)' = "ok"
    BY <1>0, <1>6 DEF Return, CallState
  <2>2. astate' = [astate EXCEPT ![w] = "ok"]
    BY <1>0, <1>6, <2>1, CallStateMoves, Zenon DEF Return
  <2> QED BY <1>6, <1>a, <2>1, <2>2 DEF Return, Log!Succeed
<1>7. ASSUME NEW w \in Writers, Abort(w) PROVE Log!Fail(w)
  <2>1. CallState(w) \in {"pending", "applied"} /\ CallState(w)' = "error"
    BY <1>0, <1>7 DEF Abort, CallState, Active, Linking, Locked
  <2>2. astate' = [astate EXCEPT ![w] = "error"]
    BY <1>0, <1>7, <2>1, CallStateMoves, Zenon DEF Abort
  <2> QED BY <1>7, <1>a, <2>1, <2>2 DEF Abort, Log!Fail
<1>8. ASSUME RotateKey \/ Tick \/ UNCHANGED chainVars PROVE UNCHANGED Log!logVars
  <2>1. rows' = rows /\ pc' = pc /\ event' = event
    BY <1>8 DEF RotateKey, Tick, chainVars
  <2>2. astate' = astate
    BY <2>1 DEF CallState
  <2> QED BY <2>1, <2>2, <1>a DEF Log!logVars
<1> QED
  BY <1>1, <1>3, <1>4, <1>5, <1>6, <1>7, <1>8 DEF ChainNext, Progress, Log!LogNext

\* append_event, with its unlocked read, its signature, its lock and its
\* retries, implements the abstract log for any number of writers and tries:
\* a call that returns has appended its event exactly once, a call that
\* raises at most once, and the order of the chain is that of the commits.
THEOREM ChainImplementsLog == ChainSpec => ImplementsAuditLog
<1>1. ChainInv /\ [ChainNext]_chainVars => [Log!LogNext]_(Log!logVars)
  BY LogStepMaps
<1> QED
  BY <1>1, ChainInitInv, ChainNextInv, LogInitMaps, PTL DEF ChainSpec, ImplementsAuditLog, Log!LogSpec

=============================================================================
