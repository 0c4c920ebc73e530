-------------------------- MODULE AuditVerifyProofs --------------------------
(***************************************************************************)
(* Proofs about verify_chain, for any number of writers, verifications,     *)
(* rows, key versions and damaged fields.                                   *)
(*                                                                         *)
(* A verification compares a copy of the table with what append_event       *)
(* wrote, through links, hashes and signatures only.  What makes that       *)
(* enough: storage never gives back a digest that it has damaged, and a     *)
(* row that was linked to a damaged digest stands behind a row that is      *)
(* reported first.                                                          *)
(***************************************************************************)
EXTENDS AuditVerify, AuditChainProofs

VerifyTyped ==
    /\ ChainTypeOK
    /\ written \in Seq(Rows)
    /\ Len(written) = Len(rows)
    /\ vpc \in [Verifiers -> {"idle", "check", "fetch", "store", "done"}]
    /\ snap \in [Verifiers -> Seq(Rows)]
    /\ idx \in [Verifiers -> Nat \ {0}]
    /\ got \in [Verifiers -> SUBSET Nat]
    /\ report \in [Verifiers -> [kind : {"none", "valid", "broken", "raised"}, at : Nat]]
    /\ vaultFailed \in [Verifiers -> BOOLEAN]

\* The writers' part that damage does not disturb.
TriesLeft == \A w \in Writers : pc[w] = "read" => tries[w] < MaxTries

WritersSound == LockHeld /\ SignedLinks /\ TriesLeft

-----------------------------------------------------------------------------
\* A row as append_event writes it.
WellFormed(r) ==
    /\ r.entry_hash = HashRecord(r.content, r.previous_entry_hash)
    /\ r.signature = [digest |-> r.entry_hash, key |-> r.key_version]
    /\ r.key_version \in 1..keyVersion

\* What damage leaves of row w in row r.
From(r, w) ==
    /\ r.content.timestamp >= w.content.timestamp
    /\ r.signature = w.signature \/ r.signature.digest = Genesis

\* A row was linked to the one before it, or that one's digest is damaged in
\* the copy s of the table.
LinkSound(s) ==
    \A n \in 2..Len(s) :
        \/ written[n].previous_entry_hash = written[n - 1].entry_hash
        \/ s[n - 1].entry_hash # written[n - 1].entry_hash

CopySound(s) ==
    /\ Len(s) <= Len(written)
    /\ \A n \in 1..Len(s) : From(s[n], written[n])
    /\ LinkSound(s)

WrittenSound ==
    /\ \A n \in 1..Len(written) : WellFormed(written[n])
    /\ Len(written) > 0 => written[1].previous_entry_hash = Genesis

\* The link of a row that is about to be inserted.
InsertSound ==
    \A w \in Writers : pc[w] = "insert" =>
        IF Len(rows) = 0 THEN prev[w] = Genesis
        ELSE \/ prev[w] = written[Len(rows)].entry_hash
             \/ rows[Len(rows)].entry_hash # written[Len(rows)].entry_hash

TableSound == WrittenSound /\ InsertSound /\ CopySound(rows)

-----------------------------------------------------------------------------
\* The rows before row i say what append_event wrote.
Checked(v, i) == \A n \in 1..(i - 1) : Audited(snap[v][n]) = Audited(written[n])

AllChecked(v) == \A n \in 1..Len(snap[v]) : Audited(snap[v][n]) = Audited(written[n])

\* A verification under way: the rows it has passed, the row it fetches a key
\* for, and the versions it fetched.
UnderWay(v) ==
    /\ vpc[v] \in {"check", "fetch", "store"} => idx[v] <= Len(snap[v]) + 1 /\ Checked(v, idx[v])
    /\ vpc[v] \in {"fetch", "store"} => idx[v] <= Len(snap[v]) /\ LinkAndHashHold(v)
    /\ vpc[v] = "store" => \A n \in 1..Len(snap[v]) : written[n].key_version \in got[v]

\* What its report says.
Reported(v) ==
    /\ report[v].kind = "valid" => AllChecked(v)
    /\ report[v].kind = "broken" =>
           /\ report[v].at \in 1..Len(snap[v])
           /\ snap[v][report[v].at] # written[report[v].at]
           /\ Checked(v, report[v].at)
    /\ report[v].kind = "raised" =>
           /\ report[v].at \in 1..Len(snap[v])
           /\ vaultFailed[v] \/ snap[v][report[v].at] # written[report[v].at]

VerifierSound(v) == CopySound(snap[v]) /\ UnderWay(v) /\ Reported(v)

VerifiersSound == \A v \in Verifiers : VerifierSound(v)

VerifyInv == VerifyTyped /\ WritersSound /\ TableSound /\ VerifiersSound

-----------------------------------------------------------------------------
\* A digest commits to the content and the link.
LEMMA HashInjective ==
    ASSUME NEW s \in Digests, NEW t \in Digests, NEW x \in Contents, NEW y \in Contents,
           HashRecord(x, s) = HashRecord(y, t)
    PROVE  s = t /\ x = y
<1>1. Append(s, x) = Append(t, y) /\ s \in Seq(Contents) /\ t \in Seq(Contents)
  BY DEF HashRecord, Digests
<1>2. Len(s) = Len(t) /\ Len(s) \in Nat
  BY <1>1
<1>3. x = y
  BY <1>1, <1>2
<1>4. \A n \in 1..Len(s) : s[n] = t[n]
  BY <1>1, <1>2
<1> QED BY <1>1, <1>2, <1>3, <1>4

\* No row hashes to the value that stands for the start of the chain.
LEMMA HashNotGenesis ==
    ASSUME NEW s \in Digests, NEW x \in Contents
    PROVE  HashRecord(x, s) \in Digests /\ HashRecord(x, s) # Genesis
<1>1. s \in Seq(Contents) /\ HashRecord(x, s) = Append(s, x) /\ Len(<<>>) = 0
  BY DEF Digests, HashRecord
<1>2. Append(s, x) \in Seq(Contents) /\ Len(Append(s, x)) = Len(s) + 1 /\ Len(s) \in Nat
  BY <1>1
<1> QED BY <1>1, <1>2 DEF Digests, Genesis

\* The types of a row's fields.
LEMMA RowFields ==
    ASSUME NEW r \in Rows
    PROVE  /\ r.content \in Contents /\ r.content.timestamp \in Nat
           /\ r.previous_entry_hash \in Digests /\ r.entry_hash \in Digests
           /\ r.signature \in Signatures /\ r.signature.digest \in Digests /\ r.key_version \in Nat
BY DEF Rows, Contents, Signatures

\* Damage to a row that came from w: it stays a row that came from w, and its
\* digest is the old one or not the one of w.
LEMMA DamageKeeps ==
    ASSUME NEW r \in Rows, NEW w \in Rows, From(r, w), WellFormed(w), NEW d \in DamagedRows(r)
    PROVE  d \in Rows /\ From(d, w) /\ (d.entry_hash = r.entry_hash \/ d.entry_hash # w.entry_hash)
<1> DEFINE later == [r.content EXCEPT !.timestamp = @ + 1]
           other == HashRecord(later, r.previous_entry_hash)
<1>1. r.content \in Contents /\ r.content.timestamp \in Nat /\ r.previous_entry_hash \in Digests
  BY RowFields
<1>2. later \in Contents /\ later.timestamp = r.content.timestamp + 1
  BY <1>1 DEF Contents
<1>3. other \in Digests /\ other # Genesis
  BY <1>1, <1>2, HashNotGenesis
<1>4. other # w.entry_hash
  <2>1. w.content \in Contents /\ w.content.timestamp \in Nat /\ w.previous_entry_hash \in Digests
    BY RowFields
  <2>2. w.entry_hash = HashRecord(w.content, w.previous_entry_hash)
    BY DEF WellFormed
  <2> HIDE DEF later
  <2>3. later # w.content
    <3>1. r.content.timestamp >= w.content.timestamp
      BY DEF From
    <3>2. later.timestamp # w.content.timestamp
      BY <1>1, <1>2, <2>1, <3>1
    <3> QED BY <3>2
  <2> QED BY <1>1, <1>2, <2>1, <2>2, <2>3, HashInjective
<1>5. \/ d = [r EXCEPT !.content = later]
      \/ d = [r EXCEPT !.previous_entry_hash = other]
      \/ d = [r EXCEPT !.entry_hash = other]
      \/ d = [r EXCEPT !.signature = Malformed]
      \/ d = [r EXCEPT !.signature = [@ EXCEPT !.digest = Genesis]]
      \/ d = [r EXCEPT !.key_version = Blank]
      \/ d = [r EXCEPT !.key_version = UnknownVersion]
  BY DEF DamagedRows
<1>6. Malformed \in Signatures /\ Malformed.digest = Genesis /\ Blank \in Nat /\ UnknownVersion \in Nat
  BY ChainAssumption DEF Malformed, Signatures, Digests, Genesis, Blank, UnknownVersion
<1>7. [r.signature EXCEPT !.digest = Genesis] \in Signatures /\ [r.signature EXCEPT !.digest = Genesis].digest = Genesis
  <2>1. r.signature \in Signatures /\ Genesis \in Digests
    BY RowFields DEF Digests, Genesis
  <2> QED BY <2>1 DEF Signatures
<1> HIDE DEF later, other
<1>8. d \in Rows
  BY <1>2, <1>3, <1>5, <1>6, <1>7 DEF Rows
<1>9. d.content.timestamp >= w.content.timestamp
  <2>1. w.content.timestamp \in Nat
    BY RowFields
  <2> QED BY <1>1, <1>2, <1>5, <2>1 DEF From, Rows
<1>10. d.signature = w.signature \/ d.signature.digest = Genesis
  BY <1>5, <1>6, <1>7, Zenon DEF From, Rows
<1>11. d.entry_hash = r.entry_hash \/ d.entry_hash = other
  BY <1>5 DEF Rows
<1> QED BY <1>4, <1>8, <1>9, <1>10, <1>11 DEF From

-----------------------------------------------------------------------------
\* What holds of the row that a verification is at.
AtRow(v) ==
    /\ VerifyTyped /\ WrittenSound /\ CopySound(snap[v])
    /\ idx[v] <= Len(snap[v]) /\ Checked(v, idx[v])

\* A verifier that is at a row has read it from the table.
LEMMA AtRowTyped ==
    ASSUME NEW v \in Verifiers, AtRow(v)
    PROVE  /\ idx[v] \in 1..Len(snap[v]) /\ idx[v] \in 1..Len(written) /\ idx[v] \in Nat
           /\ Row(v) = snap[v][idx[v]] /\ Row(v) \in Rows
           /\ written[idx[v]] \in Rows
           /\ WellFormed(written[idx[v]])
           /\ From(Row(v), written[idx[v]])
<1>1. /\ snap[v] \in Seq(Rows) /\ written \in Seq(Rows) /\ idx[v] \in Nat \ {0}
      /\ idx[v] <= Len(snap[v]) /\ Len(snap[v]) <= Len(written)
  BY DEF AtRow, VerifyTyped, CopySound
<1>2. idx[v] \in 1..Len(snap[v]) /\ idx[v] \in 1..Len(written)
  BY <1>1
<1>3. Row(v) = snap[v][idx[v]] /\ Row(v) \in Rows /\ written[idx[v]] \in Rows
  BY <1>1, <1>2 DEF Row
<1>4. WellFormed(written[idx[v]]) /\ From(snap[v][idx[v]], written[idx[v]])
  BY <1>2 DEF AtRow, WrittenSound, CopySound
<1> QED BY <1>1, <1>2, <1>3, <1>4

\* A row whose link or hash does not hold is not the row that was written.
LEMMA LinkDecides ==
    ASSUME NEW v \in Verifiers, AtRow(v), ~LinkAndHashHold(v)
    PROVE  snap[v][idx[v]] # written[idx[v]]
<1> SUFFICES ASSUME snap[v][idx[v]] = written[idx[v]] PROVE LinkAndHashHold(v)
  OBVIOUS
<1>1. /\ idx[v] \in 1..Len(snap[v]) /\ idx[v] \in 1..Len(written) /\ idx[v] \in Nat
      /\ Row(v) = written[idx[v]] /\ WellFormed(Row(v))
  BY AtRowTyped
<1>2. Row(v).entry_hash = HashRecord(Row(v).content, Row(v).previous_entry_hash)
  BY <1>1 DEF WellFormed
<1>3. Row(v).previous_entry_hash = ExpectedLink(v)
  <2>1. CASE idx[v] = 1
    <3>1. Len(written) > 0
      BY <1>1, <2>1 DEF AtRow, VerifyTyped
    <3> QED BY <1>1, <2>1, <3>1 DEF AtRow, WrittenSound, ExpectedLink
  <2>2. CASE idx[v] # 1
    <3>1. idx[v] \in 2..Len(snap[v]) /\ idx[v] - 1 \in 1..(idx[v] - 1)
      BY <1>1, <2>2 DEF AtRow, VerifyTyped
    <3>2. Audited(snap[v][idx[v] - 1]) = Audited(written[idx[v] - 1])
      BY <3>1 DEF AtRow, Checked
    <3>3. snap[v][idx[v] - 1].entry_hash = written[idx[v] - 1].entry_hash
      BY <3>2 DEF Audited
    <3>4. written[idx[v]].previous_entry_hash = written[idx[v] - 1].entry_hash
      BY <3>1, <3>3 DEF AtRow, CopySound, LinkSound
    <3> QED BY <1>1, <2>2, <3>3, <3>4 DEF ExpectedLink
  <2> QED BY <2>1, <2>2
<1> QED BY <1>2, <1>3 DEF LinkAndHashHold

\* A row that is the one written names its key and its signature holds.
LEMMA WrittenRowHolds ==
    ASSUME NEW v \in Verifiers, AtRow(v), snap[v][idx[v]] = written[idx[v]]
    PROVE  /\ ResolvedVersion(v) = written[idx[v]].key_version
           /\ SignatureHolds(v)
           /\ Row(v).signature # Malformed
<1>1. /\ Row(v) = written[idx[v]] /\ WellFormed(Row(v)) /\ Row(v) \in Rows
  BY AtRowTyped
<1>2. keyVersion \in Nat
  BY DEF AtRow, VerifyTyped, ChainTypeOK
<1>3. Row(v).key_version # Blank
  BY <1>1, <1>2 DEF WellFormed, Blank
<1>4. Row(v).entry_hash # Genesis
  BY <1>1, HashNotGenesis, RowFields DEF WellFormed
<1>5. Row(v).signature = [digest |-> Row(v).entry_hash, key |-> Row(v).key_version]
  BY <1>1 DEF WellFormed
<1>6. Row(v).signature.digest # Malformed.digest
  BY <1>4, <1>5 DEF Malformed
<1> QED BY <1>1, <1>3, <1>5, <1>6 DEF ResolvedVersion, SignatureHolds

\* A signature that holds, over a hash that holds, is the one that was
\* written, and then so are the hash, the content and the link.
LEMMA SignatureDecides ==
    ASSUME NEW v \in Verifiers, AtRow(v), LinkAndHashHold(v), SignatureHolds(v)
    PROVE  Audited(snap[v][idx[v]]) = Audited(written[idx[v]])
<1> DEFINE r == Row(v)
           w == written[idx[v]]
<1>1. r \in Rows /\ w \in Rows /\ WellFormed(w) /\ From(r, w) /\ r = snap[v][idx[v]]
  BY AtRowTyped
<1>2. r.entry_hash = HashRecord(r.content, r.previous_entry_hash)
  BY DEF LinkAndHashHold
<1>3. r.signature.digest = r.entry_hash
  BY DEF SignatureHolds
<1> HIDE DEF r, w
<1>4. r.entry_hash # Genesis
  BY <1>1, <1>2, RowFields, HashNotGenesis
<1>5. r.signature = w.signature
  BY <1>1, <1>3, <1>4 DEF From
<1>6. r.entry_hash = w.entry_hash
  BY <1>1, <1>3, <1>5 DEF WellFormed
<1>7. HashRecord(r.content, r.previous_entry_hash) = HashRecord(w.content, w.previous_entry_hash)
  BY <1>1, <1>2, <1>6 DEF WellFormed
<1>8. r.content = w.content /\ r.previous_entry_hash = w.previous_entry_hash
  BY <1>1, <1>7, RowFields, HashInjective
<1>9. Audited(r) = Audited(w)
  BY <1>6, <1>8 DEF Audited
<1> QED BY <1>1, <1>9 DEF w

-----------------------------------------------------------------------------
\* Rows appended after the listing do not concern a verification.
LEMMA VerifierKept ==
    ASSUME NEW v \in Verifiers, VerifyTyped, VerifierSound(v),
           Len(written') >= Len(written), Len(written') \in Nat,
           \A n \in 1..Len(written) : written'[n] = written[n],
           vpc'[v] = vpc[v], snap'[v] = snap[v], idx'[v] = idx[v], got'[v] = got[v],
           report'[v] = report[v], vaultFailed'[v] = vaultFailed[v]
    PROVE  VerifierSound(v)'
<1>1. /\ Len(snap[v]) \in Nat /\ Len(written) \in Nat /\ Len(snap[v]) <= Len(written)
      /\ idx[v] \in Nat \ {0}
  BY DEF VerifyTyped, VerifierSound, CopySound
<1>2. /\ \A n \in 1..Len(snap[v]) : n \in 1..Len(written) /\ written'[n] = written[n]
      /\ \A n \in 2..Len(snap[v]) : n - 1 \in 1..Len(snap[v]) /\ n \in 1..Len(snap[v])
  BY <1>1
<1>3. CopySound(snap[v])'
  <2>1. Len(snap'[v]) <= Len(written')
    BY <1>1
  <2>2. \A n \in 1..Len(snap[v]) : From(snap[v][n], written'[n])
    BY <1>2 DEF VerifierSound, CopySound
  <2>3. LinkSound(snap[v])'
    BY <1>2, Zenon DEF VerifierSound, CopySound, LinkSound
  <2> QED BY <2>1, <2>2, <2>3 DEF CopySound, From
<1>4. ASSUME NEW i \in Nat, i <= Len(snap[v]) + 1, Checked(v, i)
      PROVE  \A n \in 1..(i - 1) : Audited(snap[v][n]) = Audited(written'[n])
  <2>1. \A n \in 1..(i - 1) : n \in 1..Len(snap[v])
    BY <1>1, <1>4
  <2> QED BY <1>2, <1>4, <2>1 DEF Checked
<1>5. UnderWay(v)'
  <2>1. LinkAndHashHold(v)' = LinkAndHashHold(v)
    BY DEF LinkAndHashHold, Row, ExpectedLink
  <2>2. vpc[v] \in {"check", "fetch", "store"} => 
           idx[v] <= Len(snap[v]) + 1 /\ \A n \in 1..(idx[v] - 1) : Audited(snap[v][n]) = Audited(written'[n])
    BY <1>1, <1>4, Zenon DEF VerifierSound, UnderWay
  <2>3. vpc[v] = "store" => \A n \in 1..Len(snap[v]) : written'[n].key_version \in got[v]
    BY <1>2 DEF VerifierSound, UnderWay
  <2> QED BY <2>1, <2>2, <2>3 DEF VerifierSound, UnderWay, Checked, Audited
<1>6. Reported(v)'
  <2>1. report[v].kind = "valid" => \A n \in 1..Len(snap[v]) : Audited(snap[v][n]) = Audited(written'[n])
    BY <1>2, Zenon DEF VerifierSound, Reported, AllChecked
  <2>2. report[v].kind = "broken" => \A n \in 1..(report[v].at - 1) : Audited(snap[v][n]) = Audited(written'[n])
    <3> SUFFICES ASSUME report[v].kind = "broken"
                 PROVE  \A n \in 1..(report[v].at - 1) : Audited(snap[v][n]) = Audited(written'[n])
      OBVIOUS
    <3>1. report[v].at \in 1..Len(snap[v]) /\ Checked(v, report[v].at)
      BY Zenon DEF VerifierSound, Reported
    <3>2. report[v].at \in Nat /\ report[v].at <= Len(snap[v]) + 1
      BY <1>1, <3>1
    <3> QED BY <1>4, <3>1, <3>2
  <2>3. report[v].kind \in {"broken", "raised"} => written'[report[v].at] = written[report[v].at]
    BY <1>2, Zenon DEF VerifierSound, Reported
  <2>4. Reported(v)
    BY Zenon DEF VerifierSound
  <2>5. CASE report[v].kind = "valid"
    BY <2>1, <2>5, Zenon DEF Reported, AllChecked, Audited
  <2>6. CASE report[v].kind = "broken"
    BY <2>2, <2>3, <2>4, <2>6, Zenon DEF Reported, Checked, AllChecked, Audited
  <2>7. CASE report[v].kind \notin {"valid", "broken"}
    BY <2>3, <2>4, <2>7, Zenon DEF Reported
  <2> QED BY <2>5, <2>6, <2>7, Zenon
<1> QED BY <1>3, <1>5, <1>6, Zenon DEF VerifierSound

\* Verifications leave the writers alone.
LEMMA ChainKept ==
    ASSUME UNCHANGED chainVars
    PROVE  /\ rows' = rows /\ keyVersion' = keyVersion
           /\ ChainTypeOK => ChainTypeOK'
           /\ WritersSound => WritersSound'
           /\ WrittenSound /\ written' = written => WrittenSound'
           /\ InsertSound /\ written' = written => InsertSound'
<1>1. /\ rows' = rows /\ lock' = lock /\ keyVersion' = keyVersion /\ clock' = clock /\ pc' = pc /\ event' = event
      /\ tries' = tries /\ prev' = prev /\ stamp' = stamp /\ signedBy' = signedBy /\ calls' = calls /\ base' = base
  BY DEF chainVars
<1>2. ChainTypeOK => ChainTypeOK'
  BY <1>1, Zenon DEF ChainTypeOK
<1>3. WritersSound => WritersSound'
  BY <1>1, Zenon DEF WritersSound, LockHeld, SignedLinks, TriesLeft
<1>4. WrittenSound /\ written' = written => WrittenSound'
  BY <1>1, Zenon DEF WrittenSound, WellFormed
<1>5. InsertSound /\ written' = written => InsertSound'
  BY <1>1, Zenon DEF InsertSound
<1> QED BY <1>1, <1>2, <1>3, <1>4, <1>5

\* A copy of the table stays sound while the history stays.
LEMMA CopyStays ==
    ASSUME NEW s, CopySound(s), written' = written
    PROVE  CopySound(s)'
BY Zenon DEF CopySound, LinkSound, From

\* A step of one verification is about that verification alone.
LEMMA CallKeeps ==
    ASSUME VerifyInv, NEW v \in Verifiers, UNCHANGED chainVars, written' = written,
           VerifyTyped', VerifierSound(v)',
           \A u \in Verifiers \ {v} :
               /\ vpc'[u] = vpc[u] /\ snap'[u] = snap[u] /\ idx'[u] = idx[u] /\ got'[u] = got[u]
               /\ report'[u] = report[u] /\ vaultFailed'[u] = vaultFailed[u]
    PROVE  VerifyInv'
<1>1. WritersSound'
  BY ChainKept DEF VerifyInv
<1>2. TableSound'
  BY ChainKept, CopyStays DEF VerifyInv, TableSound
<1>3. ASSUME NEW u \in Verifiers \ {v} PROVE VerifierSound(u)'
  <2>1. Len(written) \in Nat
    BY DEF VerifyInv, VerifyTyped
  <2> QED BY <2>1, VerifierKept DEF VerifyInv, VerifiersSound
<1> QED BY <1>1, <1>2, <1>3 DEF VerifyInv, VerifiersSound

\* The verification that v is taking.
LEMMA AtRowNow ==
    ASSUME VerifyInv, NEW v \in Verifiers, vpc[v] \in {"check", "fetch", "store"}, idx[v] <= Len(snap[v])
    PROVE  AtRow(v)
BY DEF VerifyInv, VerifiersSound, VerifierSound, UnderWay, AtRow, TableSound

\* The signature of the row at hand decides.
LEMMA JudgeStep ==
    ASSUME VerifyInv, NEW v \in Verifiers, written' = written, snap' = snap, vaultFailed' = vaultFailed,
           AtRow(v), LinkAndHashHold(v), JudgeSignature(v)
    PROVE  /\ VerifierSound(v)'
           /\ vpc' \in [Verifiers -> {"idle", "check", "fetch", "store", "done"}]
           /\ idx' \in [Verifiers -> Nat \ {0}]
           /\ report' \in [Verifiers -> [kind : {"none", "valid", "broken", "raised"}, at : Nat]]
           /\ \A u \in Verifiers \ {v} : vpc'[u] = vpc[u] /\ idx'[u] = idx[u] /\ report'[u] = report[u]
<1>1. VerifyTyped /\ VerifierSound(v) /\ idx[v] \in 1..Len(snap[v]) /\ idx[v] \in Nat /\ Len(snap[v]) \in Nat
  BY AtRowTyped DEF VerifyInv, VerifiersSound, VerifyTyped
<1>2. CASE SignatureHolds(v)
  <2>1. idx' = [idx EXCEPT ![v] = @ + 1] /\ vpc' = [vpc EXCEPT ![v] = "check"] /\ report' = report
    BY <1>2 DEF JudgeSignature
  <2>2. idx'[v] = idx[v] + 1 /\ vpc'[v] = "check"
    BY <1>1, <2>1 DEF VerifyTyped
  <2>3. \A n \in 1..idx[v] : Audited(snap[v][n]) = Audited(written[n])
    BY <1>1, <1>2, SignatureDecides DEF AtRow, Checked
  <2>4. UnderWay(v)'
    BY <1>1, <2>2, <2>3 DEF UnderWay, Checked, Audited
  <2>5. Reported(v)'
    BY <1>1, <2>1, Zenon DEF VerifierSound, Reported, Checked, AllChecked, Audited
  <2>6. CopySound(snap[v])'
    BY <1>1, Zenon DEF VerifierSound, CopySound, LinkSound, From
  <2> QED BY <1>1, <2>1, <2>4, <2>5, <2>6 DEF VerifierSound, VerifyTyped
<1>3. CASE ~SignatureHolds(v)
  <2>1. /\ report' = [report EXCEPT ![v] = [kind |-> "broken", at |-> idx[v]]]
        /\ vpc' = [vpc EXCEPT ![v] = "done"] /\ idx' = idx
    BY <1>3 DEF JudgeSignature, Answer
  <2>2. report'[v].kind = "broken" /\ report'[v].at = idx[v] /\ vpc'[v] = "done"
    BY <1>1, <2>1 DEF VerifyTyped
  <2>3. snap[v][idx[v]] # written[idx[v]]
    BY <1>3, WrittenRowHolds
  <2>4. Reported(v)'
    <3>1. idx[v] \in 1..Len(snap[v]) /\ Checked(v, idx[v])
      BY <1>1, Zenon DEF AtRow
    <3>2. Checked(v, report[v].at)'
      BY <1>1, <2>2, <3>1, Zenon DEF Checked, Audited
    <3> QED BY <1>1, <2>2, <2>3, <3>1, <3>2, Zenon DEF Reported
  <2>5. UnderWay(v)'
    BY <2>2 DEF UnderWay
  <2>6. CopySound(snap[v])'
    BY <1>1, Zenon DEF VerifierSound, CopySound, LinkSound, From
  <2> QED BY <1>1, <2>1, <2>4, <2>5, <2>6 DEF VerifierSound, VerifyTyped
<1> QED BY <1>2, <1>3

\* What a step leaves alone, in the form the steps below use it.
LEMMA CopyKept ==
    ASSUME VerifyInv, NEW v \in Verifiers, written' = written, snap' = snap
    PROVE  CopySound(snap[v])'
BY Zenon DEF VerifyInv, VerifiersSound, VerifierSound, CopySound, LinkSound, From

\* An answer at row idx[v], or "valid" after the last row.
LEMMA AnswerStep ==
    ASSUME VerifyInv, NEW v \in Verifiers,
           NEW kind \in {"valid", "broken", "raised"}, NEW at \in Nat, Answer(v, kind, at),
           UNCHANGED chainVars, written' = written, snap' = snap, idx' = idx,
           got' = got \/ got' = [got EXCEPT ![v] = {}],
           vaultFailed' = vaultFailed \/ vaultFailed' = [vaultFailed EXCEPT ![v] = TRUE],
           kind = "valid" => AllChecked(v),
           kind = "broken" =>
               at \in 1..Len(snap[v]) /\ snap[v][at] # written[at] /\ Checked(v, at),
           kind = "raised" =>
               at \in 1..Len(snap[v]) /\ (vaultFailed'[v] \/ snap[v][at] # written[at])
    PROVE  VerifyInv'
<1>1. VerifyTyped
  BY DEF VerifyInv
<1>2. report' = [report EXCEPT ![v] = [kind |-> kind, at |-> at]] /\ vpc' = [vpc EXCEPT ![v] = "done"]
  BY DEF Answer
<1>3. report'[v].kind = kind /\ report'[v].at = at /\ vpc'[v] = "done"
  BY <1>1, <1>2 DEF VerifyTyped
<1>4. VerifyTyped'
  BY <1>1, <1>2, ChainKept, Zenon DEF VerifyTyped
<1>5. UnderWay(v)'
  BY <1>3 DEF UnderWay
<1>6. Reported(v)'
  BY <1>3, Zenon DEF Reported, Checked, AllChecked, Audited
<1>7. CopySound(snap[v])'
  BY CopyKept
<1>8. \A u \in Verifiers \ {v} :
          /\ vpc'[u] = vpc[u] /\ snap'[u] = snap[u] /\ idx'[u] = idx[u] /\ got'[u] = got[u]
          /\ report'[u] = report[u] /\ vaultFailed'[u] = vaultFailed[u]
  BY <1>1, <1>2 DEF VerifyTyped
<1> QED BY <1>4, <1>5, <1>6, <1>7, <1>8, CallKeeps, Zenon DEF VerifierSound

\* The table is listed: nothing of it is checked yet.
LEMMA ListStep ==
    ASSUME VerifyInv, NEW v \in Verifiers, ListAuditRows(v)
    PROVE  VerifyInv'
<1>1. VerifyTyped /\ CopySound(rows)
  BY DEF VerifyInv, TableSound
<1>2. /\ vpc' = [vpc EXCEPT ![v] = "check"] /\ snap' = [snap EXCEPT ![v] = rows] /\ idx' = [idx EXCEPT ![v] = 1]
      /\ got' = [got EXCEPT ![v] = {}] /\ report' = [report EXCEPT ![v] = NoReport]
      /\ vaultFailed' = [vaultFailed EXCEPT ![v] = FALSE] /\ UNCHANGED chainVars /\ written' = written
  BY DEF ListAuditRows
<1>3. vpc'[v] = "check" /\ snap'[v] = rows /\ idx'[v] = 1 /\ report'[v].kind = "none"
  BY <1>1, <1>2 DEF VerifyTyped, NoReport
<1>4. VerifyTyped'
  <2>1. ChainTypeOK' /\ rows \in Seq(Rows) /\ Len(rows') = Len(rows)
    BY <1>1, <1>2, ChainKept, Zenon DEF VerifyTyped, ChainTypeOK
  <2>2. NoReport \in [kind : {"none", "valid", "broken", "raised"}, at : Nat]
    BY DEF NoReport
  <2> QED BY <1>1, <1>2, <2>1, <2>2 DEF VerifyTyped
<1>5. CopySound(snap[v])'
  BY <1>1, <1>2, <1>3, Zenon DEF CopySound, LinkSound, From
<1>6. UnderWay(v)'
  <2>1. Len(rows) \in Nat
    BY <1>1 DEF VerifyTyped, ChainTypeOK
  <2> QED BY <1>3, <2>1 DEF UnderWay, Checked
<1>7. Reported(v)'
  BY <1>3 DEF Reported
<1>8. \A u \in Verifiers \ {v} :
          /\ vpc'[u] = vpc[u] /\ snap'[u] = snap[u] /\ idx'[u] = idx[u] /\ got'[u] = got[u]
          /\ report'[u] = report[u] /\ vaultFailed'[u] = vaultFailed[u]
  BY <1>1, <1>2 DEF VerifyTyped
<1> QED BY <1>2, <1>4, <1>5, <1>6, <1>7, <1>8, CallKeeps, Zenon DEF VerifierSound

\* The coroutine goes on to fetch, or has fetched, the keys for its row.
LEMMA FetchStep ==
    ASSUME VerifyInv, NEW v \in Verifiers, NEW to \in {"fetch", "store"}, NEW answer \in SUBSET Nat,
           vpc' = [vpc EXCEPT ![v] = to], got' = [got EXCEPT ![v] = answer],
           UNCHANGED chainVars, written' = written, snap' = snap, idx' = idx, report' = report,
           vaultFailed' = vaultFailed,
           idx[v] <= Len(snap[v]), LinkAndHashHold(v), Checked(v, idx[v]),
           to = "store" => answer = 1..keyVersion
    PROVE  VerifyInv'
<1>1. VerifyTyped /\ VerifierSound(v) /\ WrittenSound
  BY DEF VerifyInv, VerifiersSound, TableSound
<1>2. vpc'[v] = to /\ got'[v] = answer
  BY <1>1 DEF VerifyTyped
<1>3. VerifyTyped'
  BY <1>1, ChainKept DEF VerifyTyped
<1>4. UnderWay(v)'
  <2>1. idx[v] <= Len(snap[v]) + 1
    BY <1>1 DEF VerifyTyped
  <2>2. LinkAndHashHold(v)'
    BY DEF LinkAndHashHold, Row, ExpectedLink
  <2>3. Checked(v, idx[v])'
    BY DEF Checked, Audited
  <2>4. to = "store" => \A n \in 1..Len(snap[v]) : written[n].key_version \in answer
    <3>1. \A n \in 1..Len(snap[v]) : n \in 1..Len(written)
      BY <1>1 DEF VerifyTyped, VerifierSound, CopySound
    <3> QED BY <1>1, <3>1, Zenon DEF WrittenSound, WellFormed
  <2> QED BY <1>2, <2>1, <2>2, <2>3, <2>4 DEF UnderWay
<1>5. Reported(v)'
  BY <1>1, Zenon DEF VerifierSound, Reported, Checked, AllChecked, Audited
<1>6. CopySound(snap[v])'
  BY CopyKept, Zenon
<1>7. \A u \in Verifiers \ {v} :
          /\ vpc'[u] = vpc[u] /\ snap'[u] = snap[u] /\ idx'[u] = idx[u] /\ got'[u] = got[u]
          /\ report'[u] = report[u] /\ vaultFailed'[u] = vaultFailed[u]
  BY <1>1 DEF VerifyTyped
<1> QED BY <1>3, <1>4, <1>5, <1>6, <1>7, CallKeeps DEF VerifierSound

\* The signature is judged with a key from the cache or from Vault's answer.
LEMMA JudgedStep ==
    ASSUME VerifyInv, NEW v \in Verifiers, UNCHANGED chainVars,
           written' = written, snap' = snap, vaultFailed' = vaultFailed,
           AtRow(v), LinkAndHashHold(v), JudgeSignature(v),
           got' = got \/ got' = [got EXCEPT ![v] = {}]
    PROVE  VerifyInv'
<1>1. VerifyTyped
  BY DEF VerifyInv
<1>2. /\ VerifierSound(v)'
      /\ vpc' \in [Verifiers -> {"idle", "check", "fetch", "store", "done"}]
      /\ idx' \in [Verifiers -> Nat \ {0}]
      /\ report' \in [Verifiers -> [kind : {"none", "valid", "broken", "raised"}, at : Nat]]
      /\ \A u \in Verifiers \ {v} : vpc'[u] = vpc[u] /\ idx'[u] = idx[u] /\ report'[u] = report[u]
  BY JudgeStep
<1>3. VerifyTyped'
  BY <1>1, <1>2, ChainKept, Zenon DEF VerifyTyped
<1>4. \A u \in Verifiers \ {v} : snap'[u] = snap[u] /\ got'[u] = got[u] /\ vaultFailed'[u] = vaultFailed[u]
  BY <1>1 DEF VerifyTyped
<1> QED BY <1>2, <1>3, <1>4, CallKeeps

\* Every step of a verification preserves the invariant.
LEMMA CallStep ==
    ASSUME VerifyInv, NEW v \in Verifiers, VerifyStep(v) \/ ReadPublicKeysFails(v)
    PROVE  VerifyInv'
<1>0. /\ VerifyTyped /\ VerifierSound(v) /\ idx[v] \in Nat /\ Len(snap[v]) \in Nat
      /\ [got EXCEPT ![v] = got[v]] = got /\ got[v] \in SUBSET Nat
  BY DEF VerifyInv, VerifiersSound, VerifyTyped
<1>1. ASSUME vpc[v] \in {"check", "fetch", "store"}, idx[v] <= Len(snap[v])
      PROVE  AtRow(v) /\ Checked(v, idx[v]) /\ idx[v] \in 1..Len(snap[v])
  BY <1>1, AtRowNow, AtRowTyped DEF AtRow
<1>2. ASSUME vpc[v] \in {"fetch", "store"}
      PROVE  AtRow(v) /\ Checked(v, idx[v]) /\ idx[v] \in 1..Len(snap[v]) /\ LinkAndHashHold(v)
             /\ idx[v] <= Len(snap[v])
  BY <1>0, <1>1, <1>2 DEF VerifierSound, UnderWay
<1>3. CASE ChainValid(v)
  <2>1. AllChecked(v)
    BY <1>0, <1>3 DEF ChainValid, VerifierSound, UnderWay, Checked, AllChecked
  <2> QED BY <1>3, <2>1, AnswerStep DEF ChainValid
<1>4. CASE RowBroken(v)
  <2>1. AtRow(v) /\ Checked(v, idx[v]) /\ idx[v] \in 1..Len(snap[v])
    BY <1>1, <1>4, Zenon DEF RowBroken
  <2>2. snap[v][idx[v]] # written[idx[v]]
    BY <1>4, <2>1, LinkDecides, Zenon DEF RowBroken
  <2> QED BY <1>0, <1>4, <2>1, <2>2, AnswerStep DEF RowBroken
<1>5. CASE SignatureUndecodable(v)
  <2>1. AtRow(v) /\ idx[v] \in 1..Len(snap[v])
    BY <1>1, <1>5, Zenon DEF SignatureUndecodable
  <2>2. snap[v][idx[v]] # written[idx[v]]
    BY <1>5, <2>1, WrittenRowHolds, Zenon DEF SignatureUndecodable
  <2> QED BY <1>0, <1>5, <2>1, <2>2, AnswerStep DEF SignatureUndecodable
<1>6. CASE KeyCached(v)
  <2>1. AtRow(v)
    BY <1>1, <1>6 DEF KeyCached, ReadyForKey
  <2> QED BY <1>6, <2>1, JudgedStep, Zenon DEF KeyCached, ReadyForKey
<1>7. CASE KeyMissing(v)
  <2>1. Checked(v, idx[v])
    BY <1>1, <1>7 DEF KeyMissing, ReadyForKey
  <2>2. got' = [got EXCEPT ![v] = got[v]]
    BY <1>0, <1>7 DEF KeyMissing
  <2> QED BY <1>0, <1>7, <2>1, <2>2, FetchStep, Zenon DEF KeyMissing, ReadyForKey
<1>8. CASE ReadPublicKeys(v)
  <2>1. 1..keyVersion \in SUBSET Nat
    BY <1>0 DEF VerifyTyped, ChainTypeOK
  <2> QED BY <1>2, <1>8, <2>1, FetchStep, Zenon DEF ReadPublicKeys
<1>9. CASE ReadPublicKeysFails(v)
  <2>1. vaultFailed'[v]
    BY <1>0, <1>9 DEF ReadPublicKeysFails, VerifyTyped
  <2>2. idx[v] \in 1..Len(snap[v])
    BY <1>2, <1>9, Zenon DEF ReadPublicKeysFails
  <2> QED BY <1>0, <1>9, <2>1, <2>2, AnswerStep, Zenon DEF ReadPublicKeysFails
<1>10. CASE StoreKeys(v)
  BY <1>2, <1>10, JudgedStep, Zenon DEF StoreKeys
<1>11. CASE StoreKeysMissing(v)
  <2>1. AtRow(v) /\ Checked(v, idx[v]) /\ idx[v] \in 1..Len(snap[v]) /\ LinkAndHashHold(v)
    BY <1>2, <1>11 DEF StoreKeysMissing
  <2>2. CASE ~refreshed[v]
    BY <1>2, <1>11, <2>1, <2>2, FetchStep, Zenon DEF StoreKeysMissing
  <2>3. CASE refreshed[v]
    <3>1. snap[v][idx[v]] # written[idx[v]]
      BY <1>0, <1>11, <2>1, WrittenRowHolds DEF StoreKeysMissing, VerifierSound, UnderWay
    <3> QED BY <1>0, <1>11, <2>1, <2>3, <3>1, AnswerStep, Zenon DEF StoreKeysMissing
  <2> QED BY <2>2, <2>3
<1> QED BY <1>3, <1>4, <1>5, <1>6, <1>7, <1>8, <1>9, <1>10, <1>11 DEF VerifyStep

-----------------------------------------------------------------------------
\* The writers' own steps, whatever storage did to the rows they read.
LEMMA WritersStep ==
    ASSUME ChainTypeOK, WritersSound, ChainNext
    PROVE  ChainTypeOK' /\ WritersSound'
<1> USE ChainAssumption
<1>0. /\ rows \in Seq(Rows) /\ Len(rows) \in Nat /\ LatestHash \in Digests
      /\ 0 \in 0..MaxTries /\ keyVersion \in 1..keyVersion
  <2>1. rows \in Seq(Rows) /\ Len(rows) \in Nat
    BY DEF ChainTypeOK
  <2>2. LatestHash \in Digests
    <3>1. CASE Len(rows) = 0
      BY <3>1 DEF LatestHash, HashAt, Genesis, Digests
    <3>2. CASE Len(rows) # 0
      <4>1. rows[Len(rows)] \in Rows
        BY <2>1, <3>2
      <4> QED BY <3>2, <4>1 DEF LatestHash, HashAt, Rows
    <3> QED BY <3>1, <3>2
  <2> QED BY <2>1, <2>2 DEF ChainTypeOK
<1>1a. ASSUME NEW w \in Writers, NEW e \in Events, AppendEvent(w, e) PROVE ChainTypeOK'
  <2>1. /\ pc' = [pc EXCEPT ![w] = "read"] /\ event' = [event EXCEPT ![w] = e]
        /\ tries' = [tries EXCEPT ![w] = 0] /\ base' = [base EXCEPT ![w] = Len(rows)]
        /\ calls' = [calls EXCEPT ![w] = @ + 1]
        /\ rows' = rows /\ lock' = lock /\ keyVersion' = keyVersion /\ clock' = clock
        /\ prev' = prev /\ stamp' = stamp /\ signedBy' = signedBy
    BY <1>1a, Zenon DEF AppendEvent
  <2>2. calls' \in [Writers -> Nat]
    BY <2>1 DEF ChainTypeOK
  <2>3. pc' \in [Writers -> Idle \cup Active]
    BY <2>1, Zenon DEF ChainTypeOK, Idle, Active, Linking
  <2> QED BY <1>0, <2>1, <2>2, <2>3, Zenon DEF ChainTypeOK
<1>2a. ASSUME NEW w \in Writers, ReadLatest(w), TriesLeft PROVE tries[w] + 1 \in 0..MaxTries
  BY <1>2a DEF ReadLatest, ChainTypeOK, TriesLeft, Active, Linking, Idle
<1> USE DEF WritersSound, LockHeld, SignedLinks, TriesLeft, Idle, Active, Linking, Locked
<1>1. ASSUME NEW w \in Writers, NEW e \in Events, AppendEvent(w, e) PROVE ChainTypeOK' /\ WritersSound'
  <2>1. ChainTypeOK'
    BY <1>1, <1>1a, Zenon
  <2>2. WritersSound'
    BY <1>0, <1>1 DEF AppendEvent, ChainTypeOK
  <2> QED BY <2>1, <2>2
<1>2. ASSUME NEW w \in Writers, ReadLatest(w) PROVE ChainTypeOK' /\ WritersSound'
  <2>1. tries[w] + 1 \in 0..MaxTries
    BY <1>2, <1>2a, Zenon
  <2>2. ChainTypeOK'
    BY <1>0, <1>2, <2>1, Zenon DEF ReadLatest, ChainTypeOK
  <2>3. WritersSound'
    BY <1>2 DEF ReadLatest, ChainTypeOK
  <2> QED BY <2>2, <2>3, Zenon
<1>3. ASSUME NEW w \in Writers, VaultSign(w) PROVE ChainTypeOK' /\ WritersSound'
  BY <1>0, <1>3, Zenon DEF VaultSign, ChainTypeOK
<1>4. ASSUME NEW w \in Writers, AcquireLock(w) PROVE ChainTypeOK' /\ WritersSound'
  BY <1>4, Zenon DEF AcquireLock, ChainTypeOK
<1>5. ASSUME NEW w \in Writers, PreviousMatches(w) PROVE ChainTypeOK' /\ WritersSound'
  BY <1>5 DEF PreviousMatches, ChainTypeOK
<1>6. ASSUME NEW w \in Writers, ChainConflict(w) PROVE ChainTypeOK' /\ WritersSound'
  BY <1>6 DEF ChainConflict, ChainTypeOK
<1>7. ASSUME NEW w \in Writers, InsertRow(w) PROVE ChainTypeOK' /\ WritersSound'
  <2>1. rows' \in Seq(Rows)
    BY <1>0, <1>7, RowTyped DEF InsertRow
  <2> QED BY <1>7, <2>1, Zenon DEF InsertRow, ChainTypeOK
<1>8. ASSUME NEW w \in Writers, Return(w) PROVE ChainTypeOK' /\ WritersSound'
  BY <1>8, Zenon DEF Return, ChainTypeOK
<1>9. ASSUME NEW w \in Writers, Abort(w) PROVE ChainTypeOK' /\ WritersSound'
  BY <1>9, Zenon DEF Abort, ChainTypeOK
<1>10. ASSUME RotateKey PROVE ChainTypeOK' /\ WritersSound'
  <2>1. \A k \in 1..keyVersion : k \in 1..keyVersion'
    BY <1>10 DEF RotateKey, ChainTypeOK
  <2> QED BY <1>10, <2>1 DEF RotateKey, ChainTypeOK
<1>11. ASSUME Tick PROVE ChainTypeOK' /\ WritersSound'
  BY <1>11 DEF Tick, ChainTypeOK
<1> HIDE DEF WritersSound, LockHeld, SignedLinks, TriesLeft, Idle, Active, Linking, Locked
<1> QED
  BY <1>1, <1>2, <1>3, <1>4, <1>5, <1>6, <1>7, <1>8, <1>9, <1>10, <1>11 DEF ChainNext, Progress

\* What a step of the writers does to the table and its history.
LEMMA TableMoves ==
    ASSUME VerifyTyped, ChainStep
    PROVE  \/ rows' = rows /\ written' = written
           \/ \E w \in Writers : /\ InsertRow(w)
                                 /\ rows' = Append(rows, RowOf(w))
                                 /\ written' = Append(written, RowOf(w))
<1>1. ChainNext /\ written' = IF Len(rows') > Len(rows) THEN Append(written, rows'[Len(rows')]) ELSE written
  BY DEF ChainStep
<1>2. Len(rows) \in Nat /\ rows \in Seq(Rows)
  BY DEF VerifyTyped, ChainTypeOK
<1>3. CASE \E w \in Writers : InsertRow(w)
  <2>1. PICK w \in Writers : InsertRow(w)
    BY <1>3
  <2>2. RowOf(w) \in Rows /\ rows' = Append(rows, RowOf(w))
    BY <2>1, RowTyped DEF VerifyTyped, InsertRow
  <2>3. Len(rows') = Len(rows) + 1 /\ rows'[Len(rows')] = RowOf(w)
    BY <1>2, <2>2
  <2> QED BY <1>1, <1>2, <2>1, <2>2, <2>3
<1>4. CASE ~\E w \in Writers : InsertRow(w)
  <2>1. rows' = rows
    BY <1>1, <1>4, Zenon DEF ChainNext, Progress, AppendEvent, ReadLatest, VaultSign, AcquireLock,
       PreviousMatches, ChainConflict, Return, Abort, RotateKey, Tick
  <2> QED BY <1>1, <1>2, <2>1
<1> QED BY <1>3, <1>4

\* A new row is well formed, and linked to the digest that its writer read.
LEMMA NewRow ==
    ASSUME VerifyInv, NEW w \in Writers, pc[w] = "insert"
    PROVE  /\ RowOf(w) \in Rows
           /\ WellFormed(RowOf(w))
           /\ RowOf(w).previous_entry_hash = prev[w]
           /\ From(RowOf(w), RowOf(w))
<1>1. RowOf(w) \in Rows
  BY RowTyped DEF VerifyInv, VerifyTyped
<1>2. signedBy[w] \in 1..keyVersion
  BY DEF VerifyInv, WritersSound, SignedLinks, Locked
<1>3. WellFormed(RowOf(w)) /\ RowOf(w).previous_entry_hash = prev[w]
  BY <1>2, Zenon DEF RowOf, WellFormed
<1>4. RowOf(w).content.timestamp \in Nat
  BY <1>1, RowFields
<1>5. From(RowOf(w), RowOf(w))
  BY <1>4 DEF From
<1> QED BY <1>1, <1>3, <1>5, Zenon

\* A writer comes to insert with the link that it compared under the lock.
LEMMA InsertReached ==
    ASSUME ChainTypeOK, ChainNext, NEW w \in Writers, pc'[w] = "insert"
    PROVE  prev'[w] = prev[w] /\ (pc[w] = "insert" \/ prev[w] = LatestHash)
<1>1. pc \in [Writers -> Idle \cup Active] /\ prev \in [Writers -> Digests]
  BY DEF ChainTypeOK
<1>2. CASE \E u \in Writers : ReadLatest(u)
  <2>1. PICK u \in Writers : ReadLatest(u)
    BY <1>2
  <2>2. u # w
    BY <1>1, <2>1 DEF ReadLatest
  <2> QED BY <1>1, <2>1, <2>2 DEF ReadLatest
<1>3. CASE \E u \in Writers : PreviousMatches(u)
  <2>1. PICK u \in Writers : PreviousMatches(u)
    BY <1>3
  <2> QED BY <1>1, <2>1 DEF PreviousMatches
<1>4. ASSUME NEW u \in Writers, prev' = prev, NEW to, to # "insert", pc' = [pc EXCEPT ![u] = to]
      PROVE  prev'[w] = prev[w] /\ (pc[w] = "insert" \/ prev[w] = LatestHash)
  BY <1>1, <1>4
<1>5. CASE \E u \in Writers : VaultSign(u) \/ AcquireLock(u) \/ InsertRow(u) \/ Return(u) \/ Abort(u)
  BY <1>4, <1>5, Zenon DEF VaultSign, AcquireLock, InsertRow, Return, Abort
<1>6. CASE \E u \in Writers : ChainConflict(u)
  BY <1>4, <1>6, Zenon DEF ChainConflict
<1>7. CASE \E u \in Writers, e \in Events : AppendEvent(u, e)
  BY <1>4, <1>7 DEF AppendEvent
<1>8. CASE RotateKey \/ Tick
  BY <1>8 DEF RotateKey, Tick
<1>9. \/ \E u \in Writers : ReadLatest(u)
      \/ \E u \in Writers : PreviousMatches(u)
      \/ \E u \in Writers : VaultSign(u) \/ AcquireLock(u) \/ InsertRow(u) \/ Return(u) \/ Abort(u)
      \/ \E u \in Writers : ChainConflict(u)
      \/ \E u \in Writers, e \in Events : AppendEvent(u, e)
      \/ RotateKey \/ Tick
  BY DEF ChainNext, Progress
<1> QED BY <1>2, <1>3, <1>5, <1>6, <1>7, <1>8, <1>9, Zenon

\* The writers preserve what the table and its history say of each other.
LEMMA TableStep ==
    ASSUME VerifyInv, ChainStep, ChainTypeOK'
    PROVE  TableSound' /\ written' \in Seq(Rows) /\ Len(written') = Len(rows')
           /\ Len(written') >= Len(written) /\ \A n \in 1..Len(written) : written'[n] = written[n]
<1> DEFINE L == Len(rows)
<1>1. /\ VerifyTyped /\ WrittenSound /\ InsertSound /\ CopySound(rows)
      /\ rows \in Seq(Rows) /\ written \in Seq(Rows) /\ L \in Nat /\ Len(written) = L
      /\ keyVersion \in Nat /\ pc \in [Writers -> Idle \cup Active] /\ LockHeld
  <2>1. VerifyTyped /\ ChainTypeOK /\ WrittenSound /\ InsertSound /\ CopySound(rows) /\ LockHeld
    BY DEF VerifyInv, VerifyTyped, TableSound, WritersSound
  <2>2. rows \in Seq(Rows) /\ written \in Seq(Rows) /\ Len(written) = L
    BY <2>1 DEF VerifyTyped, ChainTypeOK
  <2>3. keyVersion \in Nat /\ pc \in [Writers -> Idle \cup Active]
    BY <2>1 DEF ChainTypeOK
  <2> QED BY <2>1, <2>2, <2>3
<1>2. keyVersion' \in Nat /\ \A k \in 1..keyVersion : k \in 1..keyVersion'
  <2>1. keyVersion' = keyVersion \/ keyVersion' = keyVersion + 1
    BY Zenon DEF ChainStep, ChainNext, Progress, AppendEvent, ReadLatest, VaultSign, AcquireLock,
       PreviousMatches, ChainConflict, InsertRow, Return, Abort, RotateKey, Tick
  <2> QED BY <1>1, <2>1
<1>3. \A r : WellFormed(r) => WellFormed(r)'
  BY <1>2, Zenon DEF WellFormed
<1>4. CASE rows' = rows /\ written' = written
  <2>1. WrittenSound'
    BY <1>1, <1>3, <1>4 DEF WrittenSound
  <2>2. CopySound(rows)'
    BY <1>1, <1>4 DEF CopySound, LinkSound, From
  <2>3. InsertSound'
    <3> SUFFICES ASSUME NEW w \in Writers, pc'[w] = "insert"
                 PROVE  IF Len(rows) = 0 THEN prev'[w] = Genesis
                        ELSE \/ prev'[w] = written[Len(rows)].entry_hash
                             \/ rows[Len(rows)].entry_hash # written[Len(rows)].entry_hash
      BY <1>4 DEF InsertSound
    <3>1. prev'[w] = prev[w] /\ (pc[w] = "insert" \/ prev[w] = LatestHash)
      BY <1>1, InsertReached DEF ChainStep, VerifyTyped
    <3> QED BY <1>1, <3>1 DEF InsertSound, LatestHash, HashAt
  <2> QED BY <1>1, <1>4, <2>1, <2>2, <2>3 DEF TableSound
<1>5. ASSUME NEW w \in Writers, InsertRow(w), rows' = Append(rows, RowOf(w)), written' = Append(written, RowOf(w))
      PROVE  TableSound' /\ written' \in Seq(Rows) /\ Len(written') = Len(rows')
             /\ Len(written') >= Len(written) /\ \A n \in 1..Len(written) : written'[n] = written[n]
  <2> DEFINE row == RowOf(w)
  <2>1. row \in Rows /\ WellFormed(row) /\ row.previous_entry_hash = prev[w] /\ From(row, row)
    BY <1>5, NewRow DEF InsertRow
  <2> HIDE DEF row
  <2>2. /\ Len(rows') = L + 1 /\ rows'[L + 1] = row /\ (\A n \in 1..L : rows'[n] = rows[n])
        /\ Len(written') = L + 1 /\ written'[L + 1] = row /\ (\A n \in 1..L : written'[n] = written[n])
        /\ written' \in Seq(Rows)
    BY <1>1, <1>5, <2>1 DEF row
  <2>3. pc[w] = "insert" /\ pc' = [pc EXCEPT ![w] = "committed"]
    BY <1>5 DEF InsertRow
  <2>4. \A n \in 1..(L + 1) : n \in 1..L \/ n = L + 1
    BY <1>1
  <2>5. WrittenSound'
    <3>1. \A n \in 1..(L + 1) : WellFormed(written'[n])
      BY <1>1, <2>1, <2>2, <2>4 DEF WrittenSound
    <3>2. written'[1].previous_entry_hash = Genesis
      <4>1. CASE L = 0
        BY <1>1, <2>1, <2>2, <2>3, <4>1 DEF InsertSound
      <4>2. CASE L # 0
        <5>1. Len(written) > 0 /\ 1 \in 1..L
          BY <1>1, <4>2
        <5> QED BY <1>1, <2>2, <5>1, Zenon DEF WrittenSound
      <4> QED BY <4>1, <4>2
    <3>3. \A n \in 1..(L + 1) : WellFormed(written[n])' 
      BY <1>2, <3>1, Zenon DEF WellFormed
    <3> QED BY <2>2, <3>2, <3>3 DEF WrittenSound
  <2>6. InsertSound'
    <3>1. \A u \in Writers : pc'[u] # "insert"
      BY <1>1, <2>3 DEF LockHeld, Locked
    <3> QED BY <3>1 DEF InsertSound
  <2>7. CopySound(rows)'
    <3>1. \A n \in 1..(L + 1) : From(rows'[n], written'[n])
      BY <1>1, <2>1, <2>2, <2>4, Zenon DEF CopySound
    <3>2. ASSUME NEW n \in 2..(L + 1)
          PROVE  \/ written'[n].previous_entry_hash = written'[n - 1].entry_hash
                 \/ rows'[n - 1].entry_hash # written'[n - 1].entry_hash
      <4>1. CASE n \in 2..L
        <5>1. n \in 1..L /\ n - 1 \in 1..L
          BY <1>1, <4>1
        <5> QED BY <1>1, <2>2, <4>1, <5>1, Zenon DEF CopySound, LinkSound
      <4>2. CASE n = L + 1
        <5>1. n - 1 = L /\ L \in 1..L
          BY <1>1, <4>2
        <5>2. prev[w] = written[L].entry_hash \/ rows[L].entry_hash # written[L].entry_hash
          BY <1>1, <2>3, <5>1 DEF InsertSound
        <5> QED BY <1>1, <2>1, <2>2, <4>2, <5>1, <5>2
      <4> QED BY <1>1, <4>1, <4>2
    <3>3. LinkSound(rows)'
      BY <2>2, <3>2 DEF LinkSound
    <3>4. Len(rows') <= Len(written')
      BY <1>1, <2>2
    <3>5. \A n \in 1..Len(rows') : From(rows[n], written[n])'
      BY <2>2, <3>1 DEF From
    <3> QED BY <3>3, <3>4, <3>5, Zenon DEF CopySound
  <2> QED BY <1>1, <2>2, <2>5, <2>6, <2>7 DEF TableSound
<1> QED BY <1>1, <1>4, <1>5, TableMoves

\* Damage in storage: the digests it leaves are the old ones or no longer
\* the ones that were written.
LEMMA DamageStep ==
    ASSUME VerifyInv, DamageRow
    PROVE  VerifyInv'
<1>0. PICK m \in 1..Len(rows) : \E d \in DamagedRows(rows[m]) : rows' = [rows EXCEPT ![m] = d]
  BY Zenon DEF DamageRow
<1>1. PICK d \in DamagedRows(rows[m]) : rows' = [rows EXCEPT ![m] = d]
  BY <1>0, Zenon
<1>2. /\ VerifyTyped /\ ChainTypeOK /\ WrittenSound /\ InsertSound /\ CopySound(rows)
      /\ WritersSound /\ VerifiersSound
  BY DEF VerifyInv, VerifyTyped, TableSound
<1>3. rows \in Seq(Rows) /\ written \in Seq(Rows) /\ Len(written) = Len(rows) /\ Len(rows) \in Nat
  BY <1>2 DEF VerifyTyped, ChainTypeOK
<1>4. /\ lock' = lock /\ keyVersion' = keyVersion /\ clock' = clock /\ pc' = pc /\ event' = event
      /\ tries' = tries /\ prev' = prev /\ stamp' = stamp /\ signedBy' = signedBy /\ calls' = calls /\ base' = base
      /\ written' = written
      /\ vpc' = vpc /\ snap' = snap /\ idx' = idx /\ got' = got /\ report' = report /\ vaultFailed' = vaultFailed
  BY DEF DamageRow, callVars
<1>5. d \in Rows /\ From(d, written[m]) /\ (d.entry_hash = rows[m].entry_hash \/ d.entry_hash # written[m].entry_hash)
  <2>1. m \in 1..Len(written) /\ rows[m] \in Rows /\ written[m] \in Rows
    BY <1>3
  <2>2. WellFormed(written[m]) /\ From(rows[m], written[m])
    BY <1>2, <2>1, Zenon DEF WrittenSound, CopySound
  <2> QED BY <2>1, <2>2, DamageKeeps, Zenon
<1>6. /\ rows' \in Seq(Rows) /\ Len(rows') = Len(rows)
      /\ rows'[m] = d /\ \A n \in 1..Len(rows) : n # m => rows'[n] = rows[n]
  BY <1>1, <1>3, <1>5
<1>7. \A n \in 1..Len(rows) : /\ From(rows'[n], written[n])
                              /\ \/ rows'[n].entry_hash = rows[n].entry_hash
                                 \/ rows'[n].entry_hash # written[n].entry_hash
  BY <1>2, <1>5, <1>6, Zenon DEF CopySound
<1>8. VerifyTyped'
  <2>1. ChainTypeOK'
    BY <1>2, <1>4, <1>6, Zenon DEF ChainTypeOK
  <2> QED BY <1>2, <1>3, <1>4, <1>6, <2>1, Zenon DEF VerifyTyped
<1>9. WritersSound'
  BY <1>2, <1>4, Zenon DEF WritersSound, LockHeld, SignedLinks, TriesLeft
<1>10. WrittenSound'
  BY <1>2, <1>4, Zenon DEF WrittenSound, WellFormed
<1>11. InsertSound'
  <2>1. Len(rows) # 0 => Len(rows) \in 1..Len(rows)
    BY <1>3
  <2> QED BY <1>2, <1>4, <1>6, <1>7, <2>1, Zenon DEF InsertSound
<1>12. CopySound(rows)'
  <2>1. \A n \in 2..Len(rows) : n - 1 \in 1..Len(rows)
    BY <1>3
  <2>2. LinkSound(rows)'
    BY <1>2, <1>4, <1>6, <1>7, <2>1, Zenon DEF CopySound, LinkSound
  <2>3. Len(rows') <= Len(written')
    <3>1. Len(rows') = Len(rows) /\ written' = written
      BY <1>4, <1>6, Zenon
    <3> QED BY <1>3, <3>1
  <2>4. \A n \in 1..Len(rows') : From(rows'[n], written'[n])
    BY <1>4, <1>6, <1>7, Zenon
  <2> QED BY <2>2, <2>3, <2>4, Zenon DEF CopySound, From
<1>13. VerifiersSound'
  <2>1. ASSUME NEW v \in Verifiers PROVE VerifierSound(v)'
    <3>1. VerifierSound(v) /\ Len(written') >= Len(written) /\ Len(written') \in Nat
      BY <1>2, <1>3, <1>4 DEF VerifiersSound
    <3> QED BY <1>2, <1>4, <3>1, VerifierKept, Zenon
  <2> QED BY <2>1 DEF VerifiersSound
<1> QED BY <1>8, <1>9, <1>10, <1>11, <1>12, <1>13 DEF VerifyInv, TableSound

\* A step of the writers, the clock or the key rotation.
LEMMA ChainStepKeeps ==
    ASSUME VerifyInv, ChainStep
    PROVE  VerifyInv'
<1>1. ChainTypeOK' /\ WritersSound' /\ UNCHANGED callVars /\ VerifyTyped /\ VerifiersSound
  BY WritersStep DEF VerifyInv, VerifyTyped, ChainStep
<1>2. TableSound' /\ written' \in Seq(Rows) /\ Len(written') = Len(rows')
      /\ Len(written') >= Len(written) /\ \A n \in 1..Len(written) : written'[n] = written[n]
  BY <1>1, TableStep
<1>3. VerifyTyped'
  BY <1>1, <1>2 DEF VerifyTyped, callVars
<1>4. \A v \in Verifiers : VerifierSound(v)'
  <2>1. Len(written') \in Nat
    BY <1>2
  <2> QED BY <1>1, <1>2, <2>1, VerifierKept DEF VerifiersSound, callVars
<1> QED BY <1>1, <1>2, <1>3, <1>4 DEF VerifyInv, VerifiersSound

\* An empty table and no verification under way satisfy the invariant.
LEMMA VerifyInitInv == VerifyInit => VerifyInv
<1> SUFFICES ASSUME VerifyInit PROVE VerifyInv
  OBVIOUS
<1>1. ChainInit /\ ChainInv
  BY ChainInitInv DEF VerifyInit
<1>2. VerifyTyped
  BY <1>1 DEF VerifyInit, VerifyTyped, ChainInv, ChainInit, NoReport
<1>3. WritersSound
  BY <1>1, Zenon DEF ChainInv, WritersSound, TriesPaid, TriesLeft
<1>4. TableSound
  <2>1. rows = <<>> /\ written = <<>> /\ Len(<<>>) = 0 /\ \A w \in Writers : pc[w] = "idle"
    BY <1>1 DEF VerifyInit, ChainInit
  <2>2. WrittenSound
    BY <2>1 DEF WrittenSound
  <2>3. InsertSound
    BY <2>1, Zenon DEF InsertSound
  <2>4. CopySound(rows)
    BY <2>1 DEF CopySound, LinkSound
  <2> QED BY <2>2, <2>3, <2>4, Zenon DEF TableSound
<1>5. VerifiersSound
  <2> SUFFICES ASSUME NEW v \in Verifiers PROVE VerifierSound(v)
    BY DEF VerifiersSound
  <2>1. snap[v] = <<>> /\ vpc[v] = "idle" /\ report[v].kind = "none" /\ written = <<>> /\ Len(<<>>) = 0
    BY DEF VerifyInit, NoReport
  <2>2. CopySound(snap[v])
    BY <2>1 DEF CopySound, LinkSound
  <2>3. UnderWay(v) /\ Reported(v)
    BY <2>1, Zenon DEF UnderWay, Reported
  <2> QED BY <2>2, <2>3 DEF VerifierSound
<1> QED BY <1>2, <1>3, <1>4, <1>5 DEF VerifyInv

\* The invariant holds of every behaviour of verify_chain.
LEMMA VerifyInvariant == VerifySpec => []VerifyInv
<1>1. VerifyInv /\ [VerifyNext]_allVars => VerifyInv'
  <2> SUFFICES ASSUME VerifyInv, [VerifyNext]_allVars PROVE VerifyInv'
    OBVIOUS
  <2>1. CASE ChainStep
    BY <2>1, ChainStepKeeps
  <2>2. CASE \E v \in Verifiers : ListAuditRows(v)
    BY <2>2, ListStep
  <2>3. CASE \E v \in Verifiers : VerifyStep(v) \/ ReadPublicKeysFails(v)
    BY <2>3, CallStep
  <2>4. CASE DamageRow
    BY <2>4, DamageStep
  <2>5. ASSUME UNCHANGED chainVars, written' = written, UNCHANGED callVars PROVE VerifyInv'
    <3>1. VerifyTyped /\ VerifiersSound /\ Len(written) \in Nat
      BY DEF VerifyInv, VerifyTyped
    <3>2. /\ vpc' = vpc /\ snap' = snap /\ idx' = idx /\ got' = got /\ report' = report
          /\ vaultFailed' = vaultFailed
      BY <2>5 DEF callVars
    <3>3. VerifyTyped'
      BY <2>5, <3>1, <3>2, ChainKept DEF VerifyTyped
    <3>4. WritersSound' /\ TableSound'
      BY <2>5, ChainKept, CopyStays DEF VerifyInv, TableSound
    <3>5. ASSUME NEW v \in Verifiers PROVE VerifierSound(v)'
      <4>1. VerifierSound(v) /\ Len(written') >= Len(written) /\ Len(written') \in Nat
        BY <2>5, <3>1 DEF VerifiersSound
      <4> QED BY <2>5, <3>1, <3>2, <4>1, VerifierKept, Zenon
    <3> QED BY <3>3, <3>4, <3>5 DEF VerifyInv, VerifiersSound
  <2>6. CASE ExpireCache \/ UNCHANGED allVars
    BY <2>5, <2>6 DEF ExpireCache, allVars, verifyVars
  <2> QED BY <2>1, <2>2, <2>3, <2>4, <2>6 DEF VerifyNext
<1> QED BY <1>1, VerifyInitInv, PTL DEF VerifySpec

-----------------------------------------------------------------------------
\* verify_chain answers "valid" only of a listing whose rows all say what
\* append_event wrote, in content, link and hash.
THEOREM ValidIsUndamaged == VerifySpec => []ValidMeansUndamaged
<1>1. VerifyInv => ValidMeansUndamaged
  <2> SUFFICES ASSUME VerifyInv, NEW v \in Verifiers, report[v].kind = "valid"
               PROVE  \A n \in 1..Len(snap[v]) : Audited(snap[v][n]) = Audited(written[n])
    BY DEF ValidMeansUndamaged
  <2> QED BY Zenon DEF VerifyInv, VerifiersSound, VerifierSound, Reported, AllChecked
<1> QED BY <1>1, VerifyInvariant, PTL

\* first_broken_index names a row that storage damaged, and no row before it
\* is damaged in what the signature protects.
THEOREM BrokenIsDamagedThere == VerifySpec => []BrokenMeansDamagedThere
<1>1. VerifyInv => BrokenMeansDamagedThere
  BY Zenon DEF VerifyInv, VerifiersSound, VerifierSound, Reported, Checked, BrokenMeansDamagedThere
<1> QED BY <1>1, VerifyInvariant, PTL

\* verify_chain raises only if Vault failed a read or the row is damaged:
\* never for a key version newer than the shared cache entry.
THEOREM ErrorsHaveCauses == VerifySpec => []ErrorMeansVaultOrDamage
<1>1. VerifyInv => ErrorMeansVaultOrDamage
  BY Zenon DEF VerifyInv, VerifiersSound, VerifierSound, Reported, ErrorMeansVaultOrDamage
<1> QED BY <1>1, VerifyInvariant, PTL

=============================================================================
