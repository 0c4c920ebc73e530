---------------------------- MODULE PolicyRunProofs ----------------------------
(***************************************************************************)
(* Proofs about a policy run, for any evidence and policy versions, any     *)
(* number of attempts, setup runs, restarts and faults, and every workload. *)
(*                                                                         *)
(* A decision is right although nothing locks the pack, the artifacts and   *)
(* the key cache against each other: a proof carries the version that was   *)
(* compiled with its proving key, and the reference track the version that  *)
(* was loaded at the submission.                                            *)
(***************************************************************************)
EXTENDS PolicyRun, FiniteSetTheorems, TLAPS

Proofs == [by : Attempts \cup {None}, setup : 0..MaxSetups, signal : BOOLEAN, genuine : BOOLEAN]

Pcs == {"idle", "got", "started", "witness", "proved", "again", "verified", "agreed", "purge",
        "audit", "done", "lost"}

AttemptRecords == [pc : Pcs, wasm : 0..MaxSetups, proof : Proofs, valid : BOOLEAN]

Decisions == {"none", "pass", "fail"}

Rows == [status : {"none", "queued", "running", "completed", "failed"}, evidence : Evidence \cup {None},
         reference : Decisions, submitted : Nat, version : Nat, decision : Decisions,
         sealed : BOOLEAN, proof : Proofs]

Exports == [pc : {"idle", "rows", "built"}, version : Nat, decision : Decisions, proof : Proofs,
            digests : [Files -> 0..MaxSetups]]

RunTyped ==
    /\ load \in Loads
    /\ pack \in Nat \ {0}
    /\ loaded \in [{"prover", "worker", "verifier", "sdk"} -> Nat]
    /\ file \in [Files -> 0..MaxSetups]
    /\ source \in [1..MaxSetups -> Nat]
    /\ setup \in [run : 0..MaxSetups, next : 1..3, writing : BOOLEAN]
    /\ keyCache \in 0..MaxSetups
    /\ row \in Rows
    /\ att \in [Attempts -> AttemptRecords]
    /\ audit \in Seq(Proofs)
    /\ export \in Exports
    /\ faults \in Nat /\ lost \in Nat

-----------------------------------------------------------------------------
\* A proof that was made, not the absence of one.
Made(q) == q.setup # None

Begun == row.status # "none"

\* Before the run is created there is nothing of it, and a process that only
\* verifies never creates one.
NotBegun ==
    /\ row = NoRow /\ attested = {} /\ audit = << >> /\ export = NoExport /\ ~calm
    /\ \A a \in Attempts : IF load.way = "verify"
                           THEN att[a].pc \in {"idle", "proved", "again", "verified", "done"}
                           ELSE att[a] = NoAttempt

\* The reference decision is that of the version loaded at the submission,
\* and no other decision is recorded.
Decided ==
    /\ load.way \in {"http", "sdk"}
    /\ row.reference = Reference(row.submitted, row.evidence)
    /\ row.status = "completed" => row.decision = row.reference
    /\ row.decision \in {"none", row.reference}
    /\ export.pc # "idle" => export.decision = row.reference
    /\ load.way = "sdk" => /\ row.version = row.submitted
                           /\ \A a \in Attempts : att[a].pc \notin {"got", "purge", "audit"}

ModeInv == IF Begun THEN Decided ELSE NotBegun

\* An artifact comes from a setup run that has compiled a version.
Compiled(s) == s \in 1..MaxSetups /\ source[s] # None

ArtifactsInv ==
    /\ \A f \in Files : file[f] # Torn => Compiled(file[f])
    /\ setup.run # None => Compiled(setup.run)

\* The signal of a genuine proof is the verdict of the version that was
\* compiled with its proving key.
ProofSound(q) ==
    /\ q = NoProof \/ Compiled(q.setup)
    /\ q.genuine => (q.signal <=> row.evidence \in Passes[source[q.setup]])

\* What holds of an attempt, given as its record.
AttemptSound(k) ==
    /\ k.pc = "witness" => Compiled(k.wasm)
    /\ ProofSound(k.proof)
    /\ k.valid => k.proof.genuine
    /\ k.pc \in {"got", "started", "witness"} => ~k.valid
    /\ k.pc \in {"proved", "again", "verified", "agreed", "purge", "audit"} => Made(k.proof)
    /\ k.pc \in {"agreed", "purge", "audit"} =>
           /\ row.reference = Verdict(k.valid /\ k.proof.signal)
           /\ row.reference = "pass" <=> k.proof.signal

ProofsInv ==
    Begun =>
        /\ \A a \in Attempts : AttemptSound(att[a])
        /\ ProofSound(row.proof)
        /\ row.decision = "pass" /\ Made(row.proof) => row.proof.genuine /\ row.proof.signal
        /\ \A n \in 1..Len(audit) : Made(audit[n])
        /\ export.proof = NoProof \/ Made(export.proof)

-----------------------------------------------------------------------------
\* Attempts that have not written their result, and those that have.
Working == {"got", "started", "witness", "proved", "again", "verified", "agreed"}
Closing == {"purge", "audit"}

\* Without overlap one attempt is under way, and it finds the run as it left
\* it.
AloneInv ==
    Begun /\ ~overlap =>
        /\ \A a, b \in Attempts : InFlight(a) /\ InFlight(b) => a = b
        /\ \A a \in Attempts : /\ att[a].pc \in Working => row.status \in {"queued", "running"}
                               /\ att[a].pc \in Closing => row.status = "completed"
        /\ row.status \in {"queued", "running"} =>
               /\ attested = {} /\ audit = << >> /\ row.proof = NoProof /\ export = NoExport
               /\ load.way = "http" => row.sealed

\* Every copy of the run's proof is the one of attempt p.
OneProof(p) ==
    /\ attested \subseteq {p}
    /\ Made(row.proof) => row.proof.by = p
    /\ \A n \in 1..Len(audit) : audit[n].by = p
    /\ Made(export.proof) => export.proof.by = p
    /\ export.pc = "built" => Made(export.proof)
    /\ \A a \in Attempts : att[a].pc \in Closing => att[a].proof.by = p

AgreeInv == Begun /\ ~overlap => \E p \in Attempts \cup {None} : OneProof(p)

-----------------------------------------------------------------------------
\* While nothing changes, every artifact, version and proof is of setup run s.
OfSetup(q, s) == Made(q) => q.setup = s /\ q.genuine

CalmAttempt(k, s) ==
    /\ k.pc = "witness" => k.wasm = s
    /\ OfSetup(k.proof, s)
    /\ k.pc \in {"verified", "agreed", "purge", "audit"} => k.valid

CalmWith(s) ==
    /\ Compiled(s)
    /\ \A f \in Files : file[f] = s
    /\ \A p \in Processes : loaded[p] = source[s]
    /\ row.submitted = source[s]
    /\ OfSetup(row.proof, s)
    /\ \A n \in 1..Len(audit) : OfSetup(audit[n], s)
    /\ \A a \in Attempts : CalmAttempt(att[a], s)
    /\ export.pc # "idle" =>
           /\ export.version = row.submitted
           /\ \A f \in Files : export.digests[f] = s
           /\ OfSetup(export.proof, s)
    /\ export.pc = "built" => Made(export.proof)
    /\ row.status = "failed" /\ ~overlap => faults > 0 \/ lost >= load.max

CalmInv == calm => Begun /\ CalmWith(file["vk"])

\* While a run is not over, and its attempts did not overlap, the row counts the
\* attempts that were interrupted and the one that is under way.
Going == {"started", "witness", "proved", "again", "verified", "agreed"}

TriesInv ==
    /\ tries \in [row : Nat, of : [Attempts -> Nat]]
    /\ ~Begun => tries.row = 0
    /\ Begun /\ ~overlap /\ row.status \in {"queued", "running"} /\ load.way = "http" =>
           /\ \A a \in Attempts : att[a].pc = "got" => tries.of[a] = tries.row + 1
           /\ \/ tries.row <= lost
              \/ tries.row <= lost + 1 /\ \E a \in Attempts : att[a].pc \in Going

\* The key in the file and the cached one are among those that the file has held
\* since the native prover started.
KeysInv ==
    /\ file["vk"] # Torn => file["vk"] \in keys
    /\ keyCache # None => keyCache \in keys

RunInv == RunTyped /\ ModeInv /\ ArtifactsInv /\ ProofsInv /\ AloneInv /\ AgreeInv /\ CalmInv
-----------------------------------------------------------------------------
\* The empty records have their types.
LEMMA EmptyTyped ==
    /\ NoProof \in Proofs /\ ~Made(NoProof)
    /\ NoAttempt \in AttemptRecords /\ NoAttempt.proof = NoProof /\ NoAttempt.valid = FALSE /\ NoAttempt.pc = "idle"
    /\ NoRow \in Rows /\ NoRow.proof = NoProof /\ NoRow.status = "none"
    /\ NoExport \in Exports /\ NoExport.proof = NoProof /\ NoExport.pc = "idle"
<1> USE RunAssumption
<1>1. 0 \in 0..MaxSetups /\ 0 \in Nat /\ 0 \in Attempts \cup {None} /\ 0 \in Evidence \cup {None}
  BY DEF None
<1>2. NoProof \in Proofs /\ NoProof.setup = None
  BY <1>1 DEF NoProof, Proofs, None
<1> HIDE DEF NoProof
<1>3. NoAttempt \in AttemptRecords
  BY <1>1, <1>2 DEF NoAttempt, AttemptRecords, Pcs, None
<1>4. NoRow \in Rows
  BY <1>1, <1>2 DEF NoRow, Rows, Decisions, None
<1>5. NoExport \in Exports
  <2>1. [f \in Files |-> None] \in [Files -> 0..MaxSetups]
    BY <1>1 DEF None
  <2> QED BY <1>1, <1>2, <2>1 DEF NoExport, Exports, Decisions, None
<1> QED BY <1>2, <1>3, <1>4, <1>5 DEF Made, NoAttempt, NoRow, NoExport

\* PROOF_JOB_MAX_ATTEMPTS is positive.
LEMMA LoadMax ==
    ASSUME load \in Loads
    PROVE  load.max \in Nat \ {0}
BY RunAssumption

\* The types of an attempt's fields.
LEMMA AttemptFields ==
    ASSUME NEW k \in AttemptRecords
    PROVE  k.pc \in Pcs /\ k.wasm \in 0..MaxSetups /\ k.proof \in Proofs /\ k.valid \in BOOLEAN
BY DEF AttemptRecords

\* The types of a proof's fields.
LEMMA ProofFields ==
    ASSUME NEW q \in Proofs
    PROVE  /\ q.by \in Attempts \cup {None} /\ q.setup \in 0..MaxSetups
           /\ q.signal \in BOOLEAN /\ q.genuine \in BOOLEAN
BY DEF Proofs

\* Nothing is in an empty audit trail.
LEMMA EmptyTrail ==
    ASSUME NEW t, t = << >>
    PROVE  Len(t) = 0 /\ 1..Len(t) = {}
OBVIOUS

\* A setup run has a number.
LEMMA SetupNumber ==
    ASSUME NEW s \in 1..MaxSetups
    PROVE  s # Torn /\ s # None
BY RunAssumption DEF Torn, None

\* A proof is absent, or comes from a setup run.
LEMMA NoneOrMade ==
    ASSUME NEW q, ProofSound(q)
    PROVE  q = NoProof \/ Made(q)
<1>1. Compiled(q.setup) => q.setup # None
  BY RunAssumption DEF Compiled, None
<1> QED BY <1>1, Zenon DEF ProofSound, Made

\* The changes an attempt's record goes through.
LEMMA PcSet ==
    ASSUME NEW k \in AttemptRecords, NEW pc \in Pcs
    PROVE  LET u == [k EXCEPT !.pc = pc] IN
           /\ u \in AttemptRecords
           /\ u.pc = pc /\ u.wasm = k.wasm /\ u.proof = k.proof /\ u.valid = k.valid
BY DEF AttemptRecords

\* The changes the run's row goes through.
LEMMA StatusSet ==
    ASSUME NEW r \in Rows, NEW s \in {"none", "queued", "running", "completed", "failed"}
    PROVE  LET u == [r EXCEPT !.status = s] IN
           /\ u \in Rows
           /\ u.status = s /\ u.evidence = r.evidence /\ u.reference = r.reference /\ u.submitted = r.submitted
           /\ u.version = r.version /\ u.decision = r.decision /\ u.sealed = r.sealed /\ u.proof = r.proof
BY DEF Rows

\* mark_failed and the purge of the payload touch the row's status and seal.
LEMMA FailSet ==
    ASSUME NEW r \in Rows, NEW s \in {"none", "queued", "running", "completed", "failed"}, NEW b \in BOOLEAN
    PROVE  LET u == [r EXCEPT !.status = s, !.sealed = b] IN
           /\ u \in Rows
           /\ u.status = s /\ u.evidence = r.evidence /\ u.reference = r.reference /\ u.submitted = r.submitted
           /\ u.version = r.version /\ u.decision = r.decision /\ u.sealed = b /\ u.proof = r.proof
BY Zenon DEF Rows

\* The purge alone touches the row's seal.
LEMMA SealSet ==
    ASSUME NEW r \in Rows, NEW b \in BOOLEAN
    PROVE  LET u == [r EXCEPT !.sealed = b] IN
           /\ u \in Rows
           /\ u.status = r.status /\ u.evidence = r.evidence /\ u.reference = r.reference /\ u.submitted = r.submitted
           /\ u.version = r.version /\ u.decision = r.decision /\ u.sealed = b /\ u.proof = r.proof
BY DEF Rows

\* Pruning touches the row's proof.
LEMMA RowProofSet ==
    ASSUME NEW r \in Rows, NEW q \in Proofs
    PROVE  LET u == [r EXCEPT !.proof = q] IN
           /\ u \in Rows
           /\ u.status = r.status /\ u.evidence = r.evidence /\ u.reference = r.reference /\ u.submitted = r.submitted
           /\ u.version = r.version /\ u.decision = r.decision /\ u.sealed = r.sealed /\ u.proof = q
BY DEF Rows

-----------------------------------------------------------------------------
\* A step that leaves the deployment and the artifacts alone, and one that
\* leaves the run's records alone too.
WorldStays ==
    /\ load' = load /\ pack' = pack /\ loaded' = loaded /\ lost' = lost
    /\ file' = file /\ source' = source /\ setup' = setup /\ calm' = calm

RecordsStay == audit' = audit /\ export' = export /\ attested' = attested

\* What is known of artifacts, proofs and attempts rests on the artifacts and on
\* the row's evidence and reference decision only.
LEMMA WorldKept ==
    ASSUME WorldStays
    PROVE  /\ \A s : Compiled(s)' <=> Compiled(s)
           /\ ArtifactsInv => ArtifactsInv'
           /\ Processes' = Processes
           /\ \A q : row'.evidence = row.evidence /\ ProofSound(q) => ProofSound(q)'
           /\ \A k : row'.evidence = row.evidence /\ row'.reference = row.reference /\ AttemptSound(k)
                         => AttemptSound(k)'
<1>1. \A s : Compiled(s)' <=> Compiled(s)
  BY DEF WorldStays, Compiled
<1>2. ArtifactsInv => ArtifactsInv'
  BY <1>1 DEF WorldStays, ArtifactsInv
<1>3. Processes' = Processes
  BY DEF WorldStays, Processes
<1>4. ASSUME NEW q, row'.evidence = row.evidence, ProofSound(q) PROVE ProofSound(q)'
  BY <1>1, <1>4 DEF WorldStays, ProofSound
<1>5. ASSUME NEW k, row'.evidence = row.evidence, row'.reference = row.reference, AttemptSound(k)
      PROVE  AttemptSound(k)'
  <2>1. ProofSound(k.proof) => ProofSound(k.proof)'
    BY <1>4, <1>5
  <2> QED BY <1>1, <1>5, <2>1 DEF AttemptSound
<1> QED BY <1>1, <1>2, <1>3, <1>4, <1>5

\* An attempt moves and nothing else does.
LEMMA AttemptMoves ==
    ASSUME RunInv, NEW a \in Attempts, NEW k \in AttemptRecords, att' = [att EXCEPT ![a] = k],
           WorldStays, RecordsStay, keyCache' \in 0..MaxSetups,
           row' = row, overlap' = overlap, faults' \in Nat, faults' >= faults,
           ~Begun => load.way = "verify" /\ k.pc \in {"idle", "proved", "again", "verified", "done"},
           Begun => /\ AttemptSound(k)
                    /\ k.pc \in Working => att[a].pc \in Working
                    /\ k.pc \notin Closing
                    /\ load.way = "sdk" => k.pc # "got",
           calm => CalmAttempt(k, file["vk"])
    PROVE  RunInv'
<1>1. /\ RunTyped /\ ModeInv /\ ArtifactsInv /\ ProofsInv /\ AloneInv /\ AgreeInv /\ CalmInv
      /\ att \in [Attempts -> AttemptRecords] /\ k.pc \in Pcs /\ att[a].pc \in Pcs
  BY AttemptFields DEF RunInv, RunTyped
<1>2. att'[a] = k /\ \A b \in Attempts : b # a => att'[b] = att[b]
  BY <1>1
<1>3. RunTyped'
  BY <1>1 DEF RunTyped, WorldStays, RecordsStay
<1>4. ModeInv'
  BY <1>1, <1>2 DEF ModeInv, Begun, Decided, NotBegun, WorldStays, RecordsStay, Working, Closing
<1>5. ArtifactsInv' /\ Processes' = Processes
  BY <1>1, WorldKept
<1>6. ProofsInv'
  BY <1>1, <1>2, WorldKept DEF ProofsInv, Begun, RecordsStay
<1>7. AloneInv'
  <2>1. ~(k.pc \in {"idle", "done", "lost"}) => k.pc \in Working \cup Closing
    BY <1>1 DEF Pcs, Working, Closing
  <2> QED BY <1>1, <1>2, <2>1 DEF AloneInv, Begun, InFlight, RecordsStay, WorldStays, Working, Closing
<1>8. AgreeInv'
  BY <1>1, <1>2, Zenon DEF AgreeInv, Begun, OneProof, RecordsStay
<1>9. CalmInv'
  <2>1. faults > 0 => faults' > 0
    BY <1>1 DEF RunTyped
  <2> QED BY <1>1, <1>2, <1>5, <2>1, WorldKept DEF CalmInv, Begun, CalmWith, RecordsStay, WorldStays
<1> QED BY <1>3, <1>4, <1>5, <1>6, <1>7, <1>8, <1>9 DEF RunInv

\* An attempt that is over.
LEMMA Over ==
    ASSUME RunInv, NEW pc \in {"done", "lost"}
    PROVE  LET k == [NoAttempt EXCEPT !.pc = pc] IN
           /\ k \in AttemptRecords /\ k.pc = pc /\ k.proof = NoProof /\ k.valid = FALSE
           /\ AttemptSound(k) /\ \A s : CalmAttempt(k, s)
<1> DEFINE k == [NoAttempt EXCEPT !.pc = pc]
<1>1. k \in AttemptRecords /\ k.pc = pc /\ k.proof = NoProof /\ k.valid = FALSE
  <2>1. NoAttempt \in AttemptRecords /\ NoAttempt.proof = NoProof /\ NoAttempt.valid = FALSE /\ pc \in Pcs
    BY EmptyTyped DEF Pcs
  <2> QED BY <2>1, PcSet
<1>2. NoProof.setup = None /\ NoProof.genuine = FALSE
  BY DEF NoProof
<1> HIDE DEF k
<1>3. AttemptSound(k)
  BY <1>1, <1>2 DEF AttemptSound, ProofSound
<1>4. \A s : CalmAttempt(k, s)
  BY <1>1, <1>2 DEF CalmAttempt, OfSetup, Made
<1> QED BY <1>1, <1>3, <1>4 DEF k

\* The exception branches: the run fails, its payload goes, the attempt ends.
LEMMA FailMoves ==
    ASSUME RunInv, NEW a \in Attempts, Begun, Failed(a), WorldStays, RecordsStay, keyCache' \in 0..MaxSetups,
           overlap' = overlap, faults' \in Nat, faults' >= faults, calm /\ ~overlap => faults' > 0 \/ lost >= load.max,
           InFlight(a)
    PROVE  RunInv'
<1>1. /\ RunTyped /\ Decided /\ ArtifactsInv /\ ProofsInv /\ AloneInv /\ AgreeInv /\ CalmInv
      /\ att \in [Attempts -> AttemptRecords] /\ row \in Rows
  BY DEF RunInv, RunTyped, ModeInv
<1> DEFINE k == [NoAttempt EXCEPT !.pc = "done"]
<1>2. k \in AttemptRecords /\ k.pc = "done" /\ k.proof = NoProof /\ AttemptSound(k) /\ \A s : CalmAttempt(k, s)
  BY Over
<1>3. att' = [att EXCEPT ![a] = k] /\ row' = [row EXCEPT !.status = "failed", !.sealed = FALSE]
  BY DEF Failed
<1> HIDE DEF k
<1>4. att'[a] = k /\ \A b \in Attempts : b # a => att'[b] = att[b]
  BY <1>1, <1>3
<1>5. /\ row' \in Rows /\ row'.status = "failed" /\ row'.evidence = row.evidence /\ row'.reference = row.reference
      /\ row'.submitted = row.submitted /\ row'.version = row.version /\ row'.decision = row.decision
      /\ row'.proof = row.proof
  BY <1>1, <1>3, FailSet, Zenon
<1>6. RunTyped'
  BY <1>1, <1>2, <1>3, <1>5 DEF RunTyped, WorldStays, RecordsStay
<1>7. ModeInv'
  BY <1>1, <1>2, <1>4, <1>5 DEF ModeInv, Begun, Decided, WorldStays, RecordsStay, Reference
<1>8. ArtifactsInv' /\ Processes' = Processes
  BY <1>1, WorldKept
<1>9. ProofsInv'
  BY <1>1, <1>2, <1>4, <1>5, WorldKept DEF ProofsInv, Begun, RecordsStay
<1>10. AloneInv'
  <2>1. Begun /\ ~overlap => \A b \in Attempts : b # a => ~InFlight(b)
    BY <1>1 DEF AloneInv
  <2> QED BY <1>2, <1>4, <1>5, <2>1 DEF AloneInv, Begun, InFlight, RecordsStay, WorldStays, Working, Closing
<1>11. AgreeInv'
  <2> SUFFICES ASSUME ~overlap PROVE \E p \in Attempts \cup {None} : OneProof(p)'
    BY Zenon DEF AgreeInv
  <2>1. PICK p \in Attempts \cup {None} : OneProof(p)
    BY <1>1, Zenon DEF AgreeInv
  <2>2. \A b \in Attempts : att'[b].pc \in Closing => att'[b].proof.by = p
    BY <1>2, <1>4, <2>1, Zenon DEF OneProof, Closing
  <2>3. OneProof(p)'
    BY <1>5, <2>1, <2>2, Zenon DEF OneProof, RecordsStay
  <2> QED BY <2>3, Zenon
<1>12. CalmInv'
  BY <1>1, <1>2, <1>4, <1>5, <1>8, WorldKept DEF CalmInv, Begun, CalmWith, RecordsStay, WorldStays
<1> QED BY <1>6, <1>7, <1>8, <1>9, <1>10, <1>11, <1>12 DEF RunInv

\* The proof engine raises, in a run or in a call of POST /v6/verify.
LEMMA RaiseMoves ==
    ASSUME RunInv, NEW a \in Attempts, EngineRaises(a), WorldStays, RecordsStay, keyCache' \in 0..MaxSetups,
           overlap' = overlap, faults' \in Nat, faults' >= faults, calm /\ ~overlap => faults' > 0 \/ lost >= load.max,
           InFlight(a)
    PROVE  RunInv'
<1>1. RunTyped /\ ModeInv /\ att[a] \in AttemptRecords
  BY DEF RunInv, RunTyped
<1>2. CASE Begun
  BY <1>1, <1>2, FailMoves DEF EngineRaises, ModeInv, Decided
<1>3. CASE ~Begun
  <2>1. load.way = "verify"
    BY <1>1, <1>3 DEF ModeInv, NotBegun, InFlight, NoAttempt
  <2> DEFINE k == [att[a] EXCEPT !.pc = "done"]
  <2>2. k \in AttemptRecords /\ k.pc = "done"
    BY <1>1, PcSet, Zenon DEF Pcs
  <2>3. att' = [att EXCEPT ![a] = k] /\ row' = row
    BY <1>1, <2>1 DEF EngineRaises, Goto, RunTyped
  <2>4. ~calm
    BY <1>1, <1>3 DEF ModeInv, NotBegun
  <2> HIDE DEF k
  <2> QED BY <1>3, <2>1, <2>2, <2>3, <2>4, AttemptMoves, Zenon
<1> QED BY <1>2, <1>3

-----------------------------------------------------------------------------
\* The fields of the attempt at hand.
LEMMA Here ==
    ASSUME RunInv, NEW a \in Attempts
    PROVE  /\ RunTyped /\ att \in [Attempts -> AttemptRecords] /\ att[a] \in AttemptRecords
           /\ att[a].proof \in Proofs /\ att[a].valid \in BOOLEAN /\ att[a].wasm \in 0..MaxSetups
           /\ row \in Rows /\ file \in [Files -> 0..MaxSetups] /\ source \in [1..MaxSetups -> Nat]
           /\ Begun => AttemptSound(att[a]) /\ Decided
           /\ ~Begun => ~calm
           /\ calm => Begun /\ CalmWith(file["vk"]) /\ CalmAttempt(att[a], file["vk"])
<1>1. RunTyped /\ att[a] \in AttemptRecords
  BY DEF RunInv, RunTyped
<1>2. att[a].proof \in Proofs /\ att[a].valid \in BOOLEAN /\ att[a].wasm \in 0..MaxSetups
  BY <1>1, AttemptFields
<1>3. /\ Begun => AttemptSound(att[a]) /\ Decided
      /\ ~Begun => ~calm
      /\ calm => Begun /\ CalmWith(file["vk"]) /\ CalmAttempt(att[a], file["vk"])
  BY DEF RunInv, ProofsInv, ModeInv, NotBegun, CalmInv, CalmWith
<1> QED BY <1>1, <1>2, <1>3 DEF RunTyped

\* An attempt under way, before the run is created, is a call of
\* POST /v6/verify; it is at one of three points.
LEMMA UnderWayMode ==
    ASSUME RunInv, NEW a \in Attempts, InFlight(a), ~Begun
    PROVE  load.way = "verify" /\ att[a].pc \in {"proved", "again", "verified"}
BY DEF RunInv, ModeInv, NotBegun, InFlight, NoAttempt

\* A file of the artifacts.
LEMMA FileTyped ==
    ASSUME RunInv, NEW f \in Files
    PROVE  /\ file[f] \in 0..MaxSetups
           /\ file[f] # Torn => Compiled(file[f])
           /\ calm => file[f] = file["vk"] /\ Compiled(file[f]) /\ file[f] # Torn
BY DEF RunInv, RunTyped, ArtifactsInv, CalmInv, CalmWith, Files, Compiled, Torn

\* generate, up to the witness: the wasm file is whole, or the engine raises;
\* while all is calm it is that of the settled setup run.
LEMMA GenerateWitnessKeeps ==
    ASSUME RunInv, NEW a \in Attempts, GenerateWitness(a)
    PROVE  RunInv'
<1>1. /\ WorldStays /\ RecordsStay /\ keyCache' = keyCache /\ overlap' = overlap /\ faults' = faults
      /\ att[a].pc = "started"
  BY DEF GenerateWitness, WorldStays, RecordsStay, keyVars, deployVars, artifactVars, exportVars
<1>2. InFlight(a) /\ Begun /\ keyCache' \in 0..MaxSetups /\ faults' \in Nat /\ faults' >= faults
  <2>1. InFlight(a)
    BY <1>1 DEF InFlight
  <2>2. Begun
    BY <1>1, <2>1, UnderWayMode
  <2> QED BY <1>1, <2>1, <2>2 DEF RunInv, RunTyped
<1>3. /\ file["wasm"] \in 0..MaxSetups
      /\ file["wasm"] # Torn => Compiled(file["wasm"])
      /\ calm => file["wasm"] = file["vk"] /\ file["wasm"] # Torn
  BY FileTyped DEF Files
<1>4. CASE file["wasm"] = Torn
  BY <1>1, <1>2, <1>3, <1>4, RaiseMoves DEF GenerateWitness
<1>5. CASE file["wasm"] # Torn
  <2> DEFINE k == [att[a] EXCEPT !.pc = "witness", !.wasm = file["wasm"]]
  <2>0. att[a] \in AttemptRecords /\ "witness" \in Pcs
    BY Here DEF Pcs
  <2>1. k \in AttemptRecords /\ k.pc = "witness" /\ k.wasm = file["wasm"] /\ k.proof = att[a].proof /\ k.valid = att[a].valid
    BY <1>3, <2>0, Zenon DEF AttemptRecords
  <2>2. att' = [att EXCEPT ![a] = k] /\ row' = row
    BY <1>5, Here, Zenon DEF GenerateWitness
  <2> HIDE DEF k
  <2>3. AttemptSound(k)
    BY <1>1, <1>2, <1>3, <1>5, <2>1, Here DEF AttemptSound
  <2>4. calm => CalmAttempt(k, file["vk"])
    BY <1>3, <2>1, Here DEF CalmAttempt
  <2>5. att[a].pc \in Working /\ k.pc \notin Closing /\ k.pc # "got"
    BY <1>1, <2>1 DEF Working, Closing
  <2> QED BY <1>1, <1>2, <2>1, <2>2, <2>3, <2>4, <2>5, AttemptMoves, Zenon
<1> QED BY <1>4, <1>5

\* generate, the proof: it is genuine exactly if the proving key belongs to the
\* version that made the witness, and then its signal is that version's verdict.
LEMMA GenerateProofKeeps ==
    ASSUME RunInv, NEW a \in Attempts, GenerateProof(a)
    PROVE  RunInv'
<1> DEFINE same == file["zkey"] # Torn /\ source[file["zkey"]] = source[att[a].wasm]
           q == [by |-> a, setup |-> file["zkey"], genuine |-> same,
                 signal |-> row.evidence \in Passes[source[att[a].wasm]]]
           k == [att[a] EXCEPT !.pc = "proved", !.wasm = None, !.proof = q]
<1>1. /\ WorldStays /\ RecordsStay /\ keyCache' = keyCache /\ overlap' = overlap /\ faults' = faults
      /\ att[a].pc = "witness"
  BY DEF GenerateProof, WorldStays, RecordsStay, keyVars, deployVars, artifactVars, exportVars
<1>2. InFlight(a) /\ Begun /\ keyCache' \in 0..MaxSetups /\ faults' \in Nat /\ faults' >= faults
  <2>1. InFlight(a)
    BY <1>1 DEF InFlight
  <2>2. Begun
    BY <1>1, <2>1, UnderWayMode
  <2> QED BY <1>1, <2>1, <2>2 DEF RunInv, RunTyped
<1>3. /\ file["zkey"] \in 0..MaxSetups
      /\ file["zkey"] # Torn => Compiled(file["zkey"])
      /\ calm => file["zkey"] = file["vk"] /\ file["zkey"] # Torn
  BY FileTyped DEF Files
<1>4. calm => att[a].wasm = file["vk"]
  BY <1>1, Here DEF CalmAttempt
<1>5. calm => same
  BY <1>3, <1>4
<1>6. CASE ~same /\ EngineRaises(a)
  BY <1>1, <1>2, <1>5, <1>6, RaiseMoves
<1>7. CASE file["zkey"] # Torn /\ att' = [att EXCEPT ![a].pc = "proved", ![a].wasm = None, ![a].proof = q] /\ row' = row
  <2>1. q \in Proofs /\ q.setup = file["zkey"] /\ (q.genuine <=> same)
        /\ (q.signal <=> row.evidence \in Passes[source[att[a].wasm]])
    <3>1. same \in BOOLEAN /\ (row.evidence \in Passes[source[att[a].wasm]]) \in BOOLEAN
      OBVIOUS
    <3> HIDE DEF same
    <3> QED BY <1>3, <3>1, Zenon DEF Proofs
  <2>2. ProofSound(q)
    BY <1>3, <1>7, <2>1 DEF ProofSound
  <2>3. att' = [att EXCEPT ![a] = k]
    BY <1>7, Here, Zenon
  <2> HIDE DEF q, same
  <2>4. att[a] \in AttemptRecords /\ "proved" \in Pcs /\ None \in 0..MaxSetups
    BY Here, RunAssumption DEF Pcs, None
  <2>5. k \in AttemptRecords /\ k.pc = "proved" /\ k.proof = q /\ k.valid = att[a].valid
    BY <2>1, <2>4, Zenon DEF AttemptRecords
  <2> HIDE DEF k
  <2>6. AttemptSound(k)
    BY <1>1, <1>2, <1>7, <2>1, <2>2, <2>5, Here DEF AttemptSound, Made, Torn, None
  <2>7. calm => CalmAttempt(k, file["vk"])
    BY <1>3, <1>5, <2>1, <2>5 DEF CalmAttempt, OfSetup
  <2>8. att[a].pc \in Working /\ k.pc \notin Closing /\ k.pc # "got"
    BY <1>1, <2>5 DEF Working, Closing
  <2> QED BY <1>1, <1>2, <1>7, <2>3, <2>5, <2>6, <2>7, <2>8, AttemptMoves, Zenon
<1> QED BY <1>6, <1>7 DEF GenerateProof

\* The native prover's answer rests on the cached key; only acceptance ends the
\* verification.
LEMMA VerifyNativeKeeps ==
    ASSUME RunInv, NEW a \in Attempts, VerifyNative(a)
    PROVE  RunInv'
<1> DEFINE key == IF keyCache # None THEN keyCache ELSE file["vk"]
           v == key # None /\ Verifies(att[a].proof, key)
           k == [att[a] EXCEPT !.pc = IF v THEN "verified" ELSE "again", !.valid = v]
<1>1. /\ WorldStays /\ RecordsStay /\ row' = row /\ overlap' = overlap /\ faults' = faults
      /\ att[a].pc = "proved" /\ keyCache' = key
  BY DEF VerifyNative, WorldStays, RecordsStay, keyVars, deployVars, artifactVars, exportVars, runVars
<1>2. InFlight(a) /\ (~Begun => load.way = "verify")
  <2>1. InFlight(a)
    BY <1>1 DEF InFlight
  <2> QED BY <2>1, UnderWayMode
<1>3. keyCache' \in 0..MaxSetups /\ faults' \in Nat /\ faults' >= faults
  <2>1. keyCache \in 0..MaxSetups /\ faults \in Nat /\ file["vk"] \in 0..MaxSetups
    BY DEF RunInv, RunTyped, Files
  <2> QED BY <1>1, <2>1
<1>4. v \in BOOLEAN /\ (v => att[a].proof.genuine)
  <2>1. att[a].proof.genuine \in BOOLEAN
    BY Here, ProofFields
  <2> QED BY <2>1 DEF Verifies
<1>5. att' = [att EXCEPT ![a] = k]
  BY Here, Zenon DEF VerifyNative
<1> HIDE DEF v, key
<1>6. att[a] \in AttemptRecords /\ {"verified", "again"} \subseteq Pcs
  BY Here DEF Pcs
<1>7. k \in AttemptRecords /\ k.pc = (IF v THEN "verified" ELSE "again") /\ k.proof = att[a].proof /\ k.valid = v
  BY <1>4, <1>6, Zenon DEF AttemptRecords
<1> HIDE DEF k
<1>8. Begun => AttemptSound(k)
  BY <1>1, <1>4, <1>7, Here DEF AttemptSound
<1>9. calm => CalmAttempt(k, file["vk"])
  BY <1>1, <1>7, Here DEF CalmAttempt
<1>10. att[a].pc \in Working /\ k.pc \notin Closing /\ k.pc # "got" /\ k.pc \in {"again", "verified"}
  BY <1>1, <1>7 DEF Working, Closing
<1> QED BY <1>1, <1>2, <1>3, <1>5, <1>7, <1>8, <1>9, <1>10, AttemptMoves, Zenon

\* The answer of snarkjs rests on the key in the file, which while all is calm
\* accepts every proof that was made.
LEMMA VerifySnarkjsKeeps ==
    ASSUME RunInv, NEW a \in Attempts, VerifySnarkjs(a)
    PROVE  RunInv'
<1> DEFINE v == file["vk"] # Torn /\ Verifies(att[a].proof, file["vk"])
           k == [att[a] EXCEPT !.pc = "verified", !.valid = v]
<1>1. /\ WorldStays /\ RecordsStay /\ keyCache' = keyCache /\ overlap' = overlap /\ faults' = faults
      /\ att[a].pc = "again"
  BY DEF VerifySnarkjs, WorldStays, RecordsStay, keyVars, deployVars, artifactVars, exportVars
<1>2. InFlight(a) /\ (~Begun => load.way = "verify")
  <2>1. InFlight(a)
    BY <1>1 DEF InFlight
  <2> QED BY <2>1, UnderWayMode
<1>3. keyCache' \in 0..MaxSetups /\ faults' \in Nat /\ faults' >= faults
  BY <1>1 DEF RunInv, RunTyped
<1>4. v \in BOOLEAN /\ (v => att[a].proof.genuine)
  <2>1. att[a].proof.genuine \in BOOLEAN
    BY Here, ProofFields
  <2> QED BY <2>1 DEF Verifies
<1>5. calm => v
  <2>1. calm => file["vk"] # Torn
    BY FileTyped DEF Files
  <2>2. Begun => Made(att[a].proof)
    BY <1>1, Here DEF AttemptSound
  <2> QED BY <2>1, <2>2, Here DEF CalmAttempt, OfSetup, Verifies
<1>6. (EngineRaises(a) /\ ~v) \/ (att' = [att EXCEPT ![a] = k] /\ row' = row)
  BY Here, Zenon DEF VerifySnarkjs
<1> HIDE DEF v
<1>7. CASE EngineRaises(a) /\ ~v
  BY <1>1, <1>2, <1>3, <1>5, <1>7, RaiseMoves
<1>8. CASE att' = [att EXCEPT ![a] = k] /\ row' = row
  <2>1. att[a] \in AttemptRecords /\ "verified" \in Pcs
    BY Here DEF Pcs
  <2>2. k \in AttemptRecords /\ k.pc = "verified" /\ k.proof = att[a].proof /\ k.valid = v
    BY <1>4, <2>1, Zenon DEF AttemptRecords
  <2> HIDE DEF k
  <2>3. Begun => AttemptSound(k)
    BY <1>1, <1>4, <2>2, Here DEF AttemptSound
  <2>4. calm => CalmAttempt(k, file["vk"])
    BY <1>1, <1>5, <2>2, Here DEF CalmAttempt
  <2>5. att[a].pc \in Working /\ k.pc \notin Closing /\ k.pc # "got"
    BY <1>1, <2>2 DEF Working, Closing
  <2> QED BY <1>1, <1>2, <1>3, <1>8, <2>2, <2>3, <2>4, <2>5, AttemptMoves, Zenon
<1> QED BY <1>6, <1>7, <1>8

\* A call that fails by itself is counted as a fault.
LEMMA CallFailsKeeps ==
    ASSUME RunInv, NEW a \in Attempts, CallFails(a)
    PROVE  RunInv'
<1>1. /\ WorldStays /\ RecordsStay /\ keyCache' = keyCache /\ overlap' = overlap /\ faults' = faults + 1
      /\ EngineRaises(a)
  BY DEF CallFails, WorldStays, RecordsStay, keyVars, deployVars, artifactVars, exportVars
<1>2. InFlight(a)
  BY DEF CallFails, InFlight
<1>3. keyCache' \in 0..MaxSetups /\ faults' \in Nat /\ faults' >= faults /\ faults' > 0
  BY <1>1 DEF RunInv, RunTyped
<1> QED BY <1>1, <1>2, <1>3, RaiseMoves

\* assert_dual_track_consistency: while all is calm the two tracks agree, since
\* both are of the same version.
LEMMA DualTrackKeeps ==
    ASSUME RunInv, NEW a \in Attempts, DualTrack(a)
    PROVE  RunInv'
<1> DEFINE k == [att[a] EXCEPT !.pc = "agreed"]
<1>1. /\ WorldStays /\ RecordsStay /\ keyCache' = keyCache /\ overlap' = overlap /\ faults' = faults
      /\ att[a].pc = "verified" /\ load.way # "verify"
  BY DEF DualTrack, WorldStays, RecordsStay, keyVars, deployVars, artifactVars, exportVars
<1>2. InFlight(a) /\ Begun
  <2>1. InFlight(a)
    BY <1>1 DEF InFlight
  <2> QED BY <1>1, <2>1, UnderWayMode
<1>3. keyCache' \in 0..MaxSetups /\ faults' \in Nat /\ faults' >= faults
  BY <1>1 DEF RunInv, RunTyped
<1>4. att[a].valid \in BOOLEAN /\ att[a].proof.signal \in BOOLEAN
  BY Here, ProofFields
<1>5. calm => Consistent(a)
  <2> SUFFICES ASSUME calm PROVE Consistent(a)
    OBVIOUS
  <2>1. att[a].valid /\ Made(att[a].proof)
    BY <1>1, <1>2, Here DEF CalmAttempt, AttemptSound
  <2>2. /\ att[a].proof.genuine /\ att[a].proof.setup = file["vk"]
        /\ att[a].proof.signal <=> row.evidence \in Passes[source[file["vk"]]]
    BY <1>2, <2>1, Here, Zenon DEF CalmAttempt, OfSetup, AttemptSound, ProofSound
  <2>3. row.reference = Reference(source[file["vk"]], row.evidence)
    BY <1>2, Here DEF CalmWith, Decided
  <2> QED BY <1>4, <2>1, <2>2, <2>3 DEF Consistent, CircuitDecision, Reference, Verdict
<1>6. CASE Consistent(a)
  <2>1. att[a] \in AttemptRecords /\ "agreed" \in Pcs
    BY Here DEF Pcs
  <2>2. k \in AttemptRecords /\ k.pc = "agreed" /\ k.proof = att[a].proof /\ k.valid = att[a].valid
    BY <2>1, PcSet
  <2>3. att' = [att EXCEPT ![a] = k] /\ row' = row
    BY <1>6, Here DEF DualTrack, Goto
  <2> HIDE DEF k
  <2>4. AttemptSound(k)
    BY <1>1, <1>2, <1>4, <1>6, <2>2, Here, Zenon DEF AttemptSound, Consistent, CircuitDecision
  <2>5. calm => CalmAttempt(k, file["vk"])
    BY <1>1, <2>2, Here DEF CalmAttempt
  <2>6. att[a].pc \in Working /\ k.pc \notin Closing /\ k.pc # "got"
    BY <1>1, <2>2 DEF Working, Closing
  <2> QED BY <1>1, <1>2, <1>3, <2>2, <2>3, <2>4, <2>5, <2>6, AttemptMoves, Zenon
<1>7. CASE ~Consistent(a)
  BY <1>1, <1>2, <1>3, <1>5, <1>7, FailMoves DEF DualTrack
<1> QED BY <1>6, <1>7

\* POST /v6/verify starts, where there is no run.
LEMMA VerifyKeeps ==
    ASSUME RunInv, NEW a \in Attempts, NEW q \in Proofs, Verify(a, q)
    PROVE  RunInv'
<1> DEFINE k == [att[a] EXCEPT !.pc = "proved", !.proof = q]
<1>1. /\ WorldStays /\ RecordsStay /\ row' = row /\ keyCache' = keyCache /\ overlap' = overlap /\ faults' = faults
      /\ load.way = "verify"
  BY DEF Verify, WorldStays, RecordsStay, keyVars, deployVars, artifactVars, exportVars, runVars
<1>2. ~Begun
  BY <1>1 DEF RunInv, ModeInv, Decided
<1>3. keyCache' \in 0..MaxSetups /\ faults' \in Nat /\ faults' >= faults
  BY <1>1 DEF RunInv, RunTyped
<1>4. att[a] \in AttemptRecords /\ "proved" \in Pcs /\ ~calm
  BY <1>2, Here DEF Pcs
<1>5. k \in AttemptRecords /\ k.pc = "proved"
  BY <1>4, Zenon DEF AttemptRecords
<1>6. att' = [att EXCEPT ![a] = k]
  BY Here, Zenon DEF Verify
<1> HIDE DEF k
<1> QED BY <1>1, <1>2, <1>3, <1>4, <1>5, <1>6, AttemptMoves, Zenon

\* POST /v6/verify answers.
LEMMA VerifyAnsweredKeeps ==
    ASSUME RunInv, NEW a \in Attempts, VerifyAnswered(a)
    PROVE  RunInv'
<1> DEFINE k == [NoAttempt EXCEPT !.pc = "done"]
<1>1. /\ WorldStays /\ RecordsStay /\ row' = row /\ keyCache' = keyCache /\ overlap' = overlap /\ faults' = faults
      /\ load.way = "verify" /\ att' = [att EXCEPT ![a] = k]
  BY DEF VerifyAnswered, WorldStays, RecordsStay, keyVars, deployVars, artifactVars, exportVars, runVars
<1>2. ~Begun
  BY <1>1 DEF RunInv, ModeInv, Decided
<1>3. keyCache' \in 0..MaxSetups /\ faults' \in Nat /\ faults' >= faults /\ ~calm
  BY <1>1, <1>2, Here DEF RunInv, RunTyped
<1>4. k \in AttemptRecords /\ k.pc = "done"
  BY Over
<1> HIDE DEF k
<1> QED BY <1>1, <1>2, <1>3, <1>4, AttemptMoves, Zenon


-----------------------------------------------------------------------------
\* The run's row changes, and perhaps an attempt with it.
LEMMA RowMoves ==
    ASSUME RunInv, Begun, WorldStays, RecordsStay, keyCache' = keyCache, overlap' = overlap, faults' = faults,
           row' \in Rows, row'.status # "none", row'.status = "failed" => row.status = "failed",
           row'.evidence = row.evidence, row'.reference = row.reference, row'.submitted = row.submitted,
           load.way = "sdk" => row'.version = row.version,
           row'.decision \in {row.decision, row.reference},
           row'.status = "completed" => row'.decision = row.reference,
           ProofSound(row'.proof),
           row'.decision = "pass" /\ Made(row'.proof) => row'.proof.genuine /\ row'.proof.signal,
           att' \in [Attempts -> AttemptRecords],
           \A b \in Attempts : AttemptSound(att'[b]),
           load.way = "sdk" => \A b \in Attempts : att'[b].pc \notin {"got", "purge", "audit"},
           calm => OfSetup(row'.proof, file["vk"]) /\ \A b \in Attempts : CalmAttempt(att'[b], file["vk"]),
           AloneInv', AgreeInv'
    PROVE  RunInv'
<1>1. /\ RunTyped /\ Decided /\ ArtifactsInv /\ ProofsInv /\ CalmInv
  BY DEF RunInv, ModeInv
<1>2. RunTyped'
  BY <1>1 DEF RunTyped, WorldStays, RecordsStay
<1>3. ModeInv'
  BY <1>1, Zenon DEF ModeInv, Begun, Decided, WorldStays, RecordsStay, Reference
<1>4. ArtifactsInv' /\ Processes' = Processes
  BY <1>1, WorldKept, Zenon
<1>5. ProofsInv'
  BY <1>1, WorldKept, Zenon DEF ProofsInv, Begun, RecordsStay
<1>6. CalmInv'
  BY <1>1, <1>4, WorldKept, Zenon DEF CalmInv, Begun, CalmWith, RecordsStay, WorldStays
<1> QED BY <1>2, <1>3, <1>4, <1>5, <1>6 DEF RunInv


\* While the attempts do not overlap, the one under way is alone.
LEMMA Alone ==
    ASSUME RunInv, NEW a \in Attempts, InFlight(a), Begun, ~overlap
    PROVE  /\ \A b \in Attempts : b # a => ~InFlight(b) /\ att[b].pc \notin Working \cup Closing
           /\ att[a].pc \in Working =>
                  /\ row.status \in {"queued", "running"}
                  /\ attested = {} /\ audit = << >> /\ row.proof = NoProof /\ export = NoExport
                  /\ load.way = "http" => row.sealed
           /\ att[a].pc \in Closing => row.status = "completed"
<1>1. \A b \in Attempts : b # a => ~InFlight(b)
  BY DEF RunInv, AloneInv
<1>2. \A b \in Attempts : ~InFlight(b) => att[b].pc \notin Working \cup Closing
  BY DEF InFlight, Working, Closing
<1> QED BY <1>1, <1>2 DEF RunInv, AloneInv

\* get_job: the message is taken up; overlap records a second delivery while an
\* attempt is under way.
LEMMA GetJobKeeps ==
    ASSUME RunInv, NEW a \in Attempts, GetJob(a)
    PROVE  RunInv'
<1>1. /\ WorldStays /\ RecordsStay /\ row' = row /\ keyCache' = keyCache /\ faults' = faults
      /\ load.way = "http" /\ row # NoRow /\ att[a] = NoAttempt
  BY DEF GetJob, WorldStays, RecordsStay, keyVars, deployVars, artifactVars, exportVars
<1>2. Begun /\ keyCache' \in 0..MaxSetups /\ faults' \in Nat /\ faults' >= faults
  BY <1>1 DEF RunInv, RunTyped, ModeInv, NotBegun
<1>3. CASE row.status \notin {"queued", "running"}
  <2> DEFINE k == [NoAttempt EXCEPT !.pc = "done"]
  <2>1. k \in AttemptRecords /\ k.pc = "done" /\ AttemptSound(k) /\ \A s : CalmAttempt(k, s)
    BY Over
  <2>2. att' = [att EXCEPT ![a] = k] /\ overlap' = overlap
    BY <1>1, <1>3, Here DEF GetJob
  <2> HIDE DEF k
  <2>3. k.pc \notin Working \cup Closing /\ k.pc # "got"
    BY <2>1 DEF Working, Closing
  <2> QED BY <1>1, <1>2, <2>1, <2>2, <2>3, AttemptMoves, Zenon
<1>4. CASE row.status \in {"queued", "running"}
  <2> DEFINE k == [NoAttempt EXCEPT !.pc = "got"]
  <2>1. k \in AttemptRecords /\ k.pc = "got" /\ k.proof = NoProof /\ k.valid = FALSE
    <3>1. NoAttempt \in AttemptRecords /\ NoAttempt.proof = NoProof /\ NoAttempt.valid = FALSE /\ "got" \in Pcs
      BY EmptyTyped DEF Pcs
    <3> QED BY <3>1, PcSet
  <2>2. att' = [att EXCEPT ![a] = k] /\ overlap' = (overlap \/ \E b \in Attempts : InFlight(b))
    BY <1>1, <1>4, Here DEF GetJob
  <2> HIDE DEF k
  <2>3. ~overlap' => ~overlap /\ \A b \in Attempts : ~InFlight(b)
    BY <2>2, Zenon
  <2>4. /\ RunTyped /\ ModeInv /\ Decided /\ ArtifactsInv /\ ProofsInv /\ AloneInv /\ AgreeInv /\ CalmInv
        /\ att \in [Attempts -> AttemptRecords]
    BY <1>2 DEF RunInv, RunTyped, ModeInv
  <2>5. att'[a] = k /\ \A b \in Attempts : b # a => att'[b] = att[b]
    BY <2>2, <2>4
  <2>6. AttemptSound(k) /\ \A s : CalmAttempt(k, s)
    <3>1. NoProof.setup = None /\ NoProof.genuine = FALSE
      BY DEF NoProof
    <3> QED BY <2>1, <3>1 DEF AttemptSound, ProofSound, CalmAttempt, OfSetup, Made
  <2>7. RunTyped'
    BY <1>1, <1>2, <2>1, <2>2, <2>4 DEF RunTyped, WorldStays, RecordsStay
  <2>8. ModeInv'
    BY <1>1, <1>2, <2>1, <2>4, <2>5 DEF ModeInv, Begun, Decided, WorldStays, RecordsStay, Reference
  <2>9. ArtifactsInv' /\ Processes' = Processes
    BY <1>1, <2>4, WorldKept
  <2>10. ProofsInv'
    BY <1>1, <1>2, <2>4, <2>5, <2>6, WorldKept, Zenon DEF ProofsInv, Begun, RecordsStay
  <2>11. AloneInv'
    <3> SUFFICES ASSUME ~overlap' PROVE AloneInv'
      BY DEF AloneInv
    <3>1. \A b \in Attempts : b # a => ~InFlight(b)' /\ att'[b].pc \notin Working \cup Closing
      BY <2>3, <2>5 DEF InFlight, Working, Closing
    <3>2. att'[a].pc \notin Closing
      BY <2>1, <2>5 DEF Closing
    <3> QED BY <1>1, <1>2, <1>4, <2>3, <2>4, <3>1, <3>2, Zenon DEF AloneInv, RecordsStay, WorldStays, Begun
  <2>12. AgreeInv'
    BY <1>1, <1>2, <2>1, <2>3, <2>4, <2>5, ZenonT(60) DEF AgreeInv, Begun, OneProof, RecordsStay, Closing
  <2>13. CalmInv'
    BY <1>1, <1>2, <2>3, <2>4, <2>5, <2>6, <2>9, WorldKept, Zenon DEF CalmInv, Begun, CalmWith, RecordsStay, WorldStays
  <2> QED BY <2>7, <2>8, <2>9, <2>10, <2>11, <2>12, <2>13 DEF RunInv
<1> QED BY <1>3, <1>4

\* An attempt's next record, for a step that changes where it is and the row.
LEMMA NextAttempt ==
    ASSUME RunInv, NEW a \in Attempts, NEW pc \in Pcs, Goto(a, pc)
    PROVE  /\ att' \in [Attempts -> AttemptRecords]
           /\ att'[a].pc = pc /\ att'[a].wasm = att[a].wasm /\ att'[a].proof = att[a].proof
           /\ att'[a].valid = att[a].valid
           /\ \A b \in Attempts : b # a => att'[b] = att[b]
<1> DEFINE k == [att[a] EXCEPT !.pc = pc]
<1>1. att[a] \in AttemptRecords /\ att \in [Attempts -> AttemptRecords]
  BY Here
<1>2. att' = [att EXCEPT ![a] = k]
  BY <1>1 DEF Goto
<1>3. k \in AttemptRecords /\ k.pc = pc /\ k.wasm = att[a].wasm /\ k.proof = att[a].proof /\ k.valid = att[a].valid
  BY <1>1, PcSet
<1> HIDE DEF k
<1> QED BY <1>1, <1>2, <1>3

\* An attempt that has taken up the run alone has the next number, and no more
\* attempts were counted before it than were interrupted.
LEMMA TriesHere ==
    ASSUME RunInv, TriesInv, NEW a \in Attempts, att[a].pc = "got", Begun, ~overlap
    PROVE  /\ tries.of[a] = tries.row + 1 /\ tries.row <= lost
           /\ \A b \in Attempts : b # a => att[b].pc \notin Going \cup {"got"}
<1>1. InFlight(a) /\ att[a].pc \in Working /\ att[a].pc \notin Going
  BY DEF InFlight, Working, Going
<1>2. /\ row.status \in {"queued", "running"}
      /\ \A b \in Attempts : b # a => att[b].pc \notin Working
  BY <1>1, Alone
<1>3. load.way = "http"
  BY Here DEF Decided
<1>4. \A b \in Attempts : att[b].pc \notin Going
  BY <1>1, <1>2 DEF Going, Working
<1>5. \A b \in Attempts : b # a => att[b].pc \notin Going \cup {"got"}
  BY <1>2 DEF Going, Working
<1> QED BY <1>2, <1>3, <1>4, <1>5 DEF TriesInv

\* mark_running: without overlap the payload is still there, and attempts are
\* exceeded only by those that were interrupted.
LEMMA StartRunningKeeps ==
    ASSUME RunInv, TriesInv, NEW a \in Attempts, StartRunning(a)
    PROVE  RunInv'
<1>1. /\ WorldStays /\ RecordsStay /\ keyCache' = keyCache /\ overlap' = overlap /\ faults' = faults
      /\ att[a].pc = "got"
  BY DEF StartRunning, WorldStays, RecordsStay, keyVars, deployVars, artifactVars, exportVars
<1>2. InFlight(a) /\ Begun
  <2>1. InFlight(a)
    BY <1>1 DEF InFlight
  <2> QED BY <1>1, <2>1, UnderWayMode
<1>3. keyCache' \in 0..MaxSetups /\ faults' \in Nat /\ faults' >= faults
  BY <1>1 DEF RunInv, RunTyped
<1>4. load.way = "http" /\ att[a].pc \in Working
  BY <1>1, <1>2, Here DEF Decided, Working
<1>5. CASE Exceeded(tries.of[a]) \/ ~row.sealed
  <2>1. ~overlap => row.sealed
    BY <1>2, <1>4, Alone
  <2>2. ~overlap /\ Exceeded(tries.of[a]) => lost >= load.max
    <3>1. load.max \in Nat /\ lost \in Nat /\ tries.row \in Nat
      BY LoadMax DEF RunInv, RunTyped, TriesInv
    <3>2. ~overlap => tries.of[a] = tries.row + 1 /\ tries.row <= lost
      BY <1>1, <1>2, TriesHere, Zenon
    <3> QED BY <3>1, <3>2 DEF Exceeded
  <2>3. Failed(a)
    BY <1>5 DEF StartRunning
  <2> QED BY <1>1, <1>2, <1>3, <1>5, <2>1, <2>2, <2>3, FailMoves
<1>6. CASE ~(Exceeded(tries.of[a]) \/ ~row.sealed)
  <2>1. row.sealed /\ row' = [row EXCEPT !.status = "running"] /\ Goto(a, "started")
    BY <1>6 DEF StartRunning
  <2>2. /\ row' \in Rows /\ row'.status = "running" /\ row'.evidence = row.evidence
        /\ row'.reference = row.reference /\ row'.submitted = row.submitted /\ row'.version = row.version
        /\ row'.decision = row.decision /\ row'.sealed = row.sealed /\ row'.proof = row.proof
    <3>1. row \in Rows
      BY Here
    <3> QED BY <2>1, <3>1, StatusSet, Zenon
  <2>3. /\ att' \in [Attempts -> AttemptRecords]
        /\ att'[a].pc = "started" /\ att'[a].proof = att[a].proof /\ att'[a].valid = att[a].valid
        /\ \A b \in Attempts : b # a => att'[b] = att[b]
    BY <2>1, NextAttempt DEF Pcs
  <2>4. \A b \in Attempts : AttemptSound(att[b])
    BY <1>2 DEF RunInv, ProofsInv
  <2>5. \A b \in Attempts : AttemptSound(att'[b])
    <3>1. AttemptSound(att'[a])
      BY <1>1, <2>3, <2>4, Zenon DEF AttemptSound
    <3> QED BY <2>3, <2>4, <3>1
  <2>6. calm => OfSetup(row'.proof, file["vk"]) /\ \A b \in Attempts : CalmAttempt(att'[b], file["vk"])
    <3>1. calm => CalmAttempt(att'[a], file["vk"])
      BY <1>1, <2>3, Here, Zenon DEF CalmAttempt
    <3> QED BY <2>2, <2>3, <3>1, Here, Zenon DEF CalmWith
  <2>7. AloneInv'
    <3> SUFFICES ASSUME ~overlap PROVE AloneInv'
      BY <1>1, Zenon DEF AloneInv
    <3>1. \A b \in Attempts : b # a => ~InFlight(b)' /\ att'[b].pc \notin Working \cup Closing
      BY <1>2, <2>3, Alone DEF InFlight
    <3>2. att'[a].pc \notin Closing
      BY <2>3 DEF Closing
    <3> QED BY <1>1, <1>2, <1>4, <2>1, <2>2, <3>1, <3>2, Alone, Zenon DEF AloneInv, RecordsStay, WorldStays, Working
  <2>8. AgreeInv'
    BY <1>1, <1>2, <2>2, <2>3, ZenonT(60) DEF RunInv, AgreeInv, OneProof, RecordsStay, Closing
  <2>9. /\ ProofSound(row'.proof)
        /\ row'.decision = "pass" /\ Made(row'.proof) => row'.proof.genuine /\ row'.proof.signal
    BY <1>2, <2>2, Zenon DEF RunInv, ProofsInv
  <2> QED BY <1>1, <1>2, <1>4, <2>2, <2>3, <2>5, <2>6, <2>7, <2>8, <2>9, RowMoves, Zenon
<1> QED BY <1>5, <1>6


\* What the dual track has established of an attempt that it let pass.
LEMMA Agreed ==
    ASSUME RunInv, NEW a \in Attempts, att[a].pc = "agreed"
    PROVE  /\ InFlight(a) /\ Begun /\ att[a].pc \in Working
           /\ CircuitDecision(a) = row.reference /\ row.reference \in Decisions
           /\ Made(att[a].proof) /\ ProofSound(att[a].proof)
           /\ row.reference = "pass" => att[a].proof.genuine /\ att[a].proof.signal
<1>1. InFlight(a) /\ att[a].pc \in Working
  BY DEF InFlight, Working
<1>2. Begun
  BY <1>1, UnderWayMode
<1>3. att[a].valid \in BOOLEAN /\ att[a].proof.signal \in BOOLEAN /\ row.reference \in Decisions
  BY Here, ProofFields DEF Rows
<1>4. AttemptSound(att[a])
  BY <1>2, Here
<1>5. row.reference = Verdict(att[a].valid /\ att[a].proof.signal)
  BY <1>4 DEF AttemptSound
<1>6. row.reference = "pass" => att[a].valid /\ att[a].proof.signal
  BY <1>3, <1>5 DEF Verdict
<1> QED BY <1>1, <1>2, <1>3, <1>4, <1>5, <1>6, Zenon DEF AttemptSound, CircuitDecision

\* mark_completed: without overlap the row, the audit table and the export were
\* empty before, so that the attempt's proof is the only one.
LEMMA MarkCompletedKeeps ==
    ASSUME RunInv, NEW a \in Attempts, MarkCompleted(a)
    PROVE  RunInv'
<1>1. /\ WorldStays /\ RecordsStay /\ keyCache' = keyCache /\ overlap' = overlap /\ faults' = faults
      /\ att[a].pc = "agreed" /\ load.way = "http" /\ Goto(a, "purge")
      /\ row' = [row EXCEPT !.status = "completed", !.proof = att[a].proof,
                            !.decision = CircuitDecision(a), !.version = loaded["worker"]]
  BY DEF MarkCompleted, WorldStays, RecordsStay, keyVars, deployVars, artifactVars, exportVars
<1>2. /\ InFlight(a) /\ Begun /\ att[a].pc \in Working
      /\ CircuitDecision(a) = row.reference /\ row.reference \in Decisions
      /\ Made(att[a].proof) /\ ProofSound(att[a].proof)
      /\ row.reference = "pass" => att[a].proof.genuine /\ att[a].proof.signal
  BY <1>1, Agreed
<1>3. /\ row' \in Rows /\ row'.status = "completed" /\ row'.evidence = row.evidence
      /\ row'.reference = row.reference /\ row'.submitted = row.submitted
      /\ row'.decision = row.reference /\ row'.proof = att[a].proof
  <2>1. row \in Rows /\ att[a].proof \in Proofs /\ loaded["worker"] \in Nat
    BY Here DEF RunTyped
  <2> DEFINE d == CircuitDecision(a)
             v == loaded["worker"]
             q == att[a].proof
  <2>2. d = row.reference /\ d \in Decisions /\ v \in Nat /\ q \in Proofs /\ q = att[a].proof
    BY <1>2, <2>1
  <2>3. row' = [row EXCEPT !.status = "completed", !.proof = q, !.decision = d, !.version = v]
    BY <1>1
  <2> HIDE DEF d, v, q
  <2>4. /\ row' \in Rows /\ row'.status = "completed" /\ row'.evidence = row.evidence
        /\ row'.reference = row.reference /\ row'.submitted = row.submitted
        /\ row'.decision = d /\ row'.proof = q
    BY <2>1, <2>2, <2>3, Zenon DEF Rows
  <2> QED BY <2>2, <2>4
<1>4. /\ att' \in [Attempts -> AttemptRecords]
      /\ att'[a].pc = "purge" /\ att'[a].proof = att[a].proof /\ att'[a].valid = att[a].valid
      /\ \A b \in Attempts : b # a => att'[b] = att[b]
  BY <1>1, NextAttempt DEF Pcs
<1>5. \A b \in Attempts : AttemptSound(att'[b])
  <2>1. \A b \in Attempts : AttemptSound(att[b])
    BY <1>2, Zenon DEF RunInv, ProofsInv
  <2>2. AttemptSound(att'[a])
    BY <1>1, <1>4, <2>1 DEF AttemptSound
  <2> QED BY <1>4, <2>1, <2>2
<1>6. calm => OfSetup(row'.proof, file["vk"]) /\ \A b \in Attempts : CalmAttempt(att'[b], file["vk"])
  <2>1. calm => CalmAttempt(att'[a], file["vk"]) /\ OfSetup(att[a].proof, file["vk"])
    BY <1>1, <1>4, Here DEF CalmAttempt
  <2> QED BY <1>3, <1>4, <2>1, Here, Zenon DEF CalmWith
<1>7. AloneInv' /\ AgreeInv'
  <2> SUFFICES ASSUME ~overlap PROVE AloneInv' /\ AgreeInv'
    BY <1>1 DEF AloneInv, AgreeInv
  <2>1. \A b \in Attempts : b # a => ~InFlight(b)' /\ att'[b].pc \notin Working \cup Closing
    BY <1>2, <1>4, Alone DEF InFlight
  <2>2. att'[a].pc \notin Working
    BY <1>4 DEF Working
  <2>3. AloneInv'
    BY <1>3, <2>1, <2>2 DEF AloneInv
  <2>4. attested' = {} /\ audit' = << >> /\ export' = NoExport
    BY <1>1, <1>2, Alone DEF RecordsStay
  <2>5. att[a].proof.by \in Attempts \cup {None}
    BY Here, ProofFields
  <2>6. OneProof(att[a].proof.by)'
    BY <1>3, <1>4, <2>1, <2>4, EmptyTyped, SMTT(40) DEF OneProof
  <2> QED BY <1>4, <2>3, <2>5, <2>6 DEF AgreeInv
<1> QED BY <1>1, <1>2, <1>3, <1>4, <1>5, <1>6, <1>7, RowMoves

\* The purge after the result.
LEMMA PurgeCompletedKeeps ==
    ASSUME RunInv, NEW a \in Attempts, PurgeCompleted(a)
    PROVE  RunInv'
<1>1. /\ WorldStays /\ RecordsStay /\ keyCache' = keyCache /\ overlap' = overlap /\ faults' = faults
      /\ att[a].pc = "purge" /\ Goto(a, "audit") /\ row' = [row EXCEPT !.sealed = FALSE]
  BY DEF PurgeCompleted, WorldStays, RecordsStay, keyVars, deployVars, artifactVars, exportVars
<1>2. InFlight(a) /\ Begun /\ att[a].pc \in Closing
  <2>1. InFlight(a)
    BY <1>1 DEF InFlight
  <2> QED BY <1>1, <2>1, UnderWayMode DEF Closing
<1>3. /\ row' \in Rows /\ row'.status = row.status /\ row'.evidence = row.evidence
      /\ row'.reference = row.reference /\ row'.submitted = row.submitted /\ row'.version = row.version
      /\ row'.decision = row.decision /\ row'.proof = row.proof
  <2>1. row \in Rows
    BY Here
  <2> QED BY <1>1, <2>1, SealSet, Zenon
<1>4. /\ att' \in [Attempts -> AttemptRecords]
      /\ att'[a].pc = "audit" /\ att'[a].proof = att[a].proof /\ att'[a].valid = att[a].valid
      /\ \A b \in Attempts : b # a => att'[b] = att[b]
  BY <1>1, NextAttempt DEF Pcs
<1>5. load.way # "sdk" /\ Decided
  BY <1>1, <1>2, Here DEF Decided
<1>6. \A b \in Attempts : AttemptSound(att'[b])
  <2>1. \A b \in Attempts : AttemptSound(att[b])
    BY <1>2 DEF RunInv, ProofsInv
  <2>2. AttemptSound(att'[a])
    BY <1>1, <1>4, <2>1 DEF AttemptSound
  <2> QED BY <1>4, <2>1, <2>2
<1>7. calm => OfSetup(row'.proof, file["vk"]) /\ \A b \in Attempts : CalmAttempt(att'[b], file["vk"])
  <2>1. calm => CalmAttempt(att'[a], file["vk"])
    BY <1>1, <1>4, Here DEF CalmAttempt
  <2> QED BY <1>3, <1>4, <2>1, Here, Zenon DEF CalmWith
<1>8. AloneInv'
  <2> SUFFICES ASSUME ~overlap PROVE AloneInv'
    BY <1>1 DEF AloneInv
  <2>1. \A b \in Attempts : b # a => ~InFlight(b)' /\ att'[b].pc \notin Working \cup Closing
    BY <1>2, <1>4, Alone DEF InFlight
  <2>2. att'[a].pc \notin Working /\ row'.status = "completed"
    BY <1>2, <1>3, <1>4, Alone DEF Working
  <2> QED BY <2>1, <2>2 DEF AloneInv
<1>9. AgreeInv'
  <2>1. \A b \in Attempts : att'[b].pc \in Closing => att[b].pc \in Closing /\ att'[b].proof = att[b].proof
    BY <1>2, <1>4
  <2> SUFFICES ASSUME ~overlap PROVE AgreeInv'
    BY <1>1 DEF AgreeInv
  <2>2. PICK p \in Attempts \cup {None} : OneProof(p)
    BY <1>2 DEF RunInv, AgreeInv
  <2>3. OneProof(p)'
    BY <1>1, <1>3, <2>1, <2>2 DEF OneProof, RecordsStay
  <2> QED BY <2>3 DEF AgreeInv
<1>10. /\ ProofSound(row'.proof)
       /\ row'.decision = "pass" /\ Made(row'.proof) => row'.proof.genuine /\ row'.proof.signal
  BY <1>2, <1>3 DEF RunInv, ProofsInv
<1> QED BY <1>1, <1>2, <1>3, <1>4, <1>5, <1>6, <1>7, <1>8, <1>9, <1>10, RowMoves DEF Decided, Begun

\* prune_terminal_job_runtime_data: a row without a proof says nothing of one.
LEMMA PruneKeeps ==
    ASSUME RunInv, Prune
    PROVE  RunInv'
<1>1. /\ WorldStays /\ RecordsStay /\ keyCache' = keyCache /\ overlap' = overlap /\ faults' = faults
      /\ att' = att /\ row' = [row EXCEPT !.proof = NoProof] /\ row.status = "completed"
  BY DEF Prune, WorldStays, RecordsStay, keyVars, deployVars, artifactVars, exportVars
<1>2. Begun /\ Decided /\ row \in Rows /\ att \in [Attempts -> AttemptRecords]
  BY <1>1 DEF Begun, RunInv, RunTyped, ModeInv
<1>3. /\ row' \in Rows /\ row'.status = row.status /\ row'.evidence = row.evidence
      /\ row'.reference = row.reference /\ row'.submitted = row.submitted /\ row'.version = row.version
      /\ row'.decision = row.decision /\ row'.proof = NoProof
  BY <1>1, <1>2, EmptyTyped, RowProofSet
<1>4. \A b \in Attempts : AttemptSound(att'[b])
  BY <1>1, <1>2 DEF RunInv, ProofsInv
<1>5. calm => OfSetup(row'.proof, file["vk"]) /\ \A b \in Attempts : CalmAttempt(att'[b], file["vk"])
  BY <1>1, <1>3, EmptyTyped DEF RunInv, CalmInv, CalmWith, OfSetup
<1>6. AloneInv'
  BY <1>1, <1>2, <1>3 DEF RunInv, AloneInv, InFlight, RecordsStay, WorldStays
<1>7. AgreeInv'
  BY <1>1, <1>2, <1>3, EmptyTyped DEF RunInv, AgreeInv, OneProof, RecordsStay
<1>8. ProofSound(row'.proof) /\ ~Made(row'.proof)
  <2>1. NoProof.genuine = FALSE
    BY DEF NoProof
  <2> QED BY <1>3, <2>1, EmptyTyped DEF ProofSound
<1> QED BY <1>1, <1>2, <1>3, <1>4, <1>5, <1>6, <1>7, <1>8, RowMoves DEF Decided


\* The completed audit row carries the attempt's proof, which is that of the run.
LEMMA AuditCompletedKeeps ==
    ASSUME RunInv, NEW a \in Attempts, AuditCompleted(a)
    PROVE  RunInv'
<1> DEFINE k == [NoAttempt EXCEPT !.pc = "done"]
           q == att[a].proof
<1>1. /\ WorldStays /\ row' = row /\ keyCache' = keyCache /\ overlap' = overlap /\ faults' = faults
      /\ export' = export /\ attested' = attested
      /\ att[a].pc = "audit" /\ att' = [att EXCEPT ![a] = k] /\ audit' = Append(audit, q)
  BY DEF AuditCompleted, WorldStays, keyVars, deployVars, artifactVars, exportVars
<1>2. k \in AttemptRecords /\ k.pc = "done" /\ AttemptSound(k) /\ \A s : CalmAttempt(k, s)
  BY Over
<1>3. InFlight(a) /\ Begun /\ att[a].pc \in Closing
  <2>1. InFlight(a)
    BY <1>1 DEF InFlight
  <2> QED BY <1>1, <2>1, UnderWayMode DEF Closing
<1>4. q \in Proofs /\ Made(q) /\ (calm => OfSetup(q, file["vk"]))
  BY <1>1, <1>3, Here DEF AttemptSound, CalmAttempt
<1> HIDE DEF k, q
<1>5. /\ RunTyped /\ Decided /\ ArtifactsInv /\ ProofsInv /\ AloneInv /\ AgreeInv /\ CalmInv
      /\ att \in [Attempts -> AttemptRecords] /\ audit \in Seq(Proofs)
  BY <1>3 DEF RunInv, RunTyped, ModeInv
<1>6. att'[a] = k /\ \A b \in Attempts : b # a => att'[b] = att[b]
  BY <1>1, <1>5
<1>7. /\ audit' \in Seq(Proofs) /\ Len(audit') = Len(audit) + 1 /\ Len(audit) \in Nat
      /\ audit'[Len(audit) + 1] = q /\ \A n \in 1..Len(audit) : audit'[n] = audit[n]
  BY <1>1, <1>4, <1>5
<1>8. \A n \in 1..Len(audit') : audit'[n] = q \/ \E m \in 1..Len(audit) : audit'[n] = audit[m]
  BY <1>7
<1>9. RunTyped'
  BY <1>1, <1>2, <1>5, <1>7 DEF RunTyped, WorldStays
<1>10. ModeInv'
  BY <1>1, <1>2, <1>3, <1>5, <1>6, Zenon DEF ModeInv, Begun, Decided, WorldStays, Reference
<1>11. ArtifactsInv' /\ Processes' = Processes
  BY <1>1, <1>5, WorldKept
<1>12. ProofsInv'
  <2>1. \A n \in 1..Len(audit') : Made(audit'[n])
    BY <1>3, <1>4, <1>5, <1>8, Zenon DEF ProofsInv
  <2> QED BY <1>1, <1>2, <1>3, <1>5, <1>6, <2>1, WorldKept, Zenon DEF ProofsInv, Begun
<1>13. AloneInv' /\ AgreeInv'
  <2> SUFFICES ASSUME ~overlap PROVE AloneInv' /\ AgreeInv'
    BY <1>1 DEF AloneInv, AgreeInv
  <2>1. \A b \in Attempts : ~InFlight(b)' /\ att'[b].pc \notin Working \cup Closing
    BY <1>2, <1>3, <1>6, Alone, Zenon DEF InFlight, Working, Closing
  <2>2. row'.status = "completed"
    BY <1>1, <1>3, Alone
  <2>3. PICK p \in Attempts \cup {None} : OneProof(p)
    BY <1>3, <1>5 DEF AgreeInv
  <2>4. \A n \in 1..Len(audit') : audit'[n].by = p
    <3>1. q.by = p
      BY <1>3, <2>3, Zenon DEF OneProof, q
    <3> QED BY <1>8, <2>3, <3>1, Zenon DEF OneProof
  <2>5. OneProof(p)'
    BY <1>1, <2>1, <2>3, <2>4, Zenon DEF OneProof
  <2> QED BY <2>1, <2>2, <2>5 DEF AgreeInv, AloneInv
<1>14. CalmInv'
  <2>1. calm => \A n \in 1..Len(audit') : OfSetup(audit'[n], file["vk"])
    BY <1>4, <1>5, <1>8, Zenon DEF CalmInv, CalmWith
  <2> QED BY <1>1, <1>2, <1>3, <1>5, <1>6, <1>11, <2>1, WorldKept, Zenon DEF CalmInv, Begun, CalmWith, WorldStays
<1> QED BY <1>9, <1>10, <1>11, <1>12, <1>13, <1>14 DEF RunInv

\* PolicyEngine.run completes: row and bundle carry the attempt's proof.
LEMMA EngineCompletesKeeps ==
    ASSUME RunInv, NEW a \in Attempts, EngineCompletes(a)
    PROVE  RunInv'
<1> DEFINE k == [NoAttempt EXCEPT !.pc = "done"]
           q == att[a].proof
           d == CircuitDecision(a)
<1>1. /\ WorldStays /\ keyCache' = keyCache /\ overlap' = overlap /\ faults' = faults
      /\ audit' = audit /\ load.way = "sdk" /\ att[a].pc = "agreed"
      /\ att' = [att EXCEPT ![a] = k] /\ attested' = attested \cup {q.by}
      /\ row' = [row EXCEPT !.status = "completed", !.proof = q, !.decision = d]
      /\ export' = [pc |-> "built", version |-> row.version, decision |-> d, proof |-> q, digests |-> file]
  BY DEF EngineCompletes, WorldStays, keyVars, deployVars, artifactVars, create, artifact_digests
<1>2. k \in AttemptRecords /\ k.pc = "done" /\ AttemptSound(k) /\ \A s : CalmAttempt(k, s)
  BY Over
<1>3. /\ InFlight(a) /\ Begun /\ att[a].pc \in Working /\ d = row.reference /\ d \in Decisions
      /\ Made(q) /\ ProofSound(q) /\ (d = "pass" => q.genuine /\ q.signal)
  BY <1>1, Agreed
<1>4. q \in Proofs /\ q.by \in Attempts \cup {None} /\ (calm => OfSetup(q, file["vk"]))
  <2>1. q \in Proofs /\ (calm => OfSetup(q, file["vk"]))
    BY Here DEF CalmAttempt
  <2> HIDE DEF q
  <2> QED BY <2>1, ProofFields
<1> HIDE DEF k, q, d
<1>5. /\ RunTyped /\ Decided /\ ArtifactsInv /\ ProofsInv /\ AloneInv /\ AgreeInv /\ CalmInv
      /\ att \in [Attempts -> AttemptRecords] /\ row \in Rows /\ row.version \in Nat /\ file \in [Files -> 0..MaxSetups]
  BY <1>3 DEF RunInv, RunTyped, ModeInv, Rows
<1>6. att'[a] = k /\ \A b \in Attempts : b # a => att'[b] = att[b]
  BY <1>1, <1>5
<1>7. /\ row' \in Rows /\ row'.status = "completed" /\ row'.evidence = row.evidence
      /\ row'.reference = row.reference /\ row'.submitted = row.submitted /\ row'.version = row.version
      /\ row'.decision = d /\ row'.proof = q
  BY <1>1, <1>3, <1>4, <1>5, Zenon DEF Rows
<1>8. /\ export' \in Exports /\ export'.pc = "built" /\ export'.version = row.version
      /\ export'.decision = d /\ export'.proof = q /\ export'.digests = file
  BY <1>1, <1>3, <1>4, <1>5, Zenon DEF Exports
<1>9. RunTyped'
  BY <1>1, <1>2, <1>5, <1>7, <1>8 DEF RunTyped, WorldStays
<1>10. ModeInv'
  BY <1>1, <1>2, <1>3, <1>5, <1>6, <1>7, <1>8 DEF ModeInv, Begun, Decided, WorldStays, Reference
<1>11. ArtifactsInv' /\ Processes' = Processes
  BY <1>1, <1>5, WorldKept
<1>12. ProofsInv'
  BY <1>1, <1>2, <1>3, <1>5, <1>6, <1>7, WorldKept DEF ProofsInv, Begun
<1>13. AloneInv' /\ AgreeInv'
  <2> SUFFICES ASSUME ~overlap PROVE AloneInv' /\ AgreeInv'
    BY <1>1 DEF AloneInv, AgreeInv
  <2>1. \A b \in Attempts : ~InFlight(b)' /\ att'[b].pc \notin Working \cup Closing
    BY <1>2, <1>3, <1>6, Alone, Zenon DEF InFlight, Working, Closing
  <2>2. attested = {} /\ audit = << >>
    BY <1>3, Alone
  <2>3. PICK p \in Attempts \cup {None} : p = q.by
    BY <1>4
  <2>4. OneProof(p)'
    BY <1>1, <1>3, <1>7, <1>8, <2>1, <2>2, <2>3 DEF OneProof
  <2> QED BY <1>7, <2>1, <2>4 DEF AgreeInv, AloneInv
<1>14. CalmInv'
  <2> SUFFICES ASSUME calm PROVE CalmInv'
    BY <1>1 DEF CalmInv, WorldStays
  <2>1. CalmWith(file["vk"])
    BY <1>5 DEF CalmInv
  <2>2. export'.version = row.submitted /\ \A f \in Files : export'.digests[f] = file["vk"]
    BY <1>1, <1>5, <1>8, <2>1 DEF CalmWith, Decided
  <2> QED BY <1>1, <1>2, <1>3, <1>4, <1>6, <1>7, <1>8, <1>11, <2>1, <2>2, WorldKept, SMTT(40)
          DEF CalmInv, Begun, CalmWith, WorldStays
<1> QED BY <1>9, <1>10, <1>11, <1>12, <1>13, <1>14 DEF RunInv

-----------------------------------------------------------------------------
\* The export of the attestation moves and nothing else does.
LEMMA ExportMoves ==
    ASSUME RunInv, Begun, WorldStays, row' = row, att' = att, audit' = audit, keyCache' = keyCache,
           overlap' = overlap, faults' = faults,
           export' \in Exports, export'.proof = NoProof \/ Made(export'.proof),
           export'.pc # "idle" => export'.decision = row.reference,
           row.status \in {"queued", "running"} /\ ~overlap => attested' = attested /\ export' = NoExport,
           AgreeInv',
           calm => /\ export'.pc # "idle" => /\ export'.version = row.submitted
                                             /\ \A f \in Files : export'.digests[f] = file["vk"]
                                             /\ OfSetup(export'.proof, file["vk"])
                   /\ export'.pc = "built" => Made(export'.proof)
    PROVE  RunInv'
<1>1. /\ RunTyped /\ Decided /\ ArtifactsInv /\ ProofsInv /\ AloneInv /\ CalmInv
  BY DEF RunInv, ModeInv
<1>2. RunTyped'
  BY <1>1 DEF RunTyped, WorldStays
<1>3. ModeInv'
  BY <1>1 DEF ModeInv, Begun, Decided, WorldStays, Reference
<1>4. ArtifactsInv' /\ Processes' = Processes
  BY <1>1, WorldKept, Zenon
<1>5. ProofsInv'
  BY <1>1, WorldKept, Zenon DEF ProofsInv, Begun
<1>6. AloneInv'
  BY <1>1, Zenon DEF AloneInv, Begun, InFlight, WorldStays
<1>7. CalmInv'
  BY <1>1, <1>4, WorldKept, Zenon DEF CalmInv, Begun, CalmWith, WorldStays
<1> QED BY <1>2, <1>3, <1>4, <1>5, <1>6, <1>7, Zenon DEF RunInv

\* export_attestation reads the row, its process's version and the files.
LEMMA ExportReadsKeeps ==
    ASSUME RunInv, ExportReads
    PROVE  RunInv'
<1>1. /\ WorldStays /\ row' = row /\ att' = att /\ audit' = audit /\ keyCache' = keyCache
      /\ overlap' = overlap /\ faults' = faults /\ attested' = attested
      /\ row.status = "completed" /\ load.way = "http"
      /\ export' = [pc |-> "rows", version |-> loaded["verifier"], decision |-> row.decision,
                    proof |-> row.proof, digests |-> file]
  BY DEF ExportReads, WorldStays, keyVars, deployVars, artifactVars, runVars, artifact_digests
<1>2. /\ Begun /\ Decided /\ ProofsInv /\ AgreeInv /\ CalmInv
      /\ loaded["verifier"] \in Nat /\ row.decision \in Decisions /\ row.proof \in Proofs
      /\ file \in [Files -> 0..MaxSetups]
  BY <1>1 DEF Begun, RunInv, RunTyped, ModeInv, Rows
<1>3. /\ export' \in Exports /\ export'.pc = "rows" /\ export'.version = loaded["verifier"]
      /\ export'.decision = row.decision /\ export'.proof = row.proof /\ export'.digests = file
  BY <1>1, <1>2, Zenon DEF Exports
<1>4. export'.proof = NoProof \/ Made(export'.proof)
  BY <1>2, <1>3, NoneOrMade, Zenon DEF ProofsInv
<1>5. AgreeInv'
  BY <1>1, <1>2, <1>3, Zenon DEF AgreeInv, OneProof
<1>6. calm => /\ export'.version = row.submitted
              /\ \A f \in Files : export'.digests[f] = file["vk"]
              /\ OfSetup(export'.proof, file["vk"])
  BY <1>1, <1>2, <1>3 DEF CalmInv, CalmWith, Processes
<1>7. export'.decision = row.reference
  BY <1>1, <1>2, <1>3, Zenon DEF Decided
<1> QED BY <1>1, <1>2, <1>3, <1>4, <1>5, <1>6, <1>7, ExportMoves, Zenon

\* What is being exported belongs to a run.
LEMMA ExportBegun ==
    ASSUME RunInv, export.pc # "idle"
    PROVE  /\ Begun /\ Decided /\ ProofsInv /\ AgreeInv /\ CalmInv /\ export \in Exports
           /\ ~overlap => row.status \notin {"queued", "running"}
<1>1. Begun
  BY EmptyTyped, Zenon DEF RunInv, ModeInv, NotBegun
<1> QED BY <1>1, EmptyTyped, Zenon DEF RunInv, RunTyped, ModeInv, AloneInv

\* An export that ends leaves nothing behind but the proof it has named.
LEMMA ExportForgotten ==
    ASSUME RunInv, export.pc # "idle", export' = NoExport, attested' = attested,
           WorldStays, row' = row, att' = att, audit' = audit, keyCache' = keyCache,
           overlap' = overlap, faults' = faults
    PROVE  RunInv'
<1>1. /\ Begun /\ Decided /\ ProofsInv /\ AgreeInv /\ CalmInv
      /\ ~overlap => row.status \notin {"queued", "running"}
  BY ExportBegun
<1>2. export' \in Exports /\ export'.pc = "idle" /\ export'.proof = NoProof /\ ~Made(export'.proof)
  BY EmptyTyped, Zenon
<1>3. AgreeInv'
  BY <1>1, <1>2 DEF AgreeInv, OneProof, Begun
<1> QED BY <1>1, <1>2, <1>3, ExportMoves, Zenon

\* export_attestation reads the audit rows: the proof it falls back on is that of
\* the run.
LEMMA ExportBuildsKeeps ==
    ASSUME RunInv, ExportBuilds
    PROVE  RunInv'
<1>1. /\ WorldStays /\ row' = row /\ att' = att /\ audit' = audit /\ keyCache' = keyCache
      /\ overlap' = overlap /\ faults' = faults /\ export.pc = "rows"
  BY DEF ExportBuilds, WorldStays, keyVars, deployVars, artifactVars, runVars
<1>2. /\ Begun /\ Decided /\ ProofsInv /\ AgreeInv /\ CalmInv /\ export \in Exports
      /\ ~overlap => row.status \notin {"queued", "running"}
  BY <1>1, ExportBegun
<1>3. CASE export.proof = NoProof /\ audit = << >>
  BY <1>1, <1>3, ExportForgotten DEF ExportBuilds
<1>4. CASE ~(export.proof = NoProof /\ audit = << >>)
  <2> DEFINE q == IF export.proof = NoProof THEN audit[Len(audit)] ELSE export.proof
  <2>1. export' = [export EXCEPT !.pc = "built", !.proof = q] /\ attested' = attested \cup {q.by}
    BY <1>4 DEF ExportBuilds
  <2>2. export.proof \in Proofs /\ audit \in Seq(Proofs)
    BY <1>2 DEF Exports, RunInv, RunTyped
  <2>3. export.proof = NoProof => Len(audit) \in 1..Len(audit) /\ q = audit[Len(audit)]
    BY <1>4, <2>2
  <2>4. export.proof # NoProof => q = export.proof
    OBVIOUS
  <2> HIDE DEF q
  <2>5. q \in Proofs /\ Made(q)
    BY <1>2, <2>2, <2>3, <2>4, SMTT(40) DEF ProofsInv
  <2>6. /\ export' \in Exports /\ export'.pc = "built" /\ export'.version = export.version
        /\ export'.decision = export.decision /\ export'.proof = q /\ export'.digests = export.digests
    BY <1>2, <2>1, <2>5, Zenon DEF Exports
  <2>7. AgreeInv'
    <3> SUFFICES ASSUME ~overlap PROVE AgreeInv'
      BY <1>1 DEF AgreeInv
    <3>1. PICK p \in Attempts \cup {None} : OneProof(p)
      BY <1>2 DEF AgreeInv
    <3>2. q.by = p
      BY <2>3, <2>4, <2>5, <3>1 DEF OneProof
    <3>3. OneProof(p)'
      BY <1>1, <2>1, <2>5, <2>6, <3>1, <3>2 DEF OneProof
    <3> QED BY <3>3 DEF AgreeInv
  <2>8. calm => /\ export'.version = row.submitted
                /\ \A f \in Files : export'.digests[f] = file["vk"]
                /\ OfSetup(export'.proof, file["vk"])
    BY <1>1, <1>2, <2>3, <2>4, <2>6, Zenon DEF CalmInv, CalmWith
  <2>9. export'.decision = row.reference
    BY <1>1, <1>2, <2>6 DEF Decided
  <2> QED BY <1>1, <1>2, <2>5, <2>6, <2>7, <2>8, <2>9, ExportMoves
<1> QED BY <1>3, <1>4

\* The bundle is answered.
LEMMA ExportedKeeps ==
    ASSUME RunInv, Exported
    PROVE  RunInv'
<1>1. /\ WorldStays /\ row' = row /\ att' = att /\ audit' = audit /\ keyCache' = keyCache
      /\ overlap' = overlap /\ faults' = faults /\ export.pc = "built" /\ export' = NoExport
      /\ attested' = attested
  BY DEF Exported, WorldStays, keyVars, deployVars, artifactVars, runVars
<1> QED BY <1>1, ExportForgotten

-----------------------------------------------------------------------------
Lost == [NoAttempt EXCEPT !.pc = "lost"]

\* The world around the run changes: setup runs only add compiled versions,
\* calm ends with a change of what the run depends on, and what the processes
\* were doing may be lost.
LEMMA WorldMoves ==
    ASSUME RunInv, load' = load, row' = row, audit' = audit, attested' = attested, overlap' = overlap,
           faults' = faults, lost' \in Nat, lost' >= lost,
           pack' \in Nat \ {0}, loaded' \in [{"prover", "worker", "verifier", "sdk"} -> Nat],
           file' \in [Files -> 0..MaxSetups], source' \in [1..MaxSetups -> Nat],
           setup' \in [run : 0..MaxSetups, next : 1..3, writing : BOOLEAN], keyCache' \in 0..MaxSetups,
           \A s \in 1..MaxSetups : source[s] # None => source'[s] = source[s],
           ArtifactsInv',
           calm' => calm /\ file' = file /\ \A p \in Processes : loaded'[p] = loaded[p],
           att' \in [Attempts -> AttemptRecords],
           \A a \in Attempts : att'[a] \in {att[a], Lost}, export' \in {export, NoExport},
           ~Begun => att' = att /\ export' = export
    PROVE  RunInv'
<1>1. /\ RunTyped /\ ModeInv /\ ArtifactsInv /\ ProofsInv /\ AloneInv /\ AgreeInv /\ CalmInv
  BY DEF RunInv
<1>2. /\ Lost.pc = "lost" /\ Lost.proof = NoProof /\ AttemptSound(Lost) /\ \A s : CalmAttempt(Lost, s)
  BY Over, Zenon DEF Lost
<1>3. NoExport \in Exports /\ NoExport.pc = "idle" /\ NoExport.proof = NoProof /\ ~Made(NoExport.proof)
  BY EmptyTyped
<1> HIDE DEF Lost
<1>4. RunTyped'
  BY <1>1, <1>3, Zenon DEF RunTyped
<1>5. ModeInv'
  <2>1. CASE Begun
    BY <1>1, <1>2, <1>3, <2>1, Zenon DEF ModeInv, Begun, Decided, Reference
  <2>2. CASE ~Begun
    <3>1. NotBegun /\ att' = att /\ export' = export /\ ~calm'
      BY <1>1, <2>2 DEF ModeInv, NotBegun
    <3> QED BY <2>2, <3>1 DEF ModeInv, NotBegun, Begun
  <2> QED BY <2>1, <2>2
<1>6. \A s : Compiled(s) => Compiled(s)' /\ source'[s] = source[s]
  BY DEF Compiled
<1>7. ASSUME NEW q, ProofSound(q) PROVE ProofSound(q)'
  <2>1. NoProof.genuine = FALSE
    BY DEF NoProof
  <2> QED BY <1>6, <1>7, <2>1 DEF ProofSound
<1>8. ASSUME NEW k, AttemptSound(k) PROVE AttemptSound(k)'
  <2>1. ProofSound(k.proof)'
    BY <1>7, <1>8 DEF AttemptSound
  <2> QED BY <1>6, <1>8, <2>1 DEF AttemptSound
<1>9. ProofsInv'
  <2> SUFFICES ASSUME Begun PROVE ProofsInv'
    BY Zenon DEF ProofsInv, Begun
  <2>1. \A a \in Attempts : AttemptSound(att'[a])
    BY <1>1, <1>2, Zenon DEF ProofsInv
  <2>2. \A a \in Attempts : AttemptSound(att[a])'
    BY <1>8, <2>1
  <2>3. ProofSound(row.proof)'
    BY <1>1, <1>7, Zenon DEF ProofsInv
  <2> QED BY <1>1, <1>3, <2>2, <2>3, Zenon DEF ProofsInv
<1>10. AloneInv'
  BY <1>1, <1>2, <1>3, Zenon DEF AloneInv, Begun, InFlight, Working, Closing
<1>11. AgreeInv'
  <2> SUFFICES ASSUME ~overlap, Begun PROVE AgreeInv'
    BY DEF AgreeInv, Begun
  <2>1. PICK p \in Attempts \cup {None} : OneProof(p)
    BY <1>1 DEF AgreeInv
  <2>2. \A a \in Attempts : att'[a].pc \in Closing => att'[a].proof.by = p
    BY <1>2, <2>1, Zenon DEF OneProof, Closing
  <2>3. (Made(export'.proof) => export'.proof.by = p) /\ (export'.pc = "built" => Made(export'.proof))
    BY <1>3, <2>1 DEF OneProof
  <2>4. OneProof(p)'
    BY <2>1, <2>2, <2>3, Zenon DEF OneProof
  <2> QED BY <2>4 DEF AgreeInv
<1>12. CalmInv'
  <2> SUFFICES ASSUME calm' PROVE Begun' /\ CalmWith(file["vk"])'
    BY DEF CalmInv
  <2>1. Begun /\ calm /\ file' = file /\ Processes' = Processes /\ \A p \in Processes : loaded'[p] = loaded[p]
    BY <1>1, Zenon DEF CalmInv, Processes
  <2>2. CalmWith(file["vk"])
    BY <1>1, <2>1 DEF CalmInv
  <2>3. Compiled(file["vk"])' /\ source'[file["vk"]] = source[file["vk"]]
    BY <1>6, <2>1, <2>2, Zenon DEF CalmWith
  <2>4. \A a \in Attempts : CalmAttempt(att'[a], file["vk"])
    BY <1>2, <2>2, Zenon DEF CalmWith
  <2>5. lost >= load.max => lost' >= load.max
    <3>1. load.max \in Nat /\ lost \in Nat /\ lost' \in Nat /\ lost' >= lost
      BY <1>1, LoadMax DEF RunTyped
    <3> QED BY <3>1
  <2> QED BY <1>3, <2>1, <2>2, <2>3, <2>4, <2>5, Zenon DEF CalmWith, Begun
<1> QED BY <1>1, <1>4, <1>5, <1>9, <1>10, <1>11, <1>12 DEF RunInv

\* The types of the world.
LEMMA WorldTyped ==
    ASSUME RunInv
    PROVE  /\ pack \in Nat \ {0} /\ loaded \in [{"prover", "worker", "verifier", "sdk"} -> Nat]
           /\ file \in [Files -> 0..MaxSetups] /\ source \in [1..MaxSetups -> Nat]
           /\ setup \in [run : 0..MaxSetups, next : 1..3, writing : BOOLEAN] /\ keyCache \in 0..MaxSetups
           /\ setup.run \in 0..MaxSetups /\ setup.next \in 1..3
           /\ att \in [Attempts -> AttemptRecords] /\ ArtifactsInv /\ load \in Loads /\ lost \in Nat /\ lost >= lost
           /\ NoSetup \in [run : 0..MaxSetups, next : 1..3, writing : BOOLEAN] /\ NoSetup.run = None
BY RunAssumption, SMTT(40) DEF RunInv, RunTyped, NoSetup, None

\* A deployment touches neither what is loaded nor the artifacts.
LEMMA DeployKeeps ==
    ASSUME RunInv, Deploy
    PROVE  RunInv'
<1>1. /\ load' = load /\ row' = row /\ audit' = audit /\ attested' = attested /\ overlap' = overlap
      /\ faults' = faults /\ lost' = lost /\ loaded' = loaded /\ file' = file /\ source' = source /\ setup' = setup
      /\ keyCache' = keyCache /\ att' = att /\ export' = export /\ calm' = calm /\ pack' = pack + 1
  BY DEF Deploy, keyVars, artifactVars, runVars, exportVars
<1>2. pack' \in Nat \ {0}
  BY <1>1, WorldTyped
<1>3. ArtifactsInv'
  BY <1>1, WorldTyped DEF ArtifactsInv, Compiled
<1> QED BY <1>1, <1>2, <1>3, WorldTyped, WorldMoves

\* The native prover forgets its keys.
LEMMA RestartNativeKeeps ==
    ASSUME RunInv, RestartNative
    PROVE  RunInv'
<1>1. /\ load' = load /\ row' = row /\ audit' = audit /\ attested' = attested /\ overlap' = overlap
      /\ faults' = faults /\ lost' = lost /\ loaded' = loaded /\ file' = file /\ source' = source /\ setup' = setup
      /\ keyCache' = None /\ att' = att /\ export' = export /\ calm' = calm /\ pack' = pack
  BY DEF RestartNative, keyVars, artifactVars, runVars, exportVars
<1>2. keyCache' \in 0..MaxSetups
  BY <1>1, RunAssumption DEF None
<1>3. ArtifactsInv'
  BY <1>1, WorldTyped DEF ArtifactsInv, Compiled
<1> QED BY <1>1, <1>2, <1>3, WorldTyped, WorldMoves

\* compile_circuit adds a compiled version.
LEMMA SetupCompilesKeeps ==
    ASSUME RunInv, NEW s \in 2..MaxSetups, SetupCompiles(s)
    PROVE  RunInv'
<1>1. /\ load' = load /\ row' = row /\ audit' = audit /\ attested' = attested /\ overlap' = overlap
      /\ faults' = faults /\ lost' = lost /\ loaded' = loaded /\ file' = file /\ keyCache' = keyCache
      /\ att' = att /\ export' = export /\ calm' = calm /\ pack' = pack
      /\ source[s] = None /\ source' = [source EXCEPT ![s] = pack] /\ setup' = [NoSetup EXCEPT !.run = s]
  BY DEF SetupCompiles, keyVars, deployVars, runVars, exportVars
<1>2. s \in 1..MaxSetups /\ s \in 0..MaxSetups
  BY RunAssumption
<1>3. source' \in [1..MaxSetups -> Nat] /\ source'[s] = pack /\ pack # None
      /\ \A t \in 1..MaxSetups : source[t] # None => source'[t] = source[t]
  BY <1>1, <1>2, WorldTyped DEF None
<1>4. setup' \in [run : 0..MaxSetups, next : 1..3, writing : BOOLEAN] /\ setup'.run = s
  BY <1>1, <1>2, WorldTyped, Zenon
<1>5. ArtifactsInv'
  BY <1>1, <1>2, <1>3, <1>4, WorldTyped DEF ArtifactsInv, Compiled
<1> QED BY <1>1, <1>3, <1>4, <1>5, WorldTyped, WorldMoves

\* setup_framework.sh writes a file in place; calm is over.
LEMMA SetupWritesKeeps ==
    ASSUME RunInv, SetupWrites
    PROVE  RunInv'
<1> DEFINE f == FileOrder[setup.next]
<1>1. /\ load' = load /\ row' = row /\ audit' = audit /\ attested' = attested /\ overlap' = overlap
      /\ faults' = faults /\ lost' = lost /\ loaded' = loaded /\ source' = source /\ keyCache' = keyCache
      /\ att' = att /\ export' = export /\ calm' = FALSE /\ pack' = pack /\ setup.run # None
  BY DEF SetupWrites, keyVars, deployVars, runVars, exportVars
<1>2. f \in Files /\ Len(FileOrder) = 3
  BY WorldTyped DEF FileOrder, Files
<1>3. /\ file' = [file EXCEPT ![f] = setup.run] \/ file' = [file EXCEPT ![f] = Torn]
      /\ \/ setup' = NoSetup
         \/ setup.next # 3 /\ setup' = [setup EXCEPT !.next = setup.next + 1, !.writing = FALSE]
         \/ setup' = [setup EXCEPT !.writing = TRUE]
  BY <1>2 DEF SetupWrites
<1> HIDE DEF f
<1>4. file' \in [Files -> 0..MaxSetups] /\ \A g \in Files : file'[g] \in {file[g], setup.run, Torn}
  <2>1. setup.run \in 0..MaxSetups /\ Torn \in 0..MaxSetups /\ file \in [Files -> 0..MaxSetups]
    BY WorldTyped, RunAssumption DEF Torn
  <2>2. PICK s \in {setup.run, Torn} : file' = [file EXCEPT ![f] = s]
    BY <1>3
  <2> QED BY <1>2, <2>1, <2>2
<1>5. setup' \in [run : 0..MaxSetups, next : 1..3, writing : BOOLEAN] /\ setup'.run \in {None, setup.run}
  <2>1. CASE setup' = NoSetup
    BY <2>1, WorldTyped
  <2>2. CASE setup.next # 3 /\ setup' = [setup EXCEPT !.next = setup.next + 1, !.writing = FALSE]
    <3>1. setup.next + 1 \in 1..3
      BY <2>2, WorldTyped
    <3> QED BY <2>2, <3>1, WorldTyped, Zenon
  <2>3. CASE setup' = [setup EXCEPT !.writing = TRUE]
    BY <2>3, WorldTyped, Zenon
  <2> QED BY <1>3, <2>1, <2>2, <2>3
<1>6. ArtifactsInv'
  <2>1. \A s : Compiled(s)' <=> Compiled(s)
    BY <1>1 DEF Compiled
  <2> QED BY <1>1, <1>4, <1>5, <2>1, WorldTyped DEF ArtifactsInv
<1> QED BY <1>1, <1>4, <1>5, <1>6, WorldTyped, WorldMoves

\* setup_framework.sh fails between two files.
LEMMA SetupStopsKeeps ==
    ASSUME RunInv, SetupStops
    PROVE  RunInv'
<1>1. /\ load' = load /\ row' = row /\ audit' = audit /\ attested' = attested /\ overlap' = overlap
      /\ faults' = faults /\ lost' = lost /\ loaded' = loaded /\ file' = file /\ source' = source /\ setup' = NoSetup
      /\ keyCache' = keyCache /\ att' = att /\ export' = export /\ calm' = calm /\ pack' = pack
  BY DEF SetupStops, keyVars, deployVars, runVars, exportVars
<1>2. ArtifactsInv'
  BY <1>1, WorldTyped DEF ArtifactsInv, Compiled
<1> QED BY <1>1, <1>2, WorldTyped, WorldMoves, Zenon

\* A process reads the pack again; what it was doing is lost.
LEMMA RestartKeeps ==
    ASSUME RunInv, NEW p \in {"prover", "worker", "verifier", "sdk"}, Restart(p)
    PROVE  RunInv'
<1>1. /\ load' = load /\ row' = row /\ audit' = audit /\ attested' = attested /\ overlap' = overlap
      /\ faults' = faults /\ file' = file /\ source' = source /\ setup' = setup
      /\ keyCache' = keyCache /\ pack' = pack /\ p \in Processes
      /\ loaded' = [loaded EXCEPT ![p] = pack] /\ calm' = (calm /\ loaded[p] = pack)
      /\ export' \in {export, NoExport} /\ lost' \in {lost, lost + 1}
      /\ att' = att \/ att' = [a \in Attempts |-> IF InFlight(a) THEN Lost ELSE att[a]]
  BY DEF Restart, keyVars, artifactVars, runVars, Lost
<1>2. Lost \in AttemptRecords
  BY Over DEF Lost
<1> HIDE DEF Lost
<1>3. att' \in [Attempts -> AttemptRecords] /\ \A a \in Attempts : att'[a] \in {att[a], Lost}
  BY <1>1, <1>2, WorldTyped
<1>4. loaded' \in [{"prover", "worker", "verifier", "sdk"} -> Nat]
  BY <1>1, WorldTyped
<1>5. calm' => calm /\ file' = file /\ \A r \in Processes : loaded'[r] = loaded[r]
  <2>1. calm' => calm /\ loaded[p] = pack
    BY <1>1, Zenon
  <2>2. loaded[p] = pack => loaded' = loaded
    BY <1>1, WorldTyped
  <2> QED BY <1>1, <2>1, <2>2
<1>6. ArtifactsInv'
  BY <1>1, WorldTyped DEF ArtifactsInv, Compiled
<1>7. ASSUME ~Begun PROVE att' = att /\ export' = export
  <2>1. load.way # "verify"
    BY <1>1 DEF Processes
  <2>2. NotBegun
    BY <1>7 DEF RunInv, ModeInv
  <2>3. \A a \in Attempts : ~InFlight(a)
    BY <2>1, <2>2, EmptyTyped DEF NotBegun, InFlight
  <2>4. att' = att
    BY <1>1, <2>3, WorldTyped, Zenon
  <2> QED BY <1>1, <2>2, <2>4 DEF NotBegun
<1>8. lost' \in Nat /\ lost' >= lost
  <2>1. lost' \in {lost, lost + 1}
    BY <1>1
  <2>2. lost \in Nat
    BY WorldTyped, Zenon
  <2> QED BY <2>1, <2>2
<1> QED BY <1>1, <1>3, <1>4, <1>5, <1>6, <1>7, <1>8, WorldTyped, WorldMoves, Zenon

-----------------------------------------------------------------------------
\* The run is created, with the decision of the version that its process has
\* loaded.
LEMMA RunBegins ==
    ASSUME RunInv, row = NoRow, NEW e \in Evidence, NEW v \in Nat, NEW p \in Processes, v = loaded[p],
           load.way \in {"http", "sdk"},
           load' = load, pack' = pack, loaded' = loaded, file' = file, source' = source, setup' = setup,
           keyCache' = keyCache, audit' = audit, faults' = faults, lost' = lost, overlap' = overlap, export' = export,
           attested' = attested, calm' = Settled,
           row' \in Rows, row'.status \in {"queued", "running"}, row'.evidence = e,
           row'.reference = Reference(v, e), row'.submitted = v, row'.version = v, row'.decision = "none",
           row'.proof = NoProof, load.way = "http" => row'.sealed,
           att' \in [Attempts -> AttemptRecords],
           \A b \in Attempts : /\ att'[b].pc \in {"idle", "started"}
                               /\ att'[b].proof = NoProof /\ att'[b].valid = FALSE,
           \A b, c \in Attempts : att'[b].pc = "started" /\ att'[c].pc = "started" => b = c
    PROVE  RunInv'
<1>1. RunTyped /\ NotBegun /\ ArtifactsInv /\ ~Begun /\ Begun'
  BY EmptyTyped, Zenon DEF RunInv, ModeInv, Begun
<1>2. audit = << >> /\ attested = {} /\ export = NoExport /\ export.pc = "idle" /\ export.proof = NoProof
  BY <1>1, EmptyTyped, Zenon DEF NotBegun
<1>3. NoProof.setup = None /\ NoProof.genuine = FALSE
  BY Zenon DEF NoProof
<1>4. RunTyped'
  BY <1>1, Zenon DEF RunTyped
<1>5. ModeInv'
  BY <1>1, <1>2, Zenon DEF ModeInv, Decided
<1>6. ArtifactsInv' /\ Processes' = Processes
  BY <1>1 DEF ArtifactsInv, Compiled, Processes
<1>7. ProofsInv'
  <2>1. ~Made(NoProof) /\ ProofSound(NoProof)'
    BY <1>3, Zenon DEF Made, ProofSound
  <2>2. ASSUME NEW b \in Attempts PROVE AttemptSound(att[b])'
    <3>1. att'[b].pc \in {"idle", "started"} /\ att'[b].proof = NoProof /\ att'[b].valid = FALSE
      BY Zenon
    <3>2. ProofSound(att[b].proof)'
      BY <2>1, <3>1, Zenon DEF ProofSound, Compiled
    <3> QED BY <3>1, <3>2, Zenon DEF AttemptSound
  <2>3. ProofSound(row.proof)'
    BY <2>1, Zenon DEF ProofSound, Compiled
  <2>4. \A n \in 1..Len(audit') : Made(audit'[n])
    BY <1>2, EmptyTrail, Zenon
  <2> QED BY <1>2, <2>2, <2>3, <2>4, Zenon DEF ProofsInv, Made
<1>8. AloneInv'
  <2>1. \A b \in Attempts : (InFlight(b)' => att'[b].pc = "started") /\ att'[b].pc \notin Closing
    BY Zenon DEF InFlight, Closing
  <2> QED BY <1>2, <2>1, Zenon DEF AloneInv
<1>9. AgreeInv'
  <2>1. OneProof(None)'
    <3>1. ~Made(NoProof) /\ ~Made(row.proof)' /\ ~Made(export.proof)'
      BY <1>2, <1>3, Zenon DEF Made
    <3>2. \A b \in Attempts : att'[b].pc \notin Closing
      BY Zenon DEF Closing
    <3>3. \A n \in 1..Len(audit') : audit'[n].by = None
      BY <1>2, EmptyTrail, Zenon
    <3>4. attested' \subseteq {None} /\ export'.pc # "built"
      BY <1>2, Zenon
    <3> QED BY <3>1, <3>2, <3>3, <3>4, Zenon DEF OneProof
  <2> QED BY <2>1, Zenon DEF AgreeInv
<1>10. CalmInv'
  <2> SUFFICES ASSUME Settled PROVE CalmWith(file["vk"])'
    BY <1>1, Zenon DEF CalmInv
  <2>1. PICK s \in 1..MaxSetups : /\ \A f \in Files : file[f] = s
                                  /\ \A r \in Processes : loaded[r] = source[s]
    BY Zenon DEF Settled
  <2>2. file["vk"] = s /\ s # Torn
    BY <2>1, SetupNumber, Zenon DEF Files
  <2>3. Compiled(s) /\ v = source[s]
    BY <1>1, <2>1, <2>2, Zenon DEF ArtifactsInv, Files
  <2>4. \A b \in Attempts : CalmAttempt(att'[b], s)
    BY <1>3, Zenon DEF CalmAttempt, OfSetup, Made
  <2>5. OfSetup(NoProof, s)
    BY <1>3, Zenon DEF OfSetup, Made
  <2>6. Compiled(s)'
    BY <1>2, <2>3, Zenon DEF Compiled
  <2>7. CalmWith(s)'
    <3>1. \A n \in 1..Len(audit') : OfSetup(audit'[n], s)
      BY <1>2, EmptyTrail, Zenon
    <3>2. OfSetup(row'.proof, s) /\ row'.submitted = source'[s] /\ row'.status # "failed"
      BY <2>3, <2>5, Zenon
    <3>3. export'.pc = "idle"
      BY <1>2, Zenon
    <3>4. /\ \A f \in Files : file'[f] = s
          /\ \A r \in Processes' : loaded'[r] = source'[s]
      BY <1>6, <2>1, Zenon
    <3> QED BY <2>4, <2>6, <3>1, <3>2, <3>3, <3>4, Zenon DEF CalmWith, OfSetup, Made, CalmAttempt
  <2> QED BY <2>2, <2>7, Zenon
<1> QED BY <1>4, <1>5, <1>6, <1>7, <1>8, <1>9, <1>10, Zenon DEF RunInv

\* create_policy_run.
LEMMA CreateKeeps ==
    ASSUME RunInv, NEW e \in Evidence, create_policy_run(e)
    PROVE  RunInv'
<1> DEFINE v == loaded["prover"]
           d == Reference(v, e)
<1>1. /\ load' = load /\ pack' = pack /\ loaded' = loaded /\ file' = file /\ source' = source
      /\ setup' = setup /\ keyCache' = keyCache /\ audit' = audit /\ faults' = faults /\ lost' = lost /\ overlap' = overlap
      /\ export' = export /\ attested' = attested /\ calm' = Settled /\ att' = att
      /\ load.way = "http" /\ row = NoRow
      /\ row' = [NoRow EXCEPT !.status = "queued", !.evidence = e, !.sealed = TRUE, !.reference = d,
                              !.submitted = v, !.version = v]
  BY DEF create_policy_run, keyVars, deployVars, artifactVars, exportVars
<1>2. "prover" \in Processes /\ v \in Nat /\ d \in Decisions
  BY <1>1, WorldTyped DEF Processes, Reference, Verdict, Decisions
<1>3. att \in [Attempts -> AttemptRecords] /\ \A b \in Attempts : att[b] = NoAttempt
  BY <1>1, WorldTyped, EmptyTyped DEF RunInv, ModeInv, NotBegun, Begun
<1>4. PICK w \in Nat : w = v
  BY <1>2
<1>5. PICK c \in Decisions : c = d
  BY <1>2
<1>6. c = Reference(w, e) /\ w = loaded["prover"]
  BY <1>4, <1>5
<1>7. row' = [NoRow EXCEPT !.status = "queued", !.evidence = e, !.sealed = TRUE, !.reference = c,
                           !.submitted = w, !.version = w]
  BY <1>1, <1>4, <1>5
<1> HIDE DEF v, d
<1>8. /\ row' \in Rows /\ row'.status = "queued" /\ row'.evidence = e /\ row'.reference = c
      /\ row'.submitted = w /\ row'.version = w /\ row'.decision = "none" /\ row'.proof = NoProof
      /\ row'.sealed
  <2>1. row' = [status |-> "queued", evidence |-> e, reference |-> c, submitted |-> w, version |-> w,
                decision |-> "none", sealed |-> TRUE, proof |-> NoProof]
    BY <1>7, Zenon DEF NoRow
  <2>2. NoProof \in Proofs
    BY EmptyTyped
  <2> QED BY <2>1, <2>2 DEF Rows, Decisions
<1>9. \A b \in Attempts : /\ att'[b].pc = "idle" /\ att'[b].proof = NoProof /\ att'[b].valid = FALSE
  BY <1>1, <1>3, EmptyTyped
<1>10. PICK p \in Processes : p = "prover"
  BY <1>2, Zenon
<1>11. w = loaded[p] /\ load.way \in {"http", "sdk"} /\ row'.reference = Reference(w, e)
  BY <1>1, <1>6, <1>8, <1>10, Zenon
<1>12. \A b \in Attempts : /\ att'[b].pc \in {"idle", "started"} /\ att'[b].pc # "started"
                            /\ att'[b].proof = NoProof /\ att'[b].valid = FALSE
  BY <1>9, Zenon
<1>13. att' \in [Attempts -> AttemptRecords] /\ row'.status \in {"queued", "running"}
  BY <1>1, <1>3, <1>8, Zenon
<1> QED BY <1>1, <1>8, <1>11, <1>12, <1>13, RunBegins, Zenon

\* PolicyEngine.run begins.
LEMMA EngineRunKeeps ==
    ASSUME RunInv, NEW a \in Attempts, NEW e \in Evidence, EngineRun(a, e)
    PROVE  RunInv'
<1> DEFINE v == loaded["sdk"]
           d == Reference(v, e)
<1>1. /\ load' = load /\ pack' = pack /\ loaded' = loaded /\ file' = file /\ source' = source
      /\ setup' = setup /\ keyCache' = keyCache /\ audit' = audit /\ faults' = faults /\ lost' = lost /\ overlap' = overlap
      /\ export' = export /\ attested' = attested /\ calm' = Settled /\ Goto(a, "started")
      /\ load.way = "sdk" /\ row = NoRow
      /\ row' = [NoRow EXCEPT !.status = "running", !.evidence = e, !.reference = d,
                              !.submitted = v, !.version = v]
  BY DEF EngineRun, keyVars, deployVars, artifactVars, exportVars, Goto
<1>2. "sdk" \in Processes /\ v \in Nat /\ d \in Decisions
  BY <1>1, WorldTyped DEF Processes, Reference, Verdict, Decisions
<1>3. att \in [Attempts -> AttemptRecords] /\ \A b \in Attempts : att[b] = NoAttempt
  BY <1>1, WorldTyped, EmptyTyped DEF RunInv, ModeInv, NotBegun, Begun
<1>4. PICK w \in Nat : w = v
  BY <1>2
<1>5. PICK c \in Decisions : c = d
  BY <1>2
<1>6. c = Reference(w, e) /\ w = loaded["sdk"]
  BY <1>4, <1>5
<1>7. row' = [NoRow EXCEPT !.status = "running", !.evidence = e, !.reference = c,
                           !.submitted = w, !.version = w]
  BY <1>1, <1>4, <1>5
<1> HIDE DEF v, d
<1>8. /\ row' \in Rows /\ row'.status = "running" /\ row'.evidence = e /\ row'.reference = c
      /\ row'.submitted = w /\ row'.version = w /\ row'.decision = "none" /\ row'.proof = NoProof
  <2>1. row' = [status |-> "running", evidence |-> e, reference |-> c, submitted |-> w, version |-> w,
                decision |-> "none", sealed |-> FALSE, proof |-> NoProof]
    BY <1>7, Zenon DEF NoRow
  <2>2. NoProof \in Proofs
    BY EmptyTyped, Zenon
  <2> QED BY <2>1, <2>2 DEF Rows, Decisions
<1>9. /\ att' \in [Attempts -> AttemptRecords]
      /\ att'[a].pc = "started" /\ att'[a].proof = att[a].proof /\ att'[a].valid = att[a].valid
      /\ \A b \in Attempts : b # a => att'[b] = att[b]
  BY <1>1, NextAttempt DEF Pcs
<1>10. \A b \in Attempts : /\ att'[b].pc \in {"idle", "started"} /\ att'[b].proof = NoProof
                           /\ att'[b].valid = FALSE /\ (b # a => att'[b].pc = "idle")
  BY <1>3, <1>9, EmptyTyped, Zenon
<1>11. \A b, x \in Attempts : att'[b].pc = "started" /\ att'[x].pc = "started" => b = x
  BY <1>10, Zenon
<1>12. \A b \in Attempts : /\ att'[b].pc \in {"idle", "started"}
                           /\ att'[b].proof = NoProof /\ att'[b].valid = FALSE
  BY <1>10
<1>13. load.way \in {"http", "sdk"} /\ (load.way = "http" => row'.sealed) /\ row'.reference = Reference(w, e)
  BY <1>1, <1>6, <1>8
<1>14. row'.status \in {"queued", "running"} /\ att' \in [Attempts -> AttemptRecords]
  BY <1>8, <1>9, Zenon
<1> QED BY <1>1, <1>2, <1>6, <1>8, <1>11, <1>12, <1>13, <1>14, RunBegins, Zenon

-----------------------------------------------------------------------------
\* A settled installation without a run.
LEMMA RunInitInv == Init => RunInv
<1> SUFFICES ASSUME Init PROVE RunInv
  OBVIOUS
<1>1. /\ row = NoRow /\ row.status = "none" /\ ~Begun /\ NoRow \in Rows /\ NoExport \in Exports
      /\ NoAttempt \in AttemptRecords /\ NoAttempt.pc = "idle"
  BY EmptyTyped, Zenon DEF Init, Begun
<1>2. /\ 1 \in 1..MaxSetups /\ {0, 1} \subseteq 0..MaxSetups
  BY RunAssumption
<1>3. /\ file = [f \in Files |-> 1] /\ file \in [Files -> 0..MaxSetups]
      /\ source \in [1..MaxSetups -> Nat] /\ source[1] = 1
      /\ setup \in [run : 0..MaxSetups, next : 1..3, writing : BOOLEAN] /\ setup.run = None
      /\ keyCache \in 0..MaxSetups
  BY <1>2, SMTT(40) DEF Init, None, NoSetup
<1>4. RunTyped
  <2>1. att \in [Attempts -> AttemptRecords] /\ audit \in Seq(Proofs)
    BY <1>1 DEF Init
  <2>2. loaded \in [{"prover", "worker", "verifier", "sdk"} -> Nat]
    BY DEF Init
  <2> QED BY <1>1, <1>3, <2>1, <2>2, SMTT(40) DEF RunTyped, Init
<1>5. ModeInv
  BY <1>1 DEF ModeInv, NotBegun, Init
<1>6. ArtifactsInv
  BY <1>2, <1>3 DEF ArtifactsInv, Compiled, None
<1> QED BY <1>1, <1>4, <1>5, <1>6, Zenon DEF RunInv, ProofsInv, AloneInv, AgreeInv, CalmInv, Init

\* Every step of an attempt at the run keeps the invariant.
LEMMA AttemptStepKeeps ==
    ASSUME RunInv, TriesInv, NEW a \in Attempts, AttemptStep(a)
    PROVE  RunInv'
BY GetJobKeeps, StartRunningKeeps, GenerateWitnessKeeps, GenerateProofKeeps, VerifyNativeKeeps,
   VerifySnarkjsKeeps, CallFailsKeeps, DualTrackKeeps, MarkCompletedKeeps, PurgeCompletedKeeps,
   AuditCompletedKeeps, VerifyAnsweredKeeps, EngineCompletesKeeps
DEF AttemptStep

\* So does every other step.
LEMMA RunNextInv ==
    ASSUME RunInv, TriesInv, [Next]_vars
    PROVE  RunInv'
<1>1. CASE Deploy \/ SetupWrites \/ SetupStops \/ RestartNative
  BY <1>1, DeployKeeps, SetupWritesKeeps, SetupStopsKeeps, RestartNativeKeeps
<1>2. CASE \E p \in {"prover", "worker", "verifier", "sdk"} : Restart(p)
  BY <1>2, RestartKeeps
<1>3. CASE \E s \in 2..MaxSetups : SetupCompiles(s)
  BY <1>3, SetupCompilesKeeps
<1>4. CASE \E e \in Evidence : create_policy_run(e)
  BY <1>4, CreateKeeps
<1>5. CASE \E a \in Attempts, e \in Evidence : EngineRun(a, e)
  BY <1>5, EngineRunKeeps
<1>6. CASE \E a \in Attempts, s \in 1..MaxSetups, g \in BOOLEAN :
              Verify(a, [by |-> a, setup |-> s, signal |-> TRUE, genuine |-> g])
  <2>1. PICK a \in Attempts, s \in 1..MaxSetups, g \in BOOLEAN :
              Verify(a, [by |-> a, setup |-> s, signal |-> TRUE, genuine |-> g])
    BY <1>6, Zenon
  <2>2. [by |-> a, setup |-> s, signal |-> TRUE, genuine |-> g] \in Proofs
    BY RunAssumption DEF Proofs
  <2> QED BY <2>1, <2>2, VerifyKeeps
<1>7. CASE \E a \in Attempts : AttemptStep(a)
  BY <1>7, AttemptStepKeeps
<1>8. CASE ExportReads \/ ExportBuilds \/ Exported \/ Prune
  BY <1>8, ExportReadsKeeps, ExportBuildsKeeps, ExportedKeeps, PruneKeeps
<1>9. CASE UNCHANGED vars
  <2>1. /\ load' = load /\ row' = row /\ audit' = audit /\ attested' = attested /\ overlap' = overlap
        /\ faults' = faults /\ lost' = lost /\ loaded' = loaded /\ file' = file /\ source' = source /\ setup' = setup
        /\ keyCache' = keyCache /\ att' = att /\ export' = export /\ calm' = calm /\ pack' = pack
    BY <1>9 DEF vars, keyVars, deployVars, artifactVars, runVars, exportVars
  <2>2. ArtifactsInv'
    BY <2>1, WorldTyped DEF ArtifactsInv, Compiled
  <2> QED BY <2>1, <2>2, WorldTyped, WorldMoves, Zenon
<1> QED BY <1>1, <1>2, <1>3, <1>4, <1>5, <1>6, <1>7, <1>8, <1>9 DEF Next

-----------------------------------------------------------------------------
\* A step that neither counts nor interrupts attempts, and under which those
\* of a run that goes on go on.
LEMMA TriesKept ==
    ASSUME RunInv, TriesInv, tries' = tries, lost' = lost, load' = load, overlap' = overlap,
           Begun => Begun',
           ~overlap /\ row'.status \in {"queued", "running"} /\ load.way = "http" =>
               /\ row.status \in {"queued", "running"}
               /\ \A b \in Attempts : /\ att'[b].pc = "got" => att[b].pc = "got"
                                      /\ att[b].pc \in Going => att'[b].pc \in Going
    PROVE  TriesInv'
<1>1. row.status \in {"queued", "running"} => Begun
  BY DEF Begun
<1> QED BY <1>1, Zenon DEF TriesInv

\* A run that fails is over.
LEMMA FailedTries ==
    ASSUME RunInv, TriesInv, NEW a \in Attempts, Failed(a),
           tries' = tries, lost' = lost, load' = load, overlap' = overlap
    PROVE  TriesInv'
<1>1. row'.status = "failed"
  BY Here, FailSet, Zenon DEF Failed
<1>2. Begun' /\ row'.status \notin {"queued", "running"}
  BY <1>1 DEF Begun
<1> QED BY <1>2, TriesKept, Zenon

\* A step of an attempt that is made, with the row as it is.
LEMMA MoveTries ==
    ASSUME RunInv, TriesInv, NEW a \in Attempts, tries' = tries, lost' = lost, load' = load, overlap' = overlap,
           row' = row, \A b \in Attempts : b # a => att'[b] = att[b],
           att'[a].pc # "got",
           load.way = "verify" \/ att'[a].pc \in Going \/ att[a].pc \in Closing
    PROVE  TriesInv'
<1>1. Begun => Begun'
  BY DEF Begun
<1>2. ASSUME att[a].pc \in Closing, ~overlap, row.status \in {"queued", "running"} PROVE FALSE
  <2>1. Begun /\ InFlight(a)
    BY <1>2 DEF Begun, InFlight, Closing
  <2> QED BY <1>2, <2>1, Alone
<1> QED BY <1>1, <1>2, TriesKept, Zenon

\* The proof engine raises.
LEMMA RaisesTries ==
    ASSUME RunInv, TriesInv, NEW a \in Attempts, EngineRaises(a),
           tries' = tries, lost' = lost, load' = load, overlap' = overlap
    PROVE  TriesInv'
<1>1. CASE load.way = "verify"
  <2>1. Goto(a, "done") /\ row' = row
    BY <1>1 DEF EngineRaises
  <2>2. att'[a].pc = "done" /\ \A b \in Attempts : b # a => att'[b] = att[b]
    BY <2>1, NextAttempt DEF Pcs
  <2> QED BY <1>1, <2>1, <2>2, MoveTries
<1>2. CASE load.way # "verify"
  BY <1>2, FailedTries DEF EngineRaises
<1> QED BY <1>1, <1>2

\* next_attempt_metadata: the attempt takes the next number.
LEMMA GetJobTries ==
    ASSUME RunInv, TriesInv, NEW a \in Attempts, GetJob(a)
    PROVE  TriesInv'
<1>1. /\ lost' = lost /\ load' = load /\ row' = row /\ att \in [Attempts -> AttemptRecords]
      /\ tries \in [row : Nat, of : [Attempts -> Nat]] /\ Begun
  <2>1. row # NoRow
    BY DEF GetJob
  <2> QED BY <2>1, Here DEF GetJob, deployVars, TriesInv, RunInv, ModeInv, NotBegun
<1>2. CASE row.status \notin {"queued", "running"}
  BY <1>1, <1>2, TriesKept, Zenon DEF GetJob, Begun
<1>3. CASE row.status \in {"queued", "running"}
  <2>1. /\ Goto(a, "got") /\ overlap' = (overlap \/ \E b \in Attempts : InFlight(b))
        /\ tries' = [tries EXCEPT !.of[a] = tries.row + 1]
    BY <1>3 DEF GetJob, Goto
  <2>2. /\ tries' \in [row : Nat, of : [Attempts -> Nat]] /\ tries'.row = tries.row
        /\ tries'.of[a] = tries.row + 1
    BY <1>1, <2>1
  <2>3. ~overlap' => ~overlap /\ \A b \in Attempts : att[b].pc \notin Going \cup {"got"}
    <3>1. ~overlap' => ~overlap /\ \A b \in Attempts : ~InFlight(b)
      BY <2>1, Zenon
    <3> QED BY <3>1, Zenon DEF InFlight, Going
  <2>4. att'[a].pc = "got" /\ \A b \in Attempts : b # a => att'[b] = att[b]
    BY <2>1, NextAttempt DEF Pcs
  <2>5. ~overlap /\ load.way = "http" /\ (\A b \in Attempts : att[b].pc \notin Going) => tries.row <= lost
    BY <1>1, <1>3 DEF TriesInv
  <2>6. Begun'
    BY <1>1 DEF Begun
  <2> QED BY <1>1, <2>2, <2>3, <2>4, <2>5, <2>6, Zenon DEF TriesInv
<1> QED BY <1>2, <1>3

\* mark_running writes the number of the attempt back.
LEMMA StartRunningTries ==
    ASSUME RunInv, TriesInv, NEW a \in Attempts, StartRunning(a)
    PROVE  TriesInv'
<1>1. /\ lost' = lost /\ load' = load /\ overlap' = overlap /\ att[a].pc = "got"
      /\ tries' = [tries EXCEPT !.row = tries.of[a]]
      /\ Failed(a) \/ (row' = [row EXCEPT !.status = "running"] /\ Goto(a, "started"))
  BY DEF StartRunning, deployVars
<1>2. /\ tries' \in [row : Nat, of : [Attempts -> Nat]] /\ tries'.row = tries.of[a] /\ tries'.of = tries.of
  BY <1>1 DEF TriesInv
<1>3. Begun
  <2>1. InFlight(a)
    BY <1>1 DEF InFlight
  <2> QED BY <1>1, <2>1, UnderWayMode
<1>4. CASE Failed(a)
  <2>1. row'.status = "failed"
    BY <1>4, Here, FailSet, Zenon DEF Failed
  <2>2. Begun' /\ row'.status \notin {"queued", "running"}
    BY <2>1 DEF Begun
  <2> QED BY <1>2, <2>2 DEF TriesInv
<1>5. CASE row' = [row EXCEPT !.status = "running"] /\ Goto(a, "started")
  <2>1. row'.status = "running"
    BY <1>5, Here, StatusSet, Zenon
  <2>2. att'[a].pc = "started" /\ \A b \in Attempts : b # a => att'[b] = att[b]
    BY <1>5, NextAttempt DEF Pcs
  <2>3. "started" \in Going /\ Begun'
    BY <2>1 DEF Going, Begun
  <2>4. ~overlap => /\ tries'.row = tries.row + 1 /\ tries.row <= lost
                    /\ \A b \in Attempts : b # a => att[b].pc # "got"
    BY <1>1, <1>2, <1>3, TriesHere DEF Going
  <2>5. tries.row \in Nat /\ lost \in Nat
    BY DEF TriesInv, RunInv, RunTyped
  <2>6. ~overlap => tries'.row <= lost + 1
    BY <2>4, <2>5
  <2>7. ~overlap => \A b \in Attempts : att'[b].pc # "got"
    BY <2>2, <2>4
  <2> QED BY <1>1, <1>2, <2>2, <2>3, <2>6, <2>7, Zenon DEF TriesInv
<1> QED BY <1>1, <1>4, <1>5

\* The other steps of an attempt count nothing.
LEMMA AttemptStepTries ==
    ASSUME RunInv, TriesInv, NEW a \in Attempts, AttemptStep(a)
    PROVE  TriesInv'
<1>1. att \in [Attempts -> AttemptRecords] /\ att[a] \in AttemptRecords /\ row \in Rows
  BY Here
<1>2. {"done", "agreed", "purge", "audit"} \subseteq Pcs /\ {"purge", "audit"} \subseteq Closing
      /\ {"witness", "proved", "again", "verified", "agreed"} \subseteq Going
  BY DEF Pcs, Closing, Going
<1>3. CASE GetJob(a)
  BY <1>3, GetJobTries
<1>4. CASE StartRunning(a)
  BY <1>4, StartRunningTries
<1>5. CASE GenerateWitness(a)
  <2>1. tries' = tries /\ lost' = lost /\ load' = load /\ overlap' = overlap
    BY <1>5 DEF GenerateWitness, deployVars
  <2>2. CASE EngineRaises(a)
    BY <2>1, <2>2, RaisesTries
  <2>3. CASE att' = [att EXCEPT ![a].pc = "witness", ![a].wasm = file["wasm"]] /\ row' = row
    <3>1. att'[a].pc = "witness" /\ \A b \in Attempts : b # a => att'[b] = att[b]
      BY <1>1, <2>3 DEF AttemptRecords
    <3> QED BY <1>2, <2>1, <2>3, <3>1, MoveTries, Zenon
  <2> QED BY <1>5, <2>2, <2>3 DEF GenerateWitness
<1>6. CASE GenerateProof(a)
  <2>1. tries' = tries /\ lost' = lost /\ load' = load /\ overlap' = overlap
    BY <1>6 DEF GenerateProof, deployVars
  <2>2. CASE EngineRaises(a)
    BY <2>1, <2>2, RaisesTries
  <2>3. ASSUME NEW q, att' = [att EXCEPT ![a].pc = "proved", ![a].wasm = None, ![a].proof = q], row' = row
        PROVE  TriesInv'
    <3>1. att'[a].pc = "proved" /\ \A b \in Attempts : b # a => att'[b] = att[b]
      BY <1>1, <2>3 DEF AttemptRecords
    <3> QED BY <1>2, <2>1, <2>3, <3>1, MoveTries, Zenon
  <2> QED BY <1>6, <2>2, <2>3 DEF GenerateProof
<1>7. CASE VerifyNative(a) \/ VerifySnarkjs(a)
  <2>1. tries' = tries /\ lost' = lost /\ load' = load /\ overlap' = overlap
    BY <1>7 DEF VerifyNative, VerifySnarkjs, deployVars, runVars
  <2>2. CASE EngineRaises(a)
    BY <2>1, <2>2, RaisesTries
  <2>3. ASSUME NEW v, NEW pc \in {"verified", "again"}, att' = [att EXCEPT ![a].pc = pc, ![a].valid = v], row' = row
        PROVE  TriesInv'
    <3>1. att'[a].pc = pc /\ \A b \in Attempts : b # a => att'[b] = att[b]
      BY <1>1, <2>3 DEF AttemptRecords
    <3> QED BY <1>2, <2>1, <2>3, <3>1, MoveTries, Zenon
  <2> QED BY <1>7, <2>2, <2>3, Zenon DEF VerifyNative, VerifySnarkjs, runVars
<1>8. CASE CallFails(a)
  BY <1>8, RaisesTries DEF CallFails, deployVars
<1>9. CASE DualTrack(a)
  <2>1. /\ tries' = tries /\ lost' = lost /\ load' = load /\ overlap' = overlap
        /\ Failed(a) \/ (Goto(a, "agreed") /\ row' = row)
    BY <1>9 DEF DualTrack, deployVars
  <2>2. Goto(a, "agreed") => att'[a].pc = "agreed" /\ \A b \in Attempts : b # a => att'[b] = att[b]
    BY <1>2, NextAttempt
  <2> QED BY <1>2, <2>1, <2>2, FailedTries, MoveTries, Zenon
<1>10. CASE MarkCompleted(a) \/ EngineCompletes(a)
  <2>1. tries' = tries /\ lost' = lost /\ load' = load /\ overlap' = overlap
    BY <1>10 DEF MarkCompleted, EngineCompletes, deployVars
  <2>2. row'.status = "completed"
    BY <1>1, <1>10, Zenon DEF MarkCompleted, EngineCompletes, Rows
  <2>3. Begun' /\ row'.status \notin {"queued", "running"}
    BY <2>2 DEF Begun
  <2> QED BY <2>1, <2>3, TriesKept, Zenon
<1>11. CASE PurgeCompleted(a)
  <2>1. tries' = tries /\ lost' = lost /\ load' = load /\ overlap' = overlap
        /\ att[a].pc = "purge" /\ Goto(a, "audit") /\ row' = [row EXCEPT !.sealed = FALSE]
    BY <1>11 DEF PurgeCompleted, deployVars
  <2>2. row'.status = row.status
    BY <1>1, <2>1, SealSet, Zenon
  <2>3. ASSUME ~overlap, row.status \in {"queued", "running"} PROVE FALSE
    <3>1. Begun /\ InFlight(a) /\ att[a].pc \in Closing
      BY <1>2, <2>1, <2>3 DEF Begun, InFlight
    <3> QED BY <2>3, <3>1, Alone
  <2> QED BY <2>1, <2>2, <2>3, TriesKept DEF Begun
<1>12. CASE AuditCompleted(a) \/ VerifyAnswered(a)
  <2> DEFINE k == [NoAttempt EXCEPT !.pc = "done"]
  <2>1. tries' = tries /\ lost' = lost /\ load' = load /\ overlap' = overlap /\ row' = row
        /\ att' = [att EXCEPT ![a] = k] /\ (load.way = "verify" \/ att[a].pc = "audit")
    BY <1>12 DEF AuditCompleted, VerifyAnswered, deployVars, runVars
  <2>2. k.pc = "done"
    BY Over
  <2> HIDE DEF k
  <2>3. att'[a].pc = "done" /\ \A b \in Attempts : b # a => att'[b] = att[b]
    BY <1>1, <2>1, <2>2
  <2> QED BY <1>2, <2>1, <2>3, MoveTries
<1> QED BY <1>3, <1>4, <1>5, <1>6, <1>7, <1>8, <1>9, <1>10, <1>11, <1>12 DEF AttemptStep

\* A restart interrupts the attempt that the row has counted.
LEMMA RestartTries ==
    ASSUME RunInv, TriesInv, NEW p \in {"prover", "worker", "verifier", "sdk"}, Restart(p)
    PROVE  TriesInv'
<1>1. /\ load' = load /\ row' = row /\ overlap' = overlap /\ tries' = tries
      /\ lost' = (IF att' = att THEN lost ELSE lost + 1)
      /\ att' = att \/ att' = [b \in Attempts |-> IF InFlight(b) THEN Lost ELSE att[b]]
  BY DEF Restart, runVars, Lost
<1>2. lost \in Nat /\ tries.row \in Nat
  BY DEF RunInv, RunTyped, TriesInv
<1>3. CASE att' = att
  BY <1>1, <1>3, TriesKept, Zenon DEF Begun
<1>4. CASE att' # att
  <2>1. Lost.pc = "lost"
    BY Over DEF Lost
  <2>2. \A b \in Attempts : att'[b].pc # "got"
    BY <1>1, <1>4, <2>1 DEF InFlight
  <2>3. Begun' <=> Begun
    BY <1>1 DEF Begun
  <2>4. tries.row <= lost \/ tries.row <= lost + 1 => tries.row <= lost'
    BY <1>1, <1>2, <1>4
  <2> QED BY <1>1, <2>2, <2>3, <2>4, Zenon DEF TriesInv
<1> QED BY <1>3, <1>4

\* Nothing is counted before the first delivery.
LEMMA BeginTries ==
    ASSUME RunInv, TriesInv, tries' = tries, lost' = lost, load' = load, overlap' = overlap, row = NoRow, Begun',
           load.way = "http" => att' = att
    PROVE  TriesInv'
<1>1. ~Begun /\ tries.row = 0 /\ lost \in Nat
  BY EmptyTyped DEF Begun, TriesInv, RunInv, RunTyped
<1>2. tries.row <= lost
  BY <1>1
<1>3. load.way = "http" => \A b \in Attempts : att[b] = NoAttempt
  BY <1>1 DEF RunInv, ModeInv, NotBegun
<1>4. load.way = "http" => \A b \in Attempts : att'[b].pc # "got"
  BY <1>3, EmptyTyped
<1> QED BY <1>2, <1>4, Zenon DEF TriesInv

\* Every step keeps the count.
LEMMA TriesNextInv ==
    ASSUME RunInv, TriesInv, [Next]_vars
    PROVE  TriesInv'
<1>1. CASE \E p \in {"prover", "worker", "verifier", "sdk"} : Restart(p)
  BY <1>1, RestartTries
<1>2. CASE \E e \in Evidence : create_policy_run(e)
  <2>1. PICK e \in Evidence : create_policy_run(e)
    BY <1>2
  <2>2. row'.status = "queued"
    BY <2>1 DEF create_policy_run, NoRow
  <2>3. tries' = tries /\ lost' = lost /\ load' = load /\ overlap' = overlap /\ row = NoRow /\ att' = att
    BY <2>1, Zenon DEF create_policy_run, deployVars
  <2> QED BY <2>2, <2>3, BeginTries DEF Begun
<1>3. CASE \E a \in Attempts, e \in Evidence : EngineRun(a, e)
  <2>1. PICK a \in Attempts, e \in Evidence : EngineRun(a, e)
    BY <1>3
  <2>2. row'.status = "running" /\ load.way = "sdk"
    BY <2>1 DEF EngineRun, NoRow
  <2>3. tries' = tries /\ lost' = lost /\ load' = load /\ overlap' = overlap /\ row = NoRow
    BY <2>1, Zenon DEF EngineRun, deployVars
  <2> QED BY <2>2, <2>3, BeginTries DEF Begun
<1>4. CASE \E a \in Attempts, s \in 1..MaxSetups, g \in BOOLEAN :
              Verify(a, [by |-> a, setup |-> s, signal |-> TRUE, genuine |-> g])
  <2>1. tries' = tries /\ lost' = lost /\ load' = load /\ overlap' = overlap /\ row' = row /\ load.way = "verify"
    BY <1>4, Zenon DEF Verify, deployVars, runVars
  <2> QED BY <2>1, TriesKept DEF Begun
<1>5. CASE \E a \in Attempts : AttemptStep(a)
  BY <1>5, AttemptStepTries
<1>6. ASSUME \/ Deploy \/ SetupWrites \/ SetupStops \/ RestartNative
             \/ \E s \in 2..MaxSetups : SetupCompiles(s)
             \/ ExportReads \/ ExportBuilds \/ Exported \/ Prune
             \/ UNCHANGED vars
      PROVE  TriesInv'
  <2>1. tries' = tries /\ lost' = lost /\ load' = load /\ overlap' = overlap /\ att' = att
    BY <1>6, Zenon DEF Deploy, SetupWrites, SetupStops, RestartNative, SetupCompiles, ExportReads,
                ExportBuilds, Exported, Prune, vars, deployVars, runVars
  <2>2. row' = row \/ row' = [row EXCEPT !.proof = NoProof]
    BY <1>6, Zenon DEF Deploy, SetupWrites, SetupStops, RestartNative, SetupCompiles, ExportReads,
                ExportBuilds, Exported, Prune, vars, runVars
  <2>3. row'.status = row.status
    <3>1. row \in Rows /\ NoProof \in Proofs
      BY EmptyTyped DEF RunInv, RunTyped
    <3>2. [row EXCEPT !.proof = NoProof].status = row.status
      BY <3>1, RowProofSet, Zenon
    <3> QED BY <2>2, <3>2, Zenon
  <2> QED BY <2>1, <2>3, TriesKept DEF Begun
<1> QED BY <1>1, <1>2, <1>3, <1>4, <1>5, <1>6, Zenon DEF Next

-----------------------------------------------------------------------------
\* A setup run writes the file of the key, or another one.
LEMMA SetupWritesKeys ==
    ASSUME RunInv, KeysInv, SetupWrites
    PROVE  KeysInv'
<1> DEFINE f == FileOrder[setup.next]
<1>1. file \in [Files -> 0..MaxSetups] /\ "vk" \in Files /\ f \in Files /\ keyCache' = keyCache
  BY WorldTyped DEF SetupWrites, FileOrder, Files
<1>2. \/ /\ file' = [file EXCEPT ![f] = setup.run]
         /\ keys' = IF f = "vk" THEN keys \cup {setup.run} ELSE keys
      \/ file' = [file EXCEPT ![f] = Torn] /\ keys' = keys
  BY DEF SetupWrites
<1> HIDE DEF f
<1> QED BY <1>1, <1>2 DEF KeysInv

\* Every step keeps the keys.
LEMMA KeysNextInv ==
    ASSUME RunInv, KeysInv, [Next]_vars
    PROVE  KeysInv'
<1>1. CASE SetupWrites
  BY <1>1, SetupWritesKeys
<1>2. CASE RestartNative
  <2>1. file' = file /\ keyCache' = None /\ keys' = {file["vk"]} \ {Torn}
    BY <1>2 DEF RestartNative, artifactVars
  <2> QED BY <2>1 DEF KeysInv
<1>3. CASE \E a \in Attempts : VerifyNative(a)
  <2>1. file' = file /\ keys' = keys /\ keyCache' \in {keyCache, file["vk"]}
    BY <1>3 DEF VerifyNative, artifactVars
  <2> QED BY <2>1 DEF KeysInv, Torn, None
<1>4. CASE UNCHANGED <<file, keyVars>>
  BY <1>4 DEF KeysInv, keyVars
<1>5. ASSUME NEW a \in Attempts, AttemptStep(a) PROVE VerifyNative(a) \/ UNCHANGED <<file, keyVars>>
  BY <1>5, Zenon DEF AttemptStep, GetJob, StartRunning, GenerateWitness, GenerateProof, VerifySnarkjs,
              CallFails, DualTrack, MarkCompleted, PurgeCompleted, AuditCompleted, VerifyAnswered,
              EngineCompletes, artifactVars
<1>6. ASSUME \/ Deploy \/ SetupStops \/ ExportReads \/ ExportBuilds \/ Exported \/ Prune \/ UNCHANGED vars
             \/ \E p \in {"prover", "worker", "verifier", "sdk"} : Restart(p)
             \/ \E s \in 2..MaxSetups : SetupCompiles(s)
             \/ \E e \in Evidence : create_policy_run(e)
             \/ \E a \in Attempts, e \in Evidence : EngineRun(a, e)
             \/ \E a \in Attempts, s \in 1..MaxSetups, g \in BOOLEAN :
                   Verify(a, [by |-> a, setup |-> s, signal |-> TRUE, genuine |-> g])
      PROVE  UNCHANGED <<file, keyVars>>
  BY <1>6, Zenon DEF Deploy, SetupStops, ExportReads, ExportBuilds, Exported, Prune, Restart, SetupCompiles,
              create_policy_run, EngineRun, Verify, vars, artifactVars
<1> QED BY <1>1, <1>2, <1>3, <1>4, <1>5, <1>6, Zenon DEF Next

\* The inductive invariant holds in every state.
THEOREM RunInvariant == Spec => [](RunInv /\ TriesInv /\ KeysInv)
<1>1. Init => TriesInv /\ KeysInv
  <2> SUFFICES ASSUME Init PROVE TriesInv /\ KeysInv
    OBVIOUS
  <2>1. ~Begun
    BY EmptyTyped DEF Init, Begun
  <2>2. TriesInv
    BY <2>1 DEF Init, TriesInv
  <2>3. KeysInv
    BY DEF Init, KeysInv, Files, None, Torn
  <2> QED BY <2>2, <2>3
<1> QED BY <1>1, RunInitInv, RunNextInv, TriesNextInv, KeysNextInv, PTL DEF Spec

-----------------------------------------------------------------------------
\* A run that completed with "pass" was passed by the version the API had loaded
\* and carries a genuine proof for a version that passes the evidence
\* (evaluate_circuit_track, assert_dual_track_consistency), whatever is
\* deployed, restarted, set up again or delivered twice meanwhile.
THEOREM PassesAreProved == Spec => []PassIsProved
<1>1. RunInv => PassIsProved
  <2> SUFFICES ASSUME RunInv, row.status = "completed", row.decision = "pass"
               PROVE  /\ row.evidence \in Passes[row.submitted]
                      /\ row.proof # NoProof => /\ row.proof.genuine
                                                /\ row.evidence \in Passes[source[row.proof.setup]]
    BY DEF PassIsProved
  <2>1. Begun /\ Decided /\ ProofsInv
    BY DEF Begun, RunInv, ModeInv
  <2>2. row.evidence \in Passes[row.submitted]
    BY <2>1 DEF Decided, Reference, Verdict
  <2>3. ASSUME row.proof # NoProof
        PROVE  row.proof.genuine /\ row.evidence \in Passes[source[row.proof.setup]]
    <3>1. Made(row.proof) /\ ProofSound(row.proof)
      BY <2>1, <2>3, NoneOrMade, Zenon DEF ProofsInv
    <3>2. row.proof.genuine /\ row.proof.signal
      BY <2>1, <3>1 DEF ProofsInv
    <3> QED BY <3>1, <3>2 DEF ProofSound
  <2> QED BY <2>2, <2>3, Zenon
<1> QED BY <1>1, RunInvariant, PTL

\* A run submitted to a settled system, with attempts that do not overlap, only
\* fails if a call failed, if PROOF_JOB_MAX_ATTEMPTS attempts were interrupted
\* (next_attempt_metadata) or if something it depends on was changed; a key
\* that the native prover cached before the last setup run fails none
\* (verify_proof's second opinion).
THEOREM FailuresHaveCauses == Spec => []FailureHasCause
<1>1. RunInv => FailureHasCause
  BY Zenon DEF RunInv, CalmInv, CalmWith, FailureHasCause
<1> QED BY <1>1, RunInvariant, PTL

\* If nothing the run depends on has changed since its submission, its
\* attestation names the version and decision of the run and the digests of the
\* files that proved it (export_attestation, AttestationService.create).
THEOREM AttestationsDescribeRuns == Spec => []AttestationDescribesRun
<1>1. RunInv => AttestationDescribesRun
  BY Zenon DEF RunInv, ModeInv, Decided, CalmInv, CalmWith, OfSetup, AttestationDescribesRun
<1> QED BY <1>1, RunInvariant, PTL

\* All attestations of a run whose attempts did not overlap name the same proof,
\* before and after the row is pruned (export_attestation's fallback to the
\* audit row).
THEOREM AttestationsNameOneProof == Spec => []AttestationsAgree
<1>1. RunInv => AttestationsAgree
  <2> SUFFICES ASSUME RunInv, ~overlap PROVE Cardinality(attested) <= 1
    BY DEF AttestationsAgree
  <2>1. \E p : attested \subseteq {p}
    BY Zenon DEF RunInv, ModeInv, NotBegun, AgreeInv, OneProof
  <2>2. PICK p : attested \subseteq {p}
    BY <2>1
  <2>3. IsFiniteSet({p}) /\ Cardinality({p}) = 1
    BY FS_Singleton
  <2>4. Cardinality(attested) <= Cardinality({p})
    BY <2>2, <2>3, FS_Subset
  <2> QED BY <2>3, <2>4
<1> QED BY <1>1, RunInvariant, PTL

-----------------------------------------------------------------------------
\* What AnswersFollowKeys says of one attempt in one step.
Honest(a) ==
    att[a].pc # "verified" /\ att'[a].pc = "verified" =>
        IF att'[a].valid THEN \E key \in keys : Verifies(att[a].proof, key)
        ELSE ~Verifies(att[a].proof, file["vk"])

\* A step that leaves an attempt where it is, or takes it elsewhere.
LEMMA ElsewhereHonest ==
    ASSUME RunInv, NEW a \in Attempts,
           \/ att' = att
           \/ \E k : att' = [att EXCEPT ![a] = k] /\ k.pc # "verified"
    PROVE  \A b \in Attempts : Honest(b)
<1>1. att \in [Attempts -> AttemptRecords]
  BY Here
<1> QED BY <1>1 DEF Honest

\* Going to another point, and failing.
LEMMA GotoHonest ==
    ASSUME RunInv, NEW a \in Attempts, NEW pc \in Pcs, pc # "verified", Goto(a, pc)
    PROVE  \A b \in Attempts : Honest(b)
BY NextAttempt, Zenon DEF Honest

\* An attempt that ends.
LEMMA FailedHonest ==
    ASSUME RunInv, NEW a \in Attempts, att' = [att EXCEPT ![a] = [NoAttempt EXCEPT !.pc = "done"]]
    PROVE  \A b \in Attempts : Honest(b)
<1> DEFINE k == [NoAttempt EXCEPT !.pc = "done"]
<1>1. k.pc = "done"
  BY Over
<1>2. att' = [att EXCEPT ![a] = k]
  OBVIOUS
<1> HIDE DEF k
<1> QED BY <1>1, <1>2, ElsewhereHonest, Zenon

\* The proof engine raises.
LEMMA RaisesHonest ==
    ASSUME RunInv, NEW a \in Attempts, EngineRaises(a)
    PROVE  \A b \in Attempts : Honest(b)
BY GotoHonest, FailedHonest DEF EngineRaises, Failed, Pcs

\* The two verifiers: the native prover gives no answer "invalid", and snarkjs
\* has the key of the file.
LEMMA VerifiersHonest ==
    ASSUME RunInv, KeysInv, NEW a \in Attempts, VerifyNative(a) \/ VerifySnarkjs(a)
    PROVE  \A b \in Attempts : Honest(b)
<1>1. att \in [Attempts -> AttemptRecords]
  BY Here
<1>2. att[a].proof.genuine \in BOOLEAN
  BY Here, ProofFields, Zenon
<1>3. CASE VerifyNative(a)
  <2> DEFINE key == IF keyCache # None THEN keyCache ELSE file["vk"]
             v == key # None /\ Verifies(att[a].proof, key)
  <2>1. att' = [att EXCEPT ![a] = [att[a] EXCEPT !.pc = IF v THEN "verified" ELSE "again", !.valid = v]]
    BY <1>1, <1>3, Zenon DEF VerifyNative
  <2>2. v \in BOOLEAN
    BY <1>2 DEF Verifies
  <2>3. v => \E w \in keys : Verifies(att[a].proof, w)
    <3>1. key # None => key \in keys
      BY DEF KeysInv, None, Torn
    <3> HIDE DEF key
    <3> QED BY <3>1, Zenon
  <2> HIDE DEF v
  <2>4. att'[a].pc = "verified" => att'[a].valid /\ v
    BY <1>1, <2>1, <2>2 DEF AttemptRecords
  <2>5. \A b \in Attempts : b # a => att'[b] = att[b]
    BY <1>1, <2>1
  <2> QED BY <2>3, <2>4, <2>5, Zenon DEF Honest
<1>4. CASE VerifySnarkjs(a) /\ ~EngineRaises(a)
  <2> DEFINE v == file["vk"] # Torn /\ Verifies(att[a].proof, file["vk"])
  <2>1. file["vk"] # Torn /\ att' = [att EXCEPT ![a] = [att[a] EXCEPT !.pc = "verified", !.valid = v]]
    BY <1>1, <1>4, Zenon DEF VerifySnarkjs
  <2>2. v \in BOOLEAN
    BY <1>2 DEF Verifies
  <2>3. /\ v => \E w \in keys : Verifies(att[a].proof, w)
        /\ ~v => ~Verifies(att[a].proof, file["vk"])
    BY <2>1, Zenon DEF KeysInv
  <2> HIDE DEF v
  <2>4. att'[a].valid <=> v
    BY <1>1, <2>1, <2>2 DEF AttemptRecords
  <2>5. \A b \in Attempts : b # a => att'[b] = att[b]
    BY <1>1, <2>1
  <2> QED BY <2>3, <2>4, <2>5, Zenon DEF Honest
<1>5. CASE EngineRaises(a)
  BY <1>5, RaisesHonest
<1> QED BY <1>3, <1>4, <1>5

\* No other step of an attempt gives an answer.
LEMMA AttemptStepHonest ==
    ASSUME RunInv, KeysInv, NEW a \in Attempts, AttemptStep(a)
    PROVE  \A b \in Attempts : Honest(b)
<1>1. att \in [Attempts -> AttemptRecords] /\ att[a] \in AttemptRecords
  BY Here
<1>2. {"got", "done", "started", "agreed", "purge", "audit"} \subseteq Pcs
  BY DEF Pcs
<1>3. CASE GetJob(a)
  <2>1. Goto(a, "got") \/ Goto(a, "done")
    BY <1>3 DEF GetJob, Goto
  <2> QED BY <1>2, <2>1, GotoHonest
<1>4. CASE StartRunning(a)
  <2>1. Goto(a, "started") \/ Failed(a)
    BY <1>4 DEF StartRunning
  <2> QED BY <1>2, <2>1, GotoHonest, FailedHonest DEF Failed
<1>5. CASE GenerateWitness(a)
  <2>1. CASE EngineRaises(a)
    BY <2>1, RaisesHonest
  <2>2. CASE att' = [att EXCEPT ![a].pc = "witness", ![a].wasm = file["wasm"]]
    <3>1. att'[a].pc = "witness" /\ \A b \in Attempts : b # a => att'[b] = att[b]
      BY <1>1, <2>2 DEF AttemptRecords
    <3> QED BY <3>1 DEF Honest
  <2> QED BY <1>5, <2>1, <2>2 DEF GenerateWitness
<1>6. CASE GenerateProof(a)
  <2>1. CASE EngineRaises(a)
    BY <2>1, RaisesHonest
  <2>2. ASSUME NEW q, att' = [att EXCEPT ![a].pc = "proved", ![a].wasm = None, ![a].proof = q]
        PROVE  \A b \in Attempts : Honest(b)
    <3>1. att'[a].pc = "proved" /\ \A b \in Attempts : b # a => att'[b] = att[b]
      BY <1>1, <2>2 DEF AttemptRecords
    <3> QED BY <3>1 DEF Honest
  <2> QED BY <1>6, <2>1, <2>2 DEF GenerateProof
<1>7. CASE VerifyNative(a) \/ VerifySnarkjs(a)
  BY <1>7, VerifiersHonest
<1>8. CASE CallFails(a)
  BY <1>8, RaisesHonest, Zenon DEF CallFails
<1>9. CASE DualTrack(a)
  <2>1. Goto(a, "agreed") \/ Failed(a)
    BY <1>9 DEF DualTrack
  <2> QED BY <1>2, <2>1, GotoHonest, FailedHonest DEF Failed
<1>10. CASE MarkCompleted(a) \/ PurgeCompleted(a)
  <2>1. Goto(a, "purge") \/ Goto(a, "audit")
    BY <1>10 DEF MarkCompleted, PurgeCompleted
  <2> QED BY <1>2, <2>1, GotoHonest
<1>11. CASE AuditCompleted(a) \/ VerifyAnswered(a) \/ EngineCompletes(a)
  BY <1>11, FailedHonest DEF AuditCompleted, VerifyAnswered, EngineCompletes
<1> QED BY <1>3, <1>4, <1>5, <1>6, <1>7, <1>8, <1>9, <1>10, <1>11 DEF AttemptStep

\* A proof is called valid only under a key that the file has held since the
\* native prover started (get_or_load_verification_key), and invalid only if it
\* is not valid under the key in the file (verify_proof's second opinion).
THEOREM AnswersFollowTheKeys == Spec => AnswersFollowKeys
<1>1. ASSUME RunInv, KeysInv, [Next]_vars PROVE \A b \in Attempts : Honest(b)
  <2>1. att \in [Attempts -> AttemptRecords]
    BY <1>1 DEF RunInv, RunTyped
  <2>2. CASE att' = att
    BY <2>2 DEF Honest
  <2>3. CASE \E p \in {"prover", "worker", "verifier", "sdk"} : Restart(p)
    <3>1. \A b \in Attempts : att'[b] = att[b] \/ att'[b] = Lost
      BY <2>1, <2>3 DEF Restart, Lost
    <3>2. Lost.pc = "lost"
      BY <1>1, Over DEF Lost
    <3> QED BY <3>1, <3>2 DEF Honest
  <2>4. CASE \E a \in Attempts, e \in Evidence : EngineRun(a, e)
    <3>1. PICK a \in Attempts : Goto(a, "started")
      BY <2>4, Zenon DEF EngineRun, Goto
    <3> QED BY <1>1, <3>1, GotoHonest DEF Pcs
  <2>5. CASE \E a \in Attempts, s \in 1..MaxSetups, g \in BOOLEAN :
                Verify(a, [by |-> a, setup |-> s, signal |-> TRUE, genuine |-> g])
    <3>1. PICK a \in Attempts, s \in 1..MaxSetups, g \in BOOLEAN :
                Verify(a, [by |-> a, setup |-> s, signal |-> TRUE, genuine |-> g])
      BY <2>5, Zenon
    <3>2. PICK q : q = [by |-> a, setup |-> s, signal |-> TRUE, genuine |-> g]
      BY Zenon
    <3>3. att' = [att EXCEPT ![a].pc = "proved", ![a].proof = q]
      BY <3>1, <3>2 DEF Verify
    <3>4. att'[a].pc = "proved" /\ \A b \in Attempts : b # a => att'[b] = att[b]
      BY <2>1, <3>3 DEF AttemptRecords
    <3> QED BY <3>4 DEF Honest
  <2>6. CASE \E a \in Attempts : AttemptStep(a)
    BY <1>1, <2>6, AttemptStepHonest
  <2>7. ASSUME \/ Deploy \/ SetupWrites \/ SetupStops \/ RestartNative
               \/ \E s \in 2..MaxSetups : SetupCompiles(s)
               \/ \E e \in Evidence : create_policy_run(e)
               \/ ExportReads \/ ExportBuilds \/ Exported \/ Prune
               \/ UNCHANGED vars
        PROVE  att' = att
    BY <2>7, Zenon DEF Deploy, SetupWrites, SetupStops, RestartNative, SetupCompiles, create_policy_run,
                ExportReads, ExportBuilds, Exported, Prune, vars
  <2> QED BY <1>1, <2>2, <2>3, <2>4, <2>5, <2>6, <2>7, Zenon DEF Next
<1>2. RunInv /\ KeysInv /\ [Next]_vars => [\A a \in Attempts : Honest(a)]_vars
  BY <1>1
<1>3. [\A a \in Attempts : Honest(a)]_vars <=>
      [\A a \in Attempts :
          att[a].pc # "verified" /\ att'[a].pc = "verified" =>
             IF att'[a].valid THEN \E key \in keys : Verifies(att[a].proof, key)
             ELSE ~ Verifies(att[a].proof, file["vk"])]_vars
  BY DEF Honest
<1> QED BY <1>2, <1>3, RunInvariant, PTL DEF Spec, AnswersFollowKeys

====
