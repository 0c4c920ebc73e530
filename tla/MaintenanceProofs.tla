-------------------------- MODULE MaintenanceProofs --------------------------
(***************************************************************************)
(* Proof that maintenance cycles lose no file, for any number of runs,      *)
(* evidence files, processes and crashes, and any retention times and scan  *)
(* limit.  It follows a file along the renaming and the linking of          *)
(* _archive_path: a path at which nothing is left is one that a cycle which *)
(* is still under way is about to link.                                     *)
(***************************************************************************)
EXTENDS Maintenance, TLAPS

Moving == {"proof_move", "evidence_move"}
Linking == {"proof_link", "evidence_link"}

MaintTyped ==
    /\ status \in [Jobs -> {"running", "completed", "failed"}]
    /\ source \in [Files -> {"none", "file", "link", "gone"}]
    /\ target \in [Files -> {"none", "file", "deadlink"}]
    /\ cpc \in [Cyclers -> {"sleep", "list", "proofs", "evidence"} \cup Moving \cup Linking]
    /\ DOMAIN todo = Cyclers
    /\ crashes \in Nat
    /\ overlapped \in BOOLEAN

\* The file that c has in hand is f.
InHand(c, f) == cpc[c] \in Moving \cup Linking /\ Head(todo[c]) = f

\* A run that is not over has no file, and a file in hand has been written.
Written ==
    /\ \A j \in Jobs : status[j] = "running" => source[j] = "none"
    /\ \A c \in Cyclers, f \in Files : InHand(c, f) => source[f] # "none"

\* An empty path is one that a cycle is about to link.
Linked ==
    crashes = 0 => \A f \in Files : source[f] = "gone" =>
        \E c \in Cyclers : InHand(c, f) /\ cpc[c] \in Linking

\* One cycle at a time.
Single == \A c, d \in Cyclers : cpc[c] # "sleep" /\ cpc[d] # "sleep" => c = d

\* What such a cycle is about to move is a file at a free archive path; what it
\* is about to link has been moved.
InHandSound ==
    \A c \in Cyclers, f \in Files : InHand(c, f) =>
        IF cpc[c] \in Moving THEN Archivable(f) ELSE source[f] = "gone"

Kept == \A f \in Files : source[f] \in {"none", "file"} \/ target[f] = "file"

\* A file in the archive has its link, or is in hand.
Reachable ==
    crashes = 0 => \A f \in Files : target[f] = "file" =>
        \/ source[f] = "link"
        \/ \E c \in Cyclers : InHand(c, f) /\ cpc[c] \in Linking

AloneInv == ~overlapped => Single /\ InHandSound /\ Kept /\ Reachable

MaintInv == MaintTyped /\ Written /\ Linked /\ AloneInv

-----------------------------------------------------------------------------
\* Every step keeps the types.
LEMMA TypedStep == MaintTyped /\ [MaintNext]_maintVars => MaintTyped'
<1> SUFFICES ASSUME MaintTyped, [MaintNext]_maintVars PROVE MaintTyped'
  OBVIOUS
<1> USE MaintenanceAssumption DEF
       MaintTyped, Moving, Linking, Files, jobVars, maintVars, DropHead, EndCycle
<1>1. ASSUME NEW j \in Jobs, FailRun(j) PROVE MaintTyped'
  BY <1>1 DEF FailRun
<1>2. ASSUME NEW j \in Jobs, CompleteRun(j) PROVE MaintTyped'
  BY <1>2 DEF CompleteRun
<1>3. ASSUME NEW c \in Cyclers, Prune(c) PROVE MaintTyped'
  BY <1>3 DEF Prune
<1>4. ASSUME NEW c \in Cyclers, ListCandidates(c) PROVE MaintTyped'
  BY <1>4 DEF ListCandidates
<1>5. ASSUME NEW c \in Cyclers, LookAtProof(c) PROVE MaintTyped'
  BY <1>5 DEF LookAtProof
<1>6. ASSUME NEW c \in Cyclers, ListEvidence(c) PROVE MaintTyped'
  BY <1>6 DEF ListEvidence
<1>7. ASSUME NEW c \in Cyclers, LookAtEvidence(c) PROVE MaintTyped'
  BY <1>7 DEF LookAtEvidence
<1>8. ASSUME NEW c \in Cyclers, MoveFile(c) PROVE MaintTyped'
  BY <1>8, Zenon DEF MoveFile
<1>9. ASSUME NEW c \in Cyclers, LinkFile(c) PROVE MaintTyped'
  BY <1>9, Zenon DEF LinkFile
<1>10. ASSUME NEW c \in Cyclers, FinishCycle(c) PROVE MaintTyped'
  BY <1>10 DEF FinishCycle
<1>11. ASSUME NEW c \in Cyclers, CycleRaises(c) PROVE MaintTyped'
  BY <1>11 DEF CycleRaises
<1>12. ASSUME NEW c \in Cyclers, CycleDies(c) PROVE MaintTyped'
  BY <1>12 DEF CycleDies
<1>13. ASSUME NextDay PROVE MaintTyped'
  BY <1>13 DEF NextDay
<1>14. ASSUME UNCHANGED maintVars PROVE MaintTyped'
  BY <1>14 DEF maintVars
<1> HIDE DEF MaintTyped, Moving, Linking, Files, jobVars, maintVars, DropHead, EndCycle
<1> QED
  BY <1>1, <1>2, <1>3, <1>4, <1>5, <1>6, <1>7, <1>8, <1>9, <1>10, <1>11, <1>12, <1>13, <1>14
     DEF MaintNext, CycleStep

\* Files are in hand only after they were written.
LEMMA WrittenStep == MaintTyped /\ Written /\ [MaintNext]_maintVars => Written'
<1> SUFFICES ASSUME MaintTyped, Written, [MaintNext]_maintVars PROVE Written'
  OBVIOUS
<1> USE MaintenanceAssumption DEF
       MaintTyped, Moving, Linking, Written, InHand, Archivable, Due, Files, jobVars, maintVars,
       DropHead, EndCycle
<1>1. ASSUME NEW j \in Jobs, FailRun(j) PROVE Written'
  BY <1>1 DEF FailRun
<1>2. ASSUME NEW j \in Jobs, CompleteRun(j) PROVE Written'
  BY <1>2 DEF CompleteRun
<1>3. ASSUME NEW c \in Cyclers, Prune(c) PROVE Written'
  BY <1>3 DEF Prune
<1>4. ASSUME NEW c \in Cyclers, ListCandidates(c) PROVE Written'
  BY <1>4 DEF ListCandidates
<1>5. ASSUME NEW c \in Cyclers, LookAtProof(c) PROVE Written'
  BY <1>5 DEF LookAtProof
<1>6. ASSUME NEW c \in Cyclers, ListEvidence(c) PROVE Written'
  <2>1. /\ cpc[c] = "proofs" /\ cpc' = [cpc EXCEPT ![c] = "evidence"]
        /\ \A d \in Cyclers \ {c} : todo'[d] = todo[d]
        /\ UNCHANGED <<status, source, target, crashes, overlapped>>
    BY <1>6 DEF ListEvidence
  <2> QED BY <2>1
<1>7. ASSUME NEW c \in Cyclers, LookAtEvidence(c) PROVE Written'
  BY <1>7 DEF LookAtEvidence
<1>8. ASSUME NEW c \in Cyclers, MoveFile(c) PROVE Written'
  BY <1>8 DEF MoveFile
<1>9. ASSUME NEW c \in Cyclers, LinkFile(c) PROVE Written'
  BY <1>9 DEF LinkFile
<1>10. ASSUME NEW c \in Cyclers, FinishCycle(c) PROVE Written'
  BY <1>10 DEF FinishCycle
<1>11. ASSUME NEW c \in Cyclers, CycleRaises(c) PROVE Written'
  BY <1>11 DEF CycleRaises
<1>12. ASSUME NEW c \in Cyclers, CycleDies(c) PROVE Written'
  BY <1>12 DEF CycleDies
<1>13. ASSUME NextDay PROVE Written'
  BY <1>13 DEF NextDay
<1>14. ASSUME UNCHANGED maintVars PROVE Written'
  BY <1>14 DEF maintVars
<1> HIDE DEF MaintTyped, Moving, Linking, Written, InHand, Archivable, Due, Files, jobVars,
         maintVars, DropHead, EndCycle
<1> QED
  BY <1>1, <1>2, <1>3, <1>4, <1>5, <1>6, <1>7, <1>8, <1>9, <1>10, <1>11, <1>12, <1>13, <1>14
     DEF MaintNext, CycleStep

\* A path is empty only between its renaming and its linking.
LEMMA LinkedStep == MaintTyped /\ Written /\ Linked /\ [MaintNext]_maintVars => Linked'
<1> SUFFICES ASSUME MaintTyped, Written, Linked, [MaintNext]_maintVars PROVE Linked'
  OBVIOUS
<1> USE MaintenanceAssumption DEF
       MaintTyped, Moving, Linking, Written, Linked, InHand, Archivable, Due, Files, jobVars,
       maintVars, DropHead, EndCycle
<1>1. ASSUME NEW j \in Jobs, FailRun(j) PROVE Linked'
  BY <1>1 DEF FailRun
<1>2. ASSUME NEW j \in Jobs, CompleteRun(j) PROVE Linked'
  BY <1>2 DEF CompleteRun
<1>3. ASSUME NEW c \in Cyclers, Prune(c) PROVE Linked'
  BY <1>3 DEF Prune
<1>4. ASSUME NEW c \in Cyclers, ListCandidates(c) PROVE Linked'
  BY <1>4 DEF ListCandidates
<1>5. ASSUME NEW c \in Cyclers, LookAtProof(c) PROVE Linked'
  BY <1>5 DEF LookAtProof
<1>6. ASSUME NEW c \in Cyclers, ListEvidence(c) PROVE Linked'
  <2>1. /\ cpc[c] = "proofs" /\ cpc' = [cpc EXCEPT ![c] = "evidence"]
        /\ \A d \in Cyclers \ {c} : todo'[d] = todo[d]
        /\ UNCHANGED <<status, source, target, crashes, overlapped>>
    BY <1>6 DEF ListEvidence
  <2> QED BY <2>1
<1>7. ASSUME NEW c \in Cyclers, LookAtEvidence(c) PROVE Linked'
  BY <1>7 DEF LookAtEvidence
<1>8. ASSUME NEW c \in Cyclers, MoveFile(c) PROVE Linked'
  BY <1>8 DEF MoveFile
<1>9. ASSUME NEW c \in Cyclers, LinkFile(c) PROVE Linked'
  BY <1>9 DEF LinkFile
<1>10. ASSUME NEW c \in Cyclers, FinishCycle(c) PROVE Linked'
  BY <1>10 DEF FinishCycle
<1>11. ASSUME NEW c \in Cyclers, CycleRaises(c) PROVE Linked'
  BY <1>11 DEF CycleRaises
<1>12. ASSUME NEW c \in Cyclers, CycleDies(c) PROVE Linked'
  BY <1>12 DEF CycleDies
<1>13. ASSUME NextDay PROVE Linked'
  BY <1>13 DEF NextDay
<1>14. ASSUME UNCHANGED maintVars PROVE Linked'
  BY <1>14 DEF maintVars
<1> HIDE DEF MaintTyped, Moving, Linking, Written, Linked, InHand, Archivable, Due, Files, jobVars,
         maintVars, DropHead, EndCycle
<1> QED
  BY <1>1, <1>2, <1>3, <1>4, <1>5, <1>6, <1>7, <1>8, <1>9, <1>10, <1>11, <1>12, <1>13, <1>14
     DEF MaintNext, CycleStep

\* What cycles that do not meet leave behind.
LEMMA AloneStep == MaintTyped /\ Written /\ AloneInv /\ [MaintNext]_maintVars => AloneInv'
<1> SUFFICES ASSUME MaintTyped, Written, AloneInv, [MaintNext]_maintVars PROVE AloneInv'
  OBVIOUS
<1> USE MaintenanceAssumption DEF
       MaintTyped, Moving, Linking, Written, AloneInv, Single, InHandSound, Kept, Reachable,
       InHand, Archivable, Due, Files, jobVars, maintVars, DropHead, EndCycle
<1>1. ASSUME NEW j \in Jobs, FailRun(j) PROVE AloneInv'
  BY <1>1 DEF FailRun
<1>2. ASSUME NEW j \in Jobs, CompleteRun(j) PROVE AloneInv'
  BY <1>2 DEF CompleteRun
<1>3. ASSUME NEW c \in Cyclers, Prune(c) PROVE AloneInv'
  <2>1. /\ cpc' = [cpc EXCEPT ![c] = "list"]
        /\ UNCHANGED <<status, source, target, todo, crashes>>
        /\ ~overlapped' => ~overlapped /\ \A d \in Cyclers : cpc[d] = "sleep"
    BY <1>3, Zenon DEF Prune
  <2> QED BY <2>1
<1>4. ASSUME NEW c \in Cyclers, ListCandidates(c) PROVE AloneInv'
  BY <1>4 DEF ListCandidates
<1>5. ASSUME NEW c \in Cyclers, LookAtProof(c) PROVE AloneInv'
  BY <1>5 DEF LookAtProof
<1>6. ASSUME NEW c \in Cyclers, ListEvidence(c) PROVE AloneInv'
  <2>1. /\ cpc[c] = "proofs" /\ cpc' = [cpc EXCEPT ![c] = "evidence"]
        /\ \A d \in Cyclers \ {c} : todo'[d] = todo[d]
        /\ UNCHANGED <<status, source, target, crashes, overlapped>>
    BY <1>6 DEF ListEvidence
  <2> QED BY <2>1
<1>7. ASSUME NEW c \in Cyclers, LookAtEvidence(c) PROVE AloneInv'
  BY <1>7 DEF LookAtEvidence
<1>8. ASSUME NEW c \in Cyclers, MoveFile(c) PROVE AloneInv'
  BY <1>8 DEF MoveFile
<1>9. ASSUME NEW c \in Cyclers, LinkFile(c) PROVE AloneInv'
  BY <1>9 DEF LinkFile
<1>10. ASSUME NEW c \in Cyclers, FinishCycle(c) PROVE AloneInv'
  BY <1>10 DEF FinishCycle
<1>11. ASSUME NEW c \in Cyclers, CycleRaises(c) PROVE AloneInv'
  BY <1>11 DEF CycleRaises
<1>12. ASSUME NEW c \in Cyclers, CycleDies(c) PROVE AloneInv'
  BY <1>12 DEF CycleDies
<1>13. ASSUME NextDay PROVE AloneInv'
  BY <1>13 DEF NextDay
<1>14. ASSUME UNCHANGED maintVars PROVE AloneInv'
  BY <1>14 DEF maintVars
<1> HIDE DEF MaintTyped, Moving, Linking, Written, AloneInv, Single, InHandSound, Kept, Reachable,
         InHand, Archivable, Due, Files, jobVars, maintVars, DropHead, EndCycle
<1> QED
  BY <1>1, <1>2, <1>3, <1>4, <1>5, <1>6, <1>7, <1>8, <1>9, <1>10, <1>11, <1>12, <1>13, <1>14
     DEF MaintNext, CycleStep

\* The invariant holds before the first cycle.
LEMMA MaintInitInv == MaintInit => MaintInv
<1> SUFFICES ASSUME MaintInit PROVE MaintInv
  OBVIOUS
<1> USE MaintenanceAssumption DEF MaintInit, Files, Evidence
<1>1. MaintTyped
  BY Zenon DEF MaintTyped
<1>2. Written /\ Linked
  BY DEF Written, Linked, InHand, Moving, Linking
<1>3. AloneInv
  BY DEF AloneInv, Single, InHandSound, Kept, Reachable, InHand, Moving, Linking
<1> QED BY <1>1, <1>2, <1>3 DEF MaintInv

\* Every behaviour of the cycles satisfies the invariant.
LEMMA MaintInvariant == MaintSpec => []MaintInv
<1>1. MaintInv /\ [MaintNext]_maintVars => MaintInv'
  BY TypedStep, WrittenStep, LinkedStep, AloneStep DEF MaintInv
<1> QED BY MaintInitInv, <1>1, PTL DEF MaintSpec

\* No file is lost: while cycles do not meet, what was written is at its own
\* path or in the archive wherever in _archive_path a cycle stops, and between
\* cycles that were not stopped it can be read at its own path; even after
\* cycles that met, no path is left empty.
THEOREM FilesStayReadable == MaintSpec => []FilesReadable
<1>1. MaintInv => FilesReadable
  <2> SUFFICES ASSUME MaintInv PROVE FilesReadable
    OBVIOUS
  <2>1. Settled => \A c \in Cyclers, f \in Files : ~InHand(c, f)
    BY DEF Settled, InHand, Moving, Linking
  <2>2. Settled => \A f \in Files : source[f] # "gone"
    BY <2>1 DEF MaintInv, Linked, Settled
  <2>3. ~overlapped => \A f \in Files : source[f] \in {"none", "file"} \/ target[f] = "file"
    BY DEF MaintInv, AloneInv, Kept
  <2>4. ~overlapped /\ Settled => \A f \in Files : target[f] = "file" => source[f] = "link"
    BY <2>1 DEF MaintInv, AloneInv, Reachable, Settled
  <2> QED BY <2>2, <2>3, <2>4 DEF FilesReadable
<1> QED BY MaintInvariant, <1>1, PTL

=============================================================================
