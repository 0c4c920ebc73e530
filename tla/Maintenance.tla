---------------------------- MODULE Maintenance -----------------------------
(***************************************************************************)
(* Data lifecycle: run_maintenance_cycle (vellum_core/maintenance.py), its  *)
(* loop (maintenance_worker.py) and its Celery entry point (worker.py), the *)
(* two queries behind it (vellum_core/database.py).                         *)
(*                                                                         *)
(* Time is kept as ages in days, capped where no comparison can tell larger *)
(* ones apart.  The order of the updated_at column is kept apart from the   *)
(* ages, because the archival query sorts by it.                            *)
(*                                                                         *)
(* proof and public_signals are JSON columns.  SQLAlchemy stores None in    *)
(* such a column as the JSON value null, which is not the SQL NULL that     *)
(* IS NOT NULL excludes; read back, both are None.                          *)
(***************************************************************************)
EXTENDS Naturals, Sequences, FiniteSets, SequencesExt

CONSTANTS Jobs,             \* finished runs
          MaxEvidence,      \* evidence files, numbered in the order of their names
          Cyclers,          \* processes that run maintenance cycles
          RetentionDays,    \* JOB_RUNTIME_RETENTION_DAYS
          ArchiveDays,      \* FILE_ARCHIVE_AFTER_DAYS
          ScanLimit,        \* MAINTENANCE_CYCLE_FILE_SCAN_LIMIT
          MaxCrashes        \* bound: cycles that raise or die half way

ASSUME MaintenanceAssumption ==
    /\ {RetentionDays, ArchiveDays, ScanLimit} \subseteq Nat \ {0}
    /\ {MaxEvidence, MaxCrashes} \subseteq Nat
    /\ Jobs \cap (1..MaxEvidence) = {}

VARIABLES
    status,     \* status[j] of proof_jobs
    proof,      \* proof[j], public_signals[j]: "null" (SQL), "value" or "jsonnull"
    hasError,   \* hasError[j]: the error column is not NULL
    order,      \* jobs in the order of updated_at
    age,        \* age[j]: days since updated_at; age[e]: days since e's mtime
    source,     \* source[f]: what is at a file's own path
    target,     \* target[f]: what is at its path under archive/
    cpc,        \* cpc[c]: the point of the cycle that c has reached
    old,        \* old[c]: files that are past the archive_cutoff of c's cycle
    todo,       \* todo[c]: files c has still to look at
    archived,   \* archived[c]: evidence files archived in this cycle
    today,      \* processes whose current cycle began today
    cycled,     \* a cycle that began today has come to its end
    crashes,    \* cycles that failed so far
    overlapped  \* history: two cycles have been under way at once

maintVars == <<status, proof, hasError, order, age, source, target, cpc, old,
               todo, archived, today, cycled, crashes, overlapped>>

jobVars == <<status, proof, hasError, order>>

Evidence == 1..MaxEvidence
Files == Jobs \cup Evidence

\* No comparison tells ages above this one apart.
MaxAge == (IF RetentionDays > ArchiveDays THEN RetentionDays ELSE ArchiveDays) + 1

MaintInit ==
    /\ status = [j \in Jobs |-> "running"]
    /\ proof = [j \in Jobs |-> "null"]
    /\ hasError = [j \in Jobs |-> FALSE]
    /\ order = <<>>
    /\ age = [f \in Files |-> 0]
    /\ source = [f \in Files |-> IF f \in Evidence THEN "file" ELSE "none"]
    /\ target = [f \in Files |-> "none"]
    /\ cpc = [c \in Cyclers |-> "sleep"]
    /\ old = [c \in Cyclers |-> {}]
    /\ todo = [c \in Cyclers |-> <<>>]
    /\ archived = [c \in Cyclers |-> 0]
    /\ today = {}
    /\ cycled = FALSE
    /\ crashes = 0
    /\ overlapped = FALSE

-----------------------------------------------------------------------------
\* The worker has written the proof file of run j and completes its row.
CompleteRun(j) ==
    /\ status[j] = "running"
    /\ status' = [status EXCEPT ![j] = "completed"]
    /\ proof' = [proof EXCEPT ![j] = "value"]
    /\ order' = Append(order, j)
    /\ age' = [age EXCEPT ![j] = 0]
    /\ source' = [source EXCEPT ![j] = "file"]
    /\ UNCHANGED <<hasError, target, cpc, old, todo, archived, today, cycled, crashes, overlapped>>

FailRun(j) ==
    /\ status[j] = "running"
    /\ status' = [status EXCEPT ![j] = "failed"]
    /\ hasError' = [hasError EXCEPT ![j] = TRUE]
    /\ order' = Append(order, j)
    /\ age' = [age EXCEPT ![j] = 0]
    /\ UNCHANGED <<proof, source, target, cpc, old, todo, archived, today, cycled, crashes, overlapped>>

\* A day passes.  MAINTENANCE_INTERVAL_SECONDS is an hour: at least one
\* cycle has run from its start to its end within the day.
NextDay ==
    /\ cycled
    /\ cycled' = FALSE
    /\ today' = {}
    /\ age' = [f \in Files |-> IF age[f] < MaxAge THEN age[f] + 1 ELSE age[f]]
    /\ UNCHANGED <<jobVars, source, target, cpc, old, todo, archived, crashes, overlapped>>

-----------------------------------------------------------------------------
\* Rows of prune_terminal_job_runtime_data's query.
Prunable(j) ==
    /\ status[j] \in {"completed", "failed"}
    /\ age[j] > RetentionDays
    /\ proof[j] # "null" \/ hasError[j]

\* None, assigned to the JSON columns and to the error column.
ClearedProof(j) == IF proof[j] = "null" THEN "null" ELSE "jsonnull"

\* The start of a cycle, its cutoffs and the pruning: the rows lose their
\* payload and count as updated now.
Prune(c) ==
    LET rows == {j \in Jobs : Prunable(j)} IN
    /\ cpc[c] = "sleep"
    /\ proof' = [j \in Jobs |-> IF j \in rows THEN ClearedProof(j) ELSE proof[j]]
    /\ hasError' = [j \in Jobs |-> hasError[j] /\ j \notin rows]
    /\ order' = SelectSeq(order, LAMBDA j : j \notin rows) \o SelectSeq(order, LAMBDA j : j \in rows)
    /\ age' = [f \in Files |-> IF f \in rows THEN 0 ELSE age[f]]
    /\ old' = [old EXCEPT ![c] = {f \in Files : age'[f] > ArchiveDays}]
    /\ cpc' = [cpc EXCEPT ![c] = "list"]
    /\ today' = today \cup {c}
    /\ overlapped' = (overlapped \/ \E d \in Cyclers : cpc[d] # "sleep")
    /\ UNCHANGED <<status, source, target, todo, archived, cycled, crashes>>

UpToLimit(jobs) == SubSeq(jobs, 1, IF Len(jobs) < ScanLimit THEN Len(jobs) ELSE ScanLimit)

\* list_jobs_for_file_archival: rows with a proof_path, the oldest updates
\* first, up to the limit.  Rows that another cycle has updated since the
\* cutoff was computed are not among them.
Candidates(c) ==
    UpToLimit(SelectSeq(order, LAMBDA j : source[j] # "none" /\ j \in old[c] /\ age[j] > ArchiveDays))

ListCandidates(c) ==
    /\ cpc[c] = "list"
    /\ todo' = [todo EXCEPT ![c] = Candidates(c)]
    /\ cpc' = [cpc EXCEPT ![c] = "proofs"]
    /\ UNCHANGED <<jobVars, age, old, source, target, archived, today, cycled, crashes, overlapped>>

\* Mutant of Archivable: neither links nor taken archive paths are left out.
Archivable_Unchecked(f) == source[f] \in {"file", "link"}

\* The conditions under which _archive_path moves file f: a regular file,
\* and an archive path at which nothing exists (a dead link does not).
Archivable(f) == source[f] = "file" /\ target[f] # "file"

DropHead(c) == todo' = [todo EXCEPT ![c] = Tail(@)]

\* Next proof file: skipped, or to be moved.
LookAtProof(c) ==
    /\ cpc[c] = "proofs"
    /\ todo[c] # <<>>
    /\ \/ /\ Archivable(Head(todo[c]))
          /\ cpc' = [cpc EXCEPT ![c] = "proof_move"]
          /\ UNCHANGED todo
       \/ /\ ~Archivable(Head(todo[c]))
          /\ DropHead(c)
          /\ UNCHANGED cpc
    /\ UNCHANGED <<jobVars, age, old, source, target, archived, today, cycled, crashes, overlapped>>

\* The proof files are done; the evidence directory is listed by name.
ListEvidence(c) ==
    /\ cpc[c] = "proofs"
    /\ todo[c] = <<>>
    /\ todo' = [todo EXCEPT ![c] = SelectSeq([e \in Evidence |-> e], LAMBDA e : source[e] # "gone")]
    /\ archived' = [archived EXCEPT ![c] = 0]
    /\ cpc' = [cpc EXCEPT ![c] = "evidence"]
    /\ UNCHANGED <<jobVars, age, old, source, target, today, cycled, crashes, overlapped>>

\* An evidence file that this cycle archives if it gets to it.
Due(c, e) == e \in old[c] /\ Archivable(e)

\* Mutant of LookAtEvidence: files that are skipped use up the cap too.
LookAtEvidence_CountAll(c) ==
    /\ cpc[c] = "evidence"
    /\ todo[c] # <<>>
    /\ archived[c] < ScanLimit
    /\ \/ /\ Due(c, Head(todo[c]))
          /\ cpc' = [cpc EXCEPT ![c] = "evidence_move"]
          /\ UNCHANGED <<todo, archived>>
       \/ /\ ~Due(c, Head(todo[c]))
          /\ DropHead(c)
          /\ archived' = [archived EXCEPT ![c] = @ + 1]
          /\ UNCHANGED cpc
    /\ UNCHANGED <<jobVars, age, old, source, target, today, cycled, crashes, overlapped>>

\* Next evidence file, as long as the cap on archived files allows.
LookAtEvidence(c) ==
    /\ cpc[c] = "evidence"
    /\ todo[c] # <<>>
    /\ archived[c] < ScanLimit
    /\ \/ /\ Due(c, Head(todo[c]))
          /\ cpc' = [cpc EXCEPT ![c] = "evidence_move"]
          /\ UNCHANGED todo
       \/ /\ ~Due(c, Head(todo[c]))
          /\ DropHead(c)
          /\ UNCHANGED cpc
    /\ UNCHANGED <<jobVars, age, old, source, target, archived, today, cycled, crashes, overlapped>>

\* shutil.move: the path is renamed to the archive path, over whatever is
\* there.  A path that has become a link moves as a link, and the file it
\* replaces is gone; a path that is gone raises.
MoveFile(c) ==
    LET f == Head(todo[c]) IN
    /\ cpc[c] \in {"proof_move", "evidence_move"}
    /\ source[f] # "gone"
    /\ target' = [target EXCEPT ![f] = IF source[f] = "file" THEN "file" ELSE "deadlink"]
    /\ source' = [source EXCEPT ![f] = "gone"]
    /\ cpc' = [cpc EXCEPT ![c] = IF @ = "proof_move" THEN "proof_link" ELSE "evidence_link"]
    /\ UNCHANGED <<jobVars, age, old, todo, archived, today, cycled, crashes, overlapped>>

\* source.symlink_to.  Nothing can be at the path: another cycle that wants
\* to move it raises.
LinkFile(c) ==
    /\ cpc[c] \in {"proof_link", "evidence_link"}
    /\ source' = [source EXCEPT ![Head(todo[c])] = "link"]
    /\ DropHead(c)
    /\ archived' = [archived EXCEPT ![c] = IF cpc[c] = "evidence_link" THEN @ + 1 ELSE @]
    /\ cpc' = [cpc EXCEPT ![c] = IF @ = "proof_link" THEN "proofs" ELSE "evidence"]
    /\ UNCHANGED <<jobVars, age, old, target, today, cycled, crashes, overlapped>>

\* The cycle is over, and the loop sleeps.
EndCycle(c) ==
    /\ cpc' = [cpc EXCEPT ![c] = "sleep"]
    /\ old' = [old EXCEPT ![c] = {}]
    /\ todo' = [todo EXCEPT ![c] = <<>>]
    /\ today' = today \ {c}

FinishCycle(c) ==
    /\ cpc[c] = "evidence"
    /\ todo[c] = <<>> \/ archived[c] >= ScanLimit
    /\ EndCycle(c)
    /\ cycled' = (cycled \/ c \in today)
    /\ UNCHANGED <<jobVars, age, source, target, archived, crashes, overlapped>>

\* The move raises because another cycle has just moved the file:
\* _run_forever logs the exception and goes to sleep.
CycleRaises(c) ==
    /\ cpc[c] \in {"proof_move", "evidence_move"}
    /\ source[Head(todo[c])] = "gone"
    /\ EndCycle(c)
    /\ UNCHANGED <<jobVars, age, source, target, archived, cycled, crashes, overlapped>>

\* The process is restarted, or a database or file operation raises.
CycleDies(c) ==
    /\ crashes < MaxCrashes
    /\ cpc[c] # "sleep"
    /\ EndCycle(c)
    /\ crashes' = crashes + 1
    /\ UNCHANGED <<jobVars, age, source, target, archived, cycled, overlapped>>

CycleStep(c) ==
    \/ Prune(c) \/ ListCandidates(c) \/ LookAtProof(c) \/ ListEvidence(c) \/ LookAtEvidence(c)
    \/ MoveFile(c) \/ LinkFile(c) \/ FinishCycle(c) \/ CycleRaises(c)

MaintNext ==
    \/ \E j \in Jobs : FailRun(j) \/ CompleteRun(j)
    \/ \E c \in Cyclers : CycleStep(c) \/ CycleDies(c)
    \/ NextDay

\* Days pass, and the loop of maintenance_worker.py never stops.
MaintSpec ==
    /\ MaintInit
    /\ [][MaintNext]_maintVars
    /\ \A c \in Cyclers : WF_maintVars(CycleStep(c))
    /\ WF_maintVars(NextDay)

-----------------------------------------------------------------------------
\* Between cycles, none of which was stopped.
Settled == crashes = 0 /\ \A c \in Cyclers : cpc[c] = "sleep"

\* What was written is still somewhere, at its own path or in the archive,
\* wherever in _archive_path a cycle stops, as long as no cycle begins while
\* another one is under way; and between such cycles, if none was stopped, a
\* file can still be read at its own path, directly or through the link that
\* _archive_path leaves.  Something is at every path then even when two cycles
\* have met at a file and the second move has raised.
FilesReadable ==
    /\ ~overlapped =>
           /\ \A f \in Files : source[f] \in {"none", "file"} \/ target[f] = "file"
           /\ Settled => \A f \in Files : target[f] = "file" => source[f] = "link"
    /\ Settled => \A f \in Files : source[f] # "gone"

\* Aged files are moved to the archive in the end: the proof file of every
\* completed run and every evidence file.
AgedFilesArchived ==
    /\ \A j \in Jobs : status[j] = "completed" ~> target[j] # "none"
    /\ \A e \in Evidence : <>(target[e] # "none")

\* More runs have completed than one cycle looks at.
Crowded == Cardinality({j \in Jobs : status[j] = "completed"}) > ScanLimit

\* What the two queries do guarantee.  Every evidence file is archived, although
\* a cycle stops at its cap and always begins with the same names.  A proof file
\* is archived if archival is due before the pruning of the same cycle resets
\* the updated_at that it goes by, unless so many runs complete that those
\* already archived, which the archival query lists again, fill the cap.
ArchivedBeforePruned ==
    /\ \A e \in Evidence : <>(target[e] # "none")
    /\ ArchiveDays < RetentionDays =>
          \A j \in Jobs : status[j] = "completed" ~> (target[j] # "none" \/ Crowded)

=============================================================================
