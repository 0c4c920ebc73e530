------------------------------ MODULE Console -------------------------------
(***************************************************************************)
(* The operations page of dashboard_service.py: the state its script keeps  *)
(* (appState), the asynchronous functions that change it, and the prover's  *)
(* answers, which the dashboard passes on.  A task is one running function; *)
(* every await ends a step, so answers arrive in any order, polls overlap,  *)
(* and the user goes on clicking while calls are under way.                 *)
(***************************************************************************)
EXTENDS Integers, FiniteSets

CONSTANTS MaxJobs,     \* bound: jobs, numbered in the order of created_at
          Tasks,       \* asynchronous functions that run at the same time
          ListLimit,   \* limit of the job list
          Filters,     \* status filters the user picks
          MaxClicks,   \* bound: what the user does
          MaxFails     \* bound: calls that fail

ASSUME ConsoleAssumption ==
    /\ MaxJobs \in Nat \ {0} /\ ListLimit \in Nat \ {0} /\ MaxClicks \in Nat /\ MaxFails \in Nat
    /\ "all" \in Filters

VARIABLES
    stored,     \* stored[j]: status of job j in the database
    rows,       \* appState.jobs: the status of each listed job
    summary,    \* appState.selectedJobSummary: the selected job, or NoJob
    full,       \* appState.selectedJobFull: the job whose detail is shown, or NoJob
    filter,     \* appState.filters.status
    polling,    \* appState.polling.enabled
    task,       \* task[t]: where an asynchronous function is
    clicks,     \* actions of the user so far
    fails,      \* calls that failed so far
    clean,      \* history: the last selectJob was of a listed job, alone
    overtaken   \* history: overtaken[t]: a list was applied while the answer to t was on its way

pageVars == <<rows, summary, full, filter, polling>>
historyVars == <<clean, overtaken>>
consoleVars == <<stored, pageVars, task, clicks, fails, historyVars>>

Jobs == 1..MaxJobs
Statuses == {"queued", "completed"}

NoJob == 0
NoRows == [j \in Jobs |-> "none"]

\* next: what follows a list load; id: the job a call is about; got: its answer.
NoTask == [pc |-> "idle", next |-> "end", id |-> 0, filter |-> "all", got |-> NoRows]

\* The page is loaded when the first job is waiting.
ConsoleInit ==
    /\ stored = [NoRows EXCEPT ![1] = "queued"]
    /\ rows = NoRows
    /\ summary = NoJob
    /\ full = NoJob
    /\ filter = "all"
    /\ polling = TRUE
    /\ task = [t \in Tasks |-> NoTask]
    /\ clicks = 0
    /\ fails = 0
    /\ clean = TRUE
    /\ overtaken = [t \in Tasks |-> FALSE]

-----------------------------------------------------------------------------
(* The prover behind the dashboard's proxies *)

Matches(flt) == {j \in Jobs : stored[j] # "none" /\ flt \in {"all", stored[j]}}

\* list_proof_jobs: the newest jobs that pass the filter, up to the limit.
Listed(flt) == {j \in Matches(flt) : Cardinality({k \in Matches(flt) : k > j}) < ListLimit}

AnswerList(t) ==
    /\ task[t].pc = "list"
    /\ task' = [task EXCEPT ![t].pc = "listed",
                            ![t].got = [j \in Jobs |-> IF j \in Listed(task[t].filter)
                                                       THEN stored[j] ELSE "none"]]
    /\ UNCHANGED <<stored, pageVars, clicks, fails, historyVars>>

\* get_proof_status, through demo_proof_status.
AnswerDetail(t) ==
    /\ task[t].pc = "detail"
    /\ task' = [task EXCEPT ![t].pc = "detailed",
                            ![t].got = [NoRows EXCEPT ![task[t].id] = stored[task[t].id]]]
    /\ UNCHANGED <<stored, pageVars, clicks, fails, historyVars>>

\* create_batch_proof, through demo_prove: the job is stored and queued.
AnswerSubmit(t) ==
    /\ task[t].pc = "submit"
    /\ \E j \in Jobs :
          /\ stored[j] = "none" /\ \A k \in 1..(j - 1) : stored[k] # "none"
          /\ stored' = [stored EXCEPT ![j] = "queued"]
          /\ task' = [task EXCEPT ![t].pc = "submitted", ![t].id = j]
    /\ UNCHANGED <<pageVars, clicks, fails, historyVars>>

\* The worker completes a job.
CompleteJob(j) ==
    /\ stored[j] = "queued"
    /\ stored' = [stored EXCEPT ![j] = "completed"]
    /\ UNCHANGED <<pageVars, task, clicks, fails, historyVars>>

-----------------------------------------------------------------------------
(* The asynchronous functions of the page *)

Idle(t) == task[t].pc = "idle"

End(t) == task' = [task EXCEPT ![t] = NoTask]

\* refreshJobs asks for the list with the filter of the moment.
AskList(t, next, id, flt) ==
    /\ task' = [task EXCEPT ![t] = [NoTask EXCEPT !.pc = "list", !.next = next, !.id = id,
                                                  !.filter = flt]]
    /\ overtaken' = [overtaken EXCEPT ![t] = FALSE]

DetailsUnderWay(t) == \E u \in Tasks \ {t} : task[u].pc \in {"detail", "detailed"}

\* Mutant of SelectJob: the detail of the job shown before is kept.
SelectJob_KeepsDetail(t, j) ==
    /\ summary' = IF rows[j] = "none" THEN NoJob ELSE j
    /\ full' = full
    /\ task' = [task EXCEPT ![t] = [NoTask EXCEPT !.pc = "detail", !.id = j]]
    /\ clean' = (rows[j] # "none" /\ ~DetailsUnderWay(t))

\* selectJob: the row of the job if it is listed, no detail, and a call for it.
SelectJob(t, j) ==
    /\ summary' = IF rows[j] = "none" THEN NoJob ELSE j
    /\ full' = NoJob
    /\ task' = [task EXCEPT ![t] = [NoTask EXCEPT !.pc = "detail", !.id = j]]
    /\ clean' = (rows[j] # "none" /\ ~DetailsUnderWay(t))

\* The selection after refreshJobs: the newest job if there was none, else the
\* same job, with its fresh row if it is listed.
Reselected(listed) ==
    LET present == {j \in Jobs : listed[j] # "none"} IN
    IF summary = NoJob /\ present # {}
    THEN CHOOSE j \in present : \A k \in present : k <= j
    ELSE summary

\* refreshJobs has its answer.  A poll and a submission go on when the calls
\* they made beside it have ended too.
ApplyList(t) ==
    /\ task[t].pc = "listed"
    /\ rows' = task[t].got
    /\ summary' = Reselected(task[t].got)
    /\ overtaken' = [u \in Tasks |-> overtaken[u] \/ (u # t /\ task[u].pc = "listed")]
    /\ IF task[t].next = "end"
       THEN End(t)
       ELSE task' = [task EXCEPT ![t] = [NoTask EXCEPT !.pc = "rest", !.next = task[t].next,
                                                       !.id = task[t].id]]
    /\ UNCHANGED <<stored, full, filter, polling, clicks, fails, clean>>

\* refreshAll: nothing is selected, or its detail is at hand.
PollEnds(t) ==
    /\ task[t].pc = "rest" /\ task[t].next = "poll"
    /\ summary = NoJob \/ full # NoJob
    /\ End(t)
    /\ UNCHANGED <<stored, pageVars, clicks, fails, historyVars>>

\* refreshAll goes on with the detail of a selected job that has none, and
\* submitJob with the job it submitted.
RestSelects(t) ==
    /\ task[t].pc = "rest"
    /\ \/ task[t].next = "select" /\ SelectJob(t, task[t].id)
       \/ task[t].next = "poll" /\ summary # NoJob /\ full = NoJob /\ SelectJob(t, summary)
    /\ UNCHANGED <<stored, rows, filter, polling, clicks, fails, overtaken>>

\* Mutant of ShowDetail: the row of the list is patched from the detail.
ShowDetail_PatchesRow(t) ==
    LET j == task[t].id IN
    /\ task[t].pc = "detailed"
    /\ full' = j
    /\ rows' = [rows EXCEPT ![j] = task[t].got[j]]
    /\ End(t)
    /\ UNCHANGED <<stored, summary, filter, polling, clicks, fails, historyVars>>

\* selectJob has its answer and shows it, whatever is selected by now.
ShowDetail(t) ==
    LET j == task[t].id IN
    /\ task[t].pc = "detailed"
    /\ full' = j
    /\ End(t)
    /\ UNCHANGED <<stored, rows, summary, filter, polling, clicks, fails, historyVars>>

\* submitJob has the new id and refreshes the list before it selects the job.
SubmitAnswered(t) ==
    /\ task[t].pc = "submitted"
    /\ AskList(t, "select", task[t].id, filter)
    /\ UNCHANGED <<stored, pageVars, clicks, fails, clean>>

\* api throws, in the call itself or in one made beside it: the function ends,
\* and only the status line changes.
CallFails(t) ==
    /\ task[t].pc \in {"list", "detail", "submit", "rest"}
    /\ fails < MaxFails
    /\ fails' = fails + 1
    /\ End(t)
    /\ UNCHANGED <<stored, pageVars, clicks, historyVars>>

-----------------------------------------------------------------------------
(* The timer and the user *)

\* Mutant of PollTimer: no poll while a job's detail is shown.
PollTimer_OnlyWithoutDetail(t) ==
    /\ Idle(t) /\ polling
    /\ full = NoJob
    /\ AskList(t, "poll", 0, filter)
    /\ UNCHANGED <<stored, pageVars, clicks, fails, clean>>

\* The interval calls refreshAll, whether or not an earlier one has ended.
PollTimer(t) ==
    /\ Idle(t) /\ polling
    /\ AskList(t, "poll", 0, filter)
    /\ UNCHANGED <<stored, pageVars, clicks, fails, clean>>

Click == clicks < MaxClicks /\ clicks' = clicks + 1

ClickRow(t, j) ==
    /\ Idle(t) /\ Click
    /\ rows[j] # "none"
    /\ SelectJob(t, j)
    /\ UNCHANGED <<stored, rows, filter, polling, fails, overtaken>>

ClickFilter(t, flt) ==
    /\ Idle(t) /\ Click
    /\ filter # flt
    /\ filter' = flt
    /\ AskList(t, "end", 0, flt)
    /\ UNCHANGED <<stored, rows, summary, full, polling, fails, clean>>

ClickSubmit(t) ==
    /\ Idle(t) /\ Click
    /\ \E j \in Jobs : stored[j] = "none"
    /\ \A u \in Tasks : task[u].pc # "submit"
    /\ task' = [task EXCEPT ![t] = [NoTask EXCEPT !.pc = "submit"]]
    /\ UNCHANGED <<stored, pageVars, fails, historyVars>>

ClickPause ==
    /\ Click
    /\ polling' = ~polling
    /\ UNCHANGED <<stored, rows, summary, full, filter, task, fails, historyVars>>

-----------------------------------------------------------------------------
TaskStep(t) ==
    \/ AnswerList(t) \/ AnswerDetail(t) \/ AnswerSubmit(t)
    \/ ApplyList(t) \/ PollEnds(t) \/ RestSelects(t) \/ ShowDetail(t) \/ SubmitAnswered(t)

ConsoleNext ==
    \/ \E t \in Tasks :
          \/ TaskStep(t) \/ CallFails(t)
          \/ PollTimer(t) \/ ClickSubmit(t)
          \/ \E j \in Jobs : ClickRow(t, j)
          \/ \E flt \in Filters : ClickFilter(t, flt)
    \/ ClickPause
    \/ \E j \in Jobs : CompleteJob(j)

\* Calls are answered, and the browser runs the interval's callback again and
\* again as long as polling is on.
ConsoleFairness ==
    /\ \A t \in Tasks : WF_consoleVars(TaskStep(t))
    /\ WF_consoleVars(\E t \in Tasks : PollTimer(t))

ConsoleSpec == ConsoleInit /\ [][ConsoleNext]_consoleVars /\ ConsoleFairness

-----------------------------------------------------------------------------
\* The panel shows the detail of the selected row, unless a job was selected
\* while the detail of another was still under way or while it was not listed
\* (selectJob sets the detail without a look at the selection).
PanelShowsSelection == clean /\ full # NoJob => full = summary

\* The table takes a completed job back to queued only by a list answer that was
\* on its way while another one was applied (overlapping refreshAll calls): a
\* list asked for, and answered, after the table was last set never does it.
RowsNeverGoBack ==
    [][\A j \in Jobs :
          rows[j] = "completed" /\ rows'[j] = "queued" =>
             \E t \in Tasks : task[t].pc = "listed" /\ task'[t] # task[t] /\ overtaken[t]]_consoleVars

\* While polling is on, a completed job among the newest is eventually shown as
\* completed in the table, if the filter lets it through, however polls overlap.
TableCatchesUp ==
    \A j \in Jobs :
        (stored[j] = "completed" /\ polling)
            ~> (rows[j] = "completed" \/ ~polling \/ j \notin Listed(filter))

=============================================================================
