----------------------------- MODULE FeedbackDemo -----------------------------
(***************************************************************************)
(* The feedback loop demo, scripts/feedback_demo.py: predictions are sent  *)
(* to the live API, judged by hand or all at once, and given to a          *)
(* retraining in a sandbox on a background thread.  Every request has its  *)
(* own thread; the dictionary they share is locked, a call of the API is   *)
(* made without the lock, and may fail or lose its answer.                 *)
(***************************************************************************)
EXTENDS Naturals, Sequences, FiniteSets

CONSTANTS
    Handler,  \* the requests served at once
    Scenario, \* what readings sent turn out to be: whether flagged, and the truth
    MaxRow,   \* bound: predictions sent, and retrainings
    MaxWork   \* bound: both together

VARIABLES
    rows,     \* STATE["rows"]
    store,    \* the verdicts the API has of them
    judging,  \* what each request does
    retrain,  \* STATE["retrain"]: its status
    jobs,     \* what the thread of each retraining does next
    fleet,    \* the generated fleets in the sandbox
    unsure,   \* ghost: rows whose last judgements overlapped or lost an answer
    stuck     \* ghost: a thread could not be started

vars == <<rows, store, judging, retrain, jobs, fleet, unsure, stuck>>

None == "none"
Verdict == {"true_positive", "false_positive", "true_negative", "false_negative"}
Ready == [pc |-> "ready", row |-> 0, verdict |-> None, todo |-> {}, alone |-> TRUE]
Job == 1..MaxRow
Started == {j \in Job : jobs[j] # None}
More == Len(rows) + Cardinality(Started) < MaxWork

TypeOK ==
    /\ rows \in Seq([flagged : BOOLEAN, truth : BOOLEAN, verdict : Verdict \cup {None}]) /\ Len(rows) <= MaxRow
    /\ store \in [DOMAIN rows -> Verdict \cup {None}]
    /\ \A h \in Handler : judging[h].pc \in {"ready", "call", "answered", "start"}
    /\ retrain \in {"idle", "running", "done", "error"}
    /\ jobs \in [Job -> {None, "prepare", "csv", "compare", "over"}]
    /\ fleet \in {"absent", "cut", "whole"}
    /\ unsure \subseteq DOMAIN rows /\ stuck \in BOOLEAN

Init ==
    /\ rows = <<>> /\ store = <<>>
    /\ judging = [h \in Handler |-> Ready]
    /\ retrain = "idle" /\ jobs = [j \in Job |-> None]
    /\ fleet = "absent"
    /\ unsure = {} /\ stuck = FALSE

(***************************************************************************)
(* Sending and judging.                                                    *)
(***************************************************************************)

\* send: a prediction the API has logged; one it has no id for is an error.
Send(h) ==
    /\ judging[h] = Ready /\ Len(rows) < MaxRow /\ More
    /\ \E s \in Scenario : rows' = Append(rows, [flagged |-> s[1], truth |-> s[2], verdict |-> None])
    /\ store' = Append(store, None)
    /\ UNCHANGED <<judging, retrain, jobs, fleet, unsure, stuck>>

Allowed(row) ==
    IF row.flagged THEN {"true_positive", "false_positive"} ELSE {"true_negative", "false_negative"}

AutoVerdict(row) ==
    CASE row.flagged /\ row.truth -> "true_positive" [] row.flagged /\ ~ row.truth -> "false_positive"
      [] ~ row.flagged /\ row.truth -> "false_negative" [] OTHER -> "true_negative"

Unjudged == {r \in DOMAIN rows : rows[r].verdict = None}

\* /api/autojudge: the rows not judged yet, read once.
AutoJudge(h) ==
    /\ judging[h] = Ready
    /\ Unjudged # {}
    /\ judging' = [judging EXCEPT ![h].todo = Unjudged]
    /\ UNCHANGED <<rows, store, retrain, jobs, fleet, unsure, stuck>>

\* The next row of an autojudge, with its verdict; else any row, with one it allows.
Asked(h) ==
    LET todo == judging[h].todo IN
    {a \in (DOMAIN rows) \X Verdict :
        IF todo = {} THEN a[2] \in Allowed(rows[a[1]])
        ELSE a[1] \in todo /\ (\A r \in todo : a[1] <= r) /\ a[2] = AutoVerdict(rows[a[1]])}
AtRow(r) == {h \in Handler : judging[h].pc \in {"call", "answered"} /\ judging[h].row = r}

Begun(h, r, v) ==
    [g \in Handler |->
        IF g = h THEN [pc |-> "call", row |-> r, verdict |-> v, alone |-> AtRow(r) = {},
                       todo |-> judging[h].todo \ {r}]
        ELSE IF g \in AtRow(r) THEN [judging[g] EXCEPT !.alone = FALSE] ELSE judging[g]]

\* judge: the row is found and the verdict checked, under the lock or without.
Judge(h) ==
    /\ judging[h].pc = "ready"
    /\ \E a \in Asked(h) : judging' = Begun(h, a[1], a[2])
    /\ UNCHANGED <<rows, store, retrain, jobs, fleet, unsure, stuck>>

\* The call of the API: taken and answered, taken with the answer lost, or not taken;
\* an error ends the request, and with it the rest of an autojudge.
Call(h) ==
    LET j == judging[h] IN
    /\ j.pc = "call"
    /\ \/ /\ store' = [store EXCEPT ![j.row] = j.verdict]
          /\ \/ judging' = [judging EXCEPT ![h].pc = "answered"] /\ UNCHANGED unsure
             \/ judging' = [judging EXCEPT ![h] = Ready] /\ unsure' = unsure \cup {j.row}
       \/ judging' = [judging EXCEPT ![h] = Ready] /\ UNCHANGED <<store, unsure>>
    /\ UNCHANGED <<rows, retrain, jobs, fleet, stuck>>

\* The row takes the verdict; an autojudge goes on to the next.
Answered(h) ==
    LET j == judging[h] IN
    /\ j.pc = "answered"
    /\ rows' = [rows EXCEPT ![j.row].verdict = j.verdict]
    /\ judging' = [judging EXCEPT ![h] = [Ready EXCEPT !.todo = j.todo]]
    /\ unsure' = IF j.alone THEN unsure \ {j.row} ELSE unsure \cup {j.row}
    /\ UNCHANGED <<store, retrain, jobs, fleet, stuck>>

(***************************************************************************)
(* Retraining.                                                             *)
(***************************************************************************)

Judged == {r \in DOMAIN rows : rows[r].verdict # None}
Claimable(h) ==
    /\ judging[h] = Ready /\ retrain # "running" /\ Judged # {}
    /\ Cardinality(Started) < MaxRow /\ More

\* start_retrain, under the lock.
Claim(h) ==
    /\ Claimable(h)
    /\ retrain' = "running"
    /\ judging' = [judging EXCEPT ![h].pc = "start"]
    /\ UNCHANGED <<rows, store, jobs, fleet, unsure, stuck>>

\* The thread starts; or it cannot, and the status stays as it is.
StartThread(h) ==
    /\ judging[h].pc = "start"
    /\ judging' = [judging EXCEPT ![h] = Ready]
    /\ \/ jobs' = [jobs EXCEPT ![Cardinality(Started) + 1] = "prepare"] /\ UNCHANGED stuck
       \/ stuck' = TRUE /\ UNCHANGED jobs
    /\ UNCHANGED <<rows, store, retrain, fleet, unsure>>

Goes(j, from, to) == jobs[j] = from /\ jobs' = [jobs EXCEPT ![j] = to]
Rest == <<rows, store, judging, unsure, stuck>>

\* retrain_job: the fleets are generated where there is no file yet, and a stand-in for
\* the production model is trained on them; ...
Prepare(j) ==
    /\ Goes(j, "prepare", "csv")
    /\ fleet' = IF fleet = "absent" THEN "whole" ELSE fleet
    /\ UNCHANGED <<retrain, Rest>>

\* ... the rows that have a verdict are written as they are now (write_feedback_csv), ...
WriteCsv(j) ==
    /\ Goes(j, "csv", "compare")
    /\ UNCHANGED <<retrain, fleet, Rest>>

\* ... and the candidate is trained with them and compared.
Compare(j) == Goes(j, "compare", "over") /\ retrain' = "done" /\ UNCHANGED <<fleet, Rest>>

InWork == {"prepare", "csv", "compare"}

\* A command fails; a generator may be killed while it writes.
Raises(j) ==
    /\ jobs[j] \in InWork /\ Goes(j, jobs[j], "over")
    /\ retrain' = "error"
    /\ fleet' \in IF jobs[j] = "prepare" /\ fleet = "absent" THEN {"absent", "cut"} ELSE {fleet}
    /\ UNCHANGED Rest

Works(j) == Prepare(j) \/ WriteCsv(j) \/ Compare(j) \/ Raises(j)

Next ==
    \/ \E h \in Handler :
         Send(h) \/ AutoJudge(h) \/ Judge(h) \/ Call(h) \/ Answered(h) \/ Claim(h) \/ StartThread(h)
    \/ \E j \in Job : Works(j)

\* Requests are served and threads run; the commands they wait for end.
Fairness == \A h \in Handler : WF_vars(StartThread(h)) /\ \A j \in Job : WF_vars(Works(j))

Spec == Init /\ [][Next]_vars /\ Fairness

(***************************************************************************)
(* Properties.                                                             *)
(***************************************************************************)

\* The verdict the demo shows, and trains with, is the one the API has, once the row's
\* judgements are over, whatever failed; except after judgements of the row that
\* overlapped or an answer that was lost, and then only until the next one (judge).
DemoHoldsApi == \A r \in DOMAIN rows : AtRow(r) = {} /\ r \notin unsure => rows[r].verdict = store[r]

\* Two retrainings never share the sandbox, whose directories each clears (start_retrain).
OneRetraining == Cardinality({j \in Job : jobs[j] \in InWork}) <= 1

\* A retraining ends as done or as an error, unless its thread could not be started.
RetrainEnds == retrain = "running" ~> (retrain # "running" \/ stuck)
===============================================================================
