-------------------------------- MODULE Review --------------------------------
(***************************************************************************)
(* The readings sent to the cluster and judged by an operator (api/app.py: *)
(* ui_sample, ui_cluster_predict, ui_cluster_review, ui_cluster_feedback;  *)
(* monitoring/production_agent.py: send_one; api/demo_labels.py).  The     *)
(* panel samples its readings from the operator-stream fleet, whose file   *)
(* may be written meanwhile; the production agents replay a fleet of       *)
(* theirs, by default the test set, into the same log.  Both record the    *)
(* true label of a flagged reading after the cluster's answer, in one      *)
(* file; a review reads the predictions of both first and the labels       *)
(* after, and an operator may judge any of them.  The log is the           *)
(* cluster's, see PredictionLog; a call may fail, and still be taken.      *)
(***************************************************************************)
EXTENDS Naturals, Sequences, FiniteSets

CONSTANTS
    Tab,        \* the browser tabs in use
    FleetFile,  \* what the operator-stream file may be: sequences of rows
    ReplayFile, \* what the file the agents replay may be
    RunLength,  \* the rows of a sample: the reading and the history before it
    Limit,      \* the predictions a review scans
    MaxLogged   \* bound: predictions, and lines of labels

None == "none"
Short == [machine |-> None, label |-> FALSE]   \* a line that is cut off

VARIABLES
    stream,   \* what the operator-stream file is or will be
    written,  \* whether it is there
    pool,     \* _SAMPLE_CACHE: of what was sampled, empty before
    logged,   \* the cluster's predictions, the oldest first; the id is the place
    owed,     \* the agents' flagged readings whose label is yet to be recorded
    lines,    \* the demo labels, by line
    tab       \* what each tab does and shows

vars == <<stream, written, pool, logged, owed, lines, tab>>

Typed == [of |-> "typed", cur |-> 0, hist |-> {}]   \* a reading typed in by hand
Idle == [step |-> "idle", id |-> 0, sample |-> Typed, read |-> <<>>, shows |-> {}]

TypeOK ==
    /\ written \in BOOLEAN
    /\ \A s \in UNION pool : s.of = "operator" /\ s.hist \subseteq DOMAIN stream
    /\ Len(logged) <= MaxLogged /\ Len(lines) <= MaxLogged
    /\ \A i \in DOMAIN logged : logged[i].judged \in BOOLEAN
    /\ \A i \in DOMAIN lines : lines[i].id \in DOMAIN logged
    /\ \A o \in owed : o.id \in DOMAIN logged
    /\ \A t \in Tab : tab[t].step \in {"idle", "record", "labels"}

Init ==
    /\ stream \in FleetFile /\ written = FALSE
    /\ pool = {}
    /\ logged = <<>> /\ owed = {} /\ lines = <<>>
    /\ tab = [t \in Tab |-> Idle]

(***************************************************************************)
(* Sampling.                                                               *)
(***************************************************************************)

\* The operator stream is the only fleet sampled; its file is there or not.
Rows == IF written THEN stream ELSE <<>>

\* _read_run, from one line on: the well-formed rows among RunLength + 1 lines, until
\* another machine's.
ReadRun(rows, from) ==
    LET good == {i \in DOMAIN rows : from <= i /\ i <= from + RunLength /\ rows[i] # Short}
    IN {i \in good : \A j, k \in good : j <= i /\ k <= i => rows[j].machine = rows[k].machine}

\* Of a run, the first RunLength rows and the last of these.
SampleOf(run) ==
    LET hist == {i \in run : Cardinality({j \in run : j <= i}) <= RunLength}
    IN [of |-> "operator", cur |-> CHOOSE i \in hist : \A j \in hist : j <= i, hist |-> hist]

\* _collect_samples: of the runs found at some places, those that are long enough.
CollectSamples ==
    LET runs == {ReadRun(Rows, p) : p \in DOMAIN Rows}
        long == {r \in runs : Cardinality(r) >= RunLength}
    IN {{SampleOf(r) : r \in found} : found \in SUBSET long}

\* _load_sample_pool: once, for good, and nothing when there is no file.
LoadSamplePool ==
    /\ pool = {}
    /\ \E found \in CollectSamples : pool' = {found}
    /\ UNCHANGED <<stream, written, logged, owed, lines, tab>>

\* The operator stream is generated; bound: only until it is sampled, as it is not read
\* again.  A file that is half written has nothing to sample that the whole has not.
Generate ==
    /\ ~ written /\ pool = {}
    /\ written' = TRUE
    /\ UNCHANGED <<stream, pool, logged, owed, lines, tab>>

(***************************************************************************)
(* Sending.                                                                *)
(***************************************************************************)

\* ui_sample: some of the pool; the page of an empty one has only what is typed in.
Offered == (UNION pool) \cup {Typed}

\* A flagged reading with a true label is about to be recorded under its id.
Answered(t, s, flagged, id) ==
    tab' = IF flagged /\ s # Typed THEN [tab EXCEPT ![t].step = "record", ![t].id = id, ![t].sample = s] ELSE tab

\* ui_cluster_predict: the reading, without its label, is scored and logged; the log may
\* be down, and then there is no id; or the call fails.
Send(t) ==
    /\ tab[t].step = "idle" /\ Len(logged) < MaxLogged /\ Len(lines) < MaxLogged /\ pool # {}
    /\ \E s \in Offered, flagged \in BOOLEAN :
         LET row == [origin |-> s, flagged |-> flagged, judged |-> FALSE] IN
         \/ logged' = Append(logged, row) /\ Answered(t, s, flagged, Len(logged) + 1)
         \/ flagged /\ Answered(t, s, flagged, 0) /\ UNCHANGED logged
         \/ flagged /\ logged' = Append(logged, row) /\ UNCHANGED tab
    /\ UNCHANGED <<stream, written, pool, owed, lines>>

\* record: nothing without an id, or when the file cannot be written (see DemoLabels)
Record(t) ==
    /\ tab[t].step = "record" /\ Len(lines) < MaxLogged
    /\ \/ UNCHANGED lines
       \/ /\ tab[t].id # 0
          /\ lines' = Append(lines, [id |-> tab[t].id, label |-> stream[tab[t].sample.cur].label,
                                     source |-> "demo tab"])
    /\ tab' = [tab EXCEPT ![t] = [Idle EXCEPT !.shows = tab[t].shows]]
    /\ UNCHANGED <<stream, written, pool, logged, owed>>

\* The agents replay the rows of the test set, or of the file they are given (--data).
Replayed == UNION {{f[i] : i \in DOMAIN f} : f \in ReplayFile} \ {Short}

\* send_one: one reading of a machine at a time; a flagged one is owed its label, unless
\* the answer is lost.  Without an id nothing of it remains.
AgentSends(r) ==
    /\ Len(logged) < MaxLogged
    /\ \A o \in owed : o.row.machine # r.machine
    /\ \E flagged \in BOOLEAN :
         /\ logged' = Append(logged, [origin |-> [of |-> "agent", row |-> r], flagged |-> flagged,
                                      judged |-> FALSE])
         /\ \/ flagged /\ owed' = owed \cup {[id |-> Len(logged) + 1, row |-> r]}
            \/ UNCHANGED owed
    /\ UNCHANGED <<stream, written, pool, lines, tab>>

\* _remember_label: nothing when the file cannot be written or the agent is stopped first
AgentRecords(o) ==
    /\ Len(lines) < MaxLogged
    /\ owed' = owed \ {o}
    /\ lines' \in {lines, Append(lines, [id |-> o.id, label |-> o.row.label, source |-> "production agent"])}
    /\ UNCHANGED <<stream, written, pool, logged, tab>>

(***************************************************************************)
(* Judging.                                                                *)
(***************************************************************************)

\* ui_cluster_review: the flagged ones of the newest predictions, whoever sent them ...
ReadRecent(t) ==
    /\ tab[t].step = "idle" /\ logged # <<>>
    /\ \E include \in BOOLEAN :
         LET first == IF Len(logged) > Limit THEN Len(logged) - Limit + 1 ELSE 1
             ids == {i \in first..Len(logged) : logged[i].flagged /\ (include \/ ~ logged[i].judged)}
         IN tab' = [tab EXCEPT ![t].step = "labels", ![t].read = [i \in ids |-> logged[i].judged]]
    /\ UNCHANGED <<stream, written, pool, logged, owed, lines>>

\* load: the last label recorded under the id, if there is one
LabelOf(id) ==
    LET found == {k \in DOMAIN lines : lines[k].id = id}
        last == {k \in found : \A j \in found : j <= k}
    IN {[label |-> lines[k].label, source |-> lines[k].source] : k \in last}

\* ... and then the labels (_review_row).
ReadLabels(t) ==
    /\ tab[t].step = "labels"
    /\ tab' = [tab EXCEPT ![t] = [Idle EXCEPT !.shows =
                 {[id |-> i, judged |-> tab[t].read[i], real |-> LabelOf(i)] : i \in DOMAIN tab[t].read}]]
    /\ UNCHANGED <<stream, written, pool, logged, owed, lines>>

\* A row that shows no verdict is given one (reviewJudge, ui_cluster_feedback); when the
\* call fails, it may have been taken.
Judge(t) ==
    /\ tab[t].step = "idle"
    /\ \E r \in tab[t].shows :
         /\ ~ r.judged
         /\ logged' = [logged EXCEPT ![r.id].judged = TRUE]
         /\ tab' \in {tab, [tab EXCEPT ![t].shows = (@ \ {r}) \cup {[r EXCEPT !.judged = TRUE]}]}
    /\ UNCHANGED <<stream, written, pool, owed, lines>>

Next ==
    \/ LoadSamplePool \/ Generate
    \/ \E t \in Tab : Send(t) \/ Record(t) \/ ReadRecent(t) \/ ReadLabels(t) \/ Judge(t)
    \/ \E r \in Replayed : AgentSends(r)
    \/ \E o \in owed : AgentRecords(o)

Spec == Init /\ [][Next]_vars

(***************************************************************************)
(* Properties.                                                             *)
(***************************************************************************)

\* The history of a sampled reading is the rows of its machine that come right before it
\* in the file, and itself: what the rolling features of the model are made of, although
\* the file is read at random places and lines of it may be cut off (_read_run).
SampleIsWindow ==
    \A s \in UNION pool :
        /\ s.cur \in s.hist /\ Cardinality(s.hist) = RunLength
        /\ \A i \in s.hist : i <= s.cur /\ stream[i] # Short
        /\ \A i \in DOMAIN stream : i <= s.cur /\ stream[i] # Short /\ (\E j \in s.hist : j <= i) =>
             i \in s.hist /\ stream[i].machine = stream[s.cur].machine

\* The label of a reading that has one, and who knows it.
TruthOf(origin) ==
    IF origin.of = "agent" THEN [label |-> origin.row.label, source |-> "production agent"]
    ELSE [label |-> stream[origin.cur].label, source |-> "demo tab"]

\* The real label a review shows for a prediction is that of the reading it was made of, a
\* sample of a tab or a replayed row of an agent, and names which; a reading typed in by
\* hand shows none.  A label is recorded after the answer or never, by two programs in one
\* file, and read after the predictions (ui_cluster_predict, _remember_label).
RealIsTrue ==
    \A t \in Tab : \A r \in tab[t].shows : \A l \in r.real :
        logged[r.id].origin # Typed /\ l = TruthOf(logged[r.id].origin)
===============================================================================
