------------------------------- MODULE Features -------------------------------
(***************************************************************************)
(* What the models are shown of a reading: by the API that serves it       *)
(* (api/app.py, predict), by the evaluation of a fleet file (ml-model/     *)
(* preprocess.py, train_production.py: fleet_features) and by a retraining *)
(* on judged predictions (feedback_examples).  The code computes these     *)
(* features three times; a model is only as good as their agreement.       *)
(*                                                                         *)
(* One metric stands for the six; a baseline is the set of training rows   *)
(* its mean and deviation are taken of, a z-score the value with its       *)
(* baseline.  Rounding and the width of floats are left out.               *)
(***************************************************************************)
EXTENDS Integers, Sequences, FiniteSets, FiniteSetsExt

CONSTANTS
    Machine,       \* those that report; they need not be in the training file
    TypeOf,        \* the type of each, as its telemetry file has it
    RollingWindow, \* ROLLING_WINDOW_SIZE and HISTORY_WINDOW
    Telemetry,     \* possible values of a machine's successive rows
    FirstHour,     \* the hour of the first row; rows are an hour apart
    TrainingFile,  \* training files: sets of <<machine, window>>
    MaxLog         \* bound: predictions logged

None == "none"
Types == {TypeOf[m] : m \in Machine}

VARIABLES
    values,    \* the telemetry of every machine, row by row
    train,     \* the training file of the models that are served
    log,       \* the predictions
    candidate, \* the training file of the last retraining
    examples   \* its examples, by the prediction they come from

vars == <<values, train, log, candidate, examples>>

HourOf(k) == (FirstHour + k - 1) % 24

\* A plausible slip: the night includes the hour it ends at.
NightUntilSix(h) ==
    CASE h <= 6 -> "night" [] h < 12 -> "morning" [] h < 18 -> "afternoon" [] OTHER -> "evening"

\* hour_to_window of the API
ServedWindow(h) ==
    CASE h < 6 -> "night" [] h < 12 -> "morning" [] h < 18 -> "afternoon" [] OTHER -> "evening"

\* add_window_column, with hour_to_window of preprocess.py
FileWindow(h) ==
    CASE h < 6 -> "night" [] h < 12 -> "morning" [] h < 18 -> "afternoon" [] OTHER -> "evening"

(***************************************************************************)
(* Baselines (preprocess.py).                                              *)
(***************************************************************************)

\* Of a machine in a window, of a machine, of a type and of the whole file.
Matches(key, row) ==
    \/ key = <<row[1], row[2]>>
    \/ key = <<row[1]>>
    \/ key = <<"__type__", TypeOf[row[1]]>>
    \/ key = <<"__global__">>

KeysOf(rows) ==
    UNION {{<<r[1], r[2]>>, <<r[1]>>, <<"__type__", TypeOf[r[1]]>>} : r \in rows} \cup {<<"__global__">>}

BuildBaselines(rows) == [key \in KeysOf(rows) |-> {r \in rows : Matches(key, r)}]

FirstOf(b, chain) ==
    b[chain[CHOOSE i \in DOMAIN chain :
        chain[i] \in DOMAIN b /\ \A j \in 1..(i - 1) : chain[j] \notin DOMAIN b]]

\* get_stats of preprocess.py
GetStats(b, machine, window, type) ==
    FirstOf(b, << <<machine, window>>, <<machine>>, <<"__type__", type>>, <<"__global__">> >>)

\* _get_stats of the API
ServedStats(b, machine, window, type) ==
    FirstOf(b, << <<machine, window>>, <<machine>>, <<"__type__", type>>, <<"__global__">> >>)

\* apply_zscore: the rows of a machine in a window share a baseline, found with the
\* type of the first of them.
ApplyZscore(frame, b) ==
    [i \in DOMAIN frame |->
        LET row == frame[i]
            group == {j \in DOMAIN frame : frame[j].machine = row.machine /\ frame[j].window = row.window}
        IN <<row.value, GetStats(b, row.machine, row.window, frame[Min(group)].type)>>]

(***************************************************************************)
(* Rolling features: the mean, the deviation and the change of the last    *)
(* readings, as exact integers.                                            *)
(***************************************************************************)

Total(s) == FoldSet(LAMBDA i, sum : sum + s[i], 0, DOMAIN s)
Mean(s) == <<Total(s), Len(s)>>
Deviation(s) ==
    IF Len(s) < 2 THEN 0 ELSE Len(s) * Total([i \in DOMAIN s |-> s[i] * s[i]]) - Total(s) * Total(s)

\* rolling_features_from_history
FromHistory(h) == <<Mean(h), Deviation(h), h[Len(h)] - h[1]>>

\* add_rolling_features, at row k of a machine
AddRollingFeatures(s, k) ==
    LET from == Max({1, k - RollingWindow + 1}) last == SubSeq(s, from, k) IN
    <<Mean(last), Deviation(last),
      IF k >= RollingWindow THEN s[k] - s[k - (RollingWindow - 1)] ELSE 0>>

\* fleet_features of the machine's telemetry
FileRow(m, k) ==
    [machine |-> m, type |-> TypeOf[m], window |-> FileWindow(HourOf(k)), value |-> values[k]]
FleetFeatures(m, k, b) ==
    [z |-> ApplyZscore([i \in DOMAIN values |-> FileRow(m, i)], b)[k],
     rolling |-> AddRollingFeatures(values, k)]

(***************************************************************************)
(* The actions.                                                            *)
(***************************************************************************)

TypeOK ==
    /\ values \in Telemetry
    /\ {train, candidate} \subseteq TrainingFile
    /\ Len(log) <= MaxLog
    /\ \A i \in DOMAIN log :
         /\ log[i].machine \in Machine /\ log[i].row \in DOMAIN values
         /\ log[i].type \in Types \cup {None}
         /\ Len(log[i].history) \in {0, RollingWindow}
    /\ DOMAIN examples \subseteq DOMAIN log

Init ==
    /\ values \in Telemetry
    /\ train \in TrainingFile /\ candidate = train
    /\ log = <<>> /\ examples = <<>>

\* _resolve_window: of the hour, or of the hour the timestamp is written with.
ResolveWindow(timed, k) == IF timed THEN ServedWindow(HourOf(k)) ELSE None

\* reading.machine_type or the type of the machine's baseline
ResolveType(hint, m, b) ==
    CASE hint # None -> hint [] hint = None /\ <<m>> \in DOMAIN b -> TypeOf[m] [] OTHER -> None

\* A history is what Reading accepts: the last RollingWindow readings or none.
Histories(k) ==
    {<<>>} \cup (IF k >= RollingWindow THEN {SubSeq(values, k - RollingWindow + 1, k)} ELSE {})

\* _predict_v4 (6 + 9 features), or _predict_v3_v4 without it (6 features)
Served(value, history, stats) ==
    IF history # <<>> THEN [model |-> "v4", z |-> <<value, stats>>, rolling |-> FromHistory(history)]
                      ELSE [model |-> "v3", z |-> <<value, stats>>, rolling |-> <<>>]

\* predict: a row of a machine's telemetry is sent, with or without its type, its
\* time and its history.
Predict(m, k, hint, timed, history) ==
    LET b == BuildBaselines(train)
        window == ResolveWindow(timed, k)
        type == ResolveType(hint, m, b)
    IN
    /\ Len(log) < MaxLog
    /\ log' = Append(log,
         [machine |-> m, row |-> k, type |-> type, window |-> window,
          value |-> values[k], history |-> history,
          seen |-> Served(values[k], history, ServedStats(b, m, window, type))])
    /\ UNCHANGED <<values, train, candidate, examples>>

\* feedback_examples: the frame of the judged rows, with the candidate's baselines.
FeedbackExamples(usable, rows) ==
    LET z == ApplyZscore([i \in usable |-> log[i]], BuildBaselines(rows)) IN
    [i \in usable |->
        [z |-> z[i], rolling |-> IF log[i].history # <<>> THEN FromHistory(log[i].history) ELSE <<>>]]

\* A retraining on another training file, with the predictions that were judged.
Retrain(rows, usable) ==
    /\ candidate' = rows
    /\ examples' = FeedbackExamples(usable, rows)
    /\ UNCHANGED <<values, train, log>>

Next ==
    \/ \E m \in Machine, k \in DOMAIN values, hint \in Types \cup {None}, timed \in BOOLEAN :
         \E h \in Histories(k) : Predict(m, k, hint, timed, h)
    \/ examples = <<>> /\ \E rows \in TrainingFile, usable \in SUBSET DOMAIN log \ {{}} : Retrain(rows, usable)

Spec == Init /\ [][Next]_vars

(***************************************************************************)
(* Properties.                                                             *)
(***************************************************************************)

InFile(machine, rows) == <<machine>> \in DOMAIN BuildBaselines(rows)

\* The models see of a reading sent with its hour what their evaluation sees of
\* the same row of the fleet file: the same baseline, and the same rolling
\* features whenever the rolling model answers.  A machine the training file does
\* not have must also send its type.
ServedAsEvaluated ==
    \A i \in DOMAIN log :
        LET e == log[i]
            offline == FleetFeatures(e.machine, e.row, BuildBaselines(train))
        IN (e.window # None /\ (InFile(e.machine, train) \/ e.type = TypeOf[e.machine])) =>
             /\ e.seen.z = offline.z
             /\ e.seen.model = "v4" => e.seen.rolling = offline.rolling

\* Another example of an unknown machine, in the same window, came with another type.
TypesDisagree(i) ==
    /\ ~ InFile(log[i].machine, candidate)
    /\ \E j \in DOMAIN examples : /\ log[j].machine = log[i].machine
                                  /\ log[j].window = log[i].window
                                  /\ log[j].type # log[i].type

\* An example of the retraining is what the candidate, once served, would be shown
\* of the same reading, except where the callers gave one unknown machine two types:
\* the group of its rows is then normalised by the type of the first.
ExamplesAsServed ==
    \A i \in DOMAIN examples :
        LET e == log[i]
            stats == ServedStats(BuildBaselines(candidate), e.machine, e.window, e.type)
        IN /\ examples[i].z = <<e.value, stats>> \/ TypesDisagree(i)
           /\ examples[i].rolling = e.seen.rolling
===============================================================================
