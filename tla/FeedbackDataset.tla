--------------------------- MODULE FeedbackDataset ---------------------------
(***************************************************************************)
(* From operator verdicts to training labels: the judged predictions are   *)
(* exported to a file named by the second (scripts/export_feedback_        *)
(* dataset.py), and a retraining by hand is given all the files there are  *)
(* and labels each prediction once (ml-model/train_production.py,          *)
(* feedback_examples).  A verdict may be changed after it was exported.    *)
(* The pipeline starts from an empty directory: its retraining is the case *)
(* of one file.  The features are those of module Features.                *)
(***************************************************************************)
EXTENDS Integers, Sequences, FiniteSets, FiniteSetsExt

CONSTANTS
    Known,      \* causes the classifier knows
    CauseOf,    \* final_cause of each prediction logged
    MaxSecond   \* bound: seconds that pass

None == "none"
Prediction == DOMAIN CauseOf
Verdicts == {"true_positive", "false_positive", "true_negative", "false_negative"}

VARIABLES
    verdict,   \* operator_verdict of each prediction, or None
    second,    \* the time
    files,     \* the exports: a function from the second to the table
    labels,    \* the examples of the last retraining
    latest   \* ghost: the verdict each prediction was last exported with

vars == <<verdict, second, files, labels, latest>>

TypeOK ==
    /\ verdict \in [Prediction -> Verdicts \cup {None}]
    /\ second \in 0..MaxSecond
    /\ DOMAIN files \subseteq 0..MaxSecond
    /\ \A p \in DOMAIN labels : labels[p] \in Known \cup {"normal"}

Init ==
    /\ verdict = [p \in Prediction |-> None]
    /\ second = 0
    /\ files = <<>> /\ labels = <<>> /\ latest = <<>>

\* A verdict is given, or changed; any of the four is accepted for any prediction.
Judge(p, v) ==
    /\ verdict' = [verdict EXCEPT ![p] = v]
    /\ UNCHANGED <<second, files, labels, latest>>

SecondPasses ==
    /\ second < MaxSecond /\ second' = second + 1
    /\ UNCHANGED <<verdict, files, labels, latest>>

Judged == {p \in Prediction : verdict[p] # None}

\* export_feedback_dataset: nothing is written when nothing is judged or psql fails;
\* a second export within a second replaces the file.
Export ==
    LET table == [p \in Judged |-> verdict[p]] IN
    /\ Judged # {}
    /\ files' = [s \in DOMAIN files \cup {second} |-> IF s = second THEN table ELSE files[s]]
    /\ latest' = table
    /\ UNCHANGED <<verdict, second, labels>>

\* A plausible slip: of the same prediction, the first row is kept.
OldestRow(p) == files[Min({s \in DOMAIN files : p \in DOMAIN files[s]})][p]

\* concat of the files in the order of their names, drop_duplicates(keep="last")
LastRow(p) == files[Max({s \in DOMAIN files : p \in DOMAIN files[s]})][p]

\* A plausible slip: a confirmed cause is a label although the classifier has no such class.
AnyCause(p, v) ==
    CASE v \in {"false_positive", "true_negative"} -> "normal"
      [] v = "true_positive" -> CauseOf[p]
      [] OTHER -> None

\* The label a verdict makes of a prediction, None when the cause remains unknown.
Label(p, v) ==
    CASE v \in {"false_positive", "true_negative"} -> "normal"
      [] v = "true_positive" /\ CauseOf[p] \in Known -> CauseOf[p]
      [] OTHER -> None

\* add_feedback: the predictions left with a label.
Train ==
    LET rows == UNION {DOMAIN files[s] : s \in DOMAIN files}
        used == {p \in rows : Label(p, LastRow(p)) # None}
    IN
    /\ labels' = [p \in used |-> Label(p, LastRow(p))]
    /\ UNCHANGED <<verdict, second, files, latest>>

Next ==
    \/ \E p \in Prediction, v \in Verdicts : Judge(p, v)
    \/ SecondPasses \/ Export \/ Train

Spec == Init /\ [][Next]_vars

\* A retraining holds of each prediction what its verdict meant when it was last
\* exported, and nothing of one whose last verdict leaves its cause unknown, although
\* the earlier files, with verdicts that were changed since, are read too.
LastVerdictCounts ==
    [][Train => \A p \in Prediction :
         LET label == IF p \in DOMAIN latest THEN Label(p, latest[p]) ELSE None IN
         IF label = None THEN p \notin DOMAIN labels' ELSE p \in DOMAIN labels' /\ labels'[p] = label]_vars
===============================================================================
