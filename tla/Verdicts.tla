------------------------------- MODULE Verdicts -------------------------------
(***************************************************************************)
(* The decision on a reading: the vote of the classifier at a threshold,   *)
(* or at one threshold per class, or else of the IsolationForest, the      *)
(* safety net.  The API decides one reading at a time (api/app.py, with    *)
(* ml-model/decision.py: classifier_vote); the evaluation and the choice   *)
(* of the threshold decide a fleet, some whole machines at a time (ml-     *)
(* model/train_production.py, with classifier_vote_batch).                 *)
(*                                                                         *)
(* A probability is a multiple of 1/Scale.  One reading stands for those   *)
(* of a machine.                                                           *)
(***************************************************************************)
EXTENDS Integers, Sequences, FiniteSets, FiniteSetsExt

CONSTANTS
    Causes,    \* the classes other than "normal", in the encoder's order
    Scale,
    Grid,      \* thresholds
    PerClass,  \* the values PER_CLASS_THRESHOLDS may have: functions from some of the causes
    Machines,  \* number of machines, those of the sorted fleet
    Chunk      \* EVAL_MACHINES_PER_CHUNK

Normal == "normal"
NetOnly == "net_only"        \* SAFETY_NET_CAUSE
Class == {Normal} \cup {Causes[i] : i \in DOMAIN Causes}
Truth == Class \cup {"cascade"}
Rated == 1..Machines
Distribution == {p \in [Class -> 0..Scale] : MapThenSumSet(LAMBDA c : p[c], Class) = Scale}

VARIABLES
    proba, iso,    \* of each reading: what the classifier and the forest answer
    truth,         \* its label
    threshold,     \* PREDICT_THRESHOLD, and that of the evaluation
    perClass,      \* PER_CLASS_THRESHOLDS of the API, or Unset
    answer,        \* of each reading: what the API answered
    evaluated,     \* machines evaluated so far
    curve, counts  \* the counts of served_curve and of evaluate

vars == <<proba, iso, truth, threshold, perClass, answer, evaluated, curve, counts>>

Unset == <<>>                \* no thresholds per class: they are left out
NotYet == [anomaly |-> FALSE, cause |-> "unanswered"]

(***************************************************************************)
(* The vote on one reading.                                                *)
(***************************************************************************)

Best(score, among) ==
    Causes[CHOOSE i \in among : \A j \in among :
        IF j < i THEN score[Causes[j]] < score[Causes[i]] ELSE score[Causes[j]] <= score[Causes[i]]]

\* per_class.get(cls, 1.01): a class without a threshold never reaches it
Bar(per, c) == IF c \in DOMAIN per THEN per[c] ELSE Scale + 1

\* classifier_vote
ClassifierVote(p, th, per) ==
    IF per # Unset
    THEN LET exceed == {i \in DOMAIN Causes : p[Causes[i]] >= Bar(per, Causes[i])}
             margin == [c \in Class |-> p[c] - Bar(per, c)]
         IN IF exceed = {} THEN <<FALSE, Normal>> ELSE <<TRUE, Best(margin, exceed)>>
    ELSE IF p[Normal] < th THEN <<TRUE, Best(p, DOMAIN Causes)>> ELSE <<FALSE, Normal>>

\* _predict_v4 and _predict_v3_v4: the classifier's cause, else the safety net's.
Decide(r, th, per) ==
    LET vote == ClassifierVote(proba[r], th, per) IN
    [anomaly |-> vote[1] \/ iso[r],
     cause |-> IF vote[1] THEN vote[2] ELSE IF iso[r] THEN NetOnly ELSE "none"]

(***************************************************************************)
(* The vote on many readings: a column of the probabilities at a time.     *)
(***************************************************************************)

\* Where the largest element of a row is; the first of several (numpy argmax).
ArgMax(row) == Min({i \in DOMAIN row : \A j \in DOMAIN row : row[j] <= row[i]})

\* classifier_vote_batch: what it hits, and the causes
VoteBatch(rows, th, per) ==
    LET other(r) == [i \in DOMAIN Causes |-> proba[r][Causes[i]]]
        passed(r) == [i \in DOMAIN Causes |-> other(r)[i] >= Bar(per, Causes[i])]
        margin(r) == [i \in DOMAIN Causes |->
                        IF passed(r)[i] THEN other(r)[i] - Bar(per, Causes[i]) ELSE -(2 * Scale + 2)]
        hit == [r \in rows |-> IF per # Unset THEN \E i \in DOMAIN Causes : passed(r)[i] ELSE proba[r][Normal] < th]
        cause == [r \in rows |-> Causes[ArgMax(IF per # Unset THEN margin(r) ELSE other(r))]]
    IN [hit |-> hit, cause |-> [r \in rows |-> IF hit[r] THEN cause[r] ELSE Normal]]

\* final_verdict_batch
FinalBatch(vote) ==
    [anomaly |-> [r \in DOMAIN vote.hit |-> vote.hit[r] \/ iso[r]],
     cause |-> [r \in DOMAIN vote.hit |->
                  IF vote.hit[r] THEN vote.cause[r] ELSE IF iso[r] THEN NetOnly ELSE Normal]]

Sum2(a, b) == [k \in DOMAIN a |-> a[k] + b[k]]
Confusion(flagged, rows) ==
    [tp |-> Cardinality({r \in rows : flagged[r] /\ truth[r] # Normal}),
     fp |-> Cardinality({r \in rows : flagged[r] /\ truth[r] = Normal}),
     fn |-> Cardinality({r \in rows : ~ flagged[r] /\ truth[r] # Normal})]

\* _accumulate: what one chunk adds to the counts of evaluate_set.
Accumulated(rows, th) ==
    LET vote == VoteBatch(rows, th, Unset)
        final == FinalBatch(vote)
        named == {r \in rows : truth[r] \notin {Normal, "cascade"} /\ vote.hit[r]}
    IN [served |-> Confusion(final.anomaly, rows),
        alone |-> Confusion(vote.hit, rows),
        hits |-> [t \in Truth |-> Cardinality({r \in rows : truth[r] = t /\ final.anomaly[r]})],
        named |-> [rows |-> Cardinality(named),
                   correct |-> Cardinality({r \in named : final.cause[r] = truth[r]})]]

Nothing == Accumulated({}, 0)

(***************************************************************************)
(* The actions.                                                            *)
(***************************************************************************)

TypeOK ==
    /\ proba \in [Rated -> Distribution] /\ iso \in [Rated -> BOOLEAN] /\ truth \in [Rated -> Truth]
    /\ threshold \in Grid /\ perClass \in PerClass \cup {Unset}
    /\ answer \in [Rated -> [anomaly : BOOLEAN, cause : Class \cup {NetOnly, "none", "unanswered"}]]
    /\ evaluated \in 0..Machines

Init ==
    /\ proba \in [Rated -> Distribution]
    /\ iso \in [Rated -> BOOLEAN]
    /\ truth \in [Rated -> Truth]
    /\ threshold \in Grid
    /\ perClass \in PerClass \cup {Unset}
    /\ answer = [r \in Rated |-> NotYet]
    /\ evaluated = 0
    /\ curve = [th \in Grid |-> Nothing.served]
    /\ counts = Nothing

\* The API answers a reading.
Serve(r) ==
    /\ answer[r] = NotYet
    /\ answer' = [answer EXCEPT ![r] = Decide(r, threshold, perClass)]
    /\ UNCHANGED <<proba, iso, truth, threshold, perClass, evaluated, curve, counts>>

\* One turn of the loops of evaluate_set and of served_curve: the next chunk of machines.
EvaluateChunk ==
    LET last == Min({evaluated + Chunk, Machines})
        rows == (evaluated + 1)..last
        more == Accumulated(rows, threshold)
    IN
    /\ evaluated < Machines
    /\ evaluated' = last
    /\ curve' = [th \in Grid |-> Sum2(curve[th], Accumulated(rows, th).served)]
    /\ counts' = [f \in DOMAIN counts |-> Sum2(counts[f], more[f])]
    /\ UNCHANGED <<proba, iso, truth, threshold, perClass, answer>>

Next == (\E r \in Rated : Serve(r)) \/ EvaluateChunk

Spec == Init /\ [][Next]_vars

(***************************************************************************)
(* Properties.                                                             *)
(***************************************************************************)

\* The two forms of the rule decide a reading alike, ties between causes and
\* classes without a threshold of their own included (decision.py).
RowForRow ==
    \A r \in Rated, th \in Grid, per \in PerClass \cup {Unset} :
        LET vote == ClassifierVote(proba[r], th, per)
            batch == VoteBatch(Rated, th, per)
        IN batch.hit[r] = vote[1] /\ batch.cause[r] = vote[2]

\* What the evaluation counts, chunk after chunk, are the verdicts and the causes
\* the API gives for the same readings at the same threshold, each reading once, as
\* long as the API is given no thresholds per class: no evaluation applies those.
CountsAreServed ==
    (perClass = Unset /\ evaluated = Machines /\ \A r \in Rated : answer[r] # NotYet) =>
        LET flagged == [r \in Rated |-> answer[r].anomaly] IN
        /\ counts.served = Confusion(flagged, Rated)
        /\ curve[threshold] = counts.served
        /\ counts.named.correct = Cardinality({r \in Rated : answer[r].cause = truth[r]})
        /\ \A t \in Truth : counts.hits[t] = Cardinality({r \in Rated : truth[r] = t /\ flagged[r]})
===============================================================================
