------------------------------- MODULE Scoring -------------------------------
(***************************************************************************)
(* From readings to conclusions, and back to the models: the features, the *)
(* verdicts, what is concluded about routers, past episodes, the demo's    *)
(* bridge, the readings that are sampled and judged, how often the alerts  *)
(* are right, and the training labels.  The parts share no state that one  *)
(* can see change in another: a behaviour exercises one of them.           *)
(***************************************************************************)
EXTENDS Integers, Sequences, FiniteSets

CONSTANTS
    Machine, TypeOf, RollingWindow, Telemetry, FirstHour, TrainingFile, MaxLog,
    Causes, Scale, Grid, PerClass, Machines, Chunk,
    Fleet, IsRouter, Apart, Score, MinGroup, SuspectShare, QuietShare, StaleShare, MaxReports,
    Hours, WallHour, MaxTicks,
    Known, CauseOf, MaxSecond,
    Tab, FleetFile, RunLength, Limit, MaxLogged,
    Watched, Hour, MaxPoints, MaxEpisodes, Points, ChartPad, ReadPad, MaxHours, Now,
    ReplayFile, Segment, Pad, Slice, PageSize, MaxDelay, MaxSent, LastTime

ASSUME ConstantsAssumption ==
    /\ {RollingWindow, Scale, Machines, Chunk, MinGroup, RunLength, Limit} \subseteq Nat \ {0}
    /\ {MaxLog, MaxReports, MaxTicks, MaxSecond} \subseteq Nat
    /\ WallHour \subseteq 0..23
    /\ {Hour, MaxPoints, MaxEpisodes, Points} \subseteq Nat \ {0}
    /\ {MaxHours * Hour + 1, 1} \subseteq 1..Now
    /\ {Segment, Slice, PageSize, LastTime} \subseteq Nat \ {0} /\ {MaxSent, Pad} \subseteq Nat
    /\ MaxDelay \in 0..Pad

\* The causes have names of their own; a threshold is a number.
ASSUME VerdictsAssumption ==
    /\ Causes \in Seq(STRING) /\ Causes # <<>>
    /\ \A i \in DOMAIN Causes : Causes[i] \notin {"normal", "net_only", "none", "cascade"}
    /\ Grid \subseteq Nat
    /\ \A per \in PerClass : \A c \in DOMAIN per : per[c] \in Nat

\* A machine's telemetry is a sequence of rows.
ASSUME FeaturesAssumption == Telemetry \subseteq Seq(Int)

\* The routers are machines of the fleet; a share is a fraction.
ASSUME ViewAssumption ==
    /\ Fleet \in Seq(STRING) /\ IsRouter \subseteq {Fleet[i] : i \in DOMAIN Fleet}
    /\ {SuspectShare, QuietShare, StaleShare} \subseteq Nat \X Nat

\* The replayed file has rows, each of an hour of the day.
ASSUME BridgeAssumption == IsFiniteSet(Machine) /\ Hours \in Seq(0..23) /\ Hours # <<>>

\* The rows of a replayed file have a machine, cut off or not, and a label.
ASSUME ReviewAssumption ==
    /\ FleetFile \cup ReplayFile \subseteq Seq([machine : STRING, label : BOOLEAN])
    /\ MaxLogged \in Nat

\* The machines of the History tab are compared; the pads and the bounds are numbers.
ASSUME EpisodesAssumption ==
    IsFiniteSet(Watched) /\ Watched \subseteq Nat /\ {ChartPad, ReadPad, MaxHours, Now} \subseteq Nat

VARIABLES
    part,  \* the part this behaviour exercises
    values, train, log, candidate, examples,
    proba, iso, truth, threshold, perClass, answer, evaluated, curve, counts,
    gauge, score, silent, reports, page, relay, ranked,
    realtime, wall, ticks, idx, todo, exported, scraped, pc, hour, entries, anomalies, gauges,
    verdict, second, files, labels, latest,
    stream, written, pool, logged, owed, lines, tab,
    trace, history, detail,
    replay, segments, agent, time, predicted, marked, check

Shown == INSTANCE Features
Decided == INSTANCE Verdicts
View == INSTANCE FleetView
Bridge == INSTANCE DemoBridge
Dataset == INSTANCE FeedbackDataset
Judged == INSTANCE Review
Past == INSTANCE Episodes
Live == INSTANCE LiveCheck

shown == <<values, train, log, candidate, examples>>
decided == <<proba, iso, truth, threshold, perClass, answer, evaluated, curve, counts>>
view == <<gauge, score, silent, reports, page, relay, ranked>>
bridge == <<realtime, wall, ticks, idx, todo, exported, scraped, pc, hour, entries, anomalies, gauges>>
dataset == <<verdict, second, files, labels, latest>>
judged == <<stream, written, pool, logged, owed, lines, tab>>
past == <<trace, history, detail>>
live == <<replay, segments, agent, time, predicted, marked, check>>
vars == <<part, shown, decided, view, bridge, dataset, judged, past, live>>

Any(S) == CHOOSE x \in S : TRUE

\* A part starts in any of its initial states where it is looked at.
Init ==
    /\ part \in {"features", "verdicts", "view", "bridge", "dataset", "review", "episodes", "live"}
    /\ part # "bridge" => realtime = FALSE /\ wall = Any(WallHour)
    /\ part # "features" => values = Any(Telemetry) /\ train = Any(TrainingFile)
    /\ part # "view" => silent = {} /\ gauge = [m \in View!Member |-> "no"]
    /\ part # "verdicts" =>
         /\ threshold = Any(Grid) /\ perClass = <<>>
         /\ proba = [r \in 1..Machines |-> Any(Decided!Distribution)]
         /\ iso = [r \in 1..Machines |-> FALSE] /\ truth = [r \in 1..Machines |-> "normal"]
    /\ part # "review" => stream = Any(FleetFile)
    /\ part # "episodes" => trace = [t \in 1..Now |-> {}]
    /\ part # "live" => replay = Any(ReplayFile)
    /\ Judged!Init /\ Past!Init /\ Live!Init
    /\ Shown!Init /\ Decided!Init /\ View!Init /\ Bridge!Init /\ Dataset!Init

Next ==
    /\ UNCHANGED part
    /\ \/ part = "features" /\ Shown!Next /\ UNCHANGED <<decided, view, bridge, dataset, judged, past, live>>
       \/ part = "verdicts" /\ Decided!Next /\ UNCHANGED <<shown, view, bridge, dataset, judged, past, live>>
       \/ part = "view" /\ View!Next /\ UNCHANGED <<shown, decided, bridge, dataset, judged, past, live>>
       \/ part = "bridge" /\ Bridge!Next /\ UNCHANGED <<shown, decided, view, dataset, judged, past, live>>
       \/ part = "dataset" /\ Dataset!Next /\ UNCHANGED <<shown, decided, view, bridge, judged, past, live>>
       \/ part = "review" /\ Judged!Next /\ UNCHANGED <<shown, decided, view, bridge, dataset, past, live>>
       \/ part = "episodes" /\ Past!Next /\ UNCHANGED <<shown, decided, view, bridge, dataset, judged, live>>
       \/ part = "live" /\ Live!Next /\ UNCHANGED <<shown, decided, view, bridge, dataset, judged, past>>

Spec == Init /\ [][Next]_vars

\* Type correctness of the part that is exercised.
TypeOK ==
    /\ part = "features" => Shown!TypeOK
    /\ part = "verdicts" => Decided!TypeOK
    /\ part = "view" => View!TypeOK
    /\ part = "bridge" => Bridge!TypeOK
    /\ part = "dataset" => Dataset!TypeOK
    /\ Judged!TypeOK /\ Past!TypeOK /\ Live!TypeOK

\* What is served is what was evaluated, and what comes back is what will be served: the
\* same features wherever they are computed, and the same verdicts, ties included, each
\* counted once (app.py, preprocess.py, decision.py, train_production.py).
AsEvaluated ==
    /\ part = "features" => Shown!ServedAsEvaluated /\ Shown!ExamplesAsServed
    /\ part = "verdicts" => Decided!RowForRow /\ Decided!CountsAreServed

\* The views of the fleet agree with one another and with the fleet: the Fleet tab with
\* the form of its rule that was evaluated and with the ranking of causes, an effect with
\* its cause, the exported cycle with itself, and a router shown as unreachable with the
\* machines that were silent when it was looked at (fleet_rules.py, root_cause.py,
\* anomaly_bridge.py, ui_fleet).
ViewsAgree ==
    /\ [](part = "view" => View!ArraysAgree /\ View!EffectsHaveACause /\ View!IncidentIsRanked)
    /\ [](part = "bridge" => Bridge!OneCycleExported)
    /\ View!UnreachableIsSilent

\* What is judged and trained on is what it says: a sample's history is its own, a review
\* shows the label of the reading the prediction was made of, a panel's or an agent's, a
\* retraining takes the last exported verdict, and the check of the alerts counts each
\* label where it belongs (app.py, production_agent.py, feedback_examples,
\* safety_net_live.py).
LabelsAreTrue ==
    /\ [](Judged!SampleIsWindow /\ Judged!RealIsTrue)
    /\ [](part = "live" => Live!LabelsOfReadings /\ Live!CountsAreComplete)
    /\ Dataset!LastVerdictCounts

\* A past episode is a run of anomalous samples, as long as it can be, with the readings
\* that began it; the times given to its causes fit it, and the machines' totals count the
\* episodes that the list leaves out (ui_history, ui_history_episode).
EpisodesAreWhole ==
    part = "episodes" =>
        Past!EpisodesAreRuns /\ Past!TotalsAreComplete /\ Past!CausesFit /\ Past!ReadingsComplete
==============================================================================
