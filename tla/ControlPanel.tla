---------------------------- MODULE ControlPanel ----------------------------
(***************************************************************************)
(* Parts of the control panel that share no state with one another: the    *)
(* experiment console, the demo labels, the silences, the platform's       *)
(* layers, what the recovery it starts does to the Docker network, the     *)
(* feedback demo, a panel of its own, and the tests that stop services for *)
(* real.  A behaviour exercises one of them, as nothing one part does can  *)
(* be seen by another.                                                     *)
(***************************************************************************)
EXTENDS Naturals, FiniteSets

CONSTANTS
    Page, MaxRun,
    Process, Thread, MaxLines, KeepLines, MaxLabel,
    Handler, MaxSilence,
    Unit, Container, Agent, KeepActions, MaxAction, MaxDeath,
    Scenario, MaxRow, MaxWork,
    Other, MaxEvent

ASSUME ConstantsAssumption ==
    /\ {MaxRun, KeepLines, MaxSilence, KeepActions} \subseteq Nat \ {0}
    /\ {MaxLines, MaxLabel, MaxAction, MaxDeath, MaxRow, MaxWork, MaxEvent} \subseteq Nat
    /\ KeepLines <= MaxLines
    /\ IsFiniteSet(Handler) /\ IsFiniteSet(Process \X Thread)
    /\ "none" \notin Other /\ Scenario \subseteq BOOLEAN \X BOOLEAN

VARIABLES
    part,  \* the part this behaviour exercises
    lock, active, runs, worker, started, page, leaked,
    file, flock, mutex, pc, kept, log, cut,
    held, request,
    running, wanted, recovering, seen, acting, fixlog, asked, died, entered, stopped,
    rows, store, judging, retrain, jobs, fleet, unsure, stuck,
    test, up, alerting, at, turn, times, exit, downed, unstarted, noticed, ended,
    address, pinned, step, rebuild, holder, disturbed, fixed, events

Training == INSTANCE TrainingConsole
Labels == INSTANCE DemoLabels
Silences == INSTANCE AlertSilences
Layers == INSTANCE PanelLayers
Demo == INSTANCE FeedbackDemo
Stops == INSTANCE StopTests
Network == INSTANCE ClusterNetwork

console == <<lock, active, runs, worker, started, page, leaked>>
labels == <<file, flock, mutex, pc, kept, log, cut>>
silences == <<held, request>>
layers == <<running, wanted, recovering, seen, acting, fixlog, asked, died, entered, stopped>>
demo == <<rows, store, judging, retrain, jobs, fleet, unsure, stuck>>
stops == <<test, up, alerting, at, turn, times, exit, downed, unstarted, noticed, ended>>
network == <<address, pinned, step, rebuild, holder, disturbed, fixed, events>>
vars == <<part, console, labels, silences, layers, demo, stops, network>>

\* The silences that are there already, and the services that run, vary only where they
\* are looked at.
Init ==
    /\ part \in {"training", "labels", "silences", "layers", "demo", "stops", "network"}
    /\ Training!Init /\ Labels!Init /\ Silences!Init /\ Layers!Init /\ Demo!Init
    /\ Stops!Init /\ Network!Init
    /\ part # "silences" => held = <<>>
    /\ part # "network" => address = [c \in Network!Attached |-> "none"]
    /\ part # "stops" => test = "agent" /\ up = {} /\ alerting = {}

Next ==
    /\ UNCHANGED part
    /\ \/ part = "training" /\ Training!Next /\ UNCHANGED <<labels, silences, layers, demo, stops, network>>
       \/ part = "labels" /\ Labels!Next /\ UNCHANGED <<console, silences, layers, demo, stops, network>>
       \/ part = "silences" /\ Silences!Next /\ UNCHANGED <<console, labels, layers, demo, stops, network>>
       \/ part = "layers" /\ Layers!Next /\ UNCHANGED <<console, labels, silences, demo, stops, network>>
       \/ part = "demo" /\ Demo!Next /\ UNCHANGED <<console, labels, silences, layers, stops, network>>
       \/ part = "stops" /\ Stops!Next /\ UNCHANGED <<console, labels, silences, layers, demo, network>>
       \/ part = "network" /\ Network!Next /\ UNCHANGED <<console, labels, silences, layers, demo, stops>>

\* No fair action of a part is enabled in its initial states, where it stays if another
\* part is exercised.
Spec == Init /\ [][Next]_vars /\ Training!Fairness /\ Demo!Fairness

\* Type correctness of every part.
TypeOK ==
    /\ Training!TypeOK /\ Labels!TypeOK /\ Silences!TypeOK /\ Layers!TypeOK /\ Demo!TypeOK
    /\ Stops!TypeOK /\ Network!TypeOK

\* Trainings, the console's and the demo's, run one at a time, and what is shown of them
\* is theirs: the status is that of the run under way, a page that is told that nothing
\* runs any more finds its run in the list, and the demo trains with the verdicts the API
\* holds, except where calls overlapped or lost an answer (training.py, feedback_demo.py).
TrainingsInOrder ==
    /\ Training!StatusIsTheRuns /\ Training!ResultIsListed
    /\ Demo!OneRetraining /\ Demo!DemoHoldsApi

\* A training ends, and another can be started, unless a thread could not be started.
TrainingsEnd == Training!FreeAgain /\ Demo!RetrainEnds

\* The labels file holds the newest labels recorded by either process.
NoLabelLost == Labels!NoLabelLost

\* A confirmed unmute has lifted every silence of its scope the panel had made.
UnmuteLifts == Silences!UnmuteLifts

\* Services run as they were asked to: a layer whose stop was confirmed stays down, none
\* runs twice, the log has the newest actions; what a test has stopped runs again at its
\* end, and its times are of alerts that came and went (ui_fix, watchdog_test.py).
ServicesAsAsked ==
    /\ Layers!StopStays /\ Layers!OneCopy /\ Layers!NewestActions
    /\ Stops!LeavesRunning /\ Stops!CompleteIsReal

\* The cluster's address is free when it is started, whoever held it, and a reconnected
\* Jenkins never takes it again (disconnect_ip_holder, reconnect_jenkins).
NetworkInOrder == Network!AddressIsFree /\ Network!JenkinsStaysOff

\* What is not the panel's own is left alone: it ends only its own silences, of the scope
\* that was asked for, and only a rebuild takes its address away from the cluster.
OthersKept == Silences!OnlyItsOwn /\ Network!ClusterKept
=============================================================================
