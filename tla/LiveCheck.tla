------------------------------ MODULE LiveCheck ------------------------------
(***************************************************************************)
(* How often the cluster's alerts are right (scripts/safety_net_live.py):  *)
(* the readings the production agent replays (monitoring/                  *)
(* production_agent.py: build_segments_by_machine, row_to_request,         *)
(* _remember_label, main), the labels it leaves of those that were         *)
(* flagged, and the script that looks the predictions up again, by machine *)
(* and by time, while the agent goes on.  The loop of one agent and its    *)
(* history are in MachineAgent, the file of the labels in DemoLabels.      *)
(***************************************************************************)
EXTENDS Naturals, Sequences, FiniteSets

CONSTANTS
    ReplayFile,   \* what the replayed file may be: sequences of rows
    Segment,      \* SEGMENT_ROWS
    Pad, Slice,   \* the minute around a machine's labels; the hours of one query
    PageSize,     \* the rows one query returns
    MaxDelay,     \* bound: the time an answer, and its label, may take
    MaxSent, LastTime  \* bounds: predictions; the clock

None == "none"
CutOff == [machine |-> None, label |-> FALSE]    \* a row that is cut off
Flagger == {"classifier", "safety_net"}

VARIABLES
    replay,     \* the file
    segments,   \* of each machine: the first row of its segment, 0 for none
    agent,      \* of each machine: its thread, the row it is at, and the id of an answer
    time,       \* the clock
    predicted,  \* the cluster's log, the oldest first; the id is the place
    marked,     \* the labels, by id
    check       \* the script: where it is, and what it has read

vars == <<replay, segments, agent, time, predicted, marked, check>>

Replayed == {replay[i].machine : i \in DOMAIN replay} \ {None}
Off == [step |-> "off", row |-> 0, id |-> 0]
NotRun == [step |-> "idle", labels |-> <<>>, todo |-> {}, of |-> None, lo |-> 0, hi |-> 0,
           found |-> {}, truncated |-> 0]

TypeOK ==
    /\ \A m \in Replayed : segments[m] \in 0..Len(replay)
    /\ \A m \in Replayed : agent[m].step \in {"off", "wait", "mark"} /\ agent[m].row \in 0..Len(replay)
    /\ time \in 1..LastTime /\ Len(predicted) <= MaxSent
    /\ DOMAIN marked \subseteq DOMAIN predicted
    /\ check.step \in {"idle", "machine", "walk", "done", "failed"} /\ check.found \subseteq DOMAIN predicted

Init ==
    /\ replay \in ReplayFile
    /\ segments = [m \in Replayed |-> 0] /\ agent = [m \in Replayed |-> Off]
    /\ time = 1 /\ predicted = <<>> /\ marked = <<>>
    /\ check = NotRun

(***************************************************************************)
(* The production agent.                                                   *)
(***************************************************************************)

\* The rows read from one on: until the machine's end, the file's, or a row that is cut off.
ReadConsecutiveRun(from) ==
    {i \in from..Len(replay) :
        i < from + Segment /\ \A j \in from..i : replay[j] # CutOff /\ replay[j].machine = replay[from].machine}

\* The agent is started: of the places that were hit, the first of each machine that has
\* enough rows (build_segments_by_machine), and a thread for each (main).
BuildSegments ==
    /\ \A m \in Replayed : agent[m] = Off
    /\ segments' \in {s \in [Replayed -> 0..Len(replay)] : \A m \in Replayed : s[m] # 0 =>
                        replay[s[m]].machine = m /\ Cardinality(ReadConsecutiveRun(s[m])) = Segment}
    /\ agent' = [m \in Replayed |-> IF segments'[m] = 0 THEN Off
                                    ELSE [step |-> "wait", row |-> segments'[m], id |-> 0]]
    /\ UNCHANGED <<replay, time, predicted, marked, check>>

\* row_to_request: the row's own machine and readings, without its label.
Request(i, flagger) == [machine |-> replay[i].machine, row |-> i, time |-> time, flagger |-> flagger]

After(m) == IF agent[m].row = segments[m] + Segment - 1 THEN segments[m] ELSE agent[m].row + 1

\* A reading is sent, scored and logged, flagged or not; or its machine is out of reach, the
\* call fails or the log is down, and there is neither a prediction nor an id (send_one).
Send(m) ==
    /\ agent[m].step = "wait"
    /\ \/ \E flagger \in Flagger \cup {None} :
            /\ Len(predicted) < MaxSent
            /\ predicted' = Append(predicted, Request(agent[m].row, flagger))
            /\ agent' = [agent EXCEPT ![m] = IF flagger # None THEN [@ EXCEPT !.step = "mark", !.id = Len(predicted')]
                                             ELSE [@ EXCEPT !.row = After(m)]]
       \/ agent' = [agent EXCEPT ![m].row = After(m)] /\ UNCHANGED predicted
    /\ UNCHANGED <<replay, segments, time, marked, check>>

\* _remember_label, of a flagged reading; or its answer was lost, or the label could not
\* be recorded.
RememberLabel(m) ==
    /\ agent[m].step = "mark"
    /\ marked' \in {marked, [i \in DOMAIN marked \cup {agent[m].id} |->
                     IF i = agent[m].id THEN [machine |-> m, label |-> replay[agent[m].row].label, logged |-> time]
                     ELSE marked[i]]}
    /\ agent' = [agent EXCEPT ![m] = [step |-> "wait", row |-> After(m), id |-> 0]]
    /\ UNCHANGED <<replay, segments, time, predicted, check>>

\* The agent is interrupted: its threads end with it, whatever they were at.
Interrupted ==
    /\ \E m \in Replayed : agent[m] # Off
    /\ agent' = [m \in Replayed |-> Off]
    /\ UNCHANGED <<replay, segments, time, predicted, marked, check>>

Tick ==
    /\ time < LastTime
    /\ \A m \in Replayed : agent[m].step = "mark" => time < predicted[agent[m].id].time + MaxDelay
    /\ time' = time + 1
    /\ UNCHANGED <<replay, segments, agent, predicted, marked, check>>

(***************************************************************************)
(* The script.                                                             *)
(***************************************************************************)

LeastOf(S) == CHOOSE x \in S : \A y \in S : x <= y
MostOf(S) == CHOOSE x \in S : \A y \in S : y <= x

\* The labels there are, by machine.
ReadMarks ==
    /\ check = NotRun /\ DOMAIN marked # {}
    /\ check' = [check EXCEPT !.step = "machine", !.labels = marked,
                              !.todo = {marked[i].machine : i \in DOMAIN marked}]
    /\ UNCHANGED <<replay, segments, agent, time, predicted, marked>>

\* The time in which a machine's labels, and the predictions they are of, were recorded.
WindowOf ==
    /\ check.step = "machine" /\ check.todo # {}
    /\ \E m \in check.todo :
         LET times == {check.labels[i].logged : i \in {k \in DOMAIN check.labels : check.labels[k].machine = m}} IN
         check' = [check EXCEPT !.step = "walk", !.todo = @ \ {m}, !.of = m,
                                !.lo = LeastOf(times) - Pad, !.hi = MostOf(times) + Pad]
    /\ UNCHANGED <<replay, segments, agent, time, predicted, marked>>

\* logged_predictions: the oldest of one machine's between two times, as many as a page has.
LoggedPredictions(machine, start, end) ==
    LET all == {i \in DOMAIN predicted :
                  predicted[i].machine = machine /\ start <= predicted[i].time /\ predicted[i].time <= end}
    IN {i \in all : Cardinality({j \in all : j <= i}) <= PageSize}

\* Whether the page leaves some out.
Truncated(machine, start, end) ==
    Cardinality({i \in DOMAIN predicted :
        predicted[i].machine = machine /\ start <= predicted[i].time /\ predicted[i].time <= end}) > PageSize

\* One slice of the window is read; a query that fails ends the script.
Walk ==
    /\ check.step = "walk"
    /\ LET end == IF check.hi < check.lo + Slice THEN check.hi ELSE check.lo + Slice IN
       check' \in {[check EXCEPT !.step = "failed"],
                   [check EXCEPT !.found = @ \cup LoggedPredictions(check.of, check.lo, end),
                                 !.truncated = IF Truncated(check.of, check.lo, end) THEN @ + 1 ELSE @,
                                 !.lo = @ + Slice,
                                 !.step = IF check.lo + Slice < check.hi THEN "walk" ELSE "machine"]}
    /\ UNCHANGED <<replay, segments, agent, time, predicted, marked>>

\* Labels whose prediction was found, and was flagged, by who raised it.
RaisedBy(who) == {i \in DOMAIN check.labels : i \in check.found /\ predicted[i].flagger = who}
Unmatched == {i \in DOMAIN check.labels : i \notin check.found \/ predicted[i].flagger = None}

\* What is written: the labels, those without a prediction, and of either flagger its flags
\* and how many of them were real, of which the precision is made.
Report ==
    [labels |-> Cardinality(DOMAIN check.labels), unmatched |-> Cardinality(Unmatched), truncated |-> check.truncated,
     flags |-> [who \in Flagger |-> Cardinality(RaisedBy(who))],
     real |-> [who \in Flagger |-> Cardinality({i \in RaisedBy(who) : check.labels[i].label})]]

Finish ==
    /\ check.step = "machine" /\ check.todo = {}
    /\ check' = [check EXCEPT !.step = "done"]
    /\ UNCHANGED <<replay, segments, agent, time, predicted, marked>>

Next ==
    \/ BuildSegments \/ Interrupted \/ Tick
    \/ \E m \in Replayed : Send(m) \/ RememberLabel(m)
    \/ ReadMarks \/ WindowOf \/ Walk \/ Finish

Spec == Init /\ [][Next]_vars

(***************************************************************************)
(* Properties.                                                             *)
(***************************************************************************)

\* A label is of the reading its prediction was made of, although it is recorded after the
\* answer, the file is entered at random places, rows of it may be cut off, and an agent
\* that was interrupted starts at other rows (build_segments_by_machine, _remember_label).
LabelsOfReadings ==
    \A i \in DOMAIN marked :
        LET p == predicted[i] IN
        /\ replay[p.row] # CutOff /\ marked[i].machine = p.machine
        /\ marked[i].label = replay[p.row].label /\ p.flagger # None

\* The counts are of what was flagged: unless a page was too short, each label that was
\* there when the script began is counted, at the flagger that raised it and as what it
\* was, although predictions are older than their labels and come while the script reads
\* (safety_net_live.py).
CountsAreComplete ==
    check.step = "done" /\ Report.truncated = 0 =>
        /\ Report.unmatched = 0
        /\ \A who \in Flagger :
             /\ Report.flags[who] = Cardinality({i \in DOMAIN check.labels : predicted[i].flagger = who})
             /\ Report.real[who] = Cardinality({i \in DOMAIN check.labels :
                                        predicted[i].flagger = who /\ replay[predicted[i].row].label})
===============================================================================
