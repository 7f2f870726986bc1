------------------------------ MODULE DemoBridge ------------------------------
(***************************************************************************)
(* The demo that replays a fleet file through Prometheus: the exporter     *)
(* publishes a row of every machine at each tick, by a simulated clock or  *)
(* by the hour of the day (monitoring/replay_exporter.py), and the bridge  *)
(* reads the machines back, has them scored and ranked, and exports the    *)
(* result (monitoring/anomaly_bridge.py).  Scrapes and queries come at any *)
(* moment; a query, a prediction or the ranking may fail.                  *)
(*                                                                         *)
(* Two of the six features stand for all: each has a query of its own.     *)
(***************************************************************************)
EXTENDS Integers, Sequences, FiniteSets, FiniteSetsExt

CONSTANTS
    Machine,
    Hours,       \* the hour of each row of the file
    WallHour,    \* hours of the day the demo may run in
    MaxTicks     \* bound: ticks and hours that pass

None == -1
Feature == {"first", "last"}
Rows == DOMAIN Hours

VARIABLES
    realtime,  \* REPLAY_MODE
    wall,      \* the hour of the day
    ticks,     \* ticks so far
    idx, todo, \* the row being published, and the machines left to do
    exported,  \* sim_replay_hour, and the row each feature of a machine is of
    scraped,   \* what Prometheus has of it
    pc, hour,  \* the bridge: where it is, and the hour it read
    entries,   \* the rows it collected
    anomalies, \* the machines flagged in this cycle
    gauges     \* what it exports: flagged machines, scored machines and their number

clock == <<realtime, wall, ticks>>
exporter == <<idx, todo, exported>>
bridge == <<pc, hour, entries, anomalies, gauges>>
vars == <<clock, exporter, scraped, bridge>>

Unpublished == [hour |-> None, row |-> [m \in Machine |-> [f \in Feature |-> None]]]

TypeOK ==
    /\ wall \in WallHour /\ ticks \in 0..MaxTicks
    /\ idx \in Rows \cup {None} /\ todo \subseteq Machine
    /\ pc \in {"sleep", "hour", "first", "last", "scoring", "scored", "ranking"}
    /\ anomalies \subseteq Machine
    /\ gauges.anomaly \subseteq Machine /\ gauges.score \subseteq Machine /\ gauges.count \in Nat

Init ==
    /\ realtime \in BOOLEAN /\ wall \in WallHour /\ ticks = 0
    /\ idx = None /\ todo = {}
    /\ exported = Unpublished /\ scraped = Unpublished
    /\ pc = "sleep" /\ hour = None
    /\ entries = [m \in Machine |-> <<>>]
    /\ anomalies = {}
    /\ gauges = [anomaly |-> {}, score |-> {}, count |-> 0]

(***************************************************************************)
(* The exporter.                                                           *)
(***************************************************************************)

Distance(h, g) == LET d == (h - g) % 24 IN Min({d, 24 - d})
HasData(h) == \E i \in Rows : Hours[i] = h

\* The hour whose rows are used: h, or the nearest that has any, the earlier of two.
Nearest(h) ==
    LET delta == CHOOSE d \in 0..23 :
            /\ HasData((h - d) % 24) \/ HasData((h + d) % 24)
            /\ \A e \in 0..(d - 1) : ~ HasData((h - e) % 24) /\ ~ HasData((h + e) % 24)
    IN IF HasData((h - delta) % 24) THEN (h - delta) % 24 ELSE (h + delta) % 24

Tick ==
    /\ todo = {} /\ ticks < MaxTicks
    /\ ticks' = ticks + 1
    /\ todo' = Machine
    /\ UNCHANGED <<realtime, wall, scraped, bridge>>

\* tick_fastcycle: the rows in turn, with their own hour.
TickFastcycle ==
    /\ ~ realtime /\ Tick
    /\ idx' = (ticks % Len(Hours)) + 1
    /\ exported' = [exported EXCEPT !.hour = Hours[idx']]

\* tick_realtime: any row recorded at the hour of the day.
TickRealtime ==
    /\ realtime /\ Tick
    /\ exported' = [exported EXCEPT !.hour = wall]
    /\ idx' \in {i \in Rows : Hours[i] = Nearest(wall)}

\* _publish_row, one machine.
PublishRow(m) ==
    /\ m \in todo
    /\ todo' = todo \ {m}
    /\ exported' = [exported EXCEPT !.row[m] = [f \in Feature |-> idx]]
    /\ UNCHANGED <<clock, idx, scraped, bridge>>

HourPasses ==
    /\ ticks < MaxTicks /\ ticks' = ticks + 1
    /\ wall' \in WallHour \ {wall}
    /\ UNCHANGED <<realtime, exporter, scraped, bridge>>

Scrape == scraped' = exported /\ UNCHANGED <<clock, exporter, bridge>>

(***************************************************************************)
(* The bridge: one cycle after the other; main_loop goes on after an       *)
(* exception.                                                              *)
(***************************************************************************)

Goto(from, to) == pc = from /\ pc' = to
Fails == pc \in {"hour", "first", "last", "ranking"} /\ pc' = "sleep" /\ UNCHANGED <<hour, entries, anomalies, gauges>>

\* get_replay_hour, which falls back on the clock when there is no exporter.
ReadHour ==
    /\ Goto("hour", "first")
    /\ hour' = IF scraped.hour = None THEN wall ELSE scraped.hour
    /\ entries' = [m \in Machine |-> <<>>]
    /\ UNCHANGED <<anomalies, gauges>>

\* collect_all_machines: a query for each feature.
Collect(f, next) ==
    /\ Goto(f, next)
    /\ entries' = [m \in Machine |->
         IF scraped.row[m][f] = None THEN entries[m] ELSE Append(entries[m], scraped.row[m][f])]
    /\ UNCHANGED <<hour, anomalies, gauges>>

Complete == {m \in Machine : Len(entries[m]) = Cardinality(Feature)}

\* run_cycle: the series of the last cycle are dropped and every machine is scored; one
\* whose prediction fails is left out.
ScoreAll ==
    /\ Goto("scoring", "scored")
    /\ anomalies' \in SUBSET Complete
    /\ gauges' = [anomaly |-> {}, score |-> {}, count |-> gauges.count]
    /\ UNCHANGED <<hour, entries>>

\* The number and the scores are exported, and a single anomaly; several are ranked.
Export ==
    /\ Goto("scored", IF Cardinality(anomalies) > 1 THEN "ranking" ELSE "sleep")
    /\ gauges' = [anomaly |-> IF Cardinality(anomalies) = 1 THEN anomalies ELSE gauges.anomaly,
                  score |-> gauges.score \cup anomalies, count |-> Cardinality(anomalies)]
    /\ UNCHANGED <<hour, entries, anomalies>>

Rank ==
    /\ Goto("ranking", "sleep")
    /\ gauges' = [gauges EXCEPT !.anomaly = @ \cup anomalies]
    /\ UNCHANGED <<hour, entries, anomalies>>

Wake == Goto("sleep", "hour") /\ UNCHANGED <<hour, entries, anomalies, gauges>>

Cycle ==
    /\ \/ Wake \/ ReadHour \/ Collect("first", "last") \/ Collect("last", "scoring")
       \/ ScoreAll \/ Export \/ Rank \/ Fails
    /\ UNCHANGED <<clock, exporter, scraped>>

Next ==
    \/ TickFastcycle \/ TickRealtime \/ (\E m \in Machine : PublishRow(m)) \/ HourPasses
    \/ Scrape \/ Cycle

Spec == Init /\ [][Next]_vars

(***************************************************************************)
(* Properties.                                                             *)
(***************************************************************************)

\* Between two cycles the bridge exports one cycle: as many scores as it counts, and
\* either the same machines as anomalous or, when their ranking failed, none, however
\* the cycles before it ended.
OneCycleExported ==
    pc = "sleep" =>
        /\ gauges.count = Cardinality(gauges.score)
        /\ gauges.anomaly \in {{}, gauges.score}

===============================================================================
