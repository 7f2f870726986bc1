---------------------------- MODULE ServingMetrics ----------------------------
(***************************************************************************)
(* The per-machine state each serving replica exports (api/app.py,         *)
(* _record_prediction_metrics and _set_cause_metric) and what is read from *)
(* it: Prometheus scrapes every replica on its own, and the panel and the  *)
(* alert rules take a machine's state from the replica that saw it last    *)
(* (_freshest; fleet:machine_anomalous:fresh and fleet:machine_net_only:   *)
(* fresh of monitoring/alerting/alert_rules.yml).                          *)
(*                                                                         *)
(* A handler publishes its verdict in steps that other handlers and the    *)
(* scrape interleave with; a scrape reads one metric family after another  *)
(* in the order they are registered.  The scores and the input values are  *)
(* published like the verdict and are left out, as are the counters and    *)
(* the type label: every agent sends its machine's own type.               *)
(***************************************************************************)
EXTENDS Naturals, FiniteSets, FiniteSetsExt

CONSTANTS
    Replica, Machine, Handler,
    Cause,       \* causes the classifier names
    NetOnly,     \* SAFETY_NET_CAUSE
    MaxReadings  \* bound: predictions served, by the set of replicas there is

Normal == "normal"
Verdict == Cause \cup {NetOnly, Normal}
NoSeries == "none"
Absent == "absent"

ASSUME ConstantsAssumption ==
    /\ NetOnly \notin Cause /\ NoSeries \notin Cause \cup {NetOnly}
    /\ "free" \notin Handler /\ IsFiniteSet(Handler)
    /\ MaxReadings \in [DOMAIN MaxReadings -> Nat]
    /\ DOMAIN MaxReadings \subseteq (SUBSET Replica) \ {{}}

\* A plausible slip: the gauge takes the verdict itself.
StateRaw(v) == v

State(v) == IF v = Normal THEN "normal" ELSE "anomalous"    \* the gauge's 0 and 1

VARIABLES
    deployed,     \* the replicas there are
    clock,        \* predictions published so far: the time of the next one
    seen,         \* MACHINE_LAST_SEEN of each replica, 0 when absent
    gauge,        \* CURRENTLY_ANOMALOUS: of each replica and machine, or Absent
    series,       \* the causes each replica exports as ANOMALY_CAUSE_P
    causeLast,    \* _CAUSE_LAST
    lock,         \* holder of _CAUSE_LOCK, or "free"
    pc, job,      \* each handler: where it is, and what it publishes
    scraping,     \* what the scrape in progress has read of each replica
    prom,         \* the last complete scrape of each replica
    latest,       \* ghost: the last verdict published for each machine and by
                  \* whom; unknown once that replica is gone
    mixed         \* ghost: <<replica, machine>> whose last readings overlapped

metrics == <<seen, gauge, series, causeLast, lock>>
handlers == <<pc, job>>
prometheus == <<scraping, prom>>
ghosts == <<latest, mixed>>
vars == <<deployed, clock, metrics, handlers, prometheus, ghosts>>

Anomalous(v) == v # Normal
SeriesOf == Cause \cup {NetOnly}
Empty == [gauge |-> [m \in Machine |-> Absent],
          series |-> [m \in Machine |-> {}],
          seen |-> [m \in Machine |-> 0]]
NoJob == [replica |-> "none", machine |-> "none", verdict |-> Normal]
Unknown == [replica |-> "none", verdict |-> Normal]

Gauges == [Machine -> {Absent, "normal", "anomalous"}]
Sample == [gauge : Gauges, series : [Machine -> SUBSET SeriesOf],
           seen : [Machine -> 0..MaxReadings[deployed]]]

TypeOK ==
    /\ deployed \in DOMAIN MaxReadings
    /\ clock \in 0..MaxReadings[deployed]
    /\ seen \in [Replica -> [Machine -> 0..MaxReadings[deployed]]]
    /\ gauge \in [Replica -> Gauges]
    /\ series \in [Replica -> [Machine -> SUBSET SeriesOf]]
    /\ causeLast \in [Replica -> [Machine -> SeriesOf \cup {NoSeries}]]
    /\ lock \in [Replica -> Handler \cup {"free"}]
    /\ pc \in [Handler -> {"idle", "seen", "gauge", "lock", "publish"}]
    /\ \A h \in Handler : pc[h] # "idle" => job[h] \in
         [replica : Replica, machine : Machine, verdict : Verdict]
    /\ scraping \in [Replica -> [step : {"verdict", "cause", "seen"}, sample : Sample]]
    /\ prom \in [Replica -> Sample]
    /\ mixed \subseteq Replica \X Machine
    /\ latest \in [Machine -> [replica : Replica \cup {"none"}, verdict : Verdict]]

NoScrape == [step |-> "verdict", sample |-> Empty]

Init ==
    /\ deployed \in DOMAIN MaxReadings
    /\ clock = 0
    /\ seen = [r \in Replica |-> Empty.seen]
    /\ gauge = [r \in Replica |-> Empty.gauge]
    /\ series = [r \in Replica |-> Empty.series]
    /\ causeLast = [r \in Replica |-> [m \in Machine |-> NoSeries]]
    /\ lock = [r \in Replica |-> "free"]
    /\ pc = [h \in Handler |-> "idle"]
    /\ job = [h \in Handler |-> NoJob]
    /\ scraping = [r \in Replica |-> NoScrape]
    /\ prom = [r \in Replica |-> Empty]
    /\ latest = [m \in Machine |-> Unknown]
    /\ mixed = {}

Goto(h, step) == pc' = [pc EXCEPT ![h] = step]
Busy == {h \in Handler : pc[h] # "idle"}
Serving(r, m) == {h \in Busy : job[h].replica = r /\ job[h].machine = m}

(***************************************************************************)
(* The handler.                                                            *)
(***************************************************************************)

\* predict() has scored a reading.
Begin(h) ==
    /\ pc[h] = "idle"
    /\ clock + Cardinality({g \in Handler : pc[g] = "seen"}) < MaxReadings[deployed]
    /\ \E r \in deployed, m \in Machine, v \in Verdict :
         /\ job' = [job EXCEPT ![h] = [replica |-> r, machine |-> m, verdict |-> v]]
         /\ mixed' = IF Serving(r, m) = {} THEN mixed \ {<<r, m>>} ELSE mixed \cup {<<r, m>>}
    /\ Goto(h, "seen")
    /\ UNCHANGED <<clock, metrics, prometheus, latest>>

\* MACHINE_LAST_SEEN is set to the time.
Seen(h) ==
    LET j == job[h] IN
    /\ pc[h] = "seen"
    /\ clock' = clock + 1
    /\ seen' = [seen EXCEPT ![j.replica][j.machine] = clock + 1]
    /\ latest' = [latest EXCEPT ![j.machine] = [replica |-> j.replica, verdict |-> j.verdict]]
    /\ Goto(h, "gauge")
    /\ UNCHANGED <<gauge, series, causeLast, lock, job, prometheus, mixed>>

\* CURRENTLY_ANOMALOUS is set.
SetGauge(h) ==
    LET j == job[h] IN
    /\ pc[h] = "gauge"
    /\ gauge' = [gauge EXCEPT ![j.replica][j.machine] = State(j.verdict)]
    /\ Goto(h, "lock")
    /\ UNCHANGED <<clock, seen, series, causeLast, lock, job, prometheus, ghosts>>

NewSeries(j) == IF Anomalous(j.verdict) THEN j.verdict ELSE NoSeries

\* A plausible slip: the table is not protected by the lock.
RemoveUnlocked(h) ==
    LET j == job[h]
        prev == causeLast[j.replica][j.machine]
    IN
    /\ pc[h] = "lock"
    /\ IF prev # NewSeries(j)
       THEN /\ series' = [series EXCEPT ![j.replica][j.machine] = @ \ {prev}]
            /\ causeLast' = [causeLast EXCEPT ![j.replica][j.machine] = NoSeries]
       ELSE UNCHANGED <<series, causeLast>>
    /\ Goto(h, "publish")
    /\ UNCHANGED <<clock, seen, gauge, lock, job, prometheus, ghosts>>

\* A plausible slip: a normal verdict leaves the series in place.
RemoveChangedOnly(h) ==
    LET j == job[h]
        prev == causeLast[j.replica][j.machine]
    IN
    /\ pc[h] = "lock"
    /\ lock[j.replica] = "free"
    /\ lock' = [lock EXCEPT ![j.replica] = h]
    /\ IF Anomalous(j.verdict) /\ prev # NewSeries(j)
       THEN /\ series' = [series EXCEPT ![j.replica][j.machine] = @ \ {prev}]
            /\ causeLast' = [causeLast EXCEPT ![j.replica][j.machine] = NoSeries]
       ELSE UNCHANGED <<series, causeLast>>
    /\ Goto(h, "publish")
    /\ UNCHANGED <<clock, seen, gauge, job, prometheus, ghosts>>

\* _set_cause_metric: the lock is taken and the previous series removed.
RemoveCause(h) ==
    LET j == job[h]
        prev == causeLast[j.replica][j.machine]
    IN
    /\ pc[h] = "lock"
    /\ lock[j.replica] = "free"
    /\ lock' = [lock EXCEPT ![j.replica] = h]
    /\ IF prev # NewSeries(j)
       THEN /\ series' = [series EXCEPT ![j.replica][j.machine] = @ \ {prev}]
            /\ causeLast' = [causeLast EXCEPT ![j.replica][j.machine] = NoSeries]
       ELSE UNCHANGED <<series, causeLast>>
    /\ Goto(h, "publish")
    /\ UNCHANGED <<clock, seen, gauge, job, prometheus, ghosts>>

\* The new series is added, the lock released and the request answered.
AddCause(h) ==
    LET j == job[h]
        new == NewSeries(j)
    IN
    /\ pc[h] = "publish"
    /\ lock' = [lock EXCEPT ![j.replica] = "free"]
    /\ IF new # NoSeries
       THEN /\ series' = [series EXCEPT ![j.replica][j.machine] = @ \cup {new}]
            /\ causeLast' = [causeLast EXCEPT ![j.replica][j.machine] = new]
       ELSE UNCHANGED <<series, causeLast>>
    /\ Goto(h, "idle")
    /\ job' = [job EXCEPT ![h] = NoJob]
    /\ UNCHANGED <<clock, seen, gauge, prometheus, ghosts>>

Handle(h) == Seen(h) \/ SetGauge(h) \/ RemoveCause(h) \/ AddCause(h)

(***************************************************************************)
(* The scrape: families in the order they are registered.                  *)
(***************************************************************************)

ScrapeVerdict(r) ==
    /\ scraping[r].step = "verdict"
    /\ scraping' = [scraping EXCEPT ![r] = [step |-> "cause",
                                            sample |-> [Empty EXCEPT !.gauge = gauge[r]]]]
    /\ UNCHANGED <<clock, metrics, handlers, prom, ghosts>>

ScrapeCause(r) ==
    /\ scraping[r].step = "cause"
    /\ scraping' = [scraping EXCEPT ![r] = [step |-> "seen",
                                            sample |-> [@.sample EXCEPT !.series = series[r]]]]
    /\ UNCHANGED <<clock, metrics, handlers, prom, ghosts>>

ScrapeSeen(r) ==
    /\ scraping[r].step = "seen"
    /\ prom' = [prom EXCEPT ![r] = [scraping[r].sample EXCEPT !.seen = seen[r]]]
    /\ scraping' = [scraping EXCEPT ![r] = NoScrape]
    /\ UNCHANGED <<clock, metrics, handlers, ghosts>>

Scrape(r) == ScrapeVerdict(r) \/ ScrapeCause(r) \/ ScrapeSeen(r)

\* A replica is replaced: its gauges, its handlers and its series are gone.
ReplicaRestarts(r) ==
    LET mine == {h \in Busy : job[h].replica = r} IN
    /\ seen' = [seen EXCEPT ![r] = Empty.seen]
    /\ gauge' = [gauge EXCEPT ![r] = Empty.gauge]
    /\ series' = [series EXCEPT ![r] = Empty.series]
    /\ causeLast' = [causeLast EXCEPT ![r] = [m \in Machine |-> NoSeries]]
    /\ lock' = [lock EXCEPT ![r] = "free"]
    /\ pc' = [h \in Handler |-> IF h \in mine THEN "idle" ELSE pc[h]]
    /\ job' = [h \in Handler |-> IF h \in mine THEN NoJob ELSE job[h]]
    /\ scraping' = [scraping EXCEPT ![r] = NoScrape]
    /\ prom' = [prom EXCEPT ![r] = Empty]
    /\ latest' = [m \in Machine |-> IF latest[m].replica = r THEN Unknown ELSE latest[m]]
    /\ mixed' = mixed \ ({r} \X Machine)
    /\ UNCHANGED clock

Next ==
    /\ UNCHANGED deployed
    /\ \/ \E h \in Handler : Begin(h) \/ Handle(h)
       \/ \E r \in deployed : Scrape(r) \/ ReplicaRestarts(r)

Fairness ==
    /\ \A h \in Handler : WF_vars(Handle(h) /\ UNCHANGED deployed)
    /\ \A r \in Replica : WF_vars(r \in deployed /\ Scrape(r) /\ UNCHANGED deployed)

Spec == Init /\ [][Next]_vars /\ Fairness

(***************************************************************************)
(* What is read from Prometheus.                                           *)
(***************************************************************************)

\* A plausible slip: the replica's own freshness is not compared.
AnyReplica(m) == {r \in Replica : prom[r].seen[m] > 0}

\* The replicas whose last sighting of the machine is the latest of all.
Freshest(m) ==
    {r \in Replica : prom[r].seen[m] > 0 /\ \A q \in Replica : prom[q].seen[m] <= prom[r].seen[m]}

\* fleet:machine_anomalous:fresh
AnomalousNow(m) == \E r \in Freshest(m) : prom[r].gauge[m] = "anomalous"

\* fleet:machine_net_only:fresh
NetOnlyNow(m) == \E r \in Freshest(m) : NetOnly \in prom[r].series[m]

(***************************************************************************)
(* Properties.                                                             *)
(***************************************************************************)

\* No replica exports two causes for one machine, and none that _CAUSE_LAST does
\* not know and so could never remove, whichever handlers run at the same time
\* (_set_cause_metric under _CAUSE_LOCK).
OneCause ==
    \A r \in Replica, m \in Machine :
        series[r][m] = IF causeLast[r][m] = NoSeries THEN {} ELSE {causeLast[r][m]}

Matches(r, m) == series[r][m] # {} <=> gauge[r][m] = "anomalous"

\* A replica that serves a machine's readings one after the other exports a cause
\* for it exactly while it exports it as anomalous; and readings that overlapped
\* leave nothing behind that the next undisturbed one does not repair
\* (_record_prediction_metrics, _set_cause_metric).
CauseWhileAnomalous ==
    \A r \in Replica, m \in Machine :
        Serving(r, m) = {} /\ <<r, m>> \notin mixed => Matches(r, m)

\* Once readings stop, the scraped state of every machine settles on its latest
\* verdict, and on the model that flagged it, whichever replicas served it before
\* or at the same time, and however the scrapes cut through the handlers; unless
\* the replica that served it last is gone and took its gauges along, or served it
\* twice at once.
Settles ==
    \A r \in Replica, m \in Machine, v \in Verdict :
        <>[](latest[m] = [replica |-> r, verdict |-> v] /\ <<r, m>> \notin mixed)
            => <>[](/\ AnomalousNow(m) <=> Anomalous(v)
                    /\ NetOnlyNow(m) <=> v = NetOnly)
=============================================================================
