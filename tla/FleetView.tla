------------------------------ MODULE FleetView -------------------------------
(***************************************************************************)
(* What is concluded about a router from the verdicts on its machines: the *)
(* state the Fleet tab gives it (api/app.py, ui_fleet, with api/fleet_     *)
(* rules.py), and the ranking of root causes that the production agent     *)
(* asks for (monitoring/production_agent.py, relay_root_cause; app.py,     *)
(* root_cause; ml-model/root_cause.py).  Both read Prometheus in two       *)
(* queries, between which machines go on reporting.                        *)
(*                                                                         *)
(* The freshest series per machine (see ServingMetrics) stand for the      *)
(* pods.  A share is a pair of integers.                                   *)
(***************************************************************************)
EXTENDS Integers, Sequences, FiniteSets

CONSTANTS
    Fleet,        \* the machines, in build_fleet's order
    IsRouter,     \* the routers among them
    Apart,        \* firewalls and dns servers: they depend on no router
    Score,        \* the classifier's probabilities, in hundredths
    MinGroup, SuspectShare, QuietShare, StaleShare,
    MaxReports    \* bound: reports and outages

Member == {Fleet[i] : i \in DOMAIN Fleet}
Weight == 15      \* DOWNSTREAM_WEIGHT, in hundredths
None == "none"

\* build_dependency_graph: the machines take the routers in turn.
Place(m) == CHOOSE i \in DOMAIN Fleet : Fleet[i] = m
Router(k) == CHOOSE r \in IsRouter : Cardinality({q \in IsRouter : Place(q) < Place(r)}) = k
Dependent == IF IsRouter = {} THEN {} ELSE Member \ (IsRouter \cup Apart)
DependsOn == [m \in Dependent |-> Router((Place(m) - 1) % Cardinality(IsRouter))]
DownstreamOf == [r \in IsRouter |-> {m \in DOMAIN DependsOn : DependsOn[m] = r}]

VARIABLES
    gauge,    \* of each machine: api_currently_anomalous, or None
    score,    \* api_classifier_p_anomaly
    silent,   \* the machines that last reported over STALE_AFTER_S ago
    reports,  \* reports and outages so far
    page,     \* what a request of the Fleet tab has read, or answered
    relay,    \* what the relay has read, or sent
    ranked    \* the last answer of /root-cause

vars == <<gauge, score, silent, reports, page, relay, ranked>>

(***************************************************************************)
(* api/fleet_rules.py                                                      *)
(***************************************************************************)

AtLeast(n, d, share) == n * share[2] >= share[1] * d
Below(n, d, share) == n * share[2] < share[1] * d

\* classify
Classify(seen, stale, live, bad, hub) ==
    LET of == IF live > 0 THEN live ELSE 1 IN    \* bad = 0 when nothing is live
    IF stale >= MinGroup /\ AtLeast(stale, seen, StaleShare) THEN "unreachable"
    ELSE IF bad >= MinGroup /\ AtLeast(bad, of, SuspectShare)
    THEN IF hub THEN "router_incident" ELSE "gray_suspected"
    ELSE IF hub /\ Below(bad, of, QuietShare) THEN "router_only" ELSE "ok"

\* classify_arrays, of one element: the first condition that holds (numpy select)
ClassifyArrays(seen, stale, live, bad, hub) ==
    LET share(quota) == IF live > 0 THEN AtLeast(bad, live, quota) ELSE AtLeast(0, 1, quota)
        unreachable == stale >= MinGroup /\ AtLeast(stale, seen, StaleShare)
        group == bad >= MinGroup /\ share(SuspectShare)
        choices == <<unreachable, group /\ hub, group, hub /\ ~ share(QuietShare)>>
        names == <<"unreachable", "router_incident", "gray_suspected", "router_only">>
        first == {i \in 1..4 : choices[i] /\ \A j \in 1..(i - 1) : ~ choices[j]}
    IN IF first = {} THEN "ok" ELSE names[CHOOSE i \in first : TRUE]

\* The counts router_states takes of a router, where v is what was read of the machines.
Counts(v, r) ==
    LET seen == {m \in DownstreamOf[r] : v.anomalous[m] # None}
        stale == seen \cap v.stale
        live == seen \ v.stale
    IN [seen |-> Cardinality(seen), stale |-> Cardinality(stale), live |-> Cardinality(live),
        bad |-> Cardinality({m \in live : v.anomalous[m] = "yes"}),
        hub |-> v.anomalous[r] = "yes" /\ r \notin v.stale]

RouterStates(v) ==
    [r \in IsRouter |-> LET c == Counts(v, r) IN Classify(c.seen, c.stale, c.live, c.bad, c.hub)]

(***************************************************************************)
(* ml-model/root_cause.py                                                  *)
(***************************************************************************)

Downstream(batch, m) == IF m \in IsRouter THEN DownstreamOf[m] \cap DOMAIN batch ELSE {}

Role(batch, m) ==
    CASE Downstream(batch, m) # {} -> "likely_root_cause"
      [] m \in DOMAIN DependsOn /\ DependsOn[m] \in DOMAIN batch -> "downstream_effect"
      [] OTHER -> "isolated"

\* score_root_causes: the machines with their roles and scores, before they are sorted.
ScoreRootCauses(batch) ==
    {[machine |-> m, role |-> Role(batch, m),
      score |-> batch[m] + Weight * Cardinality(Downstream(batch, m))] : m \in DOMAIN batch}

(***************************************************************************)
(* The actions.                                                            *)
(***************************************************************************)

Idle == [step |-> "idle", anomalous |-> [m \in Member |-> None], stale |-> {}]
NoRelay == [step |-> "idle", machines |-> {}]

TypeOK ==
    /\ gauge \in [Member -> {"yes", "no", None}]
    /\ score \in [Member -> Score \cup {0}]
    /\ silent \subseteq Member
    /\ reports \in 0..MaxReports
    /\ page.step \in {"idle", "ages", "shown"} /\ page.stale \subseteq Member
    /\ page.anomalous \in [Member -> {"yes", "no", None}]
    /\ relay.step \in {"idle", "scores", "dead"} /\ relay.machines \subseteq Member
    /\ \A e \in ranked : e.machine \in Member

\* The fleet has reported; some machines are silent by now.
Init ==
    /\ gauge \in [Member -> {"yes", "no"}]
    /\ score = [m \in Member |-> 0]
    /\ silent \in SUBSET Member
    /\ reports = 0
    /\ page = Idle /\ relay = NoRelay /\ ranked = {}

\* A machine's report is served: its verdict and its score are exported.
Report(m) ==
    /\ reports < MaxReports
    /\ reports' = reports + 1
    /\ \E v \in {"yes", "no"}, p \in Score :
         /\ gauge' = [gauge EXCEPT ![m] = v]
         /\ score' = [score EXCEPT ![m] = p]
    /\ silent' = silent \ {m}
    /\ UNCHANGED <<page, relay, ranked>>

\* A machine has been silent for STALE_AFTER_S, or the only pod that served it is gone.
FallsSilent(m) ==
    /\ reports < MaxReports
    /\ reports' = reports + 1
    /\ \/ silent' = silent \cup {m} /\ UNCHANGED <<gauge, score>>
       \/ /\ gauge' = [gauge EXCEPT ![m] = None] /\ score' = [score EXCEPT ![m] = 0]
          /\ silent' = silent \ {m}
    /\ UNCHANGED <<page, relay, ranked>>

\* ui_fleet: the verdicts are read; or Prometheus does not answer and nothing is known.
PageReads ==
    /\ page.step # "ages"
    /\ page' \in {[step |-> "ages", anomalous |-> gauge, stale |-> {}], [Idle EXCEPT !.step = "shown"]}
    /\ UNCHANGED <<gauge, score, silent, reports, relay, ranked>>

\* A plausible slip: ages that could not be read count as too old.
PageAgesAllStale ==
    /\ page.step = "ages"
    /\ \E stale \in {silent, Member} :
         page' = [step |-> "shown", anomalous |-> page.anomalous,
                  stale |-> {m \in stale : page.anomalous[m] # None}]
    /\ UNCHANGED <<gauge, score, silent, reports, relay, ranked>>

\* The ages are read, of the machines whose verdict was; or they are not, and
\* nothing is marked stale.
PageAges ==
    /\ page.step = "ages"
    /\ \E stale \in {silent, {}} :
         page' = [step |-> "shown", anomalous |-> page.anomalous,
                  stale |-> {m \in stale : page.anomalous[m] # None /\ gauge[m] # None}]
    /\ UNCHANGED <<gauge, score, silent, reports, relay, ranked>>

\* relay_root_cause: the anomalous machines are read.
RelayReads ==
    /\ relay.step = "idle"
    /\ relay' = [step |-> "scores", machines |-> {m \in Member : gauge[m] = "yes"}]
    /\ relay'.machines # {}
    /\ UNCHANGED <<gauge, score, silent, reports, page, ranked>>

\* The handler ranks what it is sent; or the request fails on its way.
RootCause(batch) == {ScoreRootCauses(batch), ranked}

\* Their scores are read, 1.0 where there is none, and ranked; or the query or the
\* request fails, or raises what nothing catches, which ends the thread.
RelayAsks ==
    /\ relay.step = "scores"
    /\ relay' \in {NoRelay, [NoRelay EXCEPT !.step = "dead"]}
    /\ \E read \in {score, [m \in Member |-> 0]} :
         LET batch == [m \in relay.machines |-> IF read[m] = 0 THEN 100 ELSE read[m]] IN
         ranked' \in RootCause(batch)
    /\ UNCHANGED <<gauge, score, silent, reports, page>>

Next ==
    \/ \E m \in Member : Report(m) \/ FallsSilent(m)
    \/ PageReads \/ PageAges \/ RelayReads \/ RelayAsks

Spec == Init /\ [][Next]_vars

(***************************************************************************)
(* Properties.                                                             *)
(***************************************************************************)

\* The rule of the Fleet tab and the one its evaluation sweeps give every router
\* the same state, whatever of its machines has been read (fleet_rules.py).
ArraysAgree ==
    \A r \in IsRouter :
        LET c == Counts(page, r) IN
        RouterStates(page)[r] = ClassifyArrays(c.seen, c.stale, c.live, c.bad, c.hub)

\* No answer of /root-cause calls a machine an effect without naming the cause: its
\* router is in the same answer, as a likely root cause (score_root_causes, with the
\* graph that build_dependency_graph writes in both directions).
EffectsHaveACause ==
    \A e \in ranked : e.role = "downstream_effect" =>
        \E c \in ranked : c.machine = DependsOn[e.machine] /\ c.role = "likely_root_cause"

\* A router the Fleet tab blames for an incident together with its machines is also
\* a likely root cause for the relay that reads the same gauges.
IncidentIsRanked ==
    LET now == [anomalous |-> gauge, stale |-> silent]
        batch == [m \in {m \in Member : gauge[m] = "yes"} |-> 100]
    IN \A r \in IsRouter : RouterStates(now)[r] = "router_incident" =>
         r \in DOMAIN batch /\ Role(batch, r) = "likely_root_cause"

\* A router shown as unreachable has lost the group that calls for it: so many of its
\* machines that were seen were silent when the ages were read, and no failed query and
\* no machine that reports in between makes up for one.
UnreachableIsSilent ==
    [][\A r \in IsRouter :
        page'.step = "shown" /\ page.step = "ages" /\ RouterStates(page')[r] = "unreachable" =>
            LET lost == Cardinality(silent \cap DownstreamOf[r])
                seen == Cardinality({m \in DownstreamOf[r] : page.anomalous[m] # None})
            IN lost >= MinGroup /\ AtLeast(lost, seen, StaleShare)]_vars
===============================================================================
