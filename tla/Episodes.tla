------------------------------- MODULE Episodes -------------------------------
(***************************************************************************)
(* The History tab (api/app.py: ui_history, ui_history_episode): past      *)
(* episodes made of the samples of a range query, and what one of them     *)
(* looked like.  Times are in scrapes of 15 s; the verdict on a machine is *)
(* the fresh one of ServingMetrics, and is scraped after the reading that  *)
(* changed it was logged.                                                  *)
(***************************************************************************)
EXTENDS Integers, FiniteSets, FiniteSetsExt

CONSTANTS
    Watched,     \* the machines, by number
    Hour,        \* the scrapes of an hour
    MaxPoints,   \* _HISTORY_MAX_POINTS
    MaxEpisodes, \* _HISTORY_MAX_EPISODES
    Points,      \* _EPISODE_POINTS
    ChartPad, ReadPad, \* _EPISODE_PAD_S; what is added before an episode for its readings
    MaxHours,    \* hours a request may ask for
    Now          \* bound: the scrapes there are

VARIABLES
    trace,    \* of each scrape, the machines whose verdict was anomalous
    history,  \* the last answer of /ui/history
    detail    \* the last answer of /ui/history/episode

vars == <<trace, history, detail>>

Ceil(a, b) == (a + b - 1) \div b
Least(a, b) == IF a < b THEN a ELSE b
Greatest(a, b) == IF a > b THEN a ELSE b

\* _history_step: as few scrapes apart as keep the series under the limit of points.
HistoryStep(hours) == Ceil(hours * Hour, MaxPoints)

\* _prom_range: what a range query samples.
Samples(from, to, step) == {t \in from..to : (t - from) % step = 0}
Anomalous(machine, times) == {t \in times : machine \in trace[t]}

Parted(t, prev, step) == 2 * (t - prev) > 3 * step

\* _episodes: the loop over the anomalous samples of one machine, in their order; of each
\* time, what it has by then.  prev = 0 before the first.
Loop(times, step) ==
    LET loop[t \in Nat] ==
            IF t = 0 THEN [out |-> {}, first |-> 0, prev |-> 0]
            ELSE LET r == loop[t - 1]
                     ends == r.prev # 0 /\ Parted(t, r.prev, step)
                 IN IF t \notin times THEN r
                    ELSE [out |-> IF ends THEN r.out \cup {<<r.first, r.prev>>} ELSE r.out,
                          first |-> IF ends \/ r.prev = 0 THEN t ELSE r.first,
                          prev |-> t]
    IN loop

EpisodesOf(machine, times, step, end) ==
    LET last == Loop(times, step)[end]
        pairs == IF last.prev = 0 THEN last.out ELSE last.out \cup {<<last.first, last.prev>>}
    IN {[machine |-> machine, start |-> p[1], end |-> p[2] + step, duration |-> p[2] - p[1] + step,
         ongoing |-> 2 * (end - p[2]) <= 3 * step] : p \in pairs}

\* Of the episodes, the newest first, those that are listed.
Newer(e, f) == e.start > f.start \/ (e.start = f.start /\ e.machine < f.machine)
Newest(episodes) == {e \in episodes : Cardinality({f \in episodes : Newer(f, e)}) < MaxEpisodes}

Duration(e) == e.duration

\* _history_by_machine
ByMachine(episodes) ==
    LET of(m) == {e \in episodes : e.machine = m} IN
    [m \in {e.machine : e \in episodes} |->
        [episodes |-> Cardinality(of(m)), anomalous |-> MapThenSumSet(Duration, of(m)),
         ongoing |-> \E e \in of(m) : e.ongoing]]

None == [step |-> 0, from |-> 0, shown |-> {}, machines |-> <<>>, truncated |-> 0]
NoDetail == [step |-> 0, of |-> <<>>, caused |-> 0, readings |-> {}, predictions |-> {}]

TypeOK ==
    /\ trace \in [1..Now -> SUBSET Watched]
    /\ Cardinality(history.shown) <= MaxEpisodes /\ history.truncated \in Nat
    /\ DOMAIN history.machines \subseteq Watched
    /\ detail.readings \cup detail.predictions \subseteq 0..Now

Init ==
    /\ trace \in [1..Now -> SUBSET Watched]
    /\ history = None /\ detail = NoDetail

\* ui_history; a Prometheus that does not answer is an error and nothing else.
UiHistory ==
    /\ \E hours \in 1..MaxHours :
         LET from == Now - hours * Hour
             step == HistoryStep(hours)
             all == UNION {EpisodesOf(m, Anomalous(m, Samples(from, Now, step)), step, Now) : m \in Watched}
         IN history' = [step |-> step, from |-> from, shown |-> Newest(all), machines |-> ByMachine(all),
                        truncated |-> Greatest(0, Cardinality(all) - MaxEpisodes)]
    /\ UNCHANGED <<trace, detail>>

During(t, e) == e.start <= t /\ t < e.end

\* The readings that were flagged, and all that were logged: a scrape before the verdict.
Flagged(machine) == {t - 1 : t \in Anomalous(machine, 1..Now)}

\* A plausible slip: the readings of an episode are looked for from its first sample on.
ReadingsFromStart(e) == {t \in Flagged(e.machine) : e.start <= t /\ t <= e.end + 1}

\* for_machine: the labels recorded around the episode
Readings(e) == {t \in Flagged(e.machine) : e.start <= t + ReadPad /\ t <= e.end + 1}

\* ui_history_episode, of an episode that is shown: any of the queries to Prometheus
\* may fail, and nothing is answered; without the cluster the rest is (_episode_predictions).
UiHistoryEpisode ==
    /\ \E e \in history.shown :
         LET from == IF e.start > ChartPad THEN e.start - ChartPad ELSE 1
             to == Least(e.end + ChartPad, Now)
             step == Greatest(1, Ceil(to - from, Points))
             logged == {t \in 0..Now : e.start <= t + ReadPad /\ t <= Least(e.end + ReadPad, Now)}
         IN \E predictions \in {logged, {}} :
              detail' = [step |-> step, of |-> <<e, history.step, history.from>>,
                         caused |-> step * Cardinality({t \in Anomalous(e.machine, Samples(from, to, step)) : During(t, e)}),
                         readings |-> Readings(e), predictions |-> predictions]
    /\ UNCHANGED <<trace, history>>

Next == UiHistory \/ UiHistoryEpisode

Spec == Init /\ [][Next]_vars

(***************************************************************************)
(* Properties.                                                             *)
(***************************************************************************)

\* An episode is a run of anomalous samples, as long as it can be: nothing that was seen
\* to end is bridged, and nothing that went on is cut (_episodes).
EpisodesAreRuns ==
    \A e \in history.shown :
        LET samples == Anomalous(e.machine, Samples(history.from, Now, history.step))
        IN /\ \A t \in Samples(e.start, e.end - history.step, history.step) : t \in samples
           /\ e.end \notin samples /\ (e.start - history.step) \notin samples

\* A machine's time adds up to its anomalous samples, each of which stands for a step,
\* however many of its episodes are left out of the list (ui_history).
TotalsAreComplete ==
    \A m \in Watched :
        LET samples == Anomalous(m, Samples(history.from, Now, history.step)) IN
        history.step # 0 /\ samples # {} =>
            m \in DOMAIN history.machines /\ history.machines[m].anomalous = history.step * Cardinality(samples)

\* The time given to a cause in the details of an episode is less than a step of theirs
\* longer than the episode, and all of it where both are sampled at every scrape.
CausesFit ==
    detail.step # 0 =>
        LET e == detail.of[1] IN
        /\ detail.caused < e.duration + detail.step
        /\ detail.step = 1 /\ detail.of[2] = 1 => detail.caused = e.duration

\* The readings shown with an episode include those that began it, although it may have
\* begun almost a step before its first sample; as long as a step is no longer than what
\* is added before the episode, which leaves out a week of history (_history_step).
ReadingsComplete ==
    detail.step # 0 /\ detail.of[2] <= ReadPad =>
        LET e == detail.of[1]
            begun == {t \in detail.of[3]..e.start : t > 0 /\ \A u \in t..e.start : e.machine \in trace[u]}
        IN \A t \in begun : t + detail.of[2] > e.start => (t - 1) \in detail.readings
==============================================================================
