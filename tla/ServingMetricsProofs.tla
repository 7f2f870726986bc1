------------------------- MODULE ServingMetricsProofs -------------------------
(***************************************************************************)
(* Proofs about ServingMetrics, for any replicas, machines, handlers and   *)
(* causes: a machine has one cause, and has it exactly while it is         *)
(* exported as anomalous, unless readings of it overlapped.                *)
(***************************************************************************)
EXTENDS ServingMetrics, FiniteSetTheorems, TLAPS

Job == [replica : Replica, machine : Machine, verdict : Verdict]

\* What the steps of the handlers need to know of the types.
Types ==
    /\ deployed \subseteq Replica
    /\ gauge \in [Replica -> Gauges]
    /\ series \in [Replica -> [Machine -> SUBSET SeriesOf]]
    /\ causeLast \in [Replica -> [Machine -> SeriesOf \cup {NoSeries}]]
    /\ lock \in [Replica -> Handler \cup {"free"}]
    /\ pc \in [Handler -> {"idle", "seen", "gauge", "lock", "publish"}]
    /\ job \in [Handler -> Job \cup {NoJob}]
    /\ \A h \in Handler : pc[h] # "idle" => job[h] \in Job

\* Between its two steps a handler holds the lock, and the table knows of no cause but
\* the one it is about to export.
Publishing ==
    \A h \in Handler : pc[h] = "publish" =>
        /\ lock[job[h].replica] = h
        /\ causeLast[job[h].replica][job[h].machine] \in {NoSeries, NewSeries(job[h])}

\* Unless readings overlapped, one handler at a time serves a machine, and the gauge is
\* its own once it has set it.
Alone ==
    \A h, g \in Handler :
        pc[h] # "idle" /\ pc[g] # "idle" /\ h # g
            /\ job[h].replica = job[g].replica /\ job[h].machine = job[g].machine
        => <<job[h].replica, job[h].machine>> \in mixed

GaugeSet ==
    \A h \in Handler :
        pc[h] \in {"lock", "publish"} /\ <<job[h].replica, job[h].machine>> \notin mixed
        => gauge[job[h].replica][job[h].machine] = State(job[h].verdict)

IInv == Types /\ Publishing /\ OneCause /\ Alone /\ GaugeSet /\ CauseWhileAnomalous

LEMMA InitIInv == Init => IInv
<1> SUFFICES ASSUME Init PROVE IInv
  OBVIOUS
<1> USE DEF Init, Empty
<1>1. Types
  BY ConstantsAssumption DEF Types, Gauges, NoJob
<1>2. Publishing /\ Alone /\ GaugeSet
  BY DEF Publishing, Alone, GaugeSet
<1>3. OneCause /\ CauseWhileAnomalous
  BY DEF OneCause, CauseWhileAnomalous, Matches, Absent
<1> QED
  BY <1>1, <1>2, <1>3 DEF IInv

\* A job's cause is one the replica may export, or none.
LEMMA NewSeriesType == \A j \in Job : NewSeries(j) \in SeriesOf \cup {NoSeries}
BY DEF Job, NewSeries, SeriesOf, Anomalous, Verdict

\* A reading is scored: the handler serves its machine from now on.
LEMMA BeginIInv == ASSUME IInv, UNCHANGED deployed, NEW h \in Handler, Begin(h) PROVE IInv'
<1> USE DEF IInv
<1>1. PICK r \in deployed, m \in Machine, v \in Verdict :
        /\ job' = [job EXCEPT ![h] = [replica |-> r, machine |-> m, verdict |-> v]]
        /\ mixed' = IF Serving(r, m) = {} THEN mixed \ {<<r, m>>} ELSE mixed \cup {<<r, m>>}
  BY DEF Begin
<1>2. /\ pc[h] = "idle" /\ pc' = [pc EXCEPT ![h] = "seen"]
      /\ UNCHANGED <<gauge, series, causeLast, lock>>
  BY DEF Begin, Goto, metrics
<1>3. r \in Replica
  BY DEF Types
<1>4. /\ job'[h] = [replica |-> r, machine |-> m, verdict |-> v]
      /\ job'[h] \in Job
      /\ job'[h].replica = r /\ job'[h].machine = m
      /\ \A g \in Handler \ {h} : job'[g] = job[g] /\ pc'[g] = pc[g]
      /\ pc'[h] = "seen"
  BY <1>1, <1>2, <1>3 DEF Types, Job
<1>5. Types'
  BY <1>1, <1>2, <1>4 DEF Types
<1>6. Publishing'
  BY <1>2, <1>4 DEF Publishing
<1>7. OneCause'
  BY <1>2 DEF OneCause
<1>8. \A g \in Handler \ {h} : pc[g] # "idle" /\ job[g].replica = r /\ job[g].machine = m
        => g \in Serving(r, m)
  BY DEF Serving, Busy
<1>9. Alone'
  <2> SUFFICES ASSUME NEW f \in Handler, NEW g \in Handler, pc'[f] # "idle", pc'[g] # "idle", f # g,
                      job'[f].replica = job'[g].replica, job'[f].machine = job'[g].machine
               PROVE <<job'[f].replica, job'[f].machine>> \in mixed'
    BY DEF Alone
  <2>1. CASE f = h \/ g = h
    <3>1. Serving(r, m) # {}
      BY <1>4, <1>8, <2>1
    <3> QED
      BY <1>1, <1>4, <2>1, <3>1
  <2>2. CASE f # h /\ g # h
    <3>1. <<job[f].replica, job[f].machine>> \in mixed
      BY <1>4, <2>2 DEF Alone
    <3>2. CASE Serving(r, m) = {}
      <4>1. ~ (job[f].replica = r /\ job[f].machine = m)
        BY <1>4, <1>8, <2>2, <3>2
      <4> QED
        BY <1>1, <1>4, <2>2, <3>1, <3>2, <4>1
    <3> QED
      BY <1>1, <1>4, <2>2, <3>1, <3>2
  <2> QED
    BY <2>1, <2>2
<1>10. GaugeSet'
  <2> SUFFICES ASSUME NEW g \in Handler, pc'[g] \in {"lock", "publish"},
                      <<job'[g].replica, job'[g].machine>> \notin mixed'
               PROVE gauge'[job'[g].replica][job'[g].machine] = State(job'[g].verdict)
    BY DEF GaugeSet
  <2>1. g # h
    BY <1>4
  <2>2. <<job[g].replica, job[g].machine>> \notin mixed
    <3>1. CASE Serving(r, m) = {}
      <4>1. ~ (job[g].replica = r /\ job[g].machine = m)
        BY <1>4, <1>8, <2>1, <3>1
      <4> QED
        BY <1>1, <1>4, <2>1, <3>1, <4>1
    <3> QED
      BY <1>1, <1>4, <2>1, <3>1
  <2> QED
    BY <1>2, <1>4, <2>1, <2>2 DEF GaugeSet
<1>11. CauseWhileAnomalous'
  <2> SUFFICES ASSUME NEW q \in Replica, NEW n \in Machine, Serving(q, n)' = {}, <<q, n>> \notin mixed'
               PROVE Matches(q, n)'
    BY DEF CauseWhileAnomalous
  <2>1. ~ (q = r /\ n = m)
    BY <1>4 DEF Serving, Busy
  <2>2. Serving(q, n) = {} /\ <<q, n>> \notin mixed
    BY <1>1, <1>2, <1>4, <2>1 DEF Serving, Busy
  <2> QED
    BY <1>2, <2>2 DEF CauseWhileAnomalous, Matches
<1> QED
  BY <1>5, <1>6, <1>7, <1>9, <1>10, <1>11

\* The time of the sighting is set: nothing the invariant speaks of.
LEMMA SeenIInv == ASSUME IInv, UNCHANGED deployed, NEW h \in Handler, Seen(h) PROVE IInv'
<1> USE DEF IInv
<1>1. /\ pc[h] = "seen" /\ pc' = [pc EXCEPT ![h] = "gauge"]
      /\ UNCHANGED <<gauge, series, causeLast, lock, job, mixed>>
  BY DEF Seen, Goto
<1>2. Types'
  BY <1>1 DEF Types
<1>3. \A g \in Handler : pc'[g] # "idle" <=> pc[g] # "idle"
  BY <1>1 DEF Types
<1>4. Publishing' /\ OneCause' /\ Alone'
  BY <1>1, <1>3 DEF Types, Publishing, OneCause, Alone
<1>5. GaugeSet'
  BY <1>1 DEF Types, GaugeSet
<1>6. CauseWhileAnomalous'
  BY <1>1, <1>3 DEF CauseWhileAnomalous, Matches, Serving, Busy
<1> QED
  BY <1>2, <1>4, <1>5, <1>6

\* The gauge takes the verdict of the handler that is alone with its machine.
LEMMA SetGaugeIInv == ASSUME IInv, UNCHANGED deployed, NEW h \in Handler, SetGauge(h) PROVE IInv'
<1> USE DEF IInv
<1> DEFINE r == job[h].replica
           m == job[h].machine
<1>1. /\ pc[h] = "gauge" /\ pc' = [pc EXCEPT ![h] = "lock"]
      /\ gauge' = [gauge EXCEPT ![r][m] = State(job[h].verdict)]
      /\ UNCHANGED <<series, causeLast, lock, job, mixed>>
  BY DEF SetGauge, Goto, ghosts
<1>2. job[h] \in Job /\ r \in Replica /\ m \in Machine
  BY <1>1 DEF Types, Job
<1>3. /\ gauge' \in [Replica -> Gauges]
      /\ gauge'[r][m] = State(job[h].verdict)
      /\ \A q \in Replica, n \in Machine : ~ (q = r /\ n = m) => gauge'[q][n] = gauge[q][n]
  BY <1>1, <1>2 DEF Types, Gauges, State
<1>4. \A g \in Handler : /\ pc'[g] # "idle" <=> pc[g] # "idle"
                         /\ g # h => pc'[g] = pc[g]
  BY <1>1 DEF Types
<1>5. Types'
  BY <1>1, <1>3, <1>4 DEF Types
<1>6. Publishing' /\ OneCause' /\ Alone'
  BY <1>1, <1>4 DEF Types, Publishing, OneCause, Alone
<1>7. GaugeSet'
  <2> SUFFICES ASSUME NEW g \in Handler, pc'[g] \in {"lock", "publish"},
                      <<job[g].replica, job[g].machine>> \notin mixed
               PROVE gauge'[job[g].replica][job[g].machine] = State(job[g].verdict)
    BY <1>1 DEF GaugeSet
  <2>1. CASE g = h
    BY <1>3, <2>1
  <2>2. CASE g # h
    <3>1. pc[g] \in {"lock", "publish"} /\ job[g] \in Job
      BY <1>4, <2>2 DEF Types
    <3>2. ~ (job[g].replica = r /\ job[g].machine = m)
      BY <1>1, <2>2, <3>1 DEF Alone
    <3> QED
      BY <1>3, <3>1, <3>2 DEF GaugeSet, Job
  <2> QED
    BY <2>1, <2>2
<1>8. CauseWhileAnomalous'
  <2> SUFFICES ASSUME NEW q \in Replica, NEW n \in Machine, Serving(q, n)' = {}, <<q, n>> \notin mixed
               PROVE Matches(q, n)'
    BY <1>1 DEF CauseWhileAnomalous
  <2>1. Serving(q, n) = {} /\ ~ (q = r /\ n = m)
    BY <1>1, <1>4 DEF Serving, Busy
  <2> QED
    BY <1>1, <1>3, <2>1 DEF CauseWhileAnomalous, Matches
<1> QED
  BY <1>5, <1>6, <1>7, <1>8

\* The lock is taken and the series of another cause removed.
LEMMA RemoveCauseIInv == ASSUME IInv, UNCHANGED deployed, NEW h \in Handler, RemoveCause(h) PROVE IInv'
<1> USE DEF IInv
<1> DEFINE r == job[h].replica
           m == job[h].machine
           new == NewSeries(job[h])
<1>1. /\ pc[h] = "lock" /\ pc' = [pc EXCEPT ![h] = "publish"]
      /\ lock[r] = "free" /\ lock' = [lock EXCEPT ![r] = h]
      /\ UNCHANGED <<gauge, job, mixed>>
  BY DEF RemoveCause, Goto, ghosts
<1>2. job[h] \in Job /\ r \in Replica /\ m \in Machine
  BY <1>1 DEF Types, Job
<1>3. /\ series' \in [Replica -> [Machine -> SUBSET SeriesOf]]
      /\ causeLast' \in [Replica -> [Machine -> SeriesOf \cup {NoSeries}]]
      /\ \A q \in Replica, n \in Machine : ~ (q = r /\ n = m) =>
            series'[q][n] = series[q][n] /\ causeLast'[q][n] = causeLast[q][n]
      /\ causeLast'[r][m] \in {NoSeries, new}
      /\ series'[r][m] = IF causeLast'[r][m] = NoSeries THEN {} ELSE {causeLast'[r][m]}
  <2>1. series[r][m] = IF causeLast[r][m] = NoSeries THEN {} ELSE {causeLast[r][m]}
    BY <1>2 DEF OneCause
  <2>2. CASE causeLast[r][m] # new
    <3>1. /\ series' = [series EXCEPT ![r][m] = @ \ {causeLast[r][m]}]
          /\ causeLast' = [causeLast EXCEPT ![r][m] = NoSeries]
      BY <2>2 DEF RemoveCause
    <3>2. series[r] \in [Machine -> SUBSET SeriesOf] /\ causeLast[r] \in [Machine -> SeriesOf \cup {NoSeries}]
      BY <1>2 DEF Types
    <3> QED
      BY <1>2, <2>1, <3>1, <3>2 DEF Types
  <2>3. CASE causeLast[r][m] = new
    <3>1. UNCHANGED <<series, causeLast>>
      BY <2>3 DEF RemoveCause
    <3> QED
      BY <2>1, <2>3, <3>1 DEF Types
  <2> QED
    BY <2>2, <2>3
<1>4. \A g \in Handler : /\ pc'[g] # "idle" <=> pc[g] # "idle"
                         /\ g # h => pc'[g] = pc[g]
  BY <1>1 DEF Types
<1>5. Types'
  BY <1>1, <1>2, <1>3, <1>4 DEF Types
<1>6. Publishing'
  <2> SUFFICES ASSUME NEW g \in Handler, pc'[g] = "publish"
               PROVE /\ lock'[job[g].replica] = g
                     /\ causeLast'[job[g].replica][job[g].machine] \in {NoSeries, NewSeries(job[g])}
    BY <1>1 DEF Publishing
  <2>1. CASE g = h
    BY <1>1, <1>2, <1>3, <2>1 DEF Types
  <2>2. CASE g # h
    <3>1. job[g] \in Job /\ lock[job[g].replica] = g
      BY <1>4, <2>2 DEF Types, Publishing
    <3>2. job[g].replica # r
      BY <1>1, <3>1, ConstantsAssumption
    <3> QED
      BY <1>1, <1>3, <1>4, <2>2, <3>1, <3>2 DEF Types, Publishing, Job
  <2> QED
    BY <2>1, <2>2
<1>7. OneCause'
  <2> SUFFICES ASSUME NEW q \in Replica, NEW n \in Machine
               PROVE series'[q][n] = IF causeLast'[q][n] = NoSeries THEN {} ELSE {causeLast'[q][n]}
    BY DEF OneCause
  <2>1. CASE q = r /\ n = m
    BY <1>3, <2>1
  <2>2. CASE ~ (q = r /\ n = m)
    <3>1. series[q][n] = IF causeLast[q][n] = NoSeries THEN {} ELSE {causeLast[q][n]}
      BY DEF OneCause
    <3>2. series'[q][n] = series[q][n] /\ causeLast'[q][n] = causeLast[q][n]
      BY <1>3, <2>2
    <3> QED
      BY <3>1, <3>2
  <2> QED
    BY <2>1, <2>2
<1>8. Alone'
  BY <1>1, <1>4 DEF Alone
<1>9. GaugeSet'
  BY <1>1, <1>4 DEF GaugeSet
<1>10. CauseWhileAnomalous'
  <2> SUFFICES ASSUME NEW q \in Replica, NEW n \in Machine, Serving(q, n)' = {}, <<q, n>> \notin mixed
               PROVE Matches(q, n)'
    BY <1>1 DEF CauseWhileAnomalous
  <2>1. Serving(q, n) = {} /\ ~ (q = r /\ n = m)
    BY <1>1, <1>4 DEF Serving, Busy
  <2> QED
    BY <1>1, <1>3, <2>1 DEF CauseWhileAnomalous, Matches
<1> QED
  BY <1>5, <1>6, <1>7, <1>8, <1>9, <1>10

\* The new series is added and the request answered.
LEMMA AddCauseIInv == ASSUME IInv, UNCHANGED deployed, NEW h \in Handler, AddCause(h) PROVE IInv'
<1> USE DEF IInv
<1> DEFINE r == job[h].replica
           m == job[h].machine
           new == NewSeries(job[h])
<1>1. /\ pc[h] = "publish" /\ pc' = [pc EXCEPT ![h] = "idle"]
      /\ lock' = [lock EXCEPT ![r] = "free"]
      /\ job' = [job EXCEPT ![h] = NoJob]
      /\ UNCHANGED <<gauge, mixed>>
  BY DEF AddCause, Goto, ghosts
<1>2. job[h] \in Job /\ r \in Replica /\ m \in Machine /\ new \in SeriesOf \cup {NoSeries}
  BY <1>1, NewSeriesType DEF Types, Job
<1>3. /\ series' \in [Replica -> [Machine -> SUBSET SeriesOf]]
      /\ causeLast' \in [Replica -> [Machine -> SeriesOf \cup {NoSeries}]]
      /\ \A q \in Replica, n \in Machine : ~ (q = r /\ n = m) =>
            series'[q][n] = series[q][n] /\ causeLast'[q][n] = causeLast[q][n]
      /\ causeLast'[r][m] = new
      /\ series'[r][m] = IF new = NoSeries THEN {} ELSE {new}
  <2>1. /\ series[r][m] = IF causeLast[r][m] = NoSeries THEN {} ELSE {causeLast[r][m]}
        /\ causeLast[r][m] \in {NoSeries, new}
    BY <1>1, <1>2 DEF OneCause, Publishing
  <2>2. CASE new # NoSeries
    <3>1. /\ series' = [series EXCEPT ![r][m] = @ \cup {new}]
          /\ causeLast' = [causeLast EXCEPT ![r][m] = new]
      BY <2>2 DEF AddCause
    <3>2. series[r] \in [Machine -> SUBSET SeriesOf] /\ causeLast[r] \in [Machine -> SeriesOf \cup {NoSeries}]
      BY <1>2 DEF Types
    <3> QED
      BY <1>2, <2>1, <2>2, <3>1, <3>2 DEF Types
  <2>3. CASE new = NoSeries
    <3>1. UNCHANGED <<series, causeLast>>
      BY <2>3 DEF AddCause
    <3> QED
      BY <2>1, <2>3, <3>1 DEF Types
  <2> QED
    BY <2>2, <2>3
<1>4. /\ pc'[h] = "idle"
      /\ \A g \in Handler \ {h} : pc'[g] = pc[g] /\ job'[g] = job[g]
  BY <1>1 DEF Types
<1>5. Types'
  BY <1>1, <1>2, <1>3, <1>4 DEF Types
<1>6. Publishing'
  <2> SUFFICES ASSUME NEW g \in Handler, pc'[g] = "publish"
               PROVE /\ lock'[job'[g].replica] = g
                     /\ causeLast'[job'[g].replica][job'[g].machine] \in {NoSeries, NewSeries(job'[g])}
    BY DEF Publishing
  <2>1. g # h /\ pc[g] = "publish" /\ job'[g] = job[g]
    BY <1>4
  <2>2. job[g] \in Job /\ lock[job[g].replica] = g /\ lock[r] = h
    BY <1>1, <2>1 DEF Types, Publishing
  <2>3. job[g].replica # r
    BY <2>1, <2>2
  <2> QED
    BY <1>1, <1>3, <2>1, <2>2, <2>3 DEF Types, Publishing, Job
<1>7. OneCause'
  <2> SUFFICES ASSUME NEW q \in Replica, NEW n \in Machine
               PROVE series'[q][n] = IF causeLast'[q][n] = NoSeries THEN {} ELSE {causeLast'[q][n]}
    BY DEF OneCause
  <2>1. CASE q = r /\ n = m
    BY <1>3, <2>1
  <2>2. CASE ~ (q = r /\ n = m)
    BY <1>3, <2>2 DEF OneCause
  <2> QED
    BY <2>1, <2>2
<1>8. Alone'
  BY <1>1, <1>4 DEF Alone
<1>9. GaugeSet'
  <2> SUFFICES ASSUME NEW g \in Handler, pc'[g] \in {"lock", "publish"},
                      <<job'[g].replica, job'[g].machine>> \notin mixed
               PROVE gauge[job'[g].replica][job'[g].machine] = State(job'[g].verdict)
    BY <1>1 DEF GaugeSet
  <2>1. g # h /\ pc[g] \in {"lock", "publish"} /\ job'[g] = job[g]
    BY <1>4
  <2> QED
    BY <2>1 DEF GaugeSet
<1>10. CauseWhileAnomalous'
  <2> SUFFICES ASSUME NEW q \in Replica, NEW n \in Machine, Serving(q, n)' = {}, <<q, n>> \notin mixed
               PROVE series'[q][n] # {} <=> gauge[q][n] = "anomalous"
    BY <1>1 DEF CauseWhileAnomalous, Matches
  <2>1. CASE q = r /\ n = m
    <3>1. gauge[r][m] = State(job[h].verdict)
      BY <1>1, <2>1 DEF GaugeSet
    <3>2. new # NoSeries <=> Anomalous(job[h].verdict)
      BY <1>2, ConstantsAssumption DEF NewSeries, Anomalous, Job, Verdict, NoSeries, Normal
    <3> QED
      BY <1>3, <2>1, <3>1, <3>2 DEF State, Anomalous
  <2>2. CASE ~ (q = r /\ n = m)
    <3>1. Serving(q, n) = {}
      BY <1>1, <1>4, <2>2 DEF Serving, Busy
    <3> QED
      BY <1>3, <2>2, <3>1 DEF CauseWhileAnomalous, Matches
  <2> QED
    BY <2>1, <2>2
<1> QED
  BY <1>5, <1>6, <1>7, <1>8, <1>9, <1>10

\* A replica is replaced: what it exported and its handlers are gone.
LEMMA RestartIInv == ASSUME IInv, UNCHANGED deployed, NEW r \in Replica, ReplicaRestarts(r) PROVE IInv'
<1> USE DEF IInv
<1> DEFINE mine == {h \in Busy : job[h].replica = r}
<1>1. /\ gauge' = [gauge EXCEPT ![r] = [m \in Machine |-> Absent]]
      /\ series' = [series EXCEPT ![r] = [m \in Machine |-> {}]]
      /\ causeLast' = [causeLast EXCEPT ![r] = [m \in Machine |-> NoSeries]]
      /\ lock' = [lock EXCEPT ![r] = "free"]
      /\ pc' = [h \in Handler |-> IF h \in mine THEN "idle" ELSE pc[h]]
      /\ job' = [h \in Handler |-> IF h \in mine THEN NoJob ELSE job[h]]
      /\ mixed' = mixed \ ({r} \X Machine)
  BY DEF ReplicaRestarts, Empty
<1>2. \A h \in Handler : pc'[h] # "idle" =>
        pc[h] = pc'[h] /\ job'[h] = job[h] /\ job[h] \in Job /\ job[h].replica # r
  BY <1>1 DEF Types, Busy
<1>3. \A q \in Replica \ {r} : /\ gauge'[q] = gauge[q] /\ series'[q] = series[q]
                              /\ causeLast'[q] = causeLast[q] /\ lock'[q] = lock[q]
  BY <1>1 DEF Types
<1>4. \A q \in Replica \ {r}, m \in Machine : <<q, m>> \in mixed' <=> <<q, m>> \in mixed
  BY <1>1
<1>5. \A m \in Machine : gauge'[r][m] = Absent /\ series'[r][m] = {} /\ causeLast'[r][m] = NoSeries
  BY <1>1 DEF Types
<1>6. Types'
  BY <1>1, <1>2 DEF Types, Gauges
<1>7. Publishing'
  BY <1>2, <1>3 DEF Publishing, Job
<1>8. OneCause'
  <2> SUFFICES ASSUME NEW q \in Replica, NEW n \in Machine
               PROVE series'[q][n] = IF causeLast'[q][n] = NoSeries THEN {} ELSE {causeLast'[q][n]}
    BY DEF OneCause
  <2>1. CASE q = r
    BY <1>5, <2>1
  <2>2. CASE q # r
    <3>1. series[q][n] = IF causeLast[q][n] = NoSeries THEN {} ELSE {causeLast[q][n]}
      BY DEF OneCause
    <3> QED
      BY <1>3, <2>2, <3>1
  <2> QED
    BY <2>1, <2>2
<1>9. Alone'
  BY <1>2, <1>4 DEF Alone, Job
<1>10. GaugeSet'
  BY <1>2, <1>3, <1>4 DEF GaugeSet, Job
<1>11. CauseWhileAnomalous'
  <2> SUFFICES ASSUME NEW q \in Replica, NEW m \in Machine, Serving(q, m)' = {}, <<q, m>> \notin mixed'
               PROVE series'[q][m] # {} <=> gauge'[q][m] = "anomalous"
    BY DEF CauseWhileAnomalous, Matches
  <2>1. CASE q = r
    BY <1>5, <2>1 DEF Absent
  <2>2. CASE q # r
    <3>1. Serving(q, m) = {}
      BY <1>1, <2>2 DEF Serving, Busy
    <3> QED
      BY <1>3, <1>4, <2>2, <3>1 DEF CauseWhileAnomalous, Matches
  <2> QED
    BY <2>1, <2>2
<1> QED
  BY <1>6, <1>7, <1>8, <1>9, <1>10, <1>11

LEMMA NextIInv == IInv /\ [Next]_vars => IInv'
<1> SUFFICES ASSUME IInv, [Next]_vars PROVE IInv'
  OBVIOUS
<1>1. CASE UNCHANGED vars \/ \E r \in deployed : Scrape(r) /\ UNCHANGED deployed
  <2>1. UNCHANGED <<deployed, metrics, handlers, mixed>>
    BY <1>1 DEF vars, ghosts, Scrape, ScrapeVerdict, ScrapeCause, ScrapeSeen
  <2>2. Types' /\ Publishing' /\ Alone' /\ GaugeSet'
    BY <2>1 DEF IInv, Types, Publishing, Alone, GaugeSet, metrics, handlers
  <2>3. OneCause'
    BY <2>1 DEF IInv, OneCause, metrics
  <2>4. CauseWhileAnomalous'
    BY <2>1 DEF IInv, CauseWhileAnomalous, Matches, Serving, Busy, metrics, handlers
  <2> QED
    BY <2>2, <2>3, <2>4 DEF IInv
<1>2. CASE UNCHANGED deployed /\ \E r \in deployed : ReplicaRestarts(r)
  BY <1>2, RestartIInv DEF IInv, Types
<1>3. CASE UNCHANGED deployed /\ \E h \in Handler : Begin(h) \/ Handle(h)
  BY <1>3, BeginIInv, SeenIInv, SetGaugeIInv, RemoveCauseIInv, AddCauseIInv DEF Handle
<1> QED
  BY <1>1, <1>2, <1>3 DEF Next

LEMMA Invariant == Spec => []IInv
BY InitIInv, NextIInv, PTL DEF Spec

\* Whichever handlers run at once, no replica exports two causes for a machine, or one it
\* would never remove (_set_cause_metric under _CAUSE_LOCK).
THEOREM OneCauseHolds == Spec => []OneCause
<1>1. IInv => OneCause
  BY DEF IInv
<1> QED
  BY Invariant, <1>1, PTL

\* A replica exports a cause for a machine exactly while it exports it as anomalous, unless
\* its last readings overlapped (_record_prediction_metrics, _set_cause_metric).
THEOREM CauseGoesWithState == Spec => []CauseWhileAnomalous
<1>1. IInv => CauseWhileAnomalous
  BY DEF IInv
<1> QED
  BY Invariant, <1>1, PTL

-----------------------------------------------------------------------------
\* The readings that are scored and not yet published have their place below the bound.
Pending == {h \in Handler : pc[h] = "seen"}

InBound == clock + Cardinality(Pending) <= MaxReadings[deployed]

\* What the handlers' steps do not need of the types: the times, what is scraped, and
\* the ghosts.
Rest ==
    /\ deployed \in DOMAIN MaxReadings
    /\ clock \in 0..MaxReadings[deployed]
    /\ seen \in [Replica -> [Machine -> 0..MaxReadings[deployed]]]
    /\ scraping \in [Replica -> [step : {"verdict", "cause", "seen"}, sample : Sample]]
    /\ prom \in [Replica -> Sample]
    /\ mixed \subseteq Replica \X Machine
    /\ latest \in [Machine -> [replica : Replica \cup {"none"}, verdict : Verdict]]

LEMMA TypeOKParts == IInv /\ Rest => TypeOK
  BY DEF IInv, Types, Rest, TypeOK, Job

\* A set of handlers has a size.
LEMMA PendingFinite == IsFiniteSet(Pending) /\ Cardinality(Pending) \in Nat
  BY FS_Subset, FS_CardinalityType, ConstantsAssumption DEF Pending

\* A scrape that has read nothing, and a replica that exports nothing.
LEMMA EmptyType ==
    ASSUME deployed \in DOMAIN MaxReadings
    PROVE  Empty \in Sample /\ NoScrape \in [step : {"verdict", "cause", "seen"}, sample : Sample]
  BY ConstantsAssumption DEF Empty, Sample, Gauges, NoScrape

LEMMA InitRest == Init => Rest /\ InBound
<1> SUFFICES ASSUME Init PROVE Rest /\ InBound
  OBVIOUS
<1>1. MaxReadings[deployed] \in Nat /\ deployed \in DOMAIN MaxReadings
  BY ConstantsAssumption DEF Init
<1>2. Pending = {}
  BY DEF Init, Pending
<1>3. InBound
  BY <1>1, <1>2, FS_EmptySet DEF Init, InBound
<1>4. Empty.seen \in [Machine -> 0..MaxReadings[deployed]]
  BY <1>1 DEF Empty
<1> QED
  BY <1>1, <1>3, <1>4, EmptyType DEF Init, Rest, Unknown, Verdict

\* A step of a handler is counted before it is published, and published once.
LEMMA PendingSteps ==
    ASSUME IInv, Rest, InBound, UNCHANGED deployed, NEW h \in Handler, Begin(h) \/ Handle(h)
    PROVE  InBound' /\ clock' \in 0..MaxReadings[deployed]
<1>0. MaxReadings[deployed] \in Nat /\ clock \in Nat /\ pc \in [Handler -> {"idle", "seen", "gauge", "lock", "publish"}]
  BY ConstantsAssumption DEF IInv, Types, Rest
<1>1. CASE Begin(h)
  <2>1. Pending' = Pending \cup {h} /\ h \notin Pending /\ clock' = clock
    BY <1>0, <1>1 DEF Begin, Goto, Pending
  <2>2. Cardinality(Pending') = Cardinality(Pending) + 1
    BY <2>1, PendingFinite, FS_AddElement
  <2>3. clock + Cardinality(Pending) < MaxReadings[deployed]
    BY <1>1 DEF Begin, Pending
  <2> QED
    BY <1>0, <2>1, <2>2, <2>3, PendingFinite DEF InBound
<1>2. CASE Seen(h)
  <2>1. Pending' = Pending \ {h} /\ h \in Pending /\ clock' = clock + 1
    BY <1>0, <1>2 DEF Seen, Goto, Pending
  <2>2. Cardinality(Pending') = Cardinality(Pending) - 1
    BY <2>1, PendingFinite, FS_RemoveElement
  <2>3. Cardinality(Pending) - 1 \in Nat
    BY <2>1, <2>2, PendingFinite, FS_RemoveElement, FS_Subset, FS_CardinalityType
  <2> QED
    BY <1>0, <2>1, <2>2, <2>3, PendingFinite DEF InBound
<1>3. CASE SetGauge(h) \/ RemoveCause(h) \/ AddCause(h)
  <2>1. Pending' = Pending /\ clock' = clock
    BY <1>0, <1>3 DEF SetGauge, RemoveCause, AddCause, Goto, Pending
  <2> QED
    BY <1>0, <2>1, PendingFinite DEF InBound, Rest
<1> QED
  BY <1>1, <1>2, <1>3 DEF Handle

LEMMA NextRest == IInv /\ Rest /\ InBound /\ [Next]_vars => Rest' /\ InBound'
<1> SUFFICES ASSUME IInv, Rest, InBound, [Next]_vars PROVE Rest' /\ InBound'
  OBVIOUS
<1> USE DEF Rest
<1>0. UNCHANGED deployed /\ MaxReadings[deployed] \in Nat /\ deployed \subseteq Replica
  BY ConstantsAssumption DEF Next, vars, IInv, Types
<1>1. UNCHANGED deployed => UNCHANGED Sample
  BY DEF Sample
<1>2. CASE UNCHANGED vars
  <2>1. UNCHANGED Pending
    BY <1>2 DEF vars, handlers, Pending
  <2> QED
    BY <1>1, <1>2, <2>1 DEF vars, metrics, prometheus, ghosts, InBound
<1>3. ASSUME NEW h \in Handler, Begin(h) \/ Handle(h) PROVE Rest' /\ InBound'
  <2>1. InBound' /\ clock' \in 0..MaxReadings[deployed]
    BY <1>0, <1>3, PendingSteps
  <2>2. UNCHANGED prometheus
    BY <1>3 DEF Handle, Begin, Seen, SetGauge, RemoveCause, AddCause
  <2>3. seen' \in [Replica -> [Machine -> 0..MaxReadings[deployed]]]
    <3>1. CASE Seen(h)
      BY <2>1, <3>1 DEF Seen, IInv, Types, Job
    <3>2. CASE UNCHANGED seen
      BY <3>2
    <3> QED
      BY <1>3, <3>1, <3>2 DEF Handle, Begin, SetGauge, RemoveCause, AddCause, metrics
  <2>4. latest' \in [Machine -> [replica : Replica \cup {"none"}, verdict : Verdict]]
    <3>1. CASE Seen(h)
      <4>1. job[h] \in Job
        BY <3>1 DEF Seen, IInv, Types
      <4>2. [replica |-> job[h].replica, verdict |-> job[h].verdict] \in [replica : Replica \cup {"none"}, verdict : Verdict]
        BY <4>1 DEF Job
      <4> QED
        BY <3>1, <4>2 DEF Seen
    <3>2. CASE UNCHANGED latest
      BY <3>2
    <3> QED
      BY <1>3, <3>1, <3>2 DEF Handle, Begin, SetGauge, RemoveCause, AddCause, ghosts
  <2>5. mixed' \subseteq Replica \X Machine
    BY <1>0, <1>3 DEF Handle, Begin, Seen, SetGauge, RemoveCause, AddCause, ghosts
  <2> QED
    BY <1>0, <1>1, <2>1, <2>2, <2>3, <2>4, <2>5 DEF prometheus
<1>4. ASSUME NEW r \in deployed, Scrape(r) PROVE Rest' /\ InBound'
  <2>1. UNCHANGED <<clock, seen, mixed, latest, Pending>>
    BY <1>4 DEF Scrape, ScrapeVerdict, ScrapeCause, ScrapeSeen, metrics, handlers, ghosts, Pending
  <2>2. r \in Replica /\ scraping[r].sample \in Sample
    BY <1>0
  <2>3. gauge[r] \in Gauges /\ series[r] \in [Machine -> SUBSET SeriesOf] /\ seen[r] \in [Machine -> 0..MaxReadings[deployed]]
    BY <2>2 DEF IInv, Types
  <2>4. CASE ScrapeVerdict(r)
    <3>1. [Empty EXCEPT !.gauge = gauge[r]] \in Sample
      BY <2>3, EmptyType DEF Sample
    <3> QED
      BY <1>0, <1>1, <2>1, <2>4, <3>1 DEF ScrapeVerdict, InBound
  <2>5. CASE ScrapeCause(r)
    <3>1. [scraping[r].sample EXCEPT !.series = series[r]] \in Sample
      BY <2>2, <2>3 DEF Sample
    <3>2. scraping' = [scraping EXCEPT ![r] = [step |-> "seen", sample |-> [scraping[r].sample EXCEPT !.series = series[r]]]]
      BY <2>2, <2>5 DEF ScrapeCause
    <3> QED
      BY <1>0, <1>1, <2>1, <2>5, <3>1, <3>2 DEF ScrapeCause, InBound
  <2>6. CASE ScrapeSeen(r)
    <3>1. [scraping[r].sample EXCEPT !.seen = seen[r]] \in Sample
      BY <2>2, <2>3 DEF Sample
    <3> QED
      BY <1>0, <1>1, <2>1, <2>6, <3>1, EmptyType DEF ScrapeSeen, InBound
  <2> QED
    BY <1>4, <2>4, <2>5, <2>6 DEF Scrape
<1>5. ASSUME NEW r \in deployed, ReplicaRestarts(r) PROVE Rest' /\ InBound'
  <2>1. Pending' \subseteq Pending /\ clock' = clock
    BY <1>5 DEF ReplicaRestarts, Pending
  <2>2. Cardinality(Pending') <= Cardinality(Pending) /\ Cardinality(Pending') \in Nat
    BY <2>1, PendingFinite, FS_Subset, FS_CardinalityType
  <2>3. InBound'
    BY <1>0, <2>1, <2>2, PendingFinite DEF InBound
  <2>4. Empty.seen \in [Machine -> 0..MaxReadings[deployed]]
    BY <1>0 DEF Empty
  <2>5. mixed' \subseteq Replica \X Machine
    BY <1>5 DEF ReplicaRestarts
  <2>6. latest' \in [Machine -> [replica : Replica \cup {"none"}, verdict : Verdict]]
    BY <1>5 DEF ReplicaRestarts, Unknown, Verdict
  <2> QED
    BY <1>0, <1>1, <1>5, <2>1, <2>3, <2>4, <2>5, <2>6, EmptyType DEF ReplicaRestarts
<1> QED
  BY <1>2, <1>3, <1>4, <1>5 DEF Next

\* Type correctness: in particular no reading is published that has not been scored, so
\* that the times of the readings stay below the bound on them.
THEOREM TypeCorrect == Spec => []TypeOK
<1>1. Init => IInv /\ Rest /\ InBound
  BY InitIInv, InitRest
<1>2. IInv /\ Rest /\ InBound /\ [Next]_vars => (IInv /\ Rest /\ InBound)'
  BY NextIInv, NextRest
<1> QED
  BY <1>1, <1>2, TypeOKParts, PTL DEF Spec
=============================================================================
