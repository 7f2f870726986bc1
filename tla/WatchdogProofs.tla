--------------------------- MODULE WatchdogProofs ---------------------------
(***************************************************************************)
(* Proofs about Watchdog, for every number of failures, refresh age, gap   *)
(* and TTL that TimingAssumption allows.                                   *)
(***************************************************************************)
EXTENDS Watchdog, TLAPS

\* An outage that could be posted already when the pass began, or is refreshed at
\* its end: a transition still to be reported makes the next post due at once.
Tracked ==
    /\ down["prometheus"] /\ ~down["alertmanager"]
    /\ "prometheus" \notin wentDown /\ "alertmanager" \notin cameBack

\* What was posted is as old as the watchdog thinks, and lives until its TTL.
PostFresh ==
    Tracked /\ intact /\ postAge \in 0..(RefreshAge - 1) => held >= AlertTTL - postAge

\* An outage Alertmanager can be told of has been posted by the end of a pass.
Posted == pc = "sleep" /\ Tracked /\ intact => postAge \in 0..(RefreshAge - 1)

\* It still fires when the next pass begins.
StillFiring == pc = "observe" /\ Tracked /\ intact => Firing

LapseInv == TypeOK /\ PostFresh /\ Posted /\ StillFiring

\* The targets that were down before the pass that is being reported.
DownBefore == (Down \ wentDown) \cup cameBack

\* What the operator was told is what the watchdog saw, up to the last report.
ToldInv ==
    /\ wentDown \subseteq Down
    /\ cameBack \cap Down = {}
    /\ pc # "report" => wentDown = {} /\ cameBack = {}
    /\ ~missed => /\ "alertmanager" \in told <=> "alertmanager" \in DownBefore
                  /\ "alertmanager" \in DownBefore => DownBefore \subseteq told

-----------------------------------------------------------------------------
LEMMA TypeInit == Init => TypeOK
<1> SUFFICES ASSUME Init PROVE TypeOK
  OBVIOUS
<1> USE TimingAssumption DEF Init, TypeOK
<1>1. env \in [Target -> {"up", "slow", "down"}]
  OBVIOUS
<1>2. fails \in [Target -> 0..Failures] /\ down \in [Target -> BOOLEAN]
  OBVIOUS
<1>3. held \in 0..AlertTTL
  OBVIOUS
<1>4. postAge \in {Never} \cup 0..RefreshAge
  OBVIOUS
<1> QED
  BY <1>1, <1>2, <1>3, <1>4

\* What a post leaves behind, taken or not.
LEMMA PostTypes ==
    ASSUME TypeOK, NEW firing \in BOOLEAN, NEW accepted \in BOOLEAN, ToAM(firing, accepted)
    PROVE  /\ held' \in 0..AlertTTL
           /\ held' \in {held, AlertTTL, 0}
           /\ accepted => held' = IF firing THEN AlertTTL ELSE 0
           /\ postAge' = IF accepted THEN 0 ELSE postAge
           /\ postAge' \in {Never} \cup 0..RefreshAge
           /\ intact' \in BOOLEAN
           /\ intact' = IF firing THEN accepted ELSE intact
<1> USE TimingAssumption
<1>1. /\ postAge' = IF accepted THEN 0 ELSE postAge
      /\ intact' = IF firing THEN accepted ELSE intact
  BY DEF ToAM
<1>2. /\ held' \in {held, AlertTTL, 0}
      /\ accepted => held' = IF firing THEN AlertTTL ELSE 0
  BY DEF ToAM
<1>3. held' \in 0..AlertTTL
  BY <1>2 DEF TypeOK
<1>4. postAge' \in {Never} \cup 0..RefreshAge
  BY <1>1 DEF TypeOK
<1> QED
  BY <1>1, <1>2, <1>3, <1>4 DEF TypeOK

\* A report posts nothing that fires.
LEMMA ReportPosts ==
    ASSUME TypeOK, Report
    PROVE  /\ held' \in 0..AlertTTL
           /\ postAge' \in {Never} \cup 0..RefreshAge
           /\ intact' \in BOOLEAN
<1> USE TimingAssumption DEF TypeOK
<1>1. CASE /\ held' = held /\ intact' \in {intact, TRUE}
           /\ postAge' \in {postAge, Never}
  BY <1>1
<1>2. CASE \E accepted \in BOOLEAN : ToAM(FALSE, accepted)
  BY <1>2, PostTypes
<1>3. CASE BothBack
  BY <1>1, <1>2, <1>3 DEF BothBack, NoPost
<1>4. CASE PrometheusCameBack
  BY <1>1, <1>2, <1>4 DEF PrometheusCameBack, NoPost
<1> QED
  BY <1>1, <1>3, <1>4 DEF Report, BothWentDown, PrometheusWentDown, AlertmanagerWentDown,
                          AlertmanagerCameBack, NothingNew, NoPost

\* The transitions of a pass agree with the watchdog's view.
Consistent == wentDown \subseteq Down /\ cameBack \cap Down = {}

\* An outage that can be posted is left as it was, or due at once.
LEMMA ReportTracks ==
    ASSUME TypeOK, Report, Consistent, down["prometheus"], ~down["alertmanager"]
    PROVE  postAge' = Never \/ (Tracked /\ UNCHANGED <<held, postAge, intact>>)
<1> USE DEF TypeOK, Consistent, Down, Target
<1>1. "prometheus" \notin cameBack /\ "alertmanager" \notin wentDown
  OBVIOUS
<1>2. CASE PrometheusWentDown
  BY <1>2 DEF PrometheusWentDown
<1>3. CASE AlertmanagerCameBack
  BY <1>3 DEF AlertmanagerCameBack
<1>4. CASE NothingNew
  BY <1>4 DEF NothingNew, NoPost, Tracked
<1> QED
  BY <1>1, <1>2, <1>3, <1>4 DEF Report, BothWentDown, BothBack, PrometheusCameBack,
                               AlertmanagerWentDown

\* The operator is told about targets, and about nothing else.
LEMMA ReportMessages ==
    ASSUME TypeOK, Report
    PROVE  told' \in SUBSET Target /\ missed' \in BOOLEAN /\ alertInAM' \in BOOLEAN
<1>1. CASE \E news \in SUBSET Target : Direct(news)
  BY <1>1 DEF TypeOK, Direct, Target, Report, BothWentDown, BothBack, PrometheusWentDown,
              PrometheusCameBack, AlertmanagerWentDown, AlertmanagerCameBack, NothingNew
<1>2. CASE told' \in SUBSET Target /\ missed' \in BOOLEAN
  BY <1>2 DEF TypeOK, Report, BothWentDown, BothBack, PrometheusWentDown,
              PrometheusCameBack, AlertmanagerWentDown, AlertmanagerCameBack, NothingNew
<1>3. CASE PrometheusCameBack
  BY <1>1, <1>2, <1>3 DEF PrometheusCameBack, NoMessage, TypeOK, Target
<1>4. CASE PrometheusWentDown
  BY <1>1, <1>2, <1>4 DEF PrometheusWentDown, NoMessage, TypeOK, Target
<1>5. CASE AlertmanagerWentDown
  <2>1. (IF down["prometheus"] THEN Target ELSE told \cup {"alertmanager"}) \in SUBSET Target
    BY DEF TypeOK, Target
  <2> QED
    BY <1>1, <1>5, <2>1 DEF AlertmanagerWentDown
<1>6. CASE BothWentDown \/ BothBack \/ AlertmanagerCameBack
  BY <1>1, <1>6 DEF BothWentDown, BothBack, AlertmanagerCameBack, TypeOK
<1>7. CASE NothingNew
  BY <1>2, <1>7 DEF NothingNew, NoMessage, TypeOK
<1> QED
  BY <1>3, <1>4, <1>5, <1>6, <1>7 DEF Report

LEMMA TypeStep == TypeOK /\ [Next]_vars => TypeOK'
<1> SUFFICES ASSUME TypeOK, [Next]_vars PROVE TypeOK'
  OBVIOUS
<1> USE TimingAssumption
<1>1. CASE Sleep
  BY <1>1 DEF Sleep, TypeOK, ghosts
<1>2. CASE Observe
  BY <1>2 DEF Observe, CountFail, TypeOK, envVars, ghosts
<1>3. CASE Report
  BY <1>3, ReportPosts, ReportMessages DEF Report, TypeOK
<1>4. CASE Refresh
  <2>1. /\ held' \in 0..AlertTTL
        /\ postAge' \in {Never} \cup 0..RefreshAge
        /\ intact' \in BOOLEAN
        /\ alertInAM' \in BOOLEAN
    <3>1. CASE PostDue
      BY <1>4, <3>1, PostTypes DEF Refresh, TypeOK
    <3>2. CASE ~PostDue
      BY <1>4, <3>2 DEF Refresh, NoPost, TypeOK
    <3> QED
      BY <3>1, <3>2
  <2> QED
    BY <1>4, <2>1 DEF Refresh, TypeOK
<1>5. CASE TargetChanges
  <2>1. held' \in {held, 0} /\ intact' \in {intact, FALSE}
    BY <1>5 DEF TargetChanges
  <2>2. env' \in [Target -> {"up", "slow", "down"}]
    BY <1>5 DEF TargetChanges, TypeOK
  <2>3. 0 \in 0..AlertTTL
    OBVIOUS
  <2>4. held' \in 0..AlertTTL /\ intact' \in BOOLEAN
    BY <2>1, <2>3 DEF TypeOK
  <2> QED
    BY <1>5, <2>2, <2>4 DEF TargetChanges, TypeOK, dogVars, localVars
<1>6. CASE ServiceRestarts
  <2>1. fails' \in [Target -> 0..Failures] /\ down' \in [Target -> BOOLEAN]
    BY <1>6 DEF ServiceRestarts
  <2> QED
    BY <1>6, <2>1 DEF ServiceRestarts, TypeOK, envVars
<1>7. CASE UNCHANGED vars
  BY <1>7 DEF vars, envVars, dogVars, localVars, ghosts, TypeOK
<1> QED
  BY <1>1, <1>2, <1>3, <1>4, <1>5, <1>6, <1>7 DEF Next, Pass

\* The variables of the watchdog and of its environment keep their types in
\* every step.
THEOREM TypeCorrect == Spec => []TypeOK
  BY TypeInit, TypeStep, PTL DEF Spec

-----------------------------------------------------------------------------
LEMMA ToldInit == Init => ToldInv
  BY DEF Init, ToldInv, Down, DownBefore, Target

LEMMA ToldStep == ToldInv /\ TypeOK /\ [Next]_vars => ToldInv'
<1> SUFFICES ASSUME ToldInv, TypeOK, [Next]_vars PROVE ToldInv'
  OBVIOUS
<1> USE DEF ToldInv, Down, DownBefore, Target
<1>1. CASE Sleep
  BY <1>1 DEF Sleep
<1>2. CASE Observe
  BY <1>2 DEF Observe, TypeOK, ghosts
<1>3. CASE Report
  <2> USE <1>3 DEF Report, TypeOK
  <2>1. CASE BothWentDown
    BY <2>1 DEF BothWentDown, Direct
  <2>2. CASE BothBack
    BY <2>2 DEF BothBack, Direct
  <2>3. CASE PrometheusWentDown
    BY <2>3 DEF PrometheusWentDown, Direct, NoMessage
  <2>4. CASE PrometheusCameBack
    BY <2>4 DEF PrometheusCameBack, Direct, NoMessage
  <2>5. CASE AlertmanagerWentDown
    BY <2>5 DEF AlertmanagerWentDown, Direct
  <2>6. CASE AlertmanagerCameBack
    BY <2>6 DEF AlertmanagerCameBack, Direct
  <2>7. CASE NothingNew
    BY <2>7 DEF NothingNew, NoMessage
  <2> QED
    BY <2>1, <2>2, <2>3, <2>4, <2>5, <2>6, <2>7
<1>4. CASE Refresh
  BY <1>4 DEF Refresh
<1>5. CASE TargetChanges
  BY <1>5 DEF TargetChanges, dogVars, localVars
<1>6. CASE ServiceRestarts
  BY <1>6 DEF ServiceRestarts
<1>7. CASE UNCHANGED vars
  BY <1>7 DEF vars, dogVars, localVars, ghosts
<1> QED
  BY <1>1, <1>2, <1>3, <1>4, <1>5, <1>6, <1>7 DEF Next, Pass

LEMMA ToldImplies == ToldInv /\ TypeOK => OutagesTold
  BY DEF ToldInv, TypeOK, OutagesTold, Resting, Down, DownBefore, Target

LEMMA ToldAlways == Spec => []ToldInv
  BY ToldInit, ToldStep, TypeCorrect, PTL DEF Spec

\* The direct messages alone tell the operator of every outage while Alertmanager
\* is down, in whatever order the two targets went down and came back.
THEOREM OutagesAreTold == Spec => []OutagesTold
  BY ToldAlways, ToldImplies, TypeCorrect, PTL

-----------------------------------------------------------------------------
LEMMA LapseInit == Init => LapseInv
<1> SUFFICES ASSUME Init PROVE LapseInv
  OBVIOUS
<1>1. TypeOK
  BY TypeInit
<1>2. PostFresh /\ Posted /\ StillFiring
  BY DEF Init, PostFresh, Posted, StillFiring
<1> QED
  BY <1>1, <1>2 DEF LapseInv

LEMMA LapseStep == LapseInv /\ ToldInv /\ TypeOK' /\ [Next]_vars => LapseInv'
<1> SUFFICES ASSUME TypeOK, PostFresh, Posted, StillFiring, ToldInv, TypeOK', [Next]_vars
             PROVE  PostFresh' /\ Posted' /\ StillFiring'
  BY DEF LapseInv
<1> USE TimingAssumption DEF Firing, Never
<1>1. CASE Sleep
  <2>1. Tracked' /\ intact' => Tracked /\ intact /\ pc = "sleep" /\ pc' = "observe"
    BY <1>1 DEF Sleep, Tracked
  <2>2. PostFresh'
    BY <1>1, <2>1 DEF Sleep, PostFresh, TypeOK
  <2>3. StillFiring'
    BY <1>1, <2>1 DEF Sleep, PostFresh, Posted, StillFiring, TypeOK
  <2> QED
    BY <1>1, <2>2, <2>3 DEF Sleep, Posted
<1>2. CASE Observe
  <2>1. Tracked' => Tracked
    <3>1. wentDown = {} /\ cameBack = {}
      BY <1>2 DEF Observe, ToldInv
    <3>2. /\ down' = [t \in Target |-> (down[t] \/ t \in wentDown') /\ t \notin cameBack']
          /\ "prometheus" \in Target /\ "alertmanager" \in Target
      BY <1>2 DEF Observe, Target
    <3>3. Tracked' => down["prometheus"] /\ ~down["alertmanager"]
      BY <3>2 DEF Tracked
    <3> QED
      BY <3>1, <3>3 DEF Tracked
  <2> QED
    BY <1>2, <2>1 DEF Observe, PostFresh, Posted, StillFiring, envVars, ghosts
<1>3. CASE Report
  <2>1. Tracked' => down["prometheus"] /\ ~down["alertmanager"]
    BY <1>3 DEF Report, Tracked
  <2>2. Consistent
    BY DEF ToldInv, Consistent
  <2>3. Tracked' => postAge' = Never \/ (Tracked /\ UNCHANGED <<held, postAge, intact>>)
    BY <1>3, <2>1, <2>2, ReportTracks
  <2>4. PostFresh'
    BY <2>3, -1 \notin 0..(RefreshAge - 1) DEF PostFresh
  <2> QED
    BY <1>3, <2>4 DEF Report, Posted, StillFiring
<1>4. CASE Refresh
  <2>1. CASE PostDue
    <3>1. PICK accepted \in BOOLEAN : ToAM(TRUE, accepted)
      BY <1>4, <2>1 DEF Refresh
    <3>2. CASE accepted
      <4>1. held' = AlertTTL /\ postAge' = 0
        BY <3>1, <3>2, PostTypes
      <4> QED
        BY <1>4, <4>1 DEF Refresh, PostFresh, Posted, StillFiring
    <3>3. CASE ~accepted
      <4>1. ~intact'
        BY <3>1, <3>3 DEF ToAM
      <4> QED
        BY <1>4, <4>1 DEF Refresh, PostFresh, Posted, StillFiring
    <3> QED
      BY <3>2, <3>3
  <2>2. CASE ~PostDue
    <3>1. /\ UNCHANGED <<held, postAge, intact, down, wentDown, cameBack>>
          /\ pc' = "sleep"
      BY <1>4, <2>2 DEF Refresh, NoPost
    <3>2. Tracked => postAge \in 0..(RefreshAge - 1)
      BY <2>2 DEF PostDue, Tracked, TypeOK
    <3> QED
      BY <3>1, <3>2 DEF PostFresh, Posted, StillFiring, Tracked
  <2> QED
    BY <2>1, <2>2
<1>5. CASE TargetChanges
  <2>1. UNCHANGED <<held, intact>> \/ ~intact'
    BY <1>5 DEF TargetChanges
  <2> QED
    BY <1>5, <2>1 DEF TargetChanges, PostFresh, Posted, StillFiring, Tracked, dogVars, localVars
<1>6. CASE ServiceRestarts
  <2>1. ~Tracked'
    BY <1>6 DEF ServiceRestarts, Tracked, Target
  <2> QED
    BY <2>1 DEF PostFresh, Posted, StillFiring
<1>7. CASE UNCHANGED vars
  BY <1>7 DEF vars, envVars, dogVars, localVars, ghosts, PostFresh, Posted, StillFiring, Tracked
<1> QED
  BY <1>1, <1>2, <1>3, <1>4, <1>5, <1>6, <1>7 DEF Next, Pass

LEMMA LapseImplies == LapseInv /\ ToldInv => NoLapse
<1> SUFFICES ASSUME LapseInv, ToldInv, Resting, down["prometheus"], ~down["alertmanager"], intact
             PROVE  Firing
  BY DEF NoLapse
<1>1. Tracked
  BY DEF Resting, ToldInv, Tracked
<1> QED
  BY <1>1, TimingAssumption DEF LapseInv, PostFresh, Posted, StillFiring, Resting, Firing, TypeOK, Never

\* As long as Alertmanager takes the posts of an outage and keeps them, its alert
\* fires from the end of the pass that declares it and never lapses: the post is
\* due at once, and refresh interval plus the longest gap fit in the TTL.
THEOREM AlertNeverLapses == Spec => []NoLapse
<1>1. Spec => []LapseInv
  BY LapseInit, LapseStep, TypeCorrect, ToldAlways, PTL DEF Spec
<1> QED
  BY <1>1, LapseImplies, ToldAlways, PTL
=============================================================================
