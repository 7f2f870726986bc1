------------------------------ MODULE Watchdog ------------------------------
(***************************************************************************)
(* scripts/prometheus_watchdog.py: the process that watches Prometheus and *)
(* Alertmanager from outside both.  One pass of the service's loop is      *)
(* Sleep (time passes), Observe (both health checks), Report (the          *)
(* transitions are recorded and announced) and Refresh (the firing alert   *)
(* is posted again when it is due).  A target may change, Alertmanager may *)
(* restart and lose its alerts, and the service may be restarted by        *)
(* systemd between any two of these.                                       *)
(*                                                                         *)
(* Time is counted in units of the check interval; a call takes place at   *)
(* one instant of it, and the time a pass takes is part of the gap Sleep   *)
(* lets pass before the next one.  last_post is kept as its age.           *)
(***************************************************************************)
EXTENDS Integers, FiniteSets, FiniteSetsExt

CONSTANTS
    Failures,    \* failed checks in a row before a target is down
    RefreshAge,  \* age at which the firing alert is posted again
    AlertTTL,    \* life of a posted alert in Alertmanager (endsAt - now)
    MaxGap       \* longest time between the starts of two passes

ASSUME TimingAssumption ==
    /\ Failures \in Nat \ {0}
    /\ RefreshAge \in Nat \ {0}
    /\ MaxGap \in Nat \ {0}
    /\ AlertTTL \in Nat
    /\ AlertTTL >= RefreshAge + MaxGap

Target == {"prometheus", "alertmanager"}
Never == -1     \* last_post is None: post at the next pass

VARIABLES
    env,         \* a target is "up", "slow" (a call may fail) or "down"
    held,        \* time left to the firing PrometheusDown Alertmanager holds
    pc,          \* where the watchdog's pass is
    fails, down, \* the watchdog's view of each target
    postAge,     \* age of last_post, or Never
    alertInAM,   \* the watchdog's alert_in_am
    wentDown, cameBack,   \* locals of the pass
    told,        \* the targets the operator was told, directly, are down
    missed,      \* a direct message was lost, or the service was restarted
    intact       \* of this outage, no post was refused or lost since the last one taken

envVars == <<env, held>>
dogVars == <<fails, down, postAge, alertInAM>>
localVars == <<pc, wentDown, cameBack>>
ghosts == <<told, missed, intact>>
vars == <<envVars, dogVars, localVars, ghosts>>

Firing == held > 0

TypeOK ==
    /\ env \in [Target -> {"up", "slow", "down"}]
    /\ held \in 0..AlertTTL
    /\ pc \in {"sleep", "observe", "report", "refresh"}
    /\ fails \in [Target -> 0..Failures]
    /\ down \in [Target -> BOOLEAN]
    /\ postAge \in {Never} \cup 0..RefreshAge
    /\ alertInAM \in BOOLEAN
    /\ wentDown \in SUBSET Target
    /\ cameBack \in SUBSET Target
    /\ told \in SUBSET Target
    /\ missed \in BOOLEAN
    /\ intact \in BOOLEAN

Init ==
    /\ env = [t \in Target |-> "up"]
    /\ held = 0
    /\ pc = "observe"
    /\ fails = [t \in Target |-> 0]
    /\ down = [t \in Target |-> FALSE]
    /\ postAge = Never
    /\ alertInAM = FALSE
    /\ wentDown = {}
    /\ cameBack = {}
    /\ told = {}
    /\ missed = FALSE
    /\ intact = FALSE

(***************************************************************************)
(* The two side effects of a pass.                                         *)
(***************************************************************************)

\* What a call to target t may return: an answer in time, or not.
Outcomes(t) ==
    CASE env[t] = "up" -> {TRUE}
      [] env[t] = "down" -> {FALSE}
      [] OTHER -> BOOLEAN

\* A plausible slip: the refresh interval is added to the alert's life.
ToAMLongLife(firing, accepted) ==
    /\ accepted \in Outcomes("alertmanager")
    /\ \E taken \in IF accepted THEN {TRUE} ELSE Outcomes("alertmanager") :
         held' = IF taken THEN (IF firing THEN AlertTTL + RefreshAge ELSE 0) ELSE held
    /\ postAge' = IF accepted THEN 0 ELSE postAge
    /\ intact' = IF firing THEN accepted ELSE intact

\* _to_am: post the alert, firing or resolved.  A slow Alertmanager may take the
\* alert and still not answer in time, which the caller sees as a refusal.
ToAM(firing, accepted) ==
    /\ accepted \in Outcomes("alertmanager")
    /\ \E taken \in IF accepted THEN {TRUE} ELSE Outcomes("alertmanager") :
         held' = IF taken THEN (IF firing THEN AlertTTL ELSE 0) ELSE held
    /\ postAge' = IF accepted THEN 0 ELSE postAge
    /\ intact' = IF firing THEN accepted ELSE intact

\* _direct: one message to Telegram, never sent again; it leaves the operator
\* knowing that exactly the targets of `news` are down.
Direct(news) ==
    \/ told' = news /\ missed' = missed
    \/ told' = told /\ missed' = TRUE

NoPost == UNCHANGED <<held, postAge, intact>>
NoMessage == UNCHANGED <<told, missed>>

(***************************************************************************)
(* One pass.                                                               *)
(***************************************************************************)

\* main(): sleep until the next pass.  Alertmanager counts AlertTTL down and
\* resolves an alert nobody posted again; that retracts a Prometheus outage that
\* is over.
Sleep ==
    /\ pc = "sleep"
    /\ \E gap \in 1..MaxGap :
         /\ held' = IF held > gap THEN held - gap ELSE 0
         /\ postAge' = IF postAge = Never THEN Never
                       ELSE IF postAge + gap < RefreshAge THEN postAge + gap
                       ELSE RefreshAge
    /\ told' = IF Firing /\ held' = 0 /\ ~down["prometheus"]
               THEN told \ {"prometheus"} ELSE told
    /\ pc' = "observe"
    /\ UNCHANGED <<env, fails, down, alertInAM, wentDown, cameBack, missed, intact>>

\* The count of failed checks; it is only compared with Failures and is capped
\* there.
CountFail(n) == IF n < Failures THEN n + 1 ELSE n

\* A plausible slip: any good check resets the count of both targets.
ObserveSharedCount ==
    /\ pc = "observe"
    /\ \E ok \in [Target -> BOOLEAN] :
         /\ \A t \in Target : ok[t] \in Outcomes(t)
         /\ fails' = [t \in Target |->
                        IF \E u \in Target : ok[u] THEN 0 ELSE CountFail(fails[t])]
         /\ wentDown' = {t \in Target : ~ok[t] /\ ~down[t] /\ fails'[t] >= Failures}
         /\ cameBack' = {t \in Target : ok[t] /\ down[t]}
    /\ down' = [t \in Target |-> (down[t] \/ t \in wentDown') /\ t \notin cameBack']
    /\ pc' = "report"
    /\ UNCHANGED <<envVars, postAge, alertInAM, ghosts>>

\* _observe, and _record for the targets it reports.
Observe ==
    /\ pc = "observe"
    /\ \E ok \in [Target -> BOOLEAN] :
         /\ \A t \in Target : ok[t] \in Outcomes(t)
         /\ fails' = [t \in Target |->
                        IF ok[t] THEN 0 ELSE CountFail(fails[t])]
         /\ wentDown' = {t \in Target : ~ok[t] /\ ~down[t] /\ fails'[t] >= Failures}
         /\ cameBack' = {t \in Target : ok[t] /\ down[t]}
    /\ down' = [t \in Target |-> (down[t] \/ t \in wentDown') /\ t \notin cameBack']
    /\ pc' = "report"
    /\ UNCHANGED <<envVars, postAge, alertInAM, ghosts>>

Down == {t \in Target : down[t]}

\* step(): both went down at once.
BothWentDown ==
    /\ wentDown = Target
    /\ Direct(Target)
    /\ intact' = TRUE
    /\ UNCHANGED <<held, postAge, alertInAM>>

\* _both_back
BothBack ==
    /\ cameBack = Target
    /\ IF alertInAM THEN \E accepted \in BOOLEAN : ToAM(FALSE, accepted) ELSE NoPost
    /\ alertInAM' = FALSE
    /\ Direct({})

\* A plausible slip: last_post keeps its old value when Prometheus goes down.
PrometheusWentDownKeepsLastPost ==
    /\ wentDown # Target
    /\ "prometheus" \in wentDown
    /\ intact' = TRUE
    /\ UNCHANGED <<held, postAge, alertInAM>>
    /\ IF down["alertmanager"] THEN Direct(Target)
       ELSE IF "alertmanager" \in cameBack THEN Direct(told \ {"alertmanager"})
       ELSE NoMessage

\* _went_down("prometheus"), and _came_back("alertmanager") when both happen.
PrometheusWentDown ==
    /\ wentDown # Target
    /\ "prometheus" \in wentDown
    /\ postAge' = Never
    /\ intact' = TRUE
    /\ UNCHANGED <<held, alertInAM>>
    /\ IF down["alertmanager"] THEN Direct(Target)
       ELSE IF "alertmanager" \in cameBack THEN Direct(told \ {"alertmanager"})
       ELSE NoMessage

\* _came_back("prometheus"), after _went_down("alertmanager") when both happen:
\* the two messages are then sent one after the other, and each may be lost.
\* Alertmanager announces a resolved alert, which retracts the outage.
PrometheusCameBack ==
    /\ cameBack # Target
    /\ "prometheus" \in cameBack
    /\ IF alertInAM /\ ~down["alertmanager"]
       THEN \E accepted \in BOOLEAN :
              /\ ToAM(FALSE, accepted)
              /\ told' = IF accepted THEN told \ {"prometheus"} ELSE told
              /\ UNCHANGED missed
       ELSE /\ NoPost
            /\ IF ~down["alertmanager"] THEN NoMessage
               ELSE IF "alertmanager" \notin wentDown THEN Direct({"alertmanager"})
               ELSE \/ told' = {"alertmanager"} /\ missed' \in {missed, TRUE}
                    \/ told' \in {told, told \cup {"alertmanager"}} /\ missed' = TRUE
    /\ alertInAM' = FALSE

\* A plausible slip: the message never says that Prometheus is down too.
AlertmanagerWentDownAlone ==
    /\ wentDown = {"alertmanager"}
    /\ cameBack = {}
    /\ Direct(told \cup {"alertmanager"})
    /\ NoPost
    /\ UNCHANGED alertInAM

\* _went_down("alertmanager") alone.
AlertmanagerWentDown ==
    /\ wentDown = {"alertmanager"}
    /\ cameBack = {}
    /\ Direct(IF down["prometheus"] THEN Target ELSE told \cup {"alertmanager"})
    /\ NoPost
    /\ UNCHANGED alertInAM

\* _came_back("alertmanager") alone.
AlertmanagerCameBack ==
    /\ wentDown = {}
    /\ cameBack = {"alertmanager"}
    /\ Direct(told \ {"alertmanager"})
    /\ postAge' = IF down["prometheus"] THEN Never ELSE postAge
    /\ UNCHANGED <<held, intact, alertInAM>>

NothingNew ==
    /\ wentDown = {}
    /\ cameBack = {}
    /\ NoPost
    /\ NoMessage
    /\ UNCHANGED alertInAM

Report ==
    /\ pc = "report"
    /\ \/ BothWentDown
       \/ BothBack
       \/ PrometheusWentDown
       \/ PrometheusCameBack
       \/ AlertmanagerWentDown
       \/ AlertmanagerCameBack
       \/ NothingNew
    /\ pc' = "refresh"
    /\ wentDown' = {}
    /\ cameBack' = {}
    /\ UNCHANGED <<env, fails, down>>

\* The conditions under which _refresh posts.
PostDue ==
    /\ down["prometheus"]
    /\ ~down["alertmanager"]
    /\ postAge = Never \/ postAge >= RefreshAge

\* _refresh
Refresh ==
    /\ pc = "refresh"
    /\ IF PostDue
       THEN \E accepted \in BOOLEAN :
              /\ ToAM(TRUE, accepted)
              /\ alertInAM' = (accepted \/ alertInAM)
       ELSE NoPost /\ UNCHANGED alertInAM
    /\ pc' = "sleep"
    /\ UNCHANGED <<env, fails, down, wentDown, cameBack, told, missed>>

(***************************************************************************)
(* The environment.                                                        *)
(***************************************************************************)

\* A target changes; Alertmanager keeps its alerts in memory, so it returns
\* from an outage without them.
TargetChanges ==
    \E t \in Target, s \in {"up", "slow", "down"} :
        /\ env[t] # s
        /\ env' = [env EXCEPT ![t] = s]
        /\ IF t = "alertmanager" /\ s = "down"
           THEN held' = 0 /\ intact' = FALSE
           ELSE UNCHANGED <<held, intact>>
        /\ UNCHANGED <<dogVars, localVars, told, missed>>

\* systemd restarts the service (Restart=always): its view starts over.
ServiceRestarts ==
    /\ pc' = "observe"
    /\ fails' = [t \in Target |-> 0]
    /\ down' = [t \in Target |-> FALSE]
    /\ postAge' = Never
    /\ alertInAM' = FALSE
    /\ wentDown' = {}
    /\ cameBack' = {}
    /\ missed' = TRUE
    /\ UNCHANGED <<envVars, told, intact>>

Pass == Sleep \/ Observe \/ Report \/ Refresh
Next == Pass \/ TargetChanges \/ ServiceRestarts

Spec == Init /\ [][Next]_vars /\ WF_vars(Pass)

(***************************************************************************)
(* Properties.                                                             *)
(***************************************************************************)

\* Between two passes, and after the sleep that ends in the next one.
Resting == pc \in {"sleep", "observe"}

\* As long as Alertmanager takes the posts of an outage and keeps them, the alert
\* fires from the end of the pass that declares the outage, whatever was posted or
\* resolved for the outages before, and never lapses: it is posted again before
\* its TTL runs out (step, _went_down, _refresh).
NoLapse == Resting /\ down["prometheus"] /\ ~down["alertmanager"] /\ intact => Firing

\* While Alertmanager is down nothing else reaches Telegram, so the direct
\* messages alone tell the operator of every outage, in whatever order the two
\* targets went down and came back (step, _went_down, _came_back, _both_back).
OutagesTold ==
    Resting /\ ~missed =>
        /\ "alertmanager" \in told <=> down["alertmanager"]
        /\ down["alertmanager"] => Down \subseteq told

\* What the module docstring says of the messages it sends straight to Telegram,
\* "and another when it is back": an outage the operator was told of directly is
\* retracted once Prometheus answers again, by a message or by Alertmanager.
BackIsTold ==
    Resting /\ ~missed /\ ~Firing /\ "prometheus" \in told => down["prometheus"]

\* The service is restarted finitely often.
RestartsEnd == <>[][~ServiceRestarts]_vars

\* A lasting Prometheus outage ends up firing in Alertmanager for good, whatever
\* posts were refused and whatever Alertmanager lost on its way (step, _refresh).
OutageFires ==
    RestartsEnd /\ <>[](env["prometheus"] = "down" /\ env["alertmanager"] = "up")
        => <>[]Firing

\* Once Prometheus is back for good nothing fires for good, even if the resolve
\* post was refused or the service restarted: the TTL is the backstop.
OutageEnds == RestartsEnd /\ <>[](env["prometheus"] = "up") => <>[]~Firing

\* What Alertmanager shows follows what Prometheus does, for good: an outage that lasts
\* fires, and one that is over does not (step, _refresh).
OutageFollowed == OutageFires /\ OutageEnds
=============================================================================
