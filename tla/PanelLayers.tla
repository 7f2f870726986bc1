----------------------------- MODULE PanelLayers -----------------------------
(***************************************************************************)
(* Starting and stopping the platform's layers from the control panel      *)
(* (api/app.py: ui_status, ui_fix, ui_pipeline_control and what they call). *)
(* Host processes are systemd units and containers have a restart policy:  *)
(* both are started again when they die, unless they were stopped.         *)
(* Kubernetes is recovered by a script nobody waits for.  Every request    *)
(* has its own thread, and the log of actions has no lock.                 *)
(***************************************************************************)
EXTENDS Naturals, Sequences, FiniteSets

CONSTANTS
    Handler,           \* the requests served at once
    Unit, Container,   \* the layers of either kind; the third is Kubernetes
    Agent,             \* the unit the Infrastructure tab starts and stops, too
    KeepActions,       \* _FIX_LOG_MAX
    MaxAction, MaxDeath \* bounds: requests; processes that die, and reboots

K8s == "Kubernetes"
Layer == Unit \cup Container \cup {K8s}

VARIABLES
    running,   \* of each layer: the copies that run
    wanted,    \* the layers their supervisor keeps running
    recovering,\* the recovery scripts that run
    seen,      \* what the page shows of each layer: whether it is up
    acting,    \* what each request does
    fixlog,    \* _FIX_LOG: the requests, by their numbers
    asked,     \* requests so far
    died,      \* deaths and reboots so far
    entered,   \* ghost: the requests in the order they were logged
    stopped    \* ghost: layers whose last request was a stop that was confirmed

vars == <<running, wanted, recovering, seen, acting, fixlog, asked, died, entered, stopped>>

Idle == [pc |-> "idle", no |-> 0, layer |-> K8s, action |-> "start", via |-> "fix"]

TypeOK ==
    /\ running \in [Layer -> Nat] /\ wanted \subseteq Layer \ {K8s}
    /\ recovering \in 0..MaxAction /\ seen \in [Layer -> BOOLEAN]
    /\ \A h \in Handler : acting[h].pc \in {"idle", "act", "insert", "trim"} /\ acting[h].layer \in Layer
    /\ fixlog \in Seq(1..MaxAction) /\ Len(fixlog) <= MaxAction
    /\ asked \in 0..MaxAction /\ died \in 0..MaxDeath
    /\ stopped \subseteq Layer

Init ==
    /\ running = [l \in Layer |-> 1] /\ wanted = Layer \ {K8s}
    /\ recovering = 0
    /\ seen = [l \in Layer |-> TRUE]
    /\ acting = [h \in Handler |-> Idle]
    /\ fixlog = <<>> /\ asked = 0 /\ died = 0 /\ entered = <<>> /\ stopped = {}

(***************************************************************************)
(* The page.                                                               *)
(***************************************************************************)

\* ui_status, of one layer: a port is open, a process is found, a pod is ready.
Probe(l) ==
    /\ seen' = [seen EXCEPT ![l] = running[l] > 0]
    /\ UNCHANGED <<running, wanted, recovering, acting, fixlog, asked, died, entered, stopped>>

\* ui_pipeline_control starts and stops the agent, too, and logs nothing.
Routes(l) == IF l = Agent THEN {"fix", "pipeline"} ELSE {"fix"}

\* Fix a layer shown as down, or Stop one shown as up (ui_fix).
Ask(h, l) ==
    /\ acting[h] = Idle /\ asked < MaxAction
    /\ asked' = asked + 1
    /\ \E via \in Routes(l) :
         acting' = [acting EXCEPT ![h] = [pc |-> "act", no |-> asked + 1, layer |-> l, via |-> via,
                                          action |-> IF seen[l] THEN "stop" ELSE "start"]]
    /\ stopped' = stopped \ {l}
    /\ UNCHANGED <<running, wanted, recovering, seen, fixlog, died, entered>>

(***************************************************************************)
(* The action.                                                             *)
(***************************************************************************)

AsksOf(l) == {h \in Handler : acting[h].pc = "act" /\ acting[h].layer = l}

\* The request has its result; those of /ui/pipeline are not logged.
Acted(h, confirmed) ==
    LET a == acting[h] IN
    /\ acting' = [acting EXCEPT ![h] = IF a.via = "fix" THEN [a EXCEPT !.pc = "insert"] ELSE Idle]
    /\ stopped' = IF confirmed /\ a.action = "stop" /\ AsksOf(a.layer) = {h}
                  THEN stopped \cup {a.layer} ELSE stopped \ {a.layer}

\* A plausible slip: a layer is started as a copy of its own, outside its supervisor.
SuperviseSpawn(l, action) ==
    /\ running' = [running EXCEPT ![l] = IF action = "start" THEN @ + 1 ELSE 0]
    /\ wanted' = IF action = "start" THEN wanted ELSE wanted \ {l}

\* systemctl, or docker: a layer that runs is not started again.
Supervise(l, action) ==
    /\ running' = [running EXCEPT ![l] = IF action = "start" THEN 1 ELSE 0]
    /\ wanted' = IF action = "start" THEN wanted \cup {l} ELSE wanted \ {l}

\* _start_docker, _stop_docker, _start_process, _stop_process: done; or an error, or no
\* answer in 30 s, and then it may be done all the same.
Act(h) ==
    LET a == acting[h] IN
    /\ a.pc = "act" /\ a.layer # K8s
    /\ \/ Supervise(a.layer, a.action) /\ \E confirmed \in BOOLEAN : Acted(h, confirmed)
       \/ UNCHANGED <<running, wanted>> /\ Acted(h, FALSE)
    /\ UNCHANGED <<recovering, seen, fixlog, asked, died, entered>>

\* _start_k8s starts the script and returns; stopping Kubernetes is refused.
ActK8s(h) ==
    LET a == acting[h] IN
    /\ a.pc = "act" /\ a.layer = K8s
    /\ recovering' \in IF a.action = "start" THEN {recovering, recovering + 1} ELSE {recovering}
    /\ Acted(h, FALSE)
    /\ UNCHANGED <<running, wanted, seen, fixlog, asked, died, entered>>

\* _log_fix_action: the newest first ...
Insert(h) ==
    LET a == acting[h] IN
    /\ a.pc = "insert"
    /\ fixlog' = <<a.no>> \o fixlog
    /\ entered' = Append(entered, a.no)
    /\ acting' = [acting EXCEPT ![h].pc = "trim"]
    /\ UNCHANGED <<running, wanted, recovering, seen, asked, died, stopped>>

\* ... and what is over the limit is deleted.
Trim(h) ==
    /\ acting[h].pc = "trim"
    /\ fixlog' = IF Len(fixlog) <= KeepActions THEN fixlog ELSE SubSeq(fixlog, 1, KeepActions)
    /\ acting' = [acting EXCEPT ![h] = Idle]
    /\ UNCHANGED <<running, wanted, recovering, seen, asked, died, entered, stopped>>

(***************************************************************************)
(* The host.                                                               *)
(***************************************************************************)

\* A layer dies, ...
LayerDies(l) ==
    /\ running[l] > 0 /\ died < MaxDeath
    /\ running' = [running EXCEPT ![l] = 0] /\ died' = died + 1
    /\ UNCHANGED <<wanted, recovering, seen, acting, fixlog, asked, entered, stopped>>

\* ... and is started again by its supervisor (Restart=always).
Supervised(l) ==
    /\ l \in wanted /\ running[l] = 0
    /\ running' = [running EXCEPT ![l] = 1]
    /\ UNCHANGED <<wanted, recovering, seen, acting, fixlog, asked, died, entered, stopped>>

\* scripts/k8s_recover.sh ends, and Kubernetes serves or does not (see K8sRecovery).
RecoveryEnds ==
    /\ recovering > 0
    /\ recovering' = recovering - 1
    /\ running' \in {running, [running EXCEPT ![K8s] = 1]}
    /\ UNCHANGED <<wanted, seen, acting, fixlog, asked, died, entered, stopped>>

\* The host restarts, and the panel with it: the units are enabled and the containers
\* come back, and the log of actions is empty.
Reboot ==
    /\ died < MaxDeath
    /\ died' = died + 1
    /\ wanted' = Layer \ {K8s}
    /\ \E k \in {0, 1} : running' = [l \in Layer |-> IF l = K8s THEN k ELSE 1]
    /\ recovering' = 0
    /\ acting' = [h \in Handler |-> Idle]
    /\ fixlog' = <<>> /\ entered' = <<>> /\ stopped' = {}
    /\ UNCHANGED <<seen, asked>>

Next ==
    \/ \E l \in Layer : Probe(l) \/ LayerDies(l) \/ Supervised(l)
    \/ \E h \in Handler : (\E l \in Layer : Ask(h, l)) \/ Act(h) \/ ActK8s(h) \/ Insert(h) \/ Trim(h)
    \/ RecoveryEnds \/ Reboot

Spec == Init /\ [][Next]_vars

(***************************************************************************)
(* Properties.                                                             *)
(***************************************************************************)

\* A layer whose stop was confirmed stays down, whatever its supervisor does for the
\* layers that die, until somebody asks for it or the host restarts (_systemctl).
StopStays == \A l \in stopped : running[l] = 0

\* Whoever starts a layer, and from however stale a page, it never runs twice (a second
\* agent would double the traffic).
OneCopy == \A l \in Layer : running[l] <= 1

\* The log has the newest actions, the newest first, although requests insert and trim
\* without a lock; it is over its limit only while they do (_log_fix_action).
NewestActions ==
    /\ \A i \in 1..Len(entered) : i <= KeepActions =>
         i \in DOMAIN fixlog /\ fixlog[i] = entered[Len(entered) - i + 1]
    /\ Len(fixlog) <= KeepActions + Cardinality({h \in Handler : acting[h].pc = "trim"})
==============================================================================
