------------------------------ MODULE StopTests ------------------------------
(***************************************************************************)
(* The two tests that stop services of the platform for real and time how  *)
(* long the alerts take: scripts/agent_stop_test.py stops the machine      *)
(* agent, scripts/watchdog_test.py stops Prometheus and then Alertmanager. *)
(* The three conditions the first one waits for after each command are one *)
(* alert here, as it ends well only if it saw all of them.                 *)
(***************************************************************************)
EXTENDS Naturals, Sequences

VARIABLES
    test,      \* which of the two runs
    up,        \* the services that run
    alerting,  \* those whose alert is active
    at, turn,  \* the step the test is at, and the service it is about
    times,     \* the times it has measured
    exit,      \* how it ended
    downed,    \* the services it has stopped
    unstarted, \* those a last attempt to start failed for
    noticed,   \* those whose alert was active while they were down
    ended      \* those whose alert was not, once they ran again

AllServices == {"production-agent", "prometheus", "alertmanager"}

services == IF test = "agent" THEN <<"production-agent">> ELSE <<"prometheus", "alertmanager">>
S == services[turn]

\* An alert of an earlier outage may be active still.  The watchdog's event file, which is
\* looked at for Alertmanager, is read from the stop on.
Init ==
    /\ test \in {"agent", "chain"}
    /\ up \in SUBSET AllServices
    /\ alerting \in SUBSET (AllServices \ {"alertmanager"})
    /\ at = "begin" /\ turn = 1 /\ exit = "none"
    /\ times = {} /\ downed = {} /\ unstarted = {} /\ noticed = {} /\ ended = {}

Goto(step) == at' = step /\ UNCHANGED <<test, alerting, turn, times, exit, downed, unstarted, up>>

\* An exception, or sys.exit, inside the try.
Raise == at' = "finally" /\ turn' = 1 /\ exit' = "failed" /\ UNCHANGED <<test, alerting, times, unstarted>>

\* The agent is started by its own test; the other asks both services and the watchdog.
Begin ==
    /\ at = "begin"
    /\ \/ /\ test = "agent" /\ up' = up \union {S} /\ at' = "ready"
          /\ UNCHANGED <<test, alerting, turn, times, exit, downed, unstarted>>
       \/ test = "agent" /\ Raise /\ UNCHANGED <<up, downed>>
       \/ test = "chain" /\ {"prometheus", "alertmanager"} \subseteq up /\ Goto("stop")
       \/ /\ test = "chain" /\ at' = "end" /\ exit' = "failed"
          /\ UNCHANGED <<test, alerting, turn, times, downed, unstarted, up>>

Ready ==
    /\ at = "ready"
    /\ \/ S \notin alerting /\ Goto("stop")
       \/ Raise /\ UNCHANGED <<up, downed>>

\* A command that fails may have been carried out or not.
Stop ==
    /\ at = "stop"
    /\ up' \in {up, up \ {S}}
    /\ downed' = downed \union {S}
    /\ \/ S \notin up' /\ at' = "down" /\ UNCHANGED <<test, alerting, turn, times, exit, unstarted>>
       \/ Raise

Start ==
    /\ at = "start"
    /\ up' \in {up, up \union {S}}
    /\ UNCHANGED downed
    /\ \/ S \in up' /\ at' = "back" /\ UNCHANGED <<test, alerting, turn, times, exit, unstarted>>
       \/ Raise

\* What the polls look for.  Alertmanager may not answer: that is no answer to either question.
Firing == S \in alerting
Resolved == S \notin alerting /\ (S = "alertmanager" => S \in noticed)

Measure(what, holds, then) ==
    /\ at' = then
    /\ \/ holds /\ times' = times \union {<<S, what>>}
       \/ UNCHANGED times  \* the timeout

\* An error that a poll does not catch ends the test: in the agent's, any at all.
WatchDown ==
    /\ at = "down"
    /\ \/ Measure("down", Firing, "start") /\ UNCHANGED <<test, alerting, turn, exit, unstarted, up, downed>>
       \/ Raise /\ UNCHANGED <<up, downed>>

WatchBack ==
    /\ at = "back"
    /\ \/ /\ IF turn < Len(services)
             THEN Measure("back", Resolved, "stop") /\ turn' = turn + 1
             ELSE Measure("back", Resolved, "finally") /\ turn' = 1
          /\ UNCHANGED <<test, alerting, exit, unstarted, up, downed>>
       \/ Raise /\ UNCHANGED <<up, downed>>

Complete == \A i \in DOMAIN services : {<<services[i], "down">>, <<services[i], "back">>} \subseteq times

\* The finally starts every service.  The agent's test checks that the command succeeds.
Finally ==
    /\ at = "finally"
    /\ \E ok \in BOOLEAN :
          /\ up' = IF ok THEN up \union {services[turn]} ELSE up
          /\ unstarted' = IF ok THEN unstarted ELSE unstarted \union {services[turn]}
          /\ IF turn < Len(services)
             THEN turn' = turn + 1 /\ UNCHANGED <<at, exit>>
             ELSE /\ at' = "end" /\ UNCHANGED turn
                  /\ exit' = CASE exit = "failed" \/ (test = "agent" /\ ~ok) -> "failed"
                               [] Complete -> "complete"
                               [] OTHER -> "incomplete"
    /\ UNCHANGED <<test, alerting, times, downed>>

\* A signal that Python does not turn into an exception.
Killed ==
    /\ at # "end" /\ at' = "end" /\ exit' = "killed"
    /\ UNCHANGED <<test, alerting, turn, times, downed, unstarted, up>>

\* Prometheus or the watchdog notices that a service is down, or runs again.
Alert ==
    /\ at # "end"
    /\ \/ \E s \in AllServices \ (up \union alerting) : alerting' = alerting \union {s}
       \/ \E s \in up \intersect alerting : alerting' = alerting \ {s}
    /\ UNCHANGED <<test, at, turn, times, exit, downed, unstarted, up>>

Next ==
    /\ Begin \/ Ready \/ Stop \/ Start \/ WatchDown \/ WatchBack \/ Finally \/ Killed \/ Alert
    /\ noticed' = noticed \union ((downed' \intersect alerting') \ up')
    /\ ended' = ended \union ((downed' \intersect up') \ alerting')

\* Type correctness.
TypeOK ==
    /\ test \in {"agent", "chain"} /\ turn \in DOMAIN services
    /\ {up, alerting, downed, unstarted, noticed, ended} \subseteq SUBSET AllServices
    /\ at \in {"begin", "ready", "stop", "down", "start", "back", "finally", "end"}
    /\ times \subseteq AllServices \X {"down", "back"}
    /\ exit \in {"none", "failed", "complete", "incomplete", "killed"}

\* Whatever a test has stopped runs at its end, unless a signal ended it or a service could
\* not be started: an exception anywhere reaches the finally (agent_stop_test.py,
\* watchdog_test.py).
LeavesRunning == at = "end" /\ exit # "killed" => downed \subseteq up \union unstarted

\* A test that says its times are complete has measured what happened: the alert of each
\* service was active while it was down, and not once it ran again, although Alertmanager
\* may not answer and each wait may end without a result.
CompleteIsReal == exit = "complete" => \A i \in DOMAIN services : services[i] \in noticed \intersect ended
=============================================================================
