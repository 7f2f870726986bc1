---------------------------- MODULE AlertSilences ----------------------------
(***************************************************************************)
(* Muting and unmuting notifications from the control panel (api/app.py,   *)
(* /ui/alerting): a mute is a silence in Alertmanager, and an unmute lists *)
(* the silences and expires the panel's own one by one.  Any call may be   *)
(* taken and not answered, or refused; others use Alertmanager too.        *)
(***************************************************************************)
EXTENDS Naturals, Sequences

CONSTANTS
    Handler,    \* request threads of the panel
    MaxSilence  \* bound: silences ever made

VARIABLES
    held,    \* Alertmanager's silences
    request  \* what each handler does

vars == <<held, request>>

Scope == {"anomalies", "all"}

\* "alertname": the matchers of _LEGACY_SCOPES.  "machine": any that are not the panel's.
Matchers == Scope \cup {"alertname", "machine"}
Author == {"control-panel", "somebody"}
Silence == [by: Author, matchers: Matchers, active: BOOLEAN]

Id == 1..MaxSilence
Made == 1..Len(held)

NoRequest == [pc |-> "idle", scope |-> "all", todo |-> {}, before |-> {}]

TypeOK ==
    /\ held \in Seq(Silence) /\ Len(held) <= MaxSilence
    /\ request \in [Handler -> [pc: {"idle", "post", "list", "delete", "unmuted"}, scope: Scope,
                                todo: SUBSET Id, before: SUBSET Id]]
    /\ \A h \in Handler : request[h].todo \subseteq Made

\* Silences of before, also of earlier versions of the panel and of others.
Init ==
    /\ held \in {<<>>} \cup {<<s>> : s \in [by: Author, matchers: Matchers, active: {TRUE}]}
    /\ request = [h \in Handler |-> NoRequest]

\* A plausible slip: the silences made before the list had its label are forgotten.
SilenceScopeNow(s) == IF s.matchers \in Scope THEN {s.matchers} ELSE {}

\* _silence_scope: the scope a silence implements, if it implements one.
SilenceScope(s) ==
    IF s.matchers = "alertname" THEN {"anomalies"} ELSE IF s.matchers \in Scope THEN {s.matchers} ELSE {}

\* A plausible slip: the author is not looked at.
OfAnyone(scope) == {i \in Made : held[i].active /\ scope \in SilenceScope(held[i])}

\* _panel_silences
PanelSilences(scope) ==
    {i \in Made : held[i].by = "control-panel" /\ held[i].active /\ scope \in SilenceScope(held[i])}

\* An unmute's next step, with what it has left to expire.
Goes(h, step, todo) ==
    request' = [request EXCEPT ![h] = [pc |-> step, scope |-> @.scope, todo |-> todo, before |-> @.before]]

\* The answer: it is done, or the 502 of an _AlertmanagerError.
Done(h) == request' = [request EXCEPT ![h] = NoRequest]

(***************************************************************************)
(* ui_alerting_mute                                                        *)
(***************************************************************************)
Mute(h) ==
    /\ request[h].pc = "idle"
    /\ \E scope \in Scope : request' = [request EXCEPT ![h] =
            [pc |-> "post", scope |-> scope, todo |-> {}, before |-> {}]]
    /\ UNCHANGED held

Post(h) ==
    /\ request[h].pc = "post"
    /\ \/ /\ Len(held) < MaxSilence
          /\ held' = Append(held, [by |-> "control-panel", matchers |-> request[h].scope, active |-> TRUE])
       \/ UNCHANGED held
    /\ Done(h)

(***************************************************************************)
(* ui_alerting_unmute                                                      *)
(***************************************************************************)

\* before, a ghost: the silences there were when the operator asked.
Unmute(h) ==
    /\ request[h].pc = "idle"
    /\ \E scope \in Scope :
        request' = [request EXCEPT ![h] = [pc |-> "list", scope |-> scope, todo |-> {}, before |->
            {i \in Made : /\ held[i].by = "control-panel"
                          /\ held[i].matchers \in {scope} \cup IF scope = "anomalies" THEN {"alertname"} ELSE {}}]]
    /\ UNCHANGED held

List(h) ==
    /\ request[h].pc = "list"
    /\ Goes(h, "delete", PanelSilences(request[h].scope)) \/ Done(h)
    /\ UNCHANGED held

\* One is expired; if someone did it meanwhile, Alertmanager may call that an error.
Delete(h) ==
    /\ request[h].pc = "delete"
    /\ \E i \in request[h].todo :
        \/ /\ held' = [held EXCEPT ![i].active = FALSE]
           /\ Goes(h, "delete", request[h].todo \ {i}) \/ Done(h)
        \/ Done(h) /\ UNCHANGED held

Deleted(h) ==
    /\ request[h].pc = "delete" /\ request[h].todo = {}
    /\ Goes(h, "unmuted", {})
    /\ UNCHANGED held

\* The answer.
Unmuted(h) == request[h].pc = "unmuted" /\ Done(h) /\ UNCHANGED held

(***************************************************************************)
(* Others.                                                                 *)
(***************************************************************************)

\* A silence is over, or is expired in Alertmanager's own page.
Expires(i) ==
    /\ i \in Made /\ held[i].active
    /\ held' = [held EXCEPT ![i].active = FALSE]
    /\ UNCHANGED request

SomebodySilences ==
    /\ Len(held) < MaxSilence
    /\ \E m \in Matchers : held' = Append(held, [by |-> "somebody", matchers |-> m, active |-> TRUE])
    /\ UNCHANGED request

Handle(h) == Mute(h) \/ Post(h) \/ Unmute(h) \/ List(h) \/ Delete(h) \/ Deleted(h) \/ Unmuted(h)

Next ==
    \/ \E h \in Handler : Handle(h)
    \/ \E i \in Id : Expires(i)
    \/ SomebodySilences

Spec == Init /\ [][Next]_vars

-----------------------------------------------------------------------------
(***************************************************************************)
(* Properties.                                                             *)
(***************************************************************************)

\* An unmute that is confirmed has lifted every silence of its scope that the
\* panel had made when it was asked: those of mutes that were reported as
\* failed, those made before the scope had its label, and those an unmute that
\* broke off half way had left (_panel_silences, ui_alerting_unmute).
UnmuteLifts ==
    \A h \in Handler, i \in Made :
        request[h].pc = "unmuted" /\ i \in request[h].before => ~held[i].active

\* The panel ends no silence but its own, and none of the scope that was not
\* asked for: the operators' own silences outlive every unmute.
OnlyItsOwn ==
    [][\A i \in Made :
        request' # request /\ held[i].active /\ ~held'[i].active =>
            /\ held[i].by = "control-panel"
            /\ \E h \in Handler : request[h].pc = "delete" /\ request[h].scope \in SilenceScope(held[i])]_vars
=============================================================================
