---------------------------- MODULE PredictionLog ----------------------------
(***************************************************************************)
(* Prediction logging and operator feedback (api/app.py, feedback_db.py).  *)
(* Each API pod serves requests on a pool of threads that share, without a *)
(* lock, the flag FEEDBACK_DB_AVAILABLE and the time of the next reconnect *)
(* attempt; all pods share one PostgreSQL that goes down and comes back.   *)
(*                                                                         *)
(* A request is one of                                                     *)
(*   predict  POST /predict, which logs a row if it can and always answers *)
(*   judge    POST /feedback/{id}, a verdict on a row                      *)
(*   read     the three GET routes over the log                            *)
(* and runs in steps: the flag is read, the reconnect (if due) runs, the   *)
(* flag is set, the statement runs and commits, the answer is returned.    *)
(* The scoring that precedes the log entry keeps no state and is left out. *)
(* A verdict is identified by the time stamp it is written with.           *)
(***************************************************************************)
EXTENDS Naturals, FiniteSets, FiniteSetsExt

CONSTANTS
    Pod, Thread,
    PodOf,        \* the pod of each thread
    Id,           \* the uuids that are drawn
    Retry,        \* _DB_RETRY_INTERVAL_S, in clock ticks
    MaxJudgements \* bound: verdicts submitted

ASSUME ConstantsAssumption ==
    /\ PodOf \in [Thread -> Pod]
    /\ IsFiniteSet(Thread) /\ "free" \notin Thread
    /\ Retry \in Nat \ {0}
    /\ MaxJudgements \in Nat

Pending == 0   \* operator_verdict is NULL

VARIABLES
    dbUp, rows, lock,      \* PostgreSQL: committed rows, holder of a row's lock
    avail, retryIn,        \* per pod: the flag, ticks to _db_next_retry
    pc, req,               \* per thread: the request it serves
    clock,                 \* of the verdict timestamps
    judged, known, confirmed  \* ghosts: see FeedbackStore

dbVars == <<dbUp, rows, lock>>
podVars == <<avail, retryIn>>
answers == <<known, confirmed>>
vars == <<dbVars, podVars, pc, req, clock, judged, answers>>

Kinds == {"predict", "judge", "read"}
Stored == DOMAIN rows
Asked(kind, id, stamp, row) == [kind |-> kind, id |-> id, stamp |-> stamp, row |-> row]
Idle == Asked("read", "none", Pending, Pending)

Stamps == 1..MaxJudgements
Row == {Pending} \cup Stamps
Request == [kind : Kinds, id : Id \cup {"none"}, stamp : Row, row : Row]
Steps == {"idle", "check", "connect", "enable", "query", "update", "read", "reply", "failed"}

TypeOK ==
    /\ dbUp \in BOOLEAN
    /\ Stored \subseteq Id /\ \A id \in Stored : rows[id] \in Row
    /\ lock \in [Id -> Thread \cup {"free"}]
    /\ avail \in [Pod -> BOOLEAN]
    /\ retryIn \in [Pod -> 0..Retry]
    /\ pc \in [Thread -> Steps]
    /\ req \in [Thread -> Request]
    /\ clock \in 0..MaxJudgements
    /\ judged \subseteq Id \X Stamps
    /\ known \subseteq Id
    /\ confirmed \subseteq Id \X Stamps

Init ==
    /\ dbUp = TRUE
    /\ rows = [id \in {} |-> Pending]
    /\ lock = [id \in Id |-> "free"]
    /\ avail = [p \in Pod |-> TRUE]     \* _init_feedback_db_on_startup found it
    /\ retryIn = [p \in Pod |-> 0]
    /\ pc = [t \in Thread |-> "idle"]
    /\ req = [t \in Thread |-> Idle]
    /\ clock = 0
    /\ judged = {}
    /\ known = {}
    /\ confirmed = {}

Goto(t, step) == pc' = [pc EXCEPT ![t] = step]
Finish(t) == Goto(t, "idle") /\ req' = [req EXCEPT ![t] = Idle]

(***************************************************************************)
(* A request and its readiness check.                                      *)
(***************************************************************************)

\* insert_prediction draws a new uuid.
Drawn == Stored \cup {req[t].id : t \in Thread}

BeginPredict(t) ==
    /\ pc[t] = "idle"
    /\ \E id \in Id \ Drawn : req' = [req EXCEPT ![t] = Asked("predict", id, Pending, Pending)]
    /\ Goto(t, "check")
    /\ UNCHANGED <<dbVars, podVars, clock, judged, answers>>

BeginJudge(t) ==
    /\ pc[t] = "idle"
    /\ clock + Cardinality({u \in Thread : req[u].kind = "judge"}) < MaxJudgements
    /\ \E id \in Id : req' = [req EXCEPT ![t] = Asked("judge", id, Pending, Pending)]
    /\ Goto(t, "check")
    /\ UNCHANGED <<dbVars, podVars, clock, judged, answers>>

BeginRead(t) ==
    /\ pc[t] = "idle"
    /\ Goto(t, "check")
    /\ UNCHANGED <<dbVars, podVars, req, clock, judged, answers>>

\* _db_ready up to the reconnect.  A pod that must wait answers at once: /predict
\* without an id, the other routes 503.
Check(t) ==
    LET p == PodOf[t] IN
    /\ pc[t] = "check"
    /\ \/ /\ avail[p]
          /\ Goto(t, "query")
          /\ UNCHANGED req
       \/ /\ ~avail[p] /\ retryIn[p] > 0
          /\ Finish(t)
       \/ /\ ~avail[p] /\ retryIn[p] = 0
          /\ Goto(t, "connect")
          /\ UNCHANGED req
    /\ UNCHANGED <<dbVars, avail, retryIn, clock, judged, answers>>

\* A plausible slip: the connection attempt has no timeout.
ConnectWaits(t) ==
    /\ pc[t] = "connect"
    /\ dbUp
    /\ Goto(t, "enable")
    /\ UNCHANGED <<dbVars, podVars, req, clock, judged, answers>>

\* init_feedback_db: creates what is missing, or fails within the timeout.
Connect(t) ==
    /\ pc[t] = "connect"
    /\ Goto(t, IF dbUp THEN "enable" ELSE "failed")
    /\ UNCHANGED <<dbVars, podVars, req, clock, judged, answers>>

\* FEEDBACK_DB_AVAILABLE = True, whatever other threads did since.
Enable(t) ==
    /\ pc[t] = "enable"
    /\ avail' = [avail EXCEPT ![PodOf[t]] = TRUE]
    /\ Goto(t, "query")
    /\ UNCHANGED <<dbVars, retryIn, req, clock, judged, answers>>

\* A plausible slip: every further failure pushes the next attempt back.
MarkDownBackoff(t) ==
    LET p == PodOf[t] IN
    /\ pc[t] = "failed"
    /\ avail' = [avail EXCEPT ![p] = FALSE]
    /\ retryIn' = [retryIn EXCEPT ![p] = @ + Retry]
    /\ Finish(t)
    /\ UNCHANGED <<dbVars, clock, judged, answers>>

\* _mark_db_down, on any failure: of the reconnect, of _safe_insert_prediction or
\* (through _db_went_away) of another route; the request is then answered.
MarkDown(t) ==
    LET p == PodOf[t] IN
    /\ pc[t] = "failed"
    /\ avail' = [avail EXCEPT ![p] = FALSE]
    /\ retryIn' = [retryIn EXCEPT ![p] = Retry]
    /\ Finish(t)
    /\ UNCHANGED <<dbVars, clock, judged, answers>>

(***************************************************************************)
(* The statements.                                                         *)
(***************************************************************************)

\* A statement that finds PostgreSQL down fails.
QueryFails(t) ==
    /\ pc[t] \in {"query", "update"}
    /\ ~dbUp
    /\ Goto(t, "failed")
    /\ UNCHANGED <<dbVars, podVars, req, clock, judged, answers>>

\* insert_prediction: INSERT and commit.
Insert(t) ==
    LET r == req[t] IN
    /\ pc[t] = "query" /\ r.kind = "predict" /\ dbUp
    /\ rows' = [id \in Stored \cup {r.id} |-> IF id = r.id THEN Pending ELSE rows[id]]
    /\ Goto(t, "reply")
    /\ UNCHANGED <<dbUp, lock, podVars, req, clock, judged, answers>>

\* update_verdict computes the timestamp, then sends the UPDATE.
Stamp(t) ==
    /\ pc[t] = "query" /\ req[t].kind = "judge" /\ dbUp
    /\ clock' = clock + 1
    /\ req' = [req EXCEPT ![t] = Asked("judge", req[t].id, clock + 1, Pending)]
    /\ Goto(t, "update")
    /\ UNCHANGED <<dbVars, podVars, judged, answers>>

\* UPDATE of an id that was never stored: 404.
UpdateMisses(t) ==
    /\ pc[t] = "update" /\ dbUp
    /\ req[t].id \notin Stored
    /\ Finish(t)
    /\ UNCHANGED <<dbVars, podVars, clock, judged, answers>>

\* A plausible slip: the connection commits each statement on its own.
UpdateAutocommits(t) ==
    LET r == req[t] IN
    /\ pc[t] = "update" /\ dbUp
    /\ r.id \in Stored /\ lock[r.id] = "free"
    /\ rows' = [rows EXCEPT ![r.id] = r.stamp]
    /\ judged' = judged \cup {<<r.id, r.stamp>>}
    /\ Goto(t, "read")
    /\ UNCHANGED <<dbUp, lock, podVars, req, clock, answers>>

\* UPDATE: waits for, then holds, the row's lock until the commit.
Update(t) ==
    LET id == req[t].id IN
    /\ pc[t] = "update" /\ dbUp
    /\ id \in Stored /\ lock[id] = "free"
    /\ lock' = [lock EXCEPT ![id] = t]
    /\ Goto(t, "read")
    /\ UNCHANGED <<dbUp, rows, podVars, req, clock, judged, answers>>

\* SELECT of the same row in the transaction, and commit.
ReadBack(t) ==
    LET r == req[t]
        holds == lock[r.id] = t
    IN
    /\ pc[t] = "read"
    /\ req' = [req EXCEPT ![t] = Asked(r.kind, r.id, r.stamp, IF holds THEN r.stamp ELSE rows[r.id])]
    /\ rows' = IF holds THEN [rows EXCEPT ![r.id] = r.stamp] ELSE rows
    /\ judged' = judged \cup (IF holds THEN {<<r.id, r.stamp>>} ELSE {})
    /\ lock' = IF holds THEN [lock EXCEPT ![r.id] = "free"] ELSE lock
    /\ Goto(t, "reply")
    /\ UNCHANGED <<dbUp, podVars, clock, answers>>

\* recent_predictions, predictions_for_machine, verdict_stats
Select(t) ==
    /\ pc[t] = "query" /\ req[t].kind = "read" /\ dbUp
    /\ Goto(t, "reply")
    /\ UNCHANGED <<dbVars, podVars, req, clock, judged, answers>>

\* A plausible slip: the id is returned whether or not the row was logged.
ReplyAnyway(t) ==
    LET r == req[t] IN
    /\ pc[t] \in {"reply", "failed"}
    /\ known' = IF r.kind = "predict" THEN known \cup {r.id} ELSE known
    /\ confirmed' = IF r.kind = "judge" THEN confirmed \cup {<<r.id, r.row>>} ELSE confirmed
    /\ Finish(t)
    /\ UNCHANGED <<dbVars, podVars, clock, judged>>

\* The answer: the id of the logged row, or the row as update_verdict returned it.
Reply(t) ==
    LET r == req[t] IN
    /\ pc[t] = "reply"
    /\ known' = IF r.kind = "predict" THEN known \cup {r.id} ELSE known
    /\ confirmed' = IF r.kind = "judge" THEN confirmed \cup {<<r.id, r.row>>} ELSE confirmed
    /\ Finish(t)
    /\ UNCHANGED <<dbVars, podVars, clock, judged>>

(***************************************************************************)
(* The environment.                                                        *)
(***************************************************************************)

\* PostgreSQL stops: open connections break, with the transaction lost or with
\* only the answer to the commit lost; committed rows stay.
DbStops ==
    /\ dbUp
    /\ dbUp' = FALSE
    /\ lock' = [id \in Id |-> "free"]
    /\ pc' = [t \in Thread |-> IF pc[t] \in {"connect", "update", "read", "reply"}
                               THEN "failed" ELSE pc[t]]
    /\ UNCHANGED <<rows, podVars, req, clock, judged, answers>>

DbStarts ==
    /\ ~dbUp
    /\ dbUp' = TRUE
    /\ UNCHANGED <<rows, lock, podVars, pc, req, clock, judged, answers>>

\* A pod is replaced: its requests end unanswered, the new one calls _db_ready
\* before it serves (_init_feedback_db_on_startup).
PodRestarts(p) ==
    LET mine == {t \in Thread : PodOf[t] = p} IN
    /\ pc' = [t \in Thread |-> IF t \in mine THEN "idle" ELSE pc[t]]
    /\ req' = [t \in Thread |-> IF t \in mine THEN Idle ELSE req[t]]
    /\ lock' = [id \in Id |-> IF lock[id] \in mine THEN "free" ELSE lock[id]]
    /\ avail' = [avail EXCEPT ![p] = dbUp]
    /\ retryIn' = [retryIn EXCEPT ![p] = IF dbUp THEN 0 ELSE Retry]
    /\ UNCHANGED <<dbUp, rows, clock, judged, answers>>

\* time.monotonic() advances.
Tick ==
    /\ \E p \in Pod : retryIn[p] > 0
    /\ retryIn' = [p \in Pod |-> IF retryIn[p] > 0 THEN retryIn[p] - 1 ELSE 0]
    /\ UNCHANGED <<dbVars, avail, pc, req, clock, judged, answers>>

Begin(t) == BeginPredict(t) \/ BeginJudge(t) \/ BeginRead(t)
Step(t) ==
    \/ Check(t) \/ Connect(t) \/ Enable(t) \/ MarkDown(t) \/ QueryFails(t)
    \/ Insert(t) \/ Stamp(t) \/ UpdateMisses(t) \/ Update(t) \/ ReadBack(t)
    \/ Select(t) \/ Reply(t)
Environment == DbStops \/ DbStarts \/ Tick \/ \E p \in Pod : PodRestarts(p)
Next == Environment \/ \E t \in Thread : Begin(t) \/ Step(t)

\* Threads run, time passes, and every pod keeps receiving requests (each machine
\* agent posts a reading every few seconds).
Fairness ==
    /\ WF_vars(Tick)
    /\ \A t \in Thread : WF_vars(Step(t)) /\ WF_vars(Begin(t))

Spec == Init /\ [][Next]_vars /\ Fairness

(***************************************************************************)
(* Properties.                                                             *)
(***************************************************************************)

\* The prediction log implements FeedbackStore: an id /predict returned is a
\* stored row, rows outlive outages and pods, and a confirmed verdict was
\* written to its row, although the flag, the answer to a commit and the pod may
\* be lost at any step (_safe_insert_prediction, insert_prediction).
Store == INSTANCE FeedbackStore WITH stored <- Stored, Verdict <- Stamps
KeepsPromises == Store!Spec

\* The row a verdict is answered with is the caller's own, whoever else judges
\* the same prediction from another pod (update_verdict reads it back inside the
\* transaction that wrote it).
OwnVerdict ==
    \A t \in Thread :
        pc[t] = "reply" /\ req[t].kind = "judge" => req[t].row = req[t].stamp

\* Pods are restarted finitely often.
RestartsEnd == <>[][\A p \in Pod : ~PodRestarts(p)]_vars

\* A transient outage recovers by itself: once PostgreSQL stays up, every pod logs
\* again and is never marked down again, however late the failures of the outage
\* are noticed (_db_ready, _mark_db_down).
LoggingRecovers == RestartsEnd /\ <>[]dbUp => \A p \in Pod : <>[]avail[p]

\* No request waits for the database for ever, up or down: a dead host fails fast
\* and a row's lock is always released (_connect, update_verdict).
RequestsEnd == \A t \in Thread : pc[t] # "idle" ~> pc[t] = "idle"

\* Nobody has to restart the API after an outage: every pod logs again, and no request
\* hangs (_db_ready, _connect).
RecoversByItself == LoggingRecovers /\ RequestsEnd
=============================================================================
