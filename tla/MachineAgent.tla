----------------------------- MODULE MachineAgent -----------------------------
(***************************************************************************)
(* One machine's agent (monitoring/production_agent.py, machine_agent): it *)
(* replays consecutive rows, sends one at a time and waits for the answer, *)
(* and adds the machine's last HISTORY_WINDOW readings when it has them,   *)
(* which lets the API serve the rolling-features model.  The outage of a   *)
(* router is a gap: the machine is silent and its history starts over, as  *)
(* it does when the rows are replayed again from the first.                *)
(*                                                                         *)
(* A row stands for its readings.  The label kept of a flagged reading and *)
(* the cause relay are left out.                                           *)
(***************************************************************************)
EXTENDS Integers, Sequences

CONSTANTS
    Rows,    \* SEGMENT_ROWS, the consecutive rows of the machine
    Window   \* HISTORY_WINDOW

ASSUME AgentAssumption ==
    /\ Rows \in Nat \ {0}
    /\ Window \in Nat \ {0}

Row == 0..(Rows - 1)

VARIABLES
    reachable,  \* the rows at which the machine reaches the API
    at,         \* i % len(rows)
    begun,      \* i # 0
    recent,     \* the deque
    thread,     \* "loop", "sending", or "dead": the thread has ended
    carried     \* the history of the request being sent, <<>> when omitted

agentVars == <<reachable, at, begun, recent, thread, carried>>

AgentTypeOK ==
    /\ reachable \subseteq Row
    /\ at \in Row
    /\ begun \in BOOLEAN
    /\ recent \in Seq(Row) /\ Len(recent) <= Window
    /\ thread \in {"loop", "sending", "dead"}
    /\ carried \in Seq(Row) /\ Len(carried) \in {0, Window}

AgentInit ==
    /\ reachable \in SUBSET Row
    /\ at = 0 /\ begun = FALSE
    /\ recent = <<>> /\ carried = <<>>
    /\ thread = "loop"

\* A plausible slip: the rows start over and the readings are kept.
KeptAcrossWrap == recent

\* The readings kept at the start of an iteration: none when the rows start over.
Kept == IF begun /\ at = 0 THEN <<>> ELSE recent

\* deque(maxlen=HISTORY_WINDOW).append
Push(s, r) == IF Len(s) = Window THEN Append(Tail(s), r) ELSE Append(s, r)

\* i += 1
Advance == at' = (at + 1) % Rows /\ begun' = TRUE

\* A plausible slip: the iteration ends before the row is counted.
SkipStays ==
    /\ thread = "loop" /\ at \notin reachable
    /\ recent' = <<>>
    /\ UNCHANGED <<reachable, at, begun, thread, carried>>

\* The machine is behind a dead router: nothing is sent.
Skip ==
    /\ thread = "loop" /\ at \notin reachable
    /\ recent' = <<>>
    /\ Advance
    /\ UNCHANGED <<reachable, thread, carried>>

\* A plausible slip: the history goes out as it is, full or not.
SendAnyway ==
    /\ thread = "loop" /\ at \in reachable
    /\ recent' = Push(Kept, at)
    /\ carried' = recent'
    /\ thread' = "sending"
    /\ UNCHANGED <<reachable, at, begun>>

\* A plausible slip: the readings are cleared once they have been sent.
SendOnce ==
    /\ thread = "loop" /\ at \in reachable
    /\ LET full == Push(Kept, at) IN
         IF Len(full) = Window THEN carried' = full /\ recent' = <<>>
                               ELSE carried' = <<>> /\ recent' = full
    /\ thread' = "sending"
    /\ UNCHANGED <<reachable, at, begun>>

Send ==
    /\ thread = "loop" /\ at \in reachable
    /\ recent' = Push(Kept, at)
    /\ carried' = IF Len(recent') = Window THEN recent' ELSE <<>>
    /\ thread' = "sending"
    /\ UNCHANGED <<reachable, at, begun>>

\* send_one returns: with the answer, or after a URLError.
Returns ==
    /\ thread = "sending"
    /\ Advance
    /\ thread' = "loop" /\ carried' = <<>>
    /\ UNCHANGED <<reachable, recent>>

\* send_one raises: the connection is cut before the status line, the read of the
\* answer times out, or the answer is no JSON.  Nothing catches it.
Raises ==
    /\ thread = "sending"
    /\ thread' = "dead" /\ carried' = <<>>
    /\ UNCHANGED <<reachable, at, begun, recent>>

AgentNext == Skip \/ Send \/ Returns \/ Raises

\* The wait between two reports ends, and urlopen has a timeout.
Fairness == WF_agentVars(Skip \/ Send) /\ WF_agentVars(Returns \/ Raises)

AgentSpec == AgentInit /\ [][AgentNext]_agentVars /\ Fairness

(***************************************************************************)
(* Properties.                                                             *)
(***************************************************************************)

\* What a request carries as history is the machine's own last Window readings, up
\* to the one it reports, with no outage and no restart of the rows in between
\* (the windows the rolling-features model was trained on).
GenuineHistory ==
    carried # <<>> =>
        /\ Len(carried) = Window
        /\ \A k \in 1..Window : carried[k] = at - Window + k /\ carried[k] \in reachable

\* History is left out only when there is none: the rows have just begun, or the
\* machine was unreachable during the last Window rows.
HistoryGiven ==
    thread = "sending" /\ carried = <<>> =>
        at + 1 < Window \/ \E r \in Row : r > at - Window /\ r < at /\ r \notin reachable

\* An agent goes on reporting, on its own cycle and for ever, after refused
\* requests, outages and restarts of the rows alike; only an exception that is no
\* URLError ends it.
KeepsReporting == reachable # {} => []<>(thread = "sending") \/ <>(thread = "dead")
=============================================================================
