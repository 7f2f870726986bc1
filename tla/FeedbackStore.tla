---------------------------- MODULE FeedbackStore ----------------------------
(***************************************************************************)
(* What the API promises its callers about the prediction log: an id       *)
(* /predict returned is a stored row, no row is ever lost, and a verdict   *)
(* the API confirmed was written to its row.                               *)
(***************************************************************************)
CONSTANTS Id, Verdict

VARIABLES
    stored,    \* ids of the committed rows
    judged,    \* <<id, verdict>> of every verdict ever written
    known,     \* ids /predict has returned
    confirmed  \* <<id, verdict>> the API has answered 200

vars == <<stored, judged, known, confirmed>>

Init == stored = {} /\ judged = {} /\ known = {} /\ confirmed = {}

Store(id) ==
    /\ stored' = stored \cup {id}
    /\ UNCHANGED <<judged, known, confirmed>>

Return(id) ==
    /\ id \in stored
    /\ known' = known \cup {id}
    /\ UNCHANGED <<stored, judged, confirmed>>

Judge(id, v) ==
    /\ id \in stored
    /\ judged' = judged \cup {<<id, v>>}
    /\ UNCHANGED <<stored, known, confirmed>>

Confirm(id, v) ==
    /\ <<id, v>> \in judged
    /\ confirmed' = confirmed \cup {<<id, v>>}
    /\ UNCHANGED <<stored, judged, known>>

Next == \E id \in Id : Store(id) \/ Return(id) \/ \E v \in Verdict : Judge(id, v) \/ Confirm(id, v)

Spec == Init /\ [][Next]_vars
=============================================================================
