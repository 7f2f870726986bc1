----------------------------- MODULE DemoLabels -----------------------------
(***************************************************************************)
(* api/demo_labels.py: two processes append labels to one file under a     *)
(* thread lock and a file lock, drop its oldest lines when it has grown    *)
(* too large, and read it without a lock.                                  *)
(*                                                                         *)
(* A label is its number in the order of the records; the size limit is a  *)
(* number of lines.                                                        *)
(***************************************************************************)
EXTENDS Naturals, Sequences, FiniteSets

CONSTANTS
    Process,    \* the control panel and the production agent
    Thread,     \* request threads of each process
    MaxLines, KeepLines, \* MAX_BYTES, in lines, and KEEP_LINES
    MaxLabel    \* bound: labels recorded

VARIABLES
    file,   \* the lines
    flock,  \* who holds the file lock, if anyone
    mutex,  \* who holds each process's _LOCK
    pc, kept, \* where each thread is in record(), and the lines it kept
    log,    \* ghost: every label recorded, in order
    cut     \* ghost: a rewrite of the file was cut off since

Caller == Process \X Thread
vars == <<file, flock, mutex, pc, kept, log, cut>>

Label == 1..MaxLabel
Nobody == {}

InOrder(s) == s \in Seq(Label) /\ \A i \in 1..Len(s) - 1 : s[i] < s[i + 1]

TypeOK ==
    /\ InOrder(file) /\ InOrder(log)
    /\ flock \in {Nobody} \cup {{c} : c \in Caller}
    /\ mutex \in [Process -> {Nobody} \cup {{t} : t \in Thread}]
    /\ pc \in [Caller -> {"idle", "flock", "size", "rewrite", "append"}]
    /\ DOMAIN kept = Caller /\ \A c \in Caller : InOrder(kept[c])
    /\ cut \in BOOLEAN

Init ==
    /\ file = <<>> /\ log = <<>>
    /\ flock = Nobody /\ mutex = [p \in Process |-> Nobody]
    /\ pc = [c \in Caller |-> "idle"] /\ kept = [c \in Caller |-> <<>>]
    /\ cut = FALSE

Last(s, n) == IF Len(s) <= n THEN s ELSE SubSeq(s, Len(s) - n + 1, Len(s))

Goes(c, step) == pc' = [pc EXCEPT ![c] = step]

\* with _LOCK
LockThread(c) ==
    /\ pc[c] = "idle" /\ mutex[c[1]] = Nobody
    /\ Len(log) + Cardinality({d \in Caller : pc[d] # "idle"}) < MaxLabel
    /\ mutex' = [mutex EXCEPT ![c[1]] = {c[2]}]
    /\ Goes(c, "flock")
    /\ UNCHANGED <<file, flock, kept, log, cut>>

\* As if _LOCK were enough.
NoFileLock(c) ==
    /\ pc[c] = "flock"
    /\ flock' = {c}
    /\ Goes(c, "size")
    /\ UNCHANGED <<file, mutex, kept, log, cut>>

\* fcntl.flock(LOCK_EX)
LockFile(c) ==
    /\ pc[c] = "flock" /\ flock = Nobody
    /\ flock' = {c}
    /\ Goes(c, "size")
    /\ UNCHANGED <<file, mutex, kept, log, cut>>

\* Too large: the newest lines are kept, and the file opened, and emptied, to write them.
Truncate(c) ==
    /\ pc[c] = "size"
    /\ IF Len(file) > MaxLines
       THEN kept' = [kept EXCEPT ![c] = Last(file, KeepLines)] /\ file' = <<>> /\ Goes(c, "rewrite")
       ELSE UNCHANGED <<kept, file>> /\ Goes(c, "append")
    /\ UNCHANGED <<flock, mutex, log, cut>>

Rewrite(c) ==
    /\ pc[c] = "rewrite"
    /\ file' = kept[c]
    /\ kept' = [kept EXCEPT ![c] = <<>>]
    /\ Goes(c, "append")
    /\ UNCHANGED <<flock, mutex, log, cut>>

Unlock(c) ==
    /\ flock' = flock \ {c}
    /\ mutex' = [mutex EXCEPT ![c[1]] = Nobody]

AppendLine(c) ==
    /\ pc[c] = "append"
    /\ log' = Append(log, Len(log) + 1)
    /\ file' = Append(file, Len(log'))
    /\ Unlock(c) /\ Goes(c, "idle")
    /\ UNCHANGED <<kept, cut>>

\* An OSError: the lines kept are lost when it strikes the rewrite.
Fails(c) ==
    /\ pc[c] # "idle"
    /\ cut' = (cut \/ pc[c] = "rewrite")
    /\ Unlock(c) /\ Goes(c, "idle")
    /\ kept' = [kept EXCEPT ![c] = <<>>]
    /\ UNCHANGED <<file, log>>

\* A process dies, and the system releases its locks.
Dies(p) ==
    LET mine == {p} \X Thread IN
    /\ \E c \in mine : pc[c] # "idle"
    /\ cut' = (cut \/ \E c \in mine : pc[c] = "rewrite")
    /\ flock' = flock \ mine
    /\ mutex' = [mutex EXCEPT ![p] = Nobody]
    /\ pc' = [c \in Caller |-> IF c \in mine THEN "idle" ELSE pc[c]]
    /\ kept' = [c \in Caller |-> IF c \in mine THEN <<>> ELSE kept[c]]
    /\ UNCHANGED <<file, log>>

Record(c) == LockThread(c) \/ LockFile(c) \/ Truncate(c) \/ Rewrite(c) \/ AppendLine(c)

Next ==
    \/ \E c \in Caller : Record(c) \/ Fails(c)
    \/ \E p \in Process : Dies(p)

Spec == Init /\ [][Next]_vars

-----------------------------------------------------------------------------
(***************************************************************************)
(* Properties.                                                             *)
(***************************************************************************)

\* "a line appended by one while the other truncates is not lost": unless a
\* rewrite was cut off, the file holds the newest labels recorded, at least
\* as many as a truncation keeps, in the order they were recorded; while one
\* thread rewrites it, what it keeps does.
NoLabelLost ==
    LET all == IF \E c \in flock : pc[c] = "rewrite" THEN kept[CHOOSE c \in flock : TRUE] ELSE file IN
    cut \/ /\ all = Last(log, Len(all))
           /\ Len(all) = Len(log) \/ Len(all) >= KeepLines
=============================================================================
