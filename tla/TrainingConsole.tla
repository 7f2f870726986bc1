--------------------------- MODULE TrainingConsole ---------------------------
(***************************************************************************)
(* The experiment console, api/training.py behind /ui/train: one training  *)
(* at a time on a background thread, its state in one dictionary, its      *)
(* result in a list, and pages that poll the one and then load the other.  *)
(***************************************************************************)
EXTENDS Naturals, Sequences

CONSTANTS
    Page,   \* open Training tabs, each with a request under way at most
    MaxRun  \* bound: runs

VARIABLES
    lock,    \* _TRAIN_LOCK: the run it was taken for, or Free
    active,  \* _ACTIVE
    runs,    \* _RUNS: run and whether it succeeded, newest first
    worker,  \* what the thread of each run does next
    started, \* run ids given out
    page,    \* what each page does, and for which run
    leaked   \* ghost: a thread could not be started

shared == <<lock, active, runs, started>>
vars == <<shared, worker, page, leaked>>

Run == 1..MaxRun
Free == 0
NoActive == [running |-> FALSE, status |-> "", run |-> Free]
ReadyPage == [pc |-> "ready", run |-> Free]

\* _run_training, with try, except and finally: a plausible slip, and the code.
OrderReleaseFirst == <<"load", "train", "record", "tell", "release", "stop", "over">>
Order == <<"load", "train", "record", "tell", "stop", "release", "over">>

Step == {Order[i] : i \in 1..Len(Order)}
After(step) == LET i == CHOOSE i \in 1..Len(Order) : Order[i] = step IN Order[i + 1]

TypeOK ==
    /\ lock \in Run \cup {Free}
    /\ active \in [running: BOOLEAN, status: {"", "queued", "training", "done", "error"}, run: Run \cup {Free}]
    /\ \A i \in 1..Len(runs) : runs[i] \in [run: Run, ok: BOOLEAN]
    /\ \A i, j \in 1..Len(runs) : runs[i].run = runs[j].run => i = j
    /\ worker \in [Run -> [pc: Step \cup {"none"}, ok: BOOLEAN]]
    /\ started \in 0..MaxRun
    /\ page \in [Page -> [pc: {"ready", "update", "thread", "poll", "list"}, run: Run \cup {Free}]]
    /\ leaked \in BOOLEAN

NoWorker == [r \in Run |-> [pc |-> "none", ok |-> FALSE]]

Init ==
    /\ lock = Free /\ active = NoActive /\ runs = <<>> /\ started = 0
    /\ worker = NoWorker
    /\ page = [p \in Page |-> ReadyPage]
    /\ leaked = FALSE

(***************************************************************************)
(* start_training: a second one is refused while the lock is held.         *)
(***************************************************************************)
Acquire(p) ==
    /\ page[p].pc = "ready" /\ lock = Free /\ started < MaxRun
    /\ started' = started + 1
    /\ lock' = started'
    /\ page' = [page EXCEPT ![p] = [pc |-> "update", run |-> started']]
    /\ UNCHANGED <<active, runs, worker, leaked>>

Announce(p) ==
    /\ page[p].pc = "update"
    /\ active' = [running |-> TRUE, status |-> "queued", run |-> page[p].run]
    /\ page' = [page EXCEPT ![p].pc = "thread"]
    /\ UNCHANGED <<lock, runs, started, worker, leaked>>

StartThread(p) ==
    /\ page[p].pc = "thread"
    /\ worker' = [worker EXCEPT ![page[p].run].pc = Order[1]]
    /\ page' = [page EXCEPT ![p].pc = "poll"]
    /\ UNCHANGED <<shared, leaked>>

\* Thread.start raises, and the lock stays taken.
ThreadFails(p) ==
    /\ page[p].pc = "thread"
    /\ page' = [page EXCEPT ![p] = ReadyPage]
    /\ leaked' = TRUE
    /\ UNCHANGED <<shared, worker>>

(***************************************************************************)
(* The worker.                                                             *)
(***************************************************************************)
At(r, step) == worker[r].pc = step
Goes(r) == worker' = [worker EXCEPT ![r].pc = After(@)]

\* A step of the work, which may raise.
Works(r) ==
    /\ worker[r].pc \in {"load", "train"}
    /\ active' = [active EXCEPT !.status = "training"]
    /\ worker' = [worker EXCEPT ![r] = [pc |-> After(@.pc), ok |-> TRUE]]
    /\ UNCHANGED <<lock, runs, started, page, leaked>>

Raises(r) ==
    /\ worker[r].pc \in {"load", "train"}
    /\ active' = [active EXCEPT !.status = "training"]
    /\ worker' = [worker EXCEPT ![r] = [pc |-> After("train"), ok |-> FALSE]]
    /\ UNCHANGED <<lock, runs, started, page, leaked>>

\* As if what follows the insertion could raise within the same try.
RecordTwice(r) ==
    /\ At(r, "record")
    /\ runs' = <<[run |-> r, ok |-> worker[r].ok]>> \o runs
    /\ \/ Goes(r)
       \/ worker[r].ok /\ worker' = [worker EXCEPT ![r].ok = FALSE]
    /\ UNCHANGED <<lock, active, started, page, leaked>>

Record(r) ==
    /\ At(r, "record")
    /\ runs' = <<[run |-> r, ok |-> worker[r].ok]>> \o runs
    /\ Goes(r)
    /\ UNCHANGED <<lock, active, started, page, leaked>>

Tell(r) ==
    /\ At(r, "tell")
    /\ active' = [active EXCEPT !.status = IF worker[r].ok THEN "done" ELSE "error"]
    /\ Goes(r)
    /\ UNCHANGED <<lock, runs, started, page, leaked>>

Stop(r) ==
    /\ At(r, "stop")
    /\ active' = [active EXCEPT !.running = FALSE]
    /\ Goes(r)
    /\ UNCHANGED <<lock, runs, started, page, leaked>>

\* As it would be outside the finally block.
ReleaseIfGood(r) ==
    /\ At(r, "release")
    /\ lock' = IF worker[r].ok THEN Free ELSE lock
    /\ Goes(r)
    /\ UNCHANGED <<active, runs, started, page, leaked>>

Release(r) ==
    /\ At(r, "release")
    /\ lock' = Free
    /\ Goes(r)
    /\ UNCHANGED <<active, runs, started, page, leaked>>

Worker(r) == Works(r) \/ Raises(r) \/ Record(r) \/ Tell(r) \/ Stop(r) \/ Release(r)

(***************************************************************************)
(* The page polls until the status says that nothing runs.                 *)
(***************************************************************************)
Poll(p) ==
    /\ page[p].pc = "poll" /\ ~active.running
    /\ page' = [page EXCEPT ![p].pc = "list"]
    /\ UNCHANGED <<shared, worker, leaked>>

LoadRuns(p) ==
    /\ page[p].pc = "list"
    /\ page' = [page EXCEPT ![p] = ReadyPage]
    /\ UNCHANGED <<shared, worker, leaked>>

\* The API restarts, and pages that wait are told so by a failing poll.
Restart ==
    /\ started > 0
    /\ lock' = Free /\ active' = NoActive /\ runs' = <<>>
    /\ worker' = NoWorker
    /\ page' = [p \in Page |-> ReadyPage]
    /\ leaked' = FALSE
    /\ UNCHANGED started

Next ==
    \/ \E p \in Page : Acquire(p) \/ Announce(p) \/ StartThread(p) \/ ThreadFails(p) \/ Poll(p) \/ LoadRuns(p)
    \/ \E r \in Run : Worker(r)
    \/ Restart

\* Threads run, and requests are served.
Fairness ==
    /\ \A r \in Run : WF_vars(Worker(r))
    /\ \A p \in Page : WF_vars(Announce(p)) /\ WF_vars(StartThread(p) \/ ThreadFails(p))

Spec == Init /\ [][Next]_vars /\ Fairness

-----------------------------------------------------------------------------
(***************************************************************************)
(* Properties.                                                             *)
(***************************************************************************)

\* While a thread trains, the status says that something runs, and that it is
\* this run: no earlier run's last assignments reach into the next one's.
StatusIsTheRuns ==
    \A r \in Run : worker[r].pc \in {"load", "train", "record", "tell", "stop"} => active.running /\ active.run = r

\* A page that was told that nothing runs any more finds its own run in the
\* list it loads then, even if other runs were started since.
ResultIsListed ==
    \A p \in Page : page[p].pc = "list" => \E i \in 1..Len(runs) : runs[i].run = page[p].run

\* Training becomes possible again after every run, however it ends, as long
\* as no thread failed to start.
FreeAgain == [](lock # Free => <>(lock = Free \/ leaked))
=============================================================================
