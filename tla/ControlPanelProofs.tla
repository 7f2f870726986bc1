------------------------- MODULE ControlPanelProofs -------------------------
(***************************************************************************)
(* What the control panel's run checks, for every number of pages,         *)
(* threads, requests, silences, rows and actions. Each part has an         *)
(* inductive invariant of its own; as a step of the panel is a step of one *)
(* part and leaves the others' variables alone (Steps), it is an invariant *)
(* of the panel.                                                           *)
(***************************************************************************)
EXTENDS ControlPanel, Sequences, FiniteSetTheorems, TLAPS

LEMMA Sizes ==
    ASSUME NEW S
    PROVE  /\ Demo!Cardinality(S) = Cardinality(S)
           /\ Layers!Cardinality(S) = Cardinality(S) /\ Labels!Cardinality(S) = Cardinality(S)
  BY DEF Cardinality, Demo!Cardinality, Layers!Cardinality, Labels!Cardinality

LEMMA Bounds ==
    /\ MaxRun \in Nat \ {0} /\ KeepLines \in Nat \ {0} /\ MaxSilence \in Nat \ {0} /\ KeepActions \in Nat \ {0}
    /\ MaxLines \in Nat /\ MaxLabel \in Nat /\ MaxAction \in Nat /\ MaxDeath \in Nat /\ MaxRow \in Nat
    /\ MaxWork \in Nat /\ MaxEvent \in Nat
  BY ConstantsAssumption

LEMMA Starts ==
    Init => /\ Training!Init /\ Labels!Init /\ Silences!Init /\ Layers!Init
            /\ Demo!Init /\ Stops!Init /\ Network!Init
  BY DEF Init

LEMMA Steps ==
    [Next]_vars =>
        /\ [Training!Next]_Training!vars /\ [Labels!Next]_Labels!vars
        /\ [Silences!Next]_Silences!vars /\ [Layers!Next]_Layers!vars
        /\ [Demo!Next]_Demo!vars /\ [Network!Next]_Network!vars
        /\ Stops!Next \/ UNCHANGED stops
<1> SUFFICES ASSUME [Next]_vars PROVE
        /\ Training!Next \/ UNCHANGED console
        /\ Labels!Next \/ UNCHANGED labels
        /\ Silences!Next \/ UNCHANGED silences
        /\ Layers!Next \/ UNCHANGED layers
        /\ Demo!Next \/ UNCHANGED demo
        /\ Network!Next \/ UNCHANGED network
        /\ Stops!Next \/ UNCHANGED stops
  BY DEF console, labels, silences, layers, demo, network, Training!vars, Training!shared, Labels!vars, Silences!vars,
         Layers!vars, Demo!vars, Network!vars
<1> QED
  BY DEF Next, vars


-----------------------------------------------------------------------------
(***************************************************************************)
(* The experiment console.                                                 *)
(***************************************************************************)

AtWork == {"load", "train", "record", "tell", "stop", "release"}
Recorded == {"tell", "stop", "release", "over"}
RunRecord == [run : Training!Run, ok : BOOLEAN]

\* Who has taken the lock for a run: the page that is starting it, or its thread.
Starting(p) == page[p].pc \in {"update", "thread"}

LockIsTheRuns ==
    /\ \A r \in Training!Run : worker[r].pc \in AtWork => lock = r
    /\ \A p \in Page : Starting(p) => lock = page[p].run /\ worker[page[p].run].pc = "none"
    /\ \A p, q \in Page : Starting(p) /\ Starting(q) => p = q

\* Runs are numbered in the order they are started.
Numbered ==
    /\ \A r \in Training!Run : worker[r].pc # "none" => r <= started
    /\ \A p \in Page : page[p].pc # "ready" => page[p].run \in 1..started
    /\ lock <= started

\* The status is the run's from before its thread is started.
Announced ==
    /\ \A p \in Page : page[p].pc = "thread" => active.running /\ active.run = page[p].run
    /\ Training!StatusIsTheRuns

\* A run is in the list from when its thread has put it there, and once.
Listed ==
    /\ runs \in Seq(RunRecord)
    /\ \A r \in Training!Run : worker[r].pc \in Recorded <=> \E i \in 1..Len(runs) : runs[i].run = r
    /\ \A p \in Page : page[p].pc \in {"poll", "list"} => worker[page[p].run].pc # "none"
    /\ Training!ResultIsListed

TrainingInv == Training!TypeOK /\ LockIsTheRuns /\ Numbered /\ Announced /\ Listed

LEMMA Orders ==
    /\ Training!Step = AtWork \cup {"over"} /\ Training!Order[1] = "load"
    /\ Training!After("load") = "train" /\ Training!After("train") = "record" /\ Training!After("record") = "tell"
    /\ Training!After("tell") = "stop" /\ Training!After("stop") = "release" /\ Training!After("release") = "over"
<1> DEFINE place(s) == CHOOSE i \in 1..Len(Training!Order) : Training!Order[i] = s
<1>1. Len(Training!Order) = 7
  BY DEF Training!Order
<1>2. 1..7 = {1, 2, 3, 4, 5, 6, 7}
  OBVIOUS
<1>3. Training!Step = AtWork \cup {"over"} /\ Training!Order[1] = "load"
  BY <1>1, <1>2 DEF Training!Step, Training!Order, AtWork
<1>4. place("load") = 1 /\ place("train") = 2 /\ place("record") = 3 /\ place("tell") = 4 /\ place("stop") = 5 /\ place("release") = 6
  BY <1>1, <1>2 DEF Training!Order
<1> QED
  BY <1>3, <1>4 DEF Training!After, Training!Order

PageRecord == [pc : {"ready", "update", "thread", "poll", "list"}, run : Training!Run \cup {Training!Free}]
WorkerRecord == [pc : Training!Step \cup {"none"}, ok : BOOLEAN]
Status == [running : BOOLEAN, status : {"", "queued", "training", "done", "error"}, run : Training!Run \cup {Training!Free}]

\* What a step of a page, or of a thread, changes.
LEMMA PageGoes ==
    ASSUME page \in [Page -> PageRecord], NEW p \in Page, NEW x \in {"ready", "update", "thread", "poll", "list"},
           page' = [page EXCEPT ![p].pc = x]
    PROVE  /\ page' \in [Page -> PageRecord] /\ page'[p].pc = x /\ page'[p].run = page[p].run
           /\ \A q \in Page : q # p => page'[q] = page[q]
<1>1. [page[p] EXCEPT !.pc = x] \in PageRecord
  BY DEF PageRecord
<1>2. page' = [page EXCEPT ![p] = [page[p] EXCEPT !.pc = x]]
  OBVIOUS
<1>3. [page[p] EXCEPT !.pc = x].pc = x /\ [page[p] EXCEPT !.pc = x].run = page[p].run
  BY DEF PageRecord
<1> QED
  BY <1>1, <1>2, <1>3

LEMMA WorkerGoes ==
    ASSUME worker \in [Training!Run -> WorkerRecord], NEW r \in Training!Run, NEW x \in Training!Step,
           worker' = [worker EXCEPT ![r].pc = x]
    PROVE  /\ worker' \in [Training!Run -> WorkerRecord] /\ worker'[r].pc = x /\ worker'[r].ok = worker[r].ok
           /\ \A q \in Training!Run : q # r => worker'[q] = worker[q]
<1>1. [worker[r] EXCEPT !.pc = x] \in WorkerRecord
  BY DEF WorkerRecord
<1>2. worker' = [worker EXCEPT ![r] = [worker[r] EXCEPT !.pc = x]]
  OBVIOUS
<1>3. [worker[r] EXCEPT !.pc = x].pc = x /\ [worker[r] EXCEPT !.pc = x].ok = worker[r].ok
  BY DEF WorkerRecord
<1> QED
  BY <1>1, <1>2, <1>3

LEMMA StatusGoes ==
    ASSUME active \in Status
    PROVE  /\ \A s \in {"training", "done", "error"} :
                /\ [active EXCEPT !.status = s] \in Status
                /\ [active EXCEPT !.status = s].running = active.running /\ [active EXCEPT !.status = s].run = active.run
           /\ [active EXCEPT !.running = FALSE] \in Status
           /\ [active EXCEPT !.running = FALSE].run = active.run /\ ~[active EXCEPT !.running = FALSE].running
  BY DEF Status

LEMMA TrainingTypes ==
    TrainingInv => /\ page \in [Page -> PageRecord] /\ worker \in [Training!Run -> WorkerRecord] /\ active \in Status
                   /\ runs \in Seq(RunRecord) /\ started \in 0..MaxRun /\ lock \in Training!Run \cup {Training!Free}
  BY DEF TrainingInv, Training!TypeOK, PageRecord, WorkerRecord, Status, Listed

LEMMA TrainingStarts == Training!Init => TrainingInv
<1> SUFFICES ASSUME Training!Init PROVE TrainingInv
  OBVIOUS
<1>1. /\ worker \in [Training!Run -> WorkerRecord] /\ \A r \in Training!Run : worker[r].pc = "none"
      /\ page \in [Page -> PageRecord] /\ \A p \in Page : page[p].pc = "ready"
  BY DEF Training!Init, Training!NoWorker, Training!ReadyPage, Training!Free, WorkerRecord, PageRecord
<1>2. lock = 0 /\ started = 0 /\ runs = <<>> /\ leaked = FALSE /\ active \in Status /\ Training!Free = 0
  BY DEF Training!Init, Training!NoActive, Training!Free, Status
<1>3. Training!TypeOK
  <2>1. 0 \in 0..MaxRun /\ \A i \in 1..Len(runs) : FALSE
    BY <1>2, Bounds
  <2> QED
    BY <1>1, <1>2, <2>1 DEF Training!TypeOK, WorkerRecord, PageRecord, Status
<1>4. LockIsTheRuns /\ Numbered /\ Announced
  BY <1>1, <1>2 DEF LockIsTheRuns, AtWork, Numbered, Announced, Starting, Training!StatusIsTheRuns
<1>5. Listed
  BY <1>1, <1>2 DEF Listed, Recorded, Training!ResultIsListed
<1> QED
  BY <1>3, <1>4, <1>5 DEF TrainingInv

\* A page starts a run.
LEMMA TrainingStart ==
    ASSUME TrainingInv, NEW p \in Page,
           Training!Acquire(p) \/ Training!Announce(p) \/ Training!StartThread(p) \/ Training!ThreadFails(p)
    PROVE  TrainingInv'
<1> USE DEF TrainingInv, Training!Run, Training!Free
<1>0. /\ page \in [Page -> PageRecord] /\ worker \in [Training!Run -> WorkerRecord] /\ active \in Status
      /\ runs \in Seq(RunRecord) /\ started \in 0..MaxRun /\ lock \in Training!Run \cup {Training!Free}
      /\ MaxRun \in Nat
  BY TrainingTypes, Bounds
<1>1. CASE Training!Acquire(p)
  <2>1. /\ started' = started + 1 /\ lock' = started + 1 /\ page[p].pc = "ready" /\ lock = 0 /\ started + 1 \in 1..MaxRun
        /\ UNCHANGED <<active, runs, worker, leaked>> /\ page' = [page EXCEPT ![p] = [pc |-> "update", run |-> started + 1]]
    BY <1>0, <1>1 DEF Training!Acquire
  <2>2. /\ page' \in [Page -> PageRecord] /\ page'[p] = [pc |-> "update", run |-> started + 1]
        /\ \A q \in Page : q # p => page'[q] = page[q]
    BY <1>0, <2>1 DEF PageRecord
  <2>3. Training!TypeOK'
    <3>1. lock' \in 1..MaxRun /\ started' \in 0..MaxRun
      BY <1>0, <2>1
    <3> QED
      BY <2>1, <2>2, <3>1 DEF Training!TypeOK, PageRecord
  <2>4. \A r \in 1..MaxRun : worker[r].pc \notin AtWork
    BY <2>1 DEF LockIsTheRuns, AtWork
  <2>5. \A q \in Page : ~Starting(q)
    BY <1>0, <2>1 DEF LockIsTheRuns, Starting, Numbered
  <2>6. worker[started + 1].pc = "none"
    BY <1>0, <2>1 DEF Numbered
  <2>7. LockIsTheRuns'
    BY <2>1, <2>2, <2>4, <2>5, <2>6 DEF LockIsTheRuns, Starting
  <2>8. Numbered'
    BY <1>0, <2>1, <2>2 DEF Numbered
  <2>9. Announced' /\ Listed'
    BY <2>1, <2>2 DEF Announced, Listed, Training!StatusIsTheRuns, Training!ResultIsListed
  <2> QED
    BY <2>3, <2>7, <2>8, <2>9
<1>2. CASE Training!Announce(p)
  <2>1. /\ page[p].pc = "update" /\ active' = [running |-> TRUE, status |-> "queued", run |-> page[p].run]
        /\ page' = [page EXCEPT ![p].pc = "thread"] /\ UNCHANGED <<lock, runs, started, worker, leaked>>
    BY <1>2 DEF Training!Announce
  <2>2. /\ page' \in [Page -> PageRecord] /\ page'[p].pc = "thread" /\ page'[p].run = page[p].run
        /\ \A q \in Page : q # p => page'[q] = page[q]
    BY <1>0, <2>1, PageGoes
  <2>3. Training!TypeOK'
    BY <1>0, <2>1, <2>2 DEF Training!TypeOK, PageRecord, Status
  <2>4. \A r \in 1..MaxRun : worker[r].pc \in AtWork => FALSE
    BY <1>0, <2>1 DEF LockIsTheRuns, Starting, AtWork
  <2>5. LockIsTheRuns' /\ Numbered'
    BY <2>1, <2>2 DEF LockIsTheRuns, Starting, Numbered
  <2>6. Announced'
    BY <2>1, <2>2, <2>4 DEF Announced, Training!StatusIsTheRuns, AtWork, LockIsTheRuns, Starting
  <2>7. Listed'
    BY <2>1, <2>2 DEF Listed, Training!ResultIsListed
  <2> QED
    BY <2>3, <2>5, <2>6, <2>7
<1>3. CASE Training!StartThread(p)
  <2> DEFINE r == page[p].run
  <2>1. /\ page[p].pc = "thread" /\ worker' = [worker EXCEPT ![r].pc = "load"]
        /\ page' = [page EXCEPT ![p].pc = "poll"] /\ UNCHANGED <<lock, active, runs, started, leaked>>
    BY <1>3, Orders DEF Training!StartThread, Training!shared
  <2>2. /\ page' \in [Page -> PageRecord] /\ page'[p].pc = "poll" /\ page'[p].run = r
        /\ \A q \in Page : q # p => page'[q] = page[q]
    BY <1>0, <2>1, PageGoes
  <2>3. r \in 1..MaxRun /\ r <= started /\ worker[r].pc = "none" /\ lock = r
    BY <1>0, <2>1 DEF LockIsTheRuns, Starting, Numbered
  <2>4. /\ worker' \in [Training!Run -> WorkerRecord] /\ worker'[r].pc = "load"
        /\ \A q \in Training!Run : q # r => worker'[q] = worker[q]
    BY <1>0, <2>1, <2>3, WorkerGoes, Orders DEF AtWork
  <2>5. Training!TypeOK'
    BY <1>0, <2>1, <2>2, <2>4 DEF Training!TypeOK, PageRecord, WorkerRecord
  <2>6. LockIsTheRuns'
    BY <2>1, <2>2, <2>3, <2>4 DEF LockIsTheRuns, Starting, AtWork
  <2>7. Numbered'
    BY <1>0, <2>1, <2>2, <2>3, <2>4 DEF Numbered
  <2>8. Announced'
    BY <2>1, <2>2, <2>3, <2>4 DEF Announced, Training!StatusIsTheRuns
  <2>9. Listed'
    BY <1>0, <2>1, <2>2, <2>3, <2>4 DEF Listed, Training!ResultIsListed, Recorded, Numbered
  <2> QED
    BY <2>5, <2>6, <2>7, <2>8, <2>9
<1>4. CASE Training!ThreadFails(p)
  <2>1. /\ page' = [page EXCEPT ![p] = [pc |-> "ready", run |-> 0]] /\ leaked' = TRUE
        /\ UNCHANGED <<lock, active, runs, started, worker>>
    BY <1>4 DEF Training!ThreadFails, Training!shared, Training!ReadyPage
  <2>2. /\ page' \in [Page -> PageRecord] /\ page'[p].pc = "ready" /\ \A q \in Page : q # p => page'[q] = page[q]
    BY <1>0, <2>1 DEF PageRecord
  <2>3. Training!TypeOK'
    BY <1>0, <2>1, <2>2 DEF Training!TypeOK, PageRecord
  <2>4. LockIsTheRuns' /\ Numbered' /\ Announced' /\ Listed'
    BY <2>1, <2>2 DEF LockIsTheRuns, Starting, Numbered, Announced, Training!StatusIsTheRuns, Listed, Training!ResultIsListed
  <2> QED
    BY <2>3, <2>4
<1> QED
  BY <1>1, <1>2, <1>3, <1>4

\* The steps of a run's thread.
LEMMA TrainingWork ==
    ASSUME TrainingInv, NEW r \in Training!Run, Training!Worker(r)
    PROVE  TrainingInv'
<1> USE DEF TrainingInv, Training!Run, Training!Free
<1>0. /\ page \in [Page -> PageRecord] /\ worker \in [Training!Run -> WorkerRecord] /\ active \in Status
      /\ runs \in Seq(RunRecord) /\ started \in 0..MaxRun /\ lock \in Training!Run \cup {Training!Free}
      /\ MaxRun \in Nat
  BY TrainingTypes, Bounds
<1>1. worker[r].pc \in AtWork => /\ lock = r /\ r <= started /\ \A p \in Page : ~Starting(p)
                                 /\ \A q \in Training!Run : q # r => worker[q].pc \notin AtWork
  BY <1>0 DEF LockIsTheRuns, Numbered, AtWork
<1>2. CASE Training!Works(r) \/ Training!Raises(r)
  <2>1. /\ worker[r].pc \in {"load", "train"} /\ active' = [active EXCEPT !.status = "training"]
        /\ UNCHANGED <<lock, runs, started, page, leaked>>
        /\ \E x \in {"train", "record"}, ok \in BOOLEAN : worker' = [worker EXCEPT ![r] = [pc |-> x, ok |-> ok]]
    BY <1>2, Orders DEF Training!Works, Training!Raises
  <2>2. /\ worker' \in [Training!Run -> WorkerRecord] /\ worker'[r].pc \in {"train", "record"}
        /\ \A q \in Training!Run : q # r => worker'[q] = worker[q]
    BY <1>0, <2>1, Orders DEF WorkerRecord, AtWork
  <2>3. active' \in Status /\ active'.running = active.running /\ active'.run = active.run
    BY <1>0, <2>1, StatusGoes
  <2>4. Training!TypeOK'
    BY <1>0, <2>1, <2>2, <2>3 DEF Training!TypeOK, WorkerRecord, Status
  <2>5. LockIsTheRuns' /\ Numbered'
    BY <1>1, <2>1, <2>2 DEF LockIsTheRuns, Starting, AtWork, Numbered
  <2>6. Announced'
    BY <1>1, <2>1, <2>2, <2>3 DEF Announced, Training!StatusIsTheRuns, AtWork, Starting
  <2>7. Listed'
    BY <2>1, <2>2 DEF Listed, Training!ResultIsListed, Recorded
  <2> QED
    BY <2>4, <2>5, <2>6, <2>7
<1>3. CASE Training!Record(r)
  <2>1. /\ worker[r].pc = "record" /\ runs' = <<[run |-> r, ok |-> worker[r].ok]>> \o runs
        /\ worker' = [worker EXCEPT ![r].pc = Training!After(worker[r].pc)]
        /\ UNCHANGED <<lock, active, started, page, leaked>>
    BY <1>3 DEF Training!Record, Training!At, Training!Goes
  <2>2. /\ worker' \in [Training!Run -> WorkerRecord] /\ worker'[r].pc = "tell"
        /\ \A q \in Training!Run : q # r => worker'[q] = worker[q]
    BY <1>0, <2>1, WorkerGoes, Orders DEF AtWork
  <2>3. [run |-> r, ok |-> worker[r].ok] \in RunRecord
    BY <1>0 DEF WorkerRecord, RunRecord
  <2>4. /\ runs' \in Seq(RunRecord) /\ Len(runs') = Len(runs) + 1 /\ runs'[1].run = r
        /\ \A i \in 1..Len(runs) : runs'[i + 1] = runs[i]
        /\ \A i \in 2..Len(runs') : i - 1 \in 1..Len(runs) /\ runs'[i] = runs[i - 1]
    BY <1>0, <2>1, <2>3
  <2>5. \A i \in 1..Len(runs) : runs[i].run # r
    BY <2>1 DEF Listed, Recorded
  <2>6. \A i, j \in 1..Len(runs') : runs'[i].run = runs'[j].run => i = j
    <3>1. \A i, j \in 1..Len(runs) : runs[i].run = runs[j].run => i = j
      BY DEF Training!TypeOK
    <3>2. Len(runs) \in Nat
      BY <1>0
    <3>3. \A i \in 1..Len(runs') : runs'[i].run = r => i = 1
      <4>1. \A i \in 1..Len(runs') : i = 1 \/ i \in 2..Len(runs')
        BY <2>4, <3>2
      <4> QED
        BY <2>4, <2>5, <4>1
    <3> SUFFICES ASSUME NEW i \in 1..Len(runs'), NEW j \in 1..Len(runs'), runs'[i].run = runs'[j].run PROVE i = j
      OBVIOUS
    <3>4. CASE i = 1 \/ j = 1
      BY <2>4, <3>3, <3>4
    <3>5. CASE i # 1 /\ j # 1
      <4>1. i \in 2..Len(runs') /\ j \in 2..Len(runs')
        BY <2>4, <3>2, <3>5
      <4>2. i - 1 = j - 1
        BY <2>4, <3>1, <4>1
      <4> QED
        BY <3>2, <4>2, <2>4
    <3> QED
      BY <3>4, <3>5
  <2>7. Training!TypeOK'
    <3>1. \A i \in 1..Len(runs') : runs'[i] \in RunRecord
      BY <2>4
    <3> QED
      BY <2>1, <2>2, <2>6, <3>1 DEF Training!TypeOK, WorkerRecord, RunRecord
  <2>8. LockIsTheRuns' /\ Numbered'
    BY <1>1, <2>1, <2>2 DEF LockIsTheRuns, Starting, AtWork, Numbered
  <2>9. Announced'
    BY <1>1, <2>1, <2>2 DEF Announced, Training!StatusIsTheRuns, AtWork, Starting
  <2>10. \A q \in Training!Run : worker'[q].pc \in Recorded <=> \E i \in 1..Len(runs') : runs'[i].run = q
    <3>1. CASE MaxRun \in Nat /\ Len(runs) \in Nat
      <4>1. ASSUME NEW q \in Training!Run, q # r
            PROVE (\E i \in 1..Len(runs') : runs'[i].run = q) <=> \E i \in 1..Len(runs) : runs[i].run = q
        <5>1. ASSUME NEW i \in 1..Len(runs'), runs'[i].run = q PROVE \E j \in 1..Len(runs) : runs[j].run = q
          <6>1. i \in 2..Len(runs')
            BY <2>4, <3>1, <4>1, <5>1
          <6> QED
            BY <2>4, <5>1, <6>1
        <5>2. ASSUME NEW i \in 1..Len(runs), runs[i].run = q PROVE \E j \in 1..Len(runs') : runs'[j].run = q
          <6>1. i + 1 \in 1..Len(runs')
            BY <2>4, <3>1
          <6> QED
            BY <2>4, <5>2, <6>1
        <5> QED
          BY <5>1, <5>2
      <4>2. 1 \in 1..Len(runs')
        BY <2>4, <3>1
      <4> QED
        BY <2>2, <2>4, <4>1, <4>2 DEF Listed, Recorded
    <3> QED
      BY <1>0, <3>1
  <2>11. \A p \in Page : page[p].pc = "list" => \E i \in 1..Len(runs') : runs'[i].run = page[p].run
    <3> SUFFICES ASSUME NEW p \in Page, page[p].pc = "list" PROVE \E i \in 1..Len(runs') : runs'[i].run = page[p].run
      OBVIOUS
    <3>1. PICK i \in 1..Len(runs) : runs[i].run = page[p].run
      BY DEF Listed, Training!ResultIsListed
    <3>2. i + 1 \in 1..Len(runs')
      BY <1>0, <2>4
    <3> QED
      BY <2>4, <3>1, <3>2
  <2>12. \A p \in Page : page[p].pc \in {"poll", "list"} => worker'[page[p].run].pc # "none"
    <3>1. \A p \in Page : page[p].pc \in {"poll", "list"} => page[p].run \in Training!Run /\ worker[page[p].run].pc # "none"
      BY <1>0 DEF Listed, Numbered
    <3> QED
      BY <2>2, <3>1
  <2>13. Listed'
    BY <2>1, <2>4, <2>10, <2>11, <2>12 DEF Listed, Training!ResultIsListed
  <2> QED
    BY <2>7, <2>8, <2>9, <2>13
<1>4. CASE Training!Tell(r)
  <2>1. /\ worker[r].pc = "tell" /\ worker' = [worker EXCEPT ![r].pc = Training!After(worker[r].pc)]
        /\ UNCHANGED <<lock, runs, started, page, leaked>>
        /\ \E s \in {"done", "error"} : active' = [active EXCEPT !.status = s]
    BY <1>4 DEF Training!Tell, Training!At, Training!Goes
  <2>2. /\ worker' \in [Training!Run -> WorkerRecord] /\ worker'[r].pc = "stop"
        /\ \A q \in Training!Run : q # r => worker'[q] = worker[q]
    BY <1>0, <2>1, WorkerGoes, Orders DEF AtWork
  <2>3. active' \in Status /\ active'.running = active.running /\ active'.run = active.run
    BY <1>0, <2>1, StatusGoes
  <2>4. Training!TypeOK'
    BY <1>0, <2>1, <2>2, <2>3 DEF Training!TypeOK, WorkerRecord, Status
  <2>5. LockIsTheRuns' /\ Numbered'
    BY <1>1, <2>1, <2>2 DEF LockIsTheRuns, Starting, AtWork, Numbered
  <2>6. Announced'
    BY <1>1, <2>1, <2>2, <2>3 DEF Announced, Training!StatusIsTheRuns, AtWork, Starting
  <2>7. Listed'
    BY <2>1, <2>2 DEF Listed, Training!ResultIsListed, Recorded
  <2> QED
    BY <2>4, <2>5, <2>6, <2>7
<1>5. CASE Training!Stop(r)
  <2>1. /\ worker[r].pc = "stop" /\ worker' = [worker EXCEPT ![r].pc = Training!After(worker[r].pc)]
        /\ UNCHANGED <<lock, runs, started, page, leaked>> /\ active' = [active EXCEPT !.running = FALSE]
    BY <1>5 DEF Training!Stop, Training!At, Training!Goes
  <2>2. /\ worker' \in [Training!Run -> WorkerRecord] /\ worker'[r].pc = "release"
        /\ \A q \in Training!Run : q # r => worker'[q] = worker[q]
    BY <1>0, <2>1, WorkerGoes, Orders DEF AtWork
  <2>3. active' \in Status
    BY <1>0, <2>1, StatusGoes
  <2>4. Training!TypeOK'
    BY <1>0, <2>1, <2>2, <2>3 DEF Training!TypeOK, WorkerRecord, Status
  <2>5. LockIsTheRuns' /\ Numbered'
    BY <1>1, <2>1, <2>2 DEF LockIsTheRuns, Starting, AtWork, Numbered
  <2>6. Announced'
    BY <1>1, <2>1, <2>2 DEF Announced, Training!StatusIsTheRuns, AtWork, Starting
  <2>7. Listed'
    BY <2>1, <2>2 DEF Listed, Training!ResultIsListed, Recorded
  <2> QED
    BY <2>4, <2>5, <2>6, <2>7
<1>6. CASE Training!Release(r)
  <2>1. /\ worker[r].pc = "release" /\ worker' = [worker EXCEPT ![r].pc = Training!After(worker[r].pc)]
        /\ UNCHANGED <<active, runs, started, page, leaked>> /\ lock' = 0
    BY <1>6 DEF Training!Release, Training!At, Training!Goes
  <2>2. /\ worker' \in [Training!Run -> WorkerRecord] /\ worker'[r].pc = "over"
        /\ \A q \in Training!Run : q # r => worker'[q] = worker[q]
    BY <1>0, <2>1, WorkerGoes, Orders DEF AtWork
  <2>3. Training!TypeOK'
    BY <1>0, <2>1, <2>2 DEF Training!TypeOK, WorkerRecord
  <2>4. LockIsTheRuns' /\ Numbered'
    BY <1>0, <1>1, <2>1, <2>2 DEF LockIsTheRuns, Starting, AtWork, Numbered
  <2>5. Announced'
    BY <1>1, <2>1, <2>2 DEF Announced, Training!StatusIsTheRuns, AtWork, Starting
  <2>6. Listed'
    BY <2>1, <2>2 DEF Listed, Training!ResultIsListed, Recorded
  <2> QED
    BY <2>3, <2>4, <2>5, <2>6
<1> QED
  BY <1>2, <1>3, <1>4, <1>5, <1>6 DEF Training!Worker

\* What the page does once its run is started, and a restart of the API.
LEMMA TrainingWaits ==
    ASSUME TrainingInv, Training!Restart \/ \E p \in Page : Training!Poll(p) \/ Training!LoadRuns(p)
    PROVE  TrainingInv'
<1> USE DEF TrainingInv, Training!Run, Training!Free
<1>0. /\ page \in [Page -> PageRecord] /\ worker \in [Training!Run -> WorkerRecord] /\ active \in Status
      /\ runs \in Seq(RunRecord) /\ started \in 0..MaxRun /\ lock \in Training!Run \cup {Training!Free}
      /\ MaxRun \in Nat
  BY TrainingTypes, Bounds
<1>1. ASSUME NEW p \in Page, Training!Poll(p) PROVE TrainingInv'
  <2>1. /\ page[p].pc = "poll" /\ ~active.running /\ page' = [page EXCEPT ![p].pc = "list"]
        /\ UNCHANGED <<lock, active, runs, started, worker, leaked>>
    BY <1>1 DEF Training!Poll, Training!shared
  <2>2. /\ page' \in [Page -> PageRecord] /\ page'[p].pc = "list" /\ page'[p].run = page[p].run
        /\ \A q \in Page : q # p => page'[q] = page[q]
    BY <1>0, <2>1, PageGoes
  <2>3. page[p].run \in 1..MaxRun /\ worker[page[p].run].pc \in Recorded
    <3>1. page[p].run \in 1..MaxRun
      BY <1>0, <2>1 DEF Numbered
    <3>2. worker[page[p].run].pc # "none" /\ worker[page[p].run].pc \notin {"load", "train", "record", "tell", "stop"}
      BY <2>1, <3>1 DEF Listed, Announced, Training!StatusIsTheRuns
    <3>3. worker[page[p].run].pc \in AtWork \cup {"over", "none"}
      BY <1>0, <3>1, Orders DEF WorkerRecord
    <3> QED
      BY <3>1, <3>2, <3>3 DEF Recorded, AtWork
  <2>4. Training!TypeOK'
    BY <1>0, <2>1, <2>2 DEF Training!TypeOK, PageRecord
  <2>5. LockIsTheRuns' /\ Numbered' /\ Announced'
    BY <2>1, <2>2 DEF LockIsTheRuns, Starting, Numbered, Announced, Training!StatusIsTheRuns
  <2>6. Listed'
    BY <2>1, <2>2, <2>3 DEF Listed, Training!ResultIsListed
  <2> QED
    BY <2>4, <2>5, <2>6
<1>2. ASSUME NEW p \in Page, Training!LoadRuns(p) PROVE TrainingInv'
  <2>1. /\ page' = [page EXCEPT ![p] = [pc |-> "ready", run |-> 0]]
        /\ UNCHANGED <<lock, active, runs, started, worker, leaked>>
    BY <1>2 DEF Training!LoadRuns, Training!shared, Training!ReadyPage
  <2>2. /\ page' \in [Page -> PageRecord] /\ page'[p].pc = "ready" /\ \A q \in Page : q # p => page'[q] = page[q]
    BY <1>0, <2>1 DEF PageRecord
  <2>3. Training!TypeOK'
    BY <1>0, <2>1, <2>2 DEF Training!TypeOK, PageRecord
  <2>4. LockIsTheRuns' /\ Numbered' /\ Announced' /\ Listed'
    BY <2>1, <2>2 DEF LockIsTheRuns, Starting, Numbered, Announced, Training!StatusIsTheRuns, Listed, Training!ResultIsListed
  <2> QED
    BY <2>3, <2>4
<1>3. CASE Training!Restart
  <2>1. /\ worker' \in [Training!Run -> WorkerRecord] /\ \A q \in Training!Run : worker'[q].pc = "none"
        /\ page' \in [Page -> PageRecord] /\ \A q \in Page : page'[q].pc = "ready"
    BY <1>3 DEF Training!Restart, Training!NoWorker, Training!ReadyPage, WorkerRecord, PageRecord
  <2>2. lock' = 0 /\ started' = started /\ runs' = <<>> /\ leaked' = FALSE /\ active' \in Status
    BY <1>3 DEF Training!Restart, Training!NoActive, Status
  <2>3. Training!TypeOK'
    <3>1. \A i \in 1..Len(runs') : FALSE
      BY <2>2
    <3> QED
      BY <1>0, <2>1, <2>2, <3>1 DEF Training!TypeOK, WorkerRecord, PageRecord, Status
  <2>4. LockIsTheRuns' /\ Numbered' /\ Announced'
    BY <1>0, <2>1, <2>2 DEF LockIsTheRuns, AtWork, Numbered, Announced, Starting, Training!StatusIsTheRuns
  <2>5. Listed'
    BY <2>1, <2>2 DEF Listed, Recorded, Training!ResultIsListed
  <2> QED
    BY <2>3, <2>4, <2>5
<1> QED
  BY <1>1, <1>2, <1>3

LEMMA TrainingAlways == Spec => []TrainingInv
<1>1. TrainingInv /\ [Next]_vars => TrainingInv'
  <2>1. CASE TrainingInv /\ UNCHANGED console
    BY <2>1 DEF console, TrainingInv, Training!TypeOK, LockIsTheRuns, Starting, Numbered, Announced, Listed,
                Training!StatusIsTheRuns, Training!ResultIsListed
  <2>2. UNCHANGED Training!vars <=> UNCHANGED console
    BY DEF Training!vars, Training!shared, console
  <2> QED
    BY <2>1, <2>2, Steps, TrainingStart, TrainingWork, TrainingWaits DEF Training!Next
<1> QED
  BY <1>1, Starts, TrainingStarts, PTL DEF Spec

-----------------------------------------------------------------------------
(***************************************************************************)
(* The demo labels.                                                        *)
(***************************************************************************)

InFile == {"size", "rewrite", "append"}
BusyCallers == {c \in Labels!Caller : pc[c] # "idle"}

\* Lines are labels that were recorded, in the order of the records.
Past(s, n) ==
    /\ s \in Seq(Labels!Label)
    /\ \A i \in 1..Len(s) : s[i] <= n
    /\ \A i \in 1..Len(s) - 1 : s[i] < s[i + 1]

\* They are the newest ones, all of them or at least as many as a truncation keeps.
Newest(s, n) ==
    /\ Len(s) <= n /\ \A i \in 1..Len(s) : s[i] = n - Len(s) + i
    /\ Len(s) = n \/ Len(s) >= KeepLines

LabelsTypes ==
    /\ Labels!TypeOK
    /\ kept \in [Labels!Caller -> Seq(Labels!Label)]
    /\ Past(file, Len(log)) /\ Past(log, Len(log)) /\ \A c \in Labels!Caller : Past(kept[c], Len(log))
    /\ \A i \in 1..Len(log) : log[i] = i
    /\ Len(log) + Cardinality(BusyCallers) <= MaxLabel

\* Whoever is at the file holds its lock.
FileIsLocked == \A c \in Labels!Caller : pc[c] \in InFile => flock = {c}

NewestHeld ==
    \/ cut
    \/ /\ \A c \in Labels!Caller : pc[c] = "rewrite" => Newest(kept[c], Len(log))
       /\ (\A c \in Labels!Caller : pc[c] # "rewrite") => Newest(file, Len(log))

LabelsInv == LabelsTypes /\ FileIsLocked /\ NewestHeld

LEMMA BusyFinite == IsFiniteSet(BusyCallers) /\ Cardinality(BusyCallers) \in Nat
  BY ConstantsAssumption, FS_Subset, FS_CardinalityType DEF BusyCallers, Labels!Caller

LEMMA PastIsInOrder == \A s, n : Past(s, n) => Labels!InOrder(s)
  BY DEF Past, Labels!InOrder

LEMMA LabelsTyped ==
    LabelsTypes =>
        /\ file \in Seq(Labels!Label) /\ log \in Seq(Labels!Label) /\ Len(log) \in Nat /\ Len(file) \in Nat
        /\ kept \in [Labels!Caller -> Seq(Labels!Label)]
        /\ pc \in [Labels!Caller -> {"idle", "flock", "size", "rewrite", "append"}]
        /\ flock = {} \/ \E c \in Labels!Caller : flock = {c}
        /\ mutex \in [Process -> {{}} \cup {{t} : t \in Thread}]
        /\ cut \in BOOLEAN
  BY DEF LabelsTypes, Past, Labels!TypeOK, Labels!Nobody

LEMMA LabelsStarts == Labels!Init => LabelsInv
<1> SUFFICES ASSUME Labels!Init PROVE LabelsInv
  OBVIOUS
<1>1. /\ file = <<>> /\ log = <<>> /\ flock = {} /\ cut = FALSE
      /\ mutex = [p \in Process |-> {}] /\ kept = [c \in Labels!Caller |-> <<>>]
      /\ pc = [c \in Labels!Caller |-> "idle"]
  BY DEF Labels!Init, Labels!Nobody
<1>2. Past(<<>>, 0)
  BY DEF Past
<1>3. BusyCallers = {} /\ Len(log) = 0
  BY <1>1 DEF BusyCallers
<1>4. Len(log) + Cardinality(BusyCallers) <= MaxLabel
  BY <1>3, FS_EmptySet, Bounds
<1>5. kept \in [Labels!Caller -> Seq(Labels!Label)] /\ \A c \in Labels!Caller : Past(kept[c], 0)
  BY <1>1, <1>2 DEF Past
<1>6. Labels!TypeOK
  BY <1>1, <1>2, <1>5, PastIsInOrder DEF Labels!TypeOK, Labels!Nobody
<1>7. LabelsTypes
  BY <1>1, <1>2, <1>3, <1>4, <1>5, <1>6 DEF LabelsTypes
<1>8. FileIsLocked
  BY <1>1 DEF FileIsLocked, InFile
<1>9. Newest(file, Len(log))
  BY <1>1 DEF Newest
<1> QED
  BY <1>1, <1>7, <1>8, <1>9 DEF LabelsInv, NewestHeld

\* The last lines of some that are in order.
LEMMA LastLines ==
    ASSUME NEW m \in Nat, NEW s, Past(s, m), NEW n \in Nat \ {0}, Len(s) > n
    PROVE  /\ Past(Labels!Last(s, n), m) /\ Len(Labels!Last(s, n)) = n
           /\ Newest(s, m) /\ n >= KeepLines /\ KeepLines \in Nat => Newest(Labels!Last(s, n), m)
<1> DEFINE t == SubSeq(s, Len(s) - n + 1, Len(s))
<1>1. Labels!Last(s, n) = t
  BY DEF Labels!Last
<1>2. s \in Seq(Labels!Label) /\ Len(s) \in Nat
  BY DEF Past
<1>3. t \in Seq(Labels!Label) /\ Len(t) = n /\ \A i \in 1..n : t[i] = s[Len(s) - n + i]
  BY <1>2
<1>4. \A i \in 1..n : Len(s) - n + i \in 1..Len(s)
  BY <1>2
<1>5. Past(t, m)
  <2>1. \A i \in 1..n : t[i] <= m
    BY <1>3, <1>4 DEF Past
  <2>2. \A i \in 1..n - 1 : t[i] < t[i + 1]
    <3> SUFFICES ASSUME NEW i \in 1..n - 1 PROVE t[i] < t[i + 1]
      OBVIOUS
    <3>1. Len(s) - n + i \in 1..Len(s) - 1 /\ i \in 1..n /\ i + 1 \in 1..n /\ Len(s) - n + (i + 1) = (Len(s) - n + i) + 1
      BY <1>2
    <3> QED
      BY <1>3, <3>1 DEF Past
  <2> QED
    BY <1>3, <2>1, <2>2 DEF Past
<1>6. ASSUME Newest(s, m), n >= KeepLines, KeepLines \in Nat PROVE Newest(t, m)
  <2>1. Len(t) <= m
    BY <1>2, <1>3, <1>6 DEF Newest
  <2>2. \A i \in 1..n : t[i] = m - n + i
    <3> SUFFICES ASSUME NEW i \in 1..n PROVE t[i] = m - n + i
      OBVIOUS
    <3>1. s[Len(s) - n + i] = m - Len(s) + (Len(s) - n + i)
      BY <1>4, <1>6 DEF Newest
    <3> QED
      BY <1>2, <1>3, <3>1
  <2> QED
    BY <1>3, <1>6, <2>1, <2>2 DEF Newest
<1> QED
  BY <1>1, <1>3, <1>5, <1>6

\* A label is recorded.
LEMMA NextLine ==
    ASSUME NEW n \in Nat, n < MaxLabel, NEW s, Past(s, n)
    PROVE  /\ Past(s, n + 1) /\ Past(Append(s, n + 1), n + 1)
           /\ Newest(s, n) => Newest(Append(s, n + 1), n + 1)
<1>1. s \in Seq(Labels!Label) /\ Len(s) \in Nat /\ MaxLabel \in Nat
  BY Bounds DEF Past
<1>2. n + 1 \in Labels!Label
  BY <1>1 DEF Labels!Label
<1> DEFINE t == Append(s, n + 1)
<1>3. t \in Seq(Labels!Label) /\ Len(t) = Len(s) + 1 /\ t[Len(s) + 1] = n + 1 /\ \A i \in 1..Len(s) : t[i] = s[i]
  BY <1>1, <1>2
<1>4. \A i \in 1..Len(s) : s[i] <= n /\ s[i] \in Nat
  BY <1>1 DEF Past, Labels!Label
<1>5. Past(s, n + 1)
  BY <1>1, <1>4 DEF Past
<1>6. Past(t, n + 1)
  <2>1. \A i \in 1..Len(t) : t[i] <= n + 1
    BY <1>1, <1>3, <1>4
  <2>2. \A i \in 1..Len(t) - 1 : t[i] < t[i + 1]
    <3> SUFFICES ASSUME NEW i \in 1..Len(t) - 1 PROVE t[i] < t[i + 1]
      OBVIOUS
    <3>1. CASE i = Len(s)
      BY <1>1, <1>3, <1>4, <3>1
    <3>2. CASE i # Len(s)
      <4>1. i \in 1..Len(s) - 1 /\ i \in 1..Len(s) /\ i + 1 \in 1..Len(s)
        BY <1>1, <1>3, <3>2
      <4> QED
        BY <1>3, <4>1 DEF Past
    <3> QED
      BY <3>1, <3>2
  <2> QED
    BY <1>3, <2>1, <2>2 DEF Past
<1>7. ASSUME Newest(s, n) PROVE Newest(t, n + 1)
  <2>1. \A i \in 1..Len(t) : t[i] = (n + 1) - Len(t) + i
    <3> SUFFICES ASSUME NEW i \in 1..Len(t) PROVE t[i] = (n + 1) - Len(t) + i
      OBVIOUS
    <3>1. CASE i = Len(s) + 1
      BY <1>1, <1>3, <3>1
    <3>2. CASE i # Len(s) + 1
      <4>1. i \in 1..Len(s)
        BY <1>1, <1>3, <3>2
      <4> QED
        BY <1>1, <1>3, <1>7, <4>1 DEF Newest
    <3> QED
      BY <3>1, <3>2
  <2> QED
    BY <1>1, <1>3, <1>7, <2>1, Bounds DEF Newest
<1> QED
  BY <1>5, <1>6, <1>7

\* A caller takes or gives back its locks, or steps from one point to the next.
LEMMA LabelsWait ==
    ASSUME LabelsInv, NEW c \in Labels!Caller, Labels!LockThread(c) \/ Labels!LockFile(c)
    PROVE  LabelsInv'
<1>0. /\ pc \in [Labels!Caller -> {"idle", "flock", "size", "rewrite", "append"}]
      /\ flock = {} \/ \E d \in Labels!Caller : flock = {d}
      /\ mutex \in [Process -> {{}} \cup {{t} : t \in Thread}] /\ Len(log) \in Nat /\ MaxLabel \in Nat
      /\ c[1] \in Process /\ c[2] \in Thread
  BY LabelsTyped, Bounds DEF LabelsInv, Labels!Caller
<1>1. UNCHANGED <<file, kept, log, cut>>
  BY DEF Labels!LockThread, Labels!LockFile
<1>2. CASE Labels!LockThread(c)
  <2>1. pc[c] = "idle" /\ pc' = [pc EXCEPT ![c] = "flock"] /\ flock' = flock /\ mutex' = [mutex EXCEPT ![c[1]] = {c[2]}]
    BY <1>2 DEF Labels!LockThread, Labels!Goes
  <2>2. Cardinality(BusyCallers) + Len(log) < MaxLabel
    <3>1. Len(log) + Labels!Cardinality(BusyCallers) < MaxLabel
      BY <1>2 DEF Labels!LockThread, BusyCallers
    <3>2. Labels!Cardinality(BusyCallers) = Cardinality(BusyCallers)
      BY Sizes
    <3> HIDE DEF BusyCallers
    <3> QED
      BY <1>0, <3>1, <3>2, BusyFinite
  <2>3. BusyCallers' = BusyCallers \cup {c} /\ c \notin BusyCallers
    BY <1>0, <2>1 DEF BusyCallers
  <2>4. Cardinality(BusyCallers') = Cardinality(BusyCallers) + 1
    BY <2>3, BusyFinite, FS_AddElement
  <2>5. LabelsTypes'
    <3>1. Len(log) + Cardinality(BusyCallers') <= MaxLabel
      BY <1>0, <2>2, <2>4, BusyFinite
    <3>2. Labels!TypeOK'
      BY <1>0, <1>1, <2>1 DEF LabelsInv, LabelsTypes, Labels!TypeOK, Labels!InOrder, Labels!Nobody
    <3> QED
      BY <1>1, <3>1, <3>2 DEF LabelsInv, LabelsTypes
  <2>6. FileIsLocked' /\ NewestHeld'
    BY <1>0, <1>1, <2>1 DEF LabelsInv, FileIsLocked, InFile, NewestHeld
  <2> QED
    BY <2>5, <2>6 DEF LabelsInv
<1>3. CASE Labels!LockFile(c)
  <2>1. pc[c] = "flock" /\ pc' = [pc EXCEPT ![c] = "size"] /\ flock = {} /\ flock' = {c} /\ mutex' = mutex
    BY <1>3 DEF Labels!LockFile, Labels!Goes, Labels!Nobody
  <2>2. BusyCallers' = BusyCallers
    BY <1>0, <2>1 DEF BusyCallers
  <2>3. Labels!TypeOK'
    BY <1>0, <1>1, <2>1 DEF LabelsInv, LabelsTypes, Labels!TypeOK, Labels!InOrder, Labels!Nobody
  <2>4. LabelsTypes'
    BY <1>1, <2>2, <2>3 DEF LabelsInv, LabelsTypes
  <2>5. FileIsLocked'
    BY <1>0, <2>1 DEF LabelsInv, FileIsLocked, InFile
  <2>6. NewestHeld'
    BY <1>0, <1>1, <2>1 DEF LabelsInv, NewestHeld
  <2> QED
    BY <2>4, <2>5, <2>6 DEF LabelsInv
<1> QED
  BY <1>2, <1>3

\* The holder of the file's lock is at the file alone.
LEMMA AloneInFile ==
    ASSUME LabelsInv, NEW c \in Labels!Caller, pc[c] \in InFile
    PROVE  \A d \in Labels!Caller : d # c => pc[d] \notin InFile
  BY DEF LabelsInv, FileIsLocked

LEMMA LabelsWrite ==
    ASSUME LabelsInv, NEW c \in Labels!Caller, Labels!Truncate(c) \/ Labels!Rewrite(c)
    PROVE  LabelsInv'
<1>0. /\ pc \in [Labels!Caller -> {"idle", "flock", "size", "rewrite", "append"}]
      /\ kept \in [Labels!Caller -> Seq(Labels!Label)] /\ file \in Seq(Labels!Label) /\ Len(file) \in Nat
      /\ Len(log) \in Nat /\ Past(file, Len(log)) /\ \A d \in Labels!Caller : Past(kept[d], Len(log))
      /\ cut \in BOOLEAN
  BY LabelsTyped DEF LabelsInv, LabelsTypes
<1>1. UNCHANGED <<flock, mutex, log, cut>> /\ Past(<<>>, Len(log))
  BY DEF Labels!Truncate, Labels!Rewrite, Past
<1>2. pc[c] \in InFile /\ \A d \in Labels!Caller : d # c => pc[d] # "rewrite"
  BY AloneInFile DEF Labels!Truncate, Labels!Rewrite, InFile
<1>3. PICK x \in {"rewrite", "append"} :
        /\ pc' = [pc EXCEPT ![c] = x]
        /\ \/ /\ pc[c] = "size" /\ x = "rewrite" /\ Len(file) > MaxLines
              /\ kept' = [kept EXCEPT ![c] = Labels!Last(file, KeepLines)] /\ file' = <<>>
           \/ pc[c] = "size" /\ x = "append" /\ UNCHANGED <<kept, file>>
           \/ pc[c] = "rewrite" /\ x = "append" /\ file' = kept[c] /\ kept' = [kept EXCEPT ![c] = <<>>]
  BY DEF Labels!Truncate, Labels!Rewrite, Labels!Goes
<1>4. Len(file) > MaxLines => /\ Past(Labels!Last(file, KeepLines), Len(log))
                              /\ Newest(file, Len(log)) => Newest(Labels!Last(file, KeepLines), Len(log))
  <2> SUFFICES ASSUME Len(file) > MaxLines
               PROVE  /\ Past(Labels!Last(file, KeepLines), Len(log))
                      /\ Newest(file, Len(log)) => Newest(Labels!Last(file, KeepLines), Len(log))
    OBVIOUS
  <2>1. Len(file) > KeepLines /\ KeepLines \in Nat \ {0} /\ KeepLines >= KeepLines
    BY <1>0, Bounds, ConstantsAssumption
  <2> QED
    BY <1>0, <2>1, LastLines
<1>5. /\ kept' \in [Labels!Caller -> Seq(Labels!Label)] /\ Past(file', Len(log))
      /\ \A d \in Labels!Caller : Past(kept'[d], Len(log))
  BY <1>0, <1>1, <1>3, <1>4 DEF Past
<1>6. pc' \in [Labels!Caller -> {"idle", "flock", "size", "rewrite", "append"}] /\ BusyCallers' = BusyCallers
  BY <1>0, <1>2, <1>3 DEF BusyCallers, InFile
<1>7. LabelsTypes'
  <2>1. Labels!TypeOK'
    BY <1>1, <1>5, <1>6, PastIsInOrder DEF LabelsInv, LabelsTypes, Labels!TypeOK, Labels!InOrder
  <2> QED
    BY <1>1, <1>5, <1>6, <2>1 DEF LabelsInv, LabelsTypes
<1>8. FileIsLocked'
  BY <1>0, <1>1, <1>2, <1>3 DEF LabelsInv, FileIsLocked, InFile
<1>9. ASSUME ~cut PROVE NewestHeld'
  <2>1. \A d \in Labels!Caller : d # c => pc'[d] # "rewrite"
    BY <1>0, <1>2, <1>3
  <2>2. pc'[c] = x
    BY <1>0, <1>3
  <2>3. CASE pc[c] = "size" /\ x = "rewrite"
    <3>1. Newest(file, Len(log))
      BY <1>2, <1>9, <2>3 DEF LabelsInv, NewestHeld
    <3>2. Newest(kept'[c], Len(log))
      BY <1>0, <1>3, <1>4, <2>3, <3>1
    <3> QED
      BY <1>1, <2>1, <2>2, <2>3, <3>2 DEF NewestHeld
  <2>4. CASE pc[c] = "size" /\ x = "append"
    BY <1>1, <1>2, <1>3, <1>9, <2>1, <2>2, <2>4 DEF LabelsInv, NewestHeld
  <2>5. CASE pc[c] = "rewrite" /\ x = "append"
    <3>1. Newest(file', Len(log))
      BY <1>3, <1>9, <2>5 DEF LabelsInv, NewestHeld
    <3> QED
      BY <1>1, <2>1, <2>2, <2>5, <3>1 DEF NewestHeld
  <2> QED
    BY <1>3, <2>3, <2>4, <2>5
<1>10. NewestHeld'
  BY <1>1, <1>9 DEF NewestHeld
<1> QED
  BY <1>7, <1>8, <1>10 DEF LabelsInv

LEMMA LabelsAppend == ASSUME LabelsInv, NEW c \in Labels!Caller, Labels!AppendLine(c) PROVE LabelsInv'
<1>0. /\ pc \in [Labels!Caller -> {"idle", "flock", "size", "rewrite", "append"}]
      /\ kept \in [Labels!Caller -> Seq(Labels!Label)] /\ file \in Seq(Labels!Label) /\ Len(file) \in Nat
      /\ log \in Seq(Labels!Label) /\ Len(log) \in Nat /\ Past(file, Len(log)) /\ Past(log, Len(log))
      /\ \A d \in Labels!Caller : Past(kept[d], Len(log))
      /\ mutex \in [Process -> {{}} \cup {{t} : t \in Thread}] /\ cut \in BOOLEAN /\ c[1] \in Process
  BY LabelsTyped DEF LabelsInv, LabelsTypes, Labels!Caller
<1>1. /\ pc[c] = "append" /\ pc' = [pc EXCEPT ![c] = "idle"] /\ log' = Append(log, Len(log) + 1)
      /\ file' = Append(file, Len(log')) /\ flock' = flock \ {c} /\ mutex' = [mutex EXCEPT ![c[1]] = {}]
      /\ UNCHANGED <<kept, cut>>
  BY DEF Labels!AppendLine, Labels!Unlock, Labels!Goes, Labels!Nobody
<1>2. flock = {c} /\ \A d \in Labels!Caller : d # c => pc[d] \notin InFile
  BY <1>1, AloneInFile DEF LabelsInv, FileIsLocked, InFile
<1>3. BusyCallers' = BusyCallers \ {c} /\ c \in BusyCallers
  BY <1>0, <1>1 DEF BusyCallers
<1>4. Cardinality(BusyCallers') = Cardinality(BusyCallers) - 1 /\ Cardinality(BusyCallers') \in Nat
  <2>1. IsFiniteSet(BusyCallers')
    BY <1>3, BusyFinite, FS_RemoveElement
  <2> QED
    BY <1>3, <2>1, BusyFinite, FS_RemoveElement, FS_CardinalityType
<1>5. Len(log) < MaxLabel /\ Len(log') = Len(log) + 1
  <2>1. Len(log) + Cardinality(BusyCallers) <= MaxLabel
    BY DEF LabelsInv, LabelsTypes
  <2>2. Len(log') = Len(log) + 1
    BY <1>0, <1>1
  <2> QED
    BY <1>0, <1>4, <2>1, <2>2, BusyFinite, Bounds
<1>6. /\ Past(file', Len(log')) /\ Past(log', Len(log')) /\ \A d \in Labels!Caller : Past(kept[d], Len(log'))
      /\ Newest(file, Len(log)) => Newest(file', Len(log'))
  BY <1>0, <1>1, <1>5, NextLine
<1>7. \A i \in 1..Len(log') : log'[i] = i
  BY <1>0, <1>1, <1>5 DEF LabelsInv, LabelsTypes
<1>8. pc' \in [Labels!Caller -> {"idle", "flock", "size", "rewrite", "append"}] /\ flock' = {}
      /\ mutex' \in [Process -> {{}} \cup {{t} : t \in Thread}]
  BY <1>0, <1>1, <1>2
<1>9. LabelsTypes'
  <2>1. Labels!TypeOK'
    BY <1>0, <1>1, <1>6, <1>8, PastIsInOrder DEF Labels!TypeOK, Labels!Nobody
  <2>2. Len(log') + Cardinality(BusyCallers') <= MaxLabel
    BY <1>0, <1>4, <1>5, BusyFinite, Bounds DEF LabelsInv, LabelsTypes
  <2> QED
    BY <1>0, <1>1, <1>6, <1>7, <2>1, <2>2 DEF LabelsTypes
<1>10. \A d \in Labels!Caller : pc'[d] \notin InFile
  BY <1>0, <1>1, <1>2 DEF InFile
<1>11. FileIsLocked'
  BY <1>10 DEF FileIsLocked
<1>12. NewestHeld'
  <2>1. ~cut => Newest(file, Len(log))
    BY <1>1, <1>2 DEF LabelsInv, NewestHeld, InFile
  <2> QED
    BY <1>1, <1>6, <1>10, <2>1 DEF NewestHeld, InFile
<1> QED
  BY <1>9, <1>11, <1>12 DEF LabelsInv

\* Calls that end without a record, one at a time or all of a process.
CallsEnd(gone) ==
    /\ pc' = [c \in Labels!Caller |-> IF c \in gone THEN "idle" ELSE pc[c]]
    /\ kept' = [c \in Labels!Caller |-> IF c \in gone THEN <<>> ELSE kept[c]]
    /\ flock' = flock \ gone
    /\ cut' = (cut \/ \E c \in gone : pc[c] = "rewrite")
    /\ mutex' \in [Process -> {{}} \cup {{t} : t \in Thread}]
    /\ UNCHANGED <<file, log>>

LEMMA LabelsLost ==
    ASSUME LabelsInv, (\E c \in Labels!Caller : Labels!Fails(c)) \/ \E p \in Process : Labels!Dies(p)
    PROVE  LabelsInv'
<1>0. /\ pc \in [Labels!Caller -> {"idle", "flock", "size", "rewrite", "append"}]
      /\ kept \in [Labels!Caller -> Seq(Labels!Label)]
      /\ flock = {} \/ \E d \in Labels!Caller : flock = {d}
      /\ mutex \in [Process -> {{}} \cup {{t} : t \in Thread}] /\ cut \in BOOLEAN
      /\ Len(log) \in Nat
  BY LabelsTyped DEF LabelsInv
<1> Past(<<>>, Len(log))
  BY DEF Past
<1>f. ASSUME NEW c \in Labels!Caller, Labels!Fails(c) PROVE CallsEnd({c})
  <2>1. cut' = (cut \/ pc[c] = "rewrite") /\ UNCHANGED <<file, log>> /\ flock' = flock \ {c}
        /\ pc' = [pc EXCEPT ![c] = "idle"] /\ kept' = [kept EXCEPT ![c] = <<>>]
        /\ mutex' = [mutex EXCEPT ![c[1]] = {}] /\ c[1] \in Process
    BY <1>f DEF Labels!Fails, Labels!Unlock, Labels!Goes, Labels!Nobody, Labels!Caller
  <2>2. cut' = (cut \/ \E d \in {c} : pc[d] = "rewrite")
    BY <2>1
  <2>3. /\ pc' = [d \in Labels!Caller |-> IF d \in {c} THEN "idle" ELSE pc[d]]
        /\ kept' = [d \in Labels!Caller |-> IF d \in {c} THEN <<>> ELSE kept[d]]
        /\ mutex' \in [Process -> {{}} \cup {{t} : t \in Thread}]
    BY <1>0, <2>1
  <2> QED
    BY <2>1, <2>2, <2>3 DEF CallsEnd
<1>d. ASSUME NEW p \in Process, Labels!Dies(p) PROVE CallsEnd({p} \X Thread)
  <2>1. mutex' \in [Process -> {{}} \cup {{t} : t \in Thread}]
    BY <1>0, <1>d DEF Labels!Dies, Labels!Nobody
  <2> QED
    BY <1>d, <2>1 DEF Labels!Dies, CallsEnd
<1>e. \E gone \in SUBSET Labels!Caller : CallsEnd(gone)
  <2>1. CASE \E c \in Labels!Caller : Labels!Fails(c)
    <3> PICK c \in Labels!Caller : Labels!Fails(c)
      BY <2>1
    <3> WITNESS {c} \in SUBSET Labels!Caller
    <3> QED
      BY <1>f
  <2>2. CASE \E p \in Process : Labels!Dies(p)
    <3> PICK p \in Process : Labels!Dies(p)
      BY <2>2
    <3> {p} \X Thread \in SUBSET Labels!Caller
      BY DEF Labels!Caller
    <3> WITNESS {p} \X Thread \in SUBSET Labels!Caller
    <3> QED
      BY <1>d
  <2> QED
    BY <2>1, <2>2
<1> PICK gone \in SUBSET Labels!Caller : CallsEnd(gone)
  BY <1>e
<1>1. /\ pc' = [c \in Labels!Caller |-> IF c \in gone THEN "idle" ELSE pc[c]]
      /\ kept' = [c \in Labels!Caller |-> IF c \in gone THEN <<>> ELSE kept[c]]
      /\ flock' = flock \ gone
      /\ cut' = (cut \/ \E c \in gone : pc[c] = "rewrite")
      /\ mutex' \in [Process -> {{}} \cup {{t} : t \in Thread}]
      /\ UNCHANGED <<file, log>>
  BY DEF CallsEnd
<1>2. /\ pc' \in [Labels!Caller -> {"idle", "flock", "size", "rewrite", "append"}]
      /\ kept' \in [Labels!Caller -> Seq(Labels!Label)] /\ \A c \in Labels!Caller : Past(kept'[c], Len(log))
      /\ flock' = {} \/ \E d \in Labels!Caller : flock' = {d}
      /\ cut' \in BOOLEAN
  <2>1. \A c \in Labels!Caller : Past(kept[c], Len(log)) /\ <<>> \in Seq(Labels!Label)
    BY DEF LabelsInv, LabelsTypes
  <2>2. cut' \in BOOLEAN
    BY <1>0, <1>1
  <2> QED
    BY <1>0, <1>1, <2>1, <2>2
<1>3. BusyCallers' \subseteq BusyCallers
  BY <1>1 DEF BusyCallers
<1>4. Cardinality(BusyCallers') <= Cardinality(BusyCallers) /\ Cardinality(BusyCallers') \in Nat
  BY <1>3, BusyFinite, FS_Subset, FS_CardinalityType
<1>5. LabelsTypes'
  <2>1. Labels!TypeOK'
    BY <1>1, <1>2, PastIsInOrder DEF LabelsInv, LabelsTypes, Labels!TypeOK, Labels!InOrder, Labels!Nobody
  <2>2. Len(log) + Cardinality(BusyCallers') <= MaxLabel
    BY <1>0, <1>4, BusyFinite, Bounds DEF LabelsInv, LabelsTypes
  <2> QED
    BY <1>1, <1>2, <2>1, <2>2 DEF LabelsInv, LabelsTypes
<1>6. FileIsLocked'
  BY <1>0, <1>1 DEF LabelsInv, FileIsLocked, InFile
<1>7. NewestHeld'
  <2>1. CASE cut \/ \E c \in gone : pc[c] = "rewrite"
    BY <1>1, <2>1 DEF NewestHeld
  <2>2. CASE ~cut /\ \A c \in gone : pc[c] # "rewrite"
    <3>1. \A c \in Labels!Caller : pc[c] = "rewrite" <=> pc'[c] = "rewrite"
      BY <1>1, <2>2
    <3>2. \A c \in Labels!Caller : pc[c] = "rewrite" => kept'[c] = kept[c]
      BY <1>1, <2>2
    <3> QED
      BY <1>1, <2>2, <3>1, <3>2 DEF LabelsInv, NewestHeld
  <2> QED
    BY <2>1, <2>2
<1> QED
  BY <1>5, <1>6, <1>7 DEF LabelsInv

LEMMA LabelsAlways == Spec => []LabelsInv
<1>1. LabelsInv /\ [Next]_vars => LabelsInv'
  <2>1. CASE LabelsInv /\ UNCHANGED labels
    BY <2>1 DEF labels, LabelsInv, LabelsTypes, Labels!TypeOK, Labels!InOrder, FileIsLocked, NewestHeld, BusyCallers
  <2>2. UNCHANGED Labels!vars <=> UNCHANGED labels
    BY DEF Labels!vars, labels
  <2> QED
    BY <2>1, <2>2, Steps, LabelsWait, LabelsWrite, LabelsAppend, LabelsLost DEF Labels!Next, Labels!Record
<1> QED
  BY <1>1, Starts, LabelsStarts, PTL DEF Spec

\* The labels file holds the newest labels recorded by either process, in order, unless a
\* rewrite was cut off; while one rewrites it, what it keeps does (demo_labels.record).
THEOREM LabelsAreKept == Spec => []NoLabelLost
<1>1. ASSUME LabelsInv PROVE NoLabelLost
  <2> DEFINE all == IF \E c \in flock : pc[c] = "rewrite" THEN kept[CHOOSE c \in flock : TRUE] ELSE file
  <2> SUFFICES ASSUME ~cut PROVE all = Labels!Last(log, Len(all)) /\ (Len(all) = Len(log) \/ Len(all) >= KeepLines)
    BY DEF NoLabelLost, Labels!NoLabelLost
  <2>1. Newest(all, Len(log)) /\ Past(all, Len(log))
    <3>1. CASE \E c \in flock : pc[c] = "rewrite"
      <4>1. PICK c \in Labels!Caller : flock = {c} /\ pc[c] = "rewrite"
        BY <1>1, <3>1, LabelsTyped DEF LabelsInv
      <4>2. all = kept[c]
        BY <3>1, <4>1
      <4> QED
        BY <1>1, <4>1, <4>2 DEF LabelsInv, NewestHeld, LabelsTypes
    <3>2. CASE ~\E c \in flock : pc[c] = "rewrite"
      <4>1. \A c \in Labels!Caller : pc[c] # "rewrite"
        BY <1>1, <3>2 DEF LabelsInv, FileIsLocked, InFile
      <4> QED
        BY <1>1, <3>2, <4>1 DEF LabelsInv, NewestHeld, LabelsTypes
    <3> QED
      BY <3>1, <3>2
  <2> HIDE DEF all
  <2>2. log \in Seq(Labels!Label) /\ all \in Seq(Labels!Label) /\ Len(log) \in Nat /\ Len(all) \in Nat /\ Len(all) <= Len(log)
        /\ \A i \in 1..Len(log) : log[i] = i
    BY <1>1, <2>1, LabelsTyped DEF LabelsInv, LabelsTypes, Past, Newest
  <2>3. all = Labels!Last(log, Len(all))
    <3>1. CASE Len(log) <= Len(all)
      <4>1. Len(all) = Len(log) /\ \A i \in 1..Len(log) : all[i] = log[i]
        BY <2>1, <2>2, <3>1 DEF Newest
      <4> QED
        BY <2>2, <3>1, <4>1 DEF Labels!Last
    <3>2. CASE ~(Len(log) <= Len(all))
      <4> DEFINE t == SubSeq(log, Len(log) - Len(all) + 1, Len(log))
      <4>1. t \in Seq(Labels!Label) /\ Len(t) = Len(all) /\ \A i \in 1..Len(all) : t[i] = log[Len(log) - Len(all) + i]
        BY <2>2
      <4>2. \A i \in 1..Len(all) : all[i] = t[i]
        BY <2>1, <2>2, <4>1 DEF Newest
      <4>3. all = t
        BY <2>2, <4>1, <4>2
      <4> QED
        BY <3>2, <4>3 DEF Labels!Last
    <3> QED
      BY <3>1, <3>2
  <2> QED
    BY <2>1, <2>3 DEF Newest
<1> QED
  BY <1>1, LabelsAlways, PTL

-----------------------------------------------------------------------------
(***************************************************************************)
(* The silences.                                                           *)
(***************************************************************************)

\* What a handler still has to expire covers what was active of what it was asked for.
ToExpire ==
    \A h \in Handler : \A i \in request[h].before :
        /\ i \in Silences!Made
        /\ held[i].by = "control-panel" /\ request[h].scope \in Silences!SilenceScope(held[i])
        /\ request[h].pc = "delete" /\ held[i].active => i \in request[h].todo
        /\ request[h].pc = "unmuted" => ~held[i].active

\* What it is about to expire is the panel's, of the scope that was asked for.
OwnToDo ==
    \A h \in Handler : \A i \in request[h].todo :
        held[i].by = "control-panel" /\ request[h].scope \in Silences!SilenceScope(held[i])

SilencesInv == Silences!TypeOK /\ ToExpire /\ OwnToDo

\* A step changes of a silence only whether it is active, from yes to no.
Keeps ==
    /\ Silences!Made \subseteq 1..Len(held')
    /\ \A i \in Silences!Made :
        /\ held'[i].by = held[i].by /\ held'[i].matchers = held[i].matchers
        /\ held'[i].active => held[i].active

\* Adding a silence: it changes none of the others.
LEMMA AppendKeeps ==
    ASSUME held \in Seq(Silences!Silence), NEW s \in Silences!Silence, held' = Append(held, s), Len(held) < MaxSilence, MaxSilence \in Nat
    PROVE  held' \in Seq(Silences!Silence) /\ Len(held') <= MaxSilence /\ Keeps
  BY DEF Keeps, Silences!Made

\* Ending one, by the panel or by anyone.
LEMMA EndKeeps ==
    ASSUME held \in Seq(Silences!Silence), NEW i \in Silences!Made, held' = [held EXCEPT ![i].active = FALSE]
    PROVE  held' \in Seq(Silences!Silence) /\ Len(held') = Len(held) /\ Keeps /\ ~held'[i].active
  <1>1. Len(held) \in Nat /\ DOMAIN held = Silences!Made /\ \A j \in Silences!Made : held[j] \in Silences!Silence
    BY DEF Silences!Made
  <1>2. held' = [j \in Silences!Made |-> IF j = i THEN [held[j] EXCEPT !.active = FALSE] ELSE held[j]]
    BY <1>1
  <1>3. \A j \in Silences!Made : held'[j] \in Silences!Silence
    BY <1>1, <1>2 DEF Silences!Silence
  <1>4. held' \in Seq(Silences!Silence) /\ Len(held') = Len(held)
    <2>1. held' \in [Silences!Made -> Silences!Silence]
      BY <1>2, <1>3
    <2>2. held' \in [1..Len(held) -> Silences!Silence]
      BY <2>1 DEF Silences!Made
    <2> QED
      BY ONLY <1>1, <2>2
  <1>5. \A j \in Silences!Made : held'[j].by = held[j].by /\ held'[j].matchers = held[j].matchers
    BY <1>1, <1>2 DEF Silences!Silence
  <1>6. \A j \in Silences!Made : held'[j].active => held[j].active
    BY <1>1, <1>2 DEF Silences!Silence
  <1>7. ~held'[i].active
    BY <1>1, <1>2 DEF Silences!Silence
  <1> QED
    BY <1>1, <1>4, <1>5, <1>6, <1>7 DEF Keeps, Silences!Made

\* At the start nobody has anything to expire.
LEMMA SilencesStarts == Silences!Init => SilencesInv
  <1> SUFFICES ASSUME Silences!Init PROVE SilencesInv
    OBVIOUS
  <1>1. held \in Seq(Silences!Silence) /\ Len(held) <= 1
    <2>1. CASE held = <<>>
      BY <2>1
    <2>2. CASE held # <<>>
      <3>1. PICK s \in [by: Silences!Author, matchers: Silences!Matchers, active: {TRUE}] : held = <<s>>
        BY <2>2 DEF Silences!Init
      <3>2. s \in Silences!Silence
        BY DEF Silences!Silence
      <3> QED
        BY <3>1, <3>2
    <2> QED
      BY <2>1, <2>2
  <1>2. request \in [Handler -> [pc: {"idle", "post", "list", "delete", "unmuted"}, scope: Silences!Scope,
                                 todo: SUBSET Silences!Id, before: SUBSET Silences!Id]]
    BY DEF Silences!Init, Silences!NoRequest, Silences!Scope
  <1>3. \A h \in Handler : request[h].todo = {} /\ request[h].before = {}
    BY DEF Silences!Init, Silences!NoRequest
  <1> QED
    BY <1>1, <1>2, <1>3, Bounds DEF SilencesInv, Silences!TypeOK, ToExpire, OwnToDo

\* A handler's request is all right in a state.
Fine(r, s) ==
    /\ \A i \in r.before :
        /\ i \in 1..Len(s)
        /\ s[i].by = "control-panel" /\ r.scope \in Silences!SilenceScope(s[i])
        /\ r.pc = "delete" /\ s[i].active => i \in r.todo
        /\ r.pc = "unmuted" => ~s[i].active
    /\ \A i \in r.todo :
        i \in 1..Len(s) /\ s[i].by = "control-panel" /\ r.scope \in Silences!SilenceScope(s[i])

\* The invariant is that every request is all right.
LEMMA FineIsSilencesInv == Silences!TypeOK => (SilencesInv <=> \A h \in Handler : Fine(request[h], held))
  BY DEF SilencesInv, ToExpire, OwnToDo, Fine, Silences!TypeOK, Silences!Made

\* What another step leaves of a request stays all right.
LEMMA FineKept ==
    ASSUME NEW r, Fine(r, held), Keeps
    PROVE  Fine(r, held')
  BY DEF Fine, Keeps, Silences!Made, Silences!SilenceScope

\* A handler that does nothing is all right.
LEMMA FineNone == \A s : Fine(Silences!NoRequest, s)
  BY DEF Fine, Silences!NoRequest

\* A step of handler h to the request r keeps what holds of all others.
LEMMA HandlerStep ==
    ASSUME SilencesInv, NEW h \in Handler,
           NEW r \in [pc: {"idle", "post", "list", "delete", "unmuted"}, scope: Silences!Scope,
                      todo: SUBSET Silences!Id, before: SUBSET Silences!Id],
           request' = [request EXCEPT ![h] = r], Keeps, Fine(r, held'),
           held' \in Seq(Silences!Silence), Len(held') <= MaxSilence
    PROVE  SilencesInv'
  <1>1. \A k \in Handler : Fine(request'[k], held')
    BY FineIsSilencesInv, FineKept DEF SilencesInv, Silences!TypeOK
  <1>2. \A k \in Handler : request'[k].todo \subseteq 1..Len(held')
    BY <1>1 DEF Fine
  <1>3. Silences!TypeOK'
    BY <1>2 DEF SilencesInv, Silences!TypeOK, Silences!Made
  <1>4. ToExpire' /\ OwnToDo'
    BY <1>1 DEF ToExpire, OwnToDo, Fine, Silences!Made
  <1> QED
    BY <1>3, <1>4 DEF SilencesInv

\* So does a step of others at Alertmanager.
LEMMA OthersStep ==
    ASSUME SilencesInv, UNCHANGED request, Keeps, held' \in Seq(Silences!Silence), Len(held') <= MaxSilence
    PROVE  SilencesInv'
  <1>1. \A k \in Handler : Fine(request'[k], held')
    BY FineIsSilencesInv, FineKept DEF SilencesInv
  <1>2. \A k \in Handler : request'[k].todo \subseteq 1..Len(held')
    BY <1>1 DEF Fine
  <1>3. Silences!TypeOK'
    BY <1>2 DEF SilencesInv, Silences!TypeOK, Silences!Made
  <1>4. ToExpire' /\ OwnToDo'
    BY <1>1 DEF ToExpire, OwnToDo, Fine, Silences!Made
  <1> QED
    BY <1>3, <1>4 DEF SilencesInv

\* Every step keeps the invariant.
LEMMA SilencesSteps == SilencesInv /\ [Silences!Next]_(Silences!vars) => SilencesInv'
  <1> SUFFICES ASSUME SilencesInv, [Silences!Next]_(Silences!vars) PROVE SilencesInv'
    OBVIOUS
  <1> DEFINE Request == [pc: {"idle", "post", "list", "delete", "unmuted"}, scope: Silences!Scope,
                         todo: SUBSET Silences!Id, before: SUBSET Silences!Id]
  <1>1. held \in Seq(Silences!Silence) /\ Len(held) <= MaxSilence /\ request \in [Handler -> Request]
    BY DEF SilencesInv, Silences!TypeOK
  <1>2. Silences!Made \subseteq Silences!Id /\ Len(held) \in Nat
    BY <1>1, Bounds DEF Silences!Made, Silences!Id
  <1>3. Silences!NoRequest \in Request /\ MaxSilence \in Nat \ {0}
    BY Bounds DEF Silences!NoRequest, Silences!Scope
  <1>4. UNCHANGED held => Keeps /\ held' \in Seq(Silences!Silence) /\ Len(held') <= MaxSilence
    BY <1>1 DEF Keeps, Silences!Made
  <1>5. ASSUME NEW h \in Handler PROVE request[h] \in Request /\ Fine(request[h], held)
    BY <1>1, <1>5, FineIsSilencesInv DEF SilencesInv
  <1>6. \A h \in Handler : Silences!Done(h) /\ Keeps /\ held' \in Seq(Silences!Silence) /\ Len(held') <= MaxSilence => SilencesInv'
    BY <1>3, HandlerStep, FineNone DEF Silences!Done
  <1>7. ASSUME NEW h \in Handler, Silences!Mute(h) PROVE SilencesInv'
    <2>1. PICK scope \in Silences!Scope : request' = [request EXCEPT ![h] =
            [pc |-> "post", scope |-> scope, todo |-> {}, before |-> {}]]
      BY <1>7 DEF Silences!Mute
    <2> DEFINE r == [pc |-> "post", scope |-> scope, todo |-> {}, before |-> {}]
    <2>2. UNCHANGED held
      BY <1>7 DEF Silences!Mute
    <2>3. r \in Request
      OBVIOUS
    <2>4. Fine(r, held')
      BY DEF Fine
    <2> QED
      BY <1>4, <2>1, <2>2, <2>3, <2>4, HandlerStep
  <1>8. ASSUME NEW h \in Handler, Silences!Post(h) PROVE SilencesInv'
    <2>1. Silences!Done(h) /\ request[h].scope \in Silences!Scope
      BY <1>5, <1>8 DEF Silences!Post
    <2>2. CASE UNCHANGED held
      BY <1>4, <1>6, <2>1, <2>2
    <2>3. CASE ~UNCHANGED held
      <3> DEFINE s == [by |-> "control-panel", matchers |-> request[h].scope, active |-> TRUE]
      <3>1. s \in Silences!Silence
        BY <2>1 DEF Silences!Silence, Silences!Author, Silences!Matchers
      <3>2. Len(held) < MaxSilence /\ held' = Append(held, s)
        BY <1>8, <2>3 DEF Silences!Post
      <3> QED
        BY <1>1, <1>6, <2>1, <3>1, <3>2, AppendKeeps, Bounds
    <2> QED
      BY <2>2, <2>3
  <1>9. ASSUME NEW h \in Handler, Silences!Unmute(h) PROVE SilencesInv'
    <2>1. PICK scope \in Silences!Scope : request' = [request EXCEPT ![h] = [pc |-> "list", scope |-> scope, todo |-> {}, before |->
            {i \in Silences!Made : /\ held[i].by = "control-panel"
                          /\ held[i].matchers \in {scope} \cup IF scope = "anomalies" THEN {"alertname"} ELSE {}}]]
      BY <1>9 DEF Silences!Unmute
    <2> DEFINE toLift == {i \in Silences!Made : /\ held[i].by = "control-panel"
                          /\ held[i].matchers \in {scope} \cup IF scope = "anomalies" THEN {"alertname"} ELSE {}}
               r == [pc |-> "list", scope |-> scope, todo |-> {}, before |-> toLift]
    <2>2. UNCHANGED held
      BY <1>9 DEF Silences!Unmute
    <2>3. toLift \subseteq Silences!Id
      BY <1>2
    <2>4. r \in Request
      BY <2>3
    <2>5. \A i \in toLift : i \in Silences!Made /\ held[i].by = "control-panel" /\ scope \in Silences!SilenceScope(held[i])
      BY DEF Silences!SilenceScope, Silences!Scope
    <2>6. Fine(r, held')
      BY <2>2, <2>5 DEF Fine, Silences!Made
    <2> QED
      BY <1>4, <2>1, <2>2, <2>4, <2>6, HandlerStep
  <1>10. ASSUME NEW h \in Handler, Silences!List(h) PROVE SilencesInv'
    <2>1. UNCHANGED held
      BY <1>10 DEF Silences!List
    <2>2. CASE Silences!Done(h)
      BY <1>4, <1>6, <2>1, <2>2
    <2>3. CASE Silences!Goes(h, "delete", Silences!PanelSilences(request[h].scope))
      <3> DEFINE found == Silences!PanelSilences(request[h].scope)
                 r == [pc |-> "delete", scope |-> request[h].scope, todo |-> found, before |-> request[h].before]
      <3>1. found \subseteq Silences!Id
        BY <1>2 DEF Silences!PanelSilences
      <3>2. r \in Request
        BY <1>5, <3>1
      <3>3. \A i \in request[h].before : i \in Silences!Made /\ held[i].by = "control-panel" /\ request[h].scope \in Silences!SilenceScope(held[i])
        BY <1>5 DEF Fine, Silences!Made
      <3>4. Fine(r, held')
        BY <2>1, <3>3 DEF Fine, Silences!Made, Silences!PanelSilences
      <3> QED
        BY <1>1, <1>4, <2>1, <2>3, <3>2, <3>4, HandlerStep DEF Silences!Goes
    <2> QED
      BY <1>10, <2>2, <2>3 DEF Silences!List
  <1>11. ASSUME NEW h \in Handler, Silences!Delete(h) PROVE SilencesInv'
    <2>1. PICK i \in request[h].todo :
            \/ /\ held' = [held EXCEPT ![i].active = FALSE]
               /\ Silences!Goes(h, "delete", request[h].todo \ {i}) \/ Silences!Done(h)
            \/ Silences!Done(h) /\ UNCHANGED held
      BY <1>11 DEF Silences!Delete
    <2>2. i \in Silences!Made /\ request[h].pc = "delete"
      BY <1>5, <1>11 DEF Silences!Delete, Fine, Silences!Made
    <2>3. CASE Silences!Done(h) /\ UNCHANGED held
      BY <1>4, <1>6, <2>3
    <2>4. CASE held' = [held EXCEPT ![i].active = FALSE]
      <3>1. held' \in Seq(Silences!Silence) /\ Len(held') <= MaxSilence /\ Keeps /\ ~held'[i].active
        BY <1>1, <2>2, <2>4, EndKeeps
      <3>2. CASE Silences!Done(h)
        BY <1>6, <3>1, <3>2
      <3>3. CASE Silences!Goes(h, "delete", request[h].todo \ {i})
        <4> DEFINE r == [pc |-> "delete", scope |-> request[h].scope, todo |-> request[h].todo \ {i},
                         before |-> request[h].before]
        <4>1. r \in Request
          BY <1>5
        <4>2. Fine(request[h], held')
          BY <1>5, <3>1, FineKept
        <4>3. Fine(r, held')
          BY <2>2, <3>1, <4>2 DEF Fine
        <4> QED
          BY <3>1, <3>3, <4>1, <4>3, HandlerStep DEF Silences!Goes
      <3> QED
        BY <2>1, <2>3, <3>2, <3>3
    <2> QED
      BY <2>1, <2>3, <2>4
  <1>12. ASSUME NEW h \in Handler, Silences!Deleted(h) PROVE SilencesInv'
    <2> DEFINE r == [pc |-> "unmuted", scope |-> request[h].scope, todo |-> {}, before |-> request[h].before]
    <2>1. UNCHANGED held /\ request[h].pc = "delete" /\ request[h].todo = {} /\ Silences!Goes(h, "unmuted", {})
      BY <1>12 DEF Silences!Deleted
    <2>2. r \in Request
      BY <1>5
    <2>3. Fine(r, held')
      BY <1>5, <2>1 DEF Fine
    <2> QED
      BY <1>4, <2>1, <2>2, <2>3, HandlerStep DEF Silences!Goes
  <1>13. ASSUME NEW h \in Handler, Silences!Unmuted(h) PROVE SilencesInv'
    BY <1>4, <1>6, <1>13 DEF Silences!Unmuted
  <1>14. ASSUME NEW i \in Silences!Id, Silences!Expires(i) PROVE SilencesInv'
    BY <1>1, <1>14, EndKeeps, OthersStep DEF Silences!Expires
  <1>15. ASSUME Silences!SomebodySilences PROVE SilencesInv'
    <2>1. PICK m \in Silences!Matchers : held' = Append(held, [by |-> "somebody", matchers |-> m, active |-> TRUE])
      BY <1>15 DEF Silences!SomebodySilences
    <2>2. [by |-> "somebody", matchers |-> m, active |-> TRUE] \in Silences!Silence
      BY DEF Silences!Silence, Silences!Author
    <2> QED
      BY <1>1, <1>15, <2>1, <2>2, AppendKeeps, OthersStep, Bounds DEF Silences!SomebodySilences
  <1>16. CASE UNCHANGED Silences!vars
    BY <1>4, <1>16, OthersStep DEF Silences!vars
  <1> QED
    BY <1>7, <1>8, <1>9, <1>10, <1>11, <1>12, <1>13, <1>14, <1>15, <1>16 DEF Silences!Next, Silences!Handle

LEMMA SilencesAlways == Spec => []SilencesInv
  BY Starts, Steps, SilencesStarts, SilencesSteps, PTL DEF Spec

\* A confirmed unmute has lifted every silence of its scope that the panel had
\* made when it was asked, whatever failed before and whoever else unmutes
\* (_panel_silences, ui_alerting_unmute).
THEOREM UnmuteIsComplete == Spec => []UnmuteLifts
<1>1. SilencesInv => UnmuteLifts
  BY DEF SilencesInv, ToExpire, UnmuteLifts, Silences!UnmuteLifts
<1> QED
  BY <1>1, SilencesAlways, PTL

\* The panel ends no silence but its own, of the scope that was asked for.
LEMMA SilencesOwn ==
    Spec => Silences!OnlyItsOwn
  <1> DEFINE Own ==
        \A i \in Silences!Made :
            request' # request /\ held[i].active /\ ~held'[i].active =>
                /\ held[i].by = "control-panel"
                /\ \E h \in Handler : request[h].pc = "delete" /\ request[h].scope \in Silences!SilenceScope(held[i])
  <1>1. ASSUME SilencesInv, Silences!Next PROVE Own
    <2> SUFFICES ASSUME NEW i \in Silences!Made, request' # request, held[i].active, ~held'[i].active
                 PROVE  /\ held[i].by = "control-panel"
                        /\ \E h \in Handler : request[h].pc = "delete" /\ request[h].scope \in Silences!SilenceScope(held[i])
      OBVIOUS
    <2>1. held' # held /\ held \in Seq(Silences!Silence)
      BY <1>1 DEF SilencesInv, Silences!TypeOK
    <2>2. ASSUME NEW h \in Handler, Silences!Post(h) PROVE FALSE
      <3>1. PICK s : held' = Append(held, s)
        BY <2>1, <2>2 DEF Silences!Post
      <3> QED
        BY <2>1, <3>1 DEF Silences!Made
    <2>3. PICK h \in Handler : Silences!Delete(h)
      BY <1>1, <2>1, <2>2 DEF Silences!Next, Silences!Handle, Silences!Mute, Silences!Unmute, Silences!List, Silences!Deleted, Silences!Unmuted, Silences!Expires, Silences!SomebodySilences
    <2>4. PICK j \in request[h].todo : held' = [held EXCEPT ![j].active = FALSE]
      BY <2>1, <2>3 DEF Silences!Delete
    <2>5. i = j
      BY <2>1, <2>4 DEF Silences!Made
    <2> QED
      BY <1>1, <2>3, <2>4, <2>5 DEF SilencesInv, OwnToDo, Silences!Delete
  <1>2. SilencesInv /\ [Silences!Next]_(Silences!vars) => [Own]_(Silences!vars)
    BY <1>1
  <1> QED
    BY <1>2, SilencesAlways, Steps, PTL DEF Spec, Silences!OnlyItsOwn

-----------------------------------------------------------------------------
(***************************************************************************)
(* The platform's layers.                                                  *)
(***************************************************************************)

Request == [pc : {"act", "insert", "trim"}, no : 1..MaxAction, layer : Layers!Layer,
            action : {"start", "stop"}, via : {"fix", "pipeline"}]

\* Requests that have yet to act, those that may yet be logged, those that have yet to trim.
ToAct == {h \in Handler : acting[h].pc = "act"}
Unlogged == {h \in Handler : acting[h].pc \in {"act", "insert"}}
Trimming == {h \in Handler : acting[h].pc = "trim"}

LayersTypes ==
    /\ running \in [Layers!Layer -> {0, 1}] /\ wanted \subseteq Layers!Layer \ {Layers!K8s}
    /\ recovering \in Nat /\ seen \in [Layers!Layer -> BOOLEAN]
    /\ acting \in [Handler -> Request \cup {Layers!Idle}]
    /\ fixlog \in Seq(1..MaxAction) /\ entered \in Seq(1..MaxAction)
    /\ asked \in 0..MaxAction /\ died \in 0..MaxDeath

\* A layer that was stopped is down, nobody starts it, and its supervisor does not want it.
StoppedIsDown ==
    \A l \in stopped : l \in Layers!Layer \ wanted /\ l # Layers!K8s /\ running[l] = 0 /\ Layers!AsksOf(l) = {}

\* The log is the newest of the actions entered, and as many too many as wait to trim.
IsNewest(s, all, waiting) ==
    /\ Len(s) <= Len(all) /\ Len(s) <= KeepActions + waiting
    /\ \A i \in 1..Len(s) : i <= KeepActions => s[i] = all[Len(all) - i + 1]
    /\ \A i \in 1..Len(all) : i <= KeepActions => i <= Len(s)

\* Every action entered was asked for, and so was every script.
Requested ==
    /\ Len(entered) + Cardinality(Unlogged) <= asked
    /\ recovering + Cardinality(ToAct) <= asked

LayersInv == LayersTypes /\ StoppedIsDown /\ IsNewest(fixlog, entered, Cardinality(Trimming)) /\ Requested

LEMMA HandlersFinite == \A S \in SUBSET Handler : IsFiniteSet(S) /\ Cardinality(S) \in Nat
  BY ConstantsAssumption, FS_Subset, FS_CardinalityType

LEMMA HandlersCount ==
    ASSUME NEW S \in SUBSET Handler, NEW h \in Handler
    PROVE  /\ h \notin S => Cardinality(S \cup {h}) = Cardinality(S) + 1
           /\ h \in S => Cardinality(S \ {h}) = Cardinality(S) - 1 /\ S \cup {h} = S
           /\ h \notin S => S \ {h} = S
<1>1. h \notin S => Cardinality(S \cup {h}) = Cardinality(S) + 1
  BY HandlersFinite, FS_AddElement
<1>2. h \in S => Cardinality(S \ {h}) = Cardinality(S) - 1
  BY HandlersFinite, FS_RemoveElement
<1> QED
  BY <1>1, <1>2

LEMMA LayersStarts == Layers!Init => LayersInv
<1> SUFFICES ASSUME Layers!Init PROVE LayersInv
  OBVIOUS
<1>1. /\ running = [l \in Layers!Layer |-> 1] /\ wanted = Layers!Layer \ {Layers!K8s} /\ recovering = 0
      /\ seen = [l \in Layers!Layer |-> TRUE] /\ acting = [h \in Handler |-> Layers!Idle]
      /\ fixlog = <<>> /\ asked = 0 /\ died = 0 /\ entered = <<>> /\ stopped = {}
  BY DEF Layers!Init
<1>2. LayersTypes
  BY <1>1, Bounds DEF LayersTypes
<1>3. ToAct = {} /\ Unlogged = {} /\ Trimming = {}
  BY <1>1 DEF ToAct, Unlogged, Trimming, Layers!Idle
<1>4. IsNewest(fixlog, entered, 0) /\ Requested
  BY <1>1, <1>3, FS_EmptySet, Bounds DEF IsNewest, Requested
<1> QED
  BY <1>1, <1>2, <1>3, <1>4, FS_EmptySet DEF LayersInv, StoppedIsDown

\* What a request's step does to those that wait.
LEMMA RequestMoves ==
    ASSUME LayersInv, NEW h \in Handler, NEW r \in Request \cup {Layers!Idle},
           acting' = [acting EXCEPT ![h] = r]
    PROVE  /\ acting' \in [Handler -> Request \cup {Layers!Idle}]
           /\ ToAct' = IF r.pc = "act" THEN ToAct \cup {h} ELSE ToAct \ {h}
           /\ Unlogged' = IF r.pc \in {"act", "insert"} THEN Unlogged \cup {h} ELSE Unlogged \ {h}
           /\ Trimming' = IF r.pc = "trim" THEN Trimming \cup {h} ELSE Trimming \ {h}
<1>1. acting \in [Handler -> Request \cup {Layers!Idle}]
  BY DEF LayersInv, LayersTypes
<1>2. acting' \in [Handler -> Request \cup {Layers!Idle}] /\ \A g \in Handler : acting'[g] = IF g = h THEN r ELSE acting[g]
  BY <1>1
<1> QED
  BY <1>2 DEF ToAct, Unlogged, Trimming

\* What is asked of the other layers stays.
LEMMA AsksMove ==
    ASSUME LayersInv, NEW h \in Handler, NEW r, acting' = [acting EXCEPT ![h] = r], r.pc # "act" \/ r.layer \notin stopped'
    PROVE  \A l \in stopped' : Layers!AsksOf(l)' \subseteq Layers!AsksOf(l) \ {h}
<1>1. \A g \in Handler : acting'[g] = IF g = h THEN r ELSE acting[g]
  BY DEF LayersInv, LayersTypes
<1> QED
  BY <1>1 DEF Layers!AsksOf

LEMMA LayersAsk ==
    ASSUME LayersInv, NEW h \in Handler, NEW l \in Layers!Layer, Layers!Ask(h, l)
    PROVE  LayersInv'
<1>0. LayersTypes /\ Requested
  BY DEF LayersInv
<1>1. PICK via \in {"fix", "pipeline"} :
         acting' = [acting EXCEPT ![h] = [pc |-> "act", no |-> asked + 1, layer |-> l, via |-> via,
                                          action |-> IF seen[l] THEN "stop" ELSE "start"]]
  BY DEF Layers!Ask, Layers!Routes
<1> DEFINE r == [pc |-> "act", no |-> asked + 1, layer |-> l, via |-> via,
                 action |-> IF seen[l] THEN "stop" ELSE "start"]
<1>2. /\ acting[h] = Layers!Idle /\ asked < MaxAction /\ asked' = asked + 1 /\ stopped' = stopped \ {l}
      /\ UNCHANGED <<running, wanted, recovering, seen, fixlog, died, entered>>
  BY DEF Layers!Ask
<1>3. asked + 1 \in 1..MaxAction /\ asked \in Nat
  BY <1>0, <1>2, Bounds DEF LayersTypes
<1>4. r \in Request
  BY <1>3 DEF Request
<1>5. acting' \in [Handler -> Request \cup {Layers!Idle}] /\ ToAct' = ToAct \cup {h}
      /\ Unlogged' = Unlogged \cup {h} /\ Trimming' = Trimming \ {h}
  <2>1. r.pc = "act" /\ acting' = [acting EXCEPT ![h] = r]
    BY <1>1
  <2> HIDE DEF r
  <2> QED
    BY <1>4, <2>1, RequestMoves
<1>6. h \notin ToAct /\ h \notin Unlogged /\ h \notin Trimming
  BY <1>2 DEF ToAct, Unlogged, Trimming, Layers!Idle
<1>7. Trimming' = Trimming /\ Cardinality(ToAct') = Cardinality(ToAct) + 1 /\ Cardinality(Unlogged') = Cardinality(Unlogged) + 1
      /\ Cardinality(ToAct) \in Nat /\ Cardinality(Unlogged) \in Nat
  BY <1>5, <1>6, HandlersCount, HandlersFinite DEF ToAct, Unlogged, Trimming
<1>8. LayersTypes'
  BY <1>0, <1>2, <1>3, <1>5 DEF LayersTypes
<1>9. Requested'
  BY <1>0, <1>2, <1>3, <1>7 DEF Requested, LayersTypes
<1>10. \A k \in stopped' : Layers!AsksOf(k)' \subseteq Layers!AsksOf(k) \ {h}
  <2>1. r.layer \notin stopped'
    BY <1>2
  <2> QED
    BY <1>1, <2>1, AsksMove
<1>11. StoppedIsDown'
  BY <1>2, <1>10 DEF LayersInv, StoppedIsDown
<1> QED
  BY <1>2, <1>7, <1>8, <1>9, <1>11 DEF LayersInv

\* A request that has its result asks for nothing any more.
LEMMA RequestActed ==
    ASSUME LayersInv, NEW h \in Handler, acting[h].pc = "act",
           NEW confirmed \in BOOLEAN, Layers!Acted(h, confirmed)
    PROVE  /\ acting[h] \in Request /\ acting' \in [Handler -> Request \cup {Layers!Idle}]
           /\ Cardinality(ToAct) \in Nat /\ Cardinality(ToAct') = Cardinality(ToAct) - 1
           /\ Cardinality(Unlogged) \in Nat /\ Cardinality(Unlogged') \in Nat
           /\ Cardinality(Unlogged') <= Cardinality(Unlogged) /\ Trimming' = Trimming
           /\ \A l \in stopped' : Layers!AsksOf(l)' = {}
           /\ stopped' \subseteq stopped \cup {acting[h].layer}
           /\ acting[h].layer \in stopped' => confirmed /\ acting[h].action = "stop"
<1>0. acting \in [Handler -> Request \cup {Layers!Idle}]
  BY DEF LayersInv, LayersTypes
<1>1. acting[h] \in Request
  BY <1>0 DEF Layers!Idle
<1> DEFINE r == IF acting[h].via = "fix" THEN [acting[h] EXCEPT !.pc = "insert"] ELSE Layers!Idle
<1>2. acting' = [acting EXCEPT ![h] = r]
  BY DEF Layers!Acted
<1>3. [acting[h] EXCEPT !.pc = "insert"] \in Request /\ [acting[h] EXCEPT !.pc = "insert"].pc = "insert"
  BY <1>1 DEF Request
<1>4. r \in Request \cup {Layers!Idle} /\ r.pc \in {"insert", "idle"}
  BY <1>3 DEF Layers!Idle
<1> HIDE DEF r
<1>5. /\ acting' \in [Handler -> Request \cup {Layers!Idle}] /\ ToAct' = ToAct \ {h} /\ Trimming' = Trimming \ {h}
      /\ Unlogged' = Unlogged \/ Unlogged' = Unlogged \ {h}
  <2>1. Unlogged \cup {h} = Unlogged
    BY DEF Unlogged
  <2>2. CASE r.pc = "insert"
    BY <1>2, <1>4, <2>1, <2>2, RequestMoves
  <2>3. CASE r.pc = "idle"
    BY <1>2, <1>4, <2>3, RequestMoves
  <2> QED
    BY <1>4, <2>2, <2>3
<1>6. h \in ToAct /\ h \in Unlogged /\ h \notin Trimming
  BY DEF ToAct, Unlogged, Trimming
<1>7. /\ ToAct \in SUBSET Handler /\ Unlogged \in SUBSET Handler /\ Unlogged \ {h} \in SUBSET Handler
      /\ Trimming' = Trimming
  BY <1>5, <1>6 DEF ToAct, Unlogged, Trimming
<1>8. Cardinality(ToAct) \in Nat /\ Cardinality(ToAct') = Cardinality(ToAct) - 1
  BY <1>5, <1>6, <1>7, HandlersCount, HandlersFinite
<1>9. Cardinality(Unlogged) \in Nat /\ Cardinality(Unlogged') \in Nat /\ Cardinality(Unlogged') <= Cardinality(Unlogged)
  <2>1. /\ Cardinality(Unlogged) \in Nat /\ Cardinality(Unlogged \ {h}) = Cardinality(Unlogged) - 1
        /\ Cardinality(Unlogged \ {h}) \in Nat
    BY <1>6, <1>7, HandlersCount, HandlersFinite
  <2>2. CASE Unlogged' = Unlogged
    BY <2>1, <2>2
  <2>3. CASE Unlogged' = Unlogged \ {h}
    BY <2>1, <2>3
  <2> QED
    BY <1>5, <2>2, <2>3
<1>10. \A l \in stopped' : Layers!AsksOf(l)' \subseteq Layers!AsksOf(l) \ {h}
  BY <1>2, <1>4, AsksMove
<1>11. \A l \in stopped' : Layers!AsksOf(l) \subseteq {h}
  BY DEF Layers!Acted, LayersInv, StoppedIsDown
<1>12. /\ stopped' \subseteq stopped \cup {acting[h].layer}
       /\ acting[h].layer \in stopped' => confirmed /\ acting[h].action = "stop"
  BY DEF Layers!Acted
<1> QED
  BY <1>1, <1>5, <1>7, <1>8, <1>9, <1>10, <1>11, <1>12

LEMMA LayersAct ==
    ASSUME LayersInv, NEW h \in Handler, Layers!Act(h)
    PROVE  LayersInv'
<1>0. LayersTypes /\ StoppedIsDown /\ Requested
  BY DEF LayersInv
<1>1. /\ acting[h].pc = "act" /\ acting[h].layer # Layers!K8s
      /\ UNCHANGED <<recovering, seen, fixlog, asked, died, entered>>
  BY DEF Layers!Act
<1>2. PICK confirmed \in BOOLEAN :
        /\ Layers!Acted(h, confirmed)
        /\ \/ Layers!Supervise(acting[h].layer, acting[h].action)
           \/ UNCHANGED <<running, wanted>> /\ confirmed = FALSE
  BY DEF Layers!Act
<1>3. /\ acting[h] \in Request /\ acting' \in [Handler -> Request \cup {Layers!Idle}]
      /\ Cardinality(ToAct) \in Nat /\ Cardinality(ToAct') = Cardinality(ToAct) - 1
      /\ Cardinality(Unlogged) \in Nat /\ Cardinality(Unlogged') \in Nat
      /\ Cardinality(Unlogged') <= Cardinality(Unlogged) /\ Trimming' = Trimming
      /\ \A l \in stopped' : Layers!AsksOf(l)' = {}
      /\ stopped' \subseteq stopped \cup {acting[h].layer}
      /\ acting[h].layer \in stopped' => confirmed /\ acting[h].action = "stop"
  BY <1>1, <1>2, RequestActed
<1>4. acting[h].layer \in Layers!Layer
  BY <1>3 DEF Request
<1>5. /\ running' \in [Layers!Layer -> {0, 1}] /\ wanted' \subseteq Layers!Layer \ {Layers!K8s}
      /\ \A l \in Layers!Layer : l # acting[h].layer => running'[l] = running[l] /\ (l \in wanted' => l \in wanted)
      /\ acting[h].layer \in stopped' => running'[acting[h].layer] = 0 /\ acting[h].layer \notin wanted'
  BY <1>0, <1>1, <1>2, <1>3, <1>4 DEF LayersTypes, Layers!Supervise
<1>6. LayersTypes'
  BY <1>0, <1>1, <1>3, <1>5 DEF LayersTypes
<1>7. StoppedIsDown'
  BY <1>0, <1>1, <1>3, <1>4, <1>5 DEF StoppedIsDown
<1>8. Requested'
  BY <1>0, <1>1, <1>3 DEF Requested, LayersTypes
<1> QED
  BY <1>1, <1>3, <1>6, <1>7, <1>8 DEF LayersInv

LEMMA LayersActK8s ==
    ASSUME LayersInv, NEW h \in Handler, Layers!ActK8s(h)
    PROVE  LayersInv'
<1>0. LayersTypes /\ StoppedIsDown /\ Requested
  BY DEF LayersInv
<1>1. /\ acting[h].pc = "act" /\ acting[h].layer = Layers!K8s /\ recovering' \in {recovering, recovering + 1}
      /\ Layers!Acted(h, FALSE) /\ UNCHANGED <<running, wanted, seen, fixlog, asked, died, entered>>
  BY DEF Layers!ActK8s
<1>2. /\ acting' \in [Handler -> Request \cup {Layers!Idle}]
      /\ Cardinality(ToAct) \in Nat /\ Cardinality(ToAct') = Cardinality(ToAct) - 1
      /\ Cardinality(Unlogged) \in Nat /\ Cardinality(Unlogged') \in Nat
      /\ Cardinality(Unlogged') <= Cardinality(Unlogged) /\ Trimming' = Trimming
      /\ \A l \in stopped' : Layers!AsksOf(l)' = {}
      /\ stopped' \subseteq stopped
  BY <1>1, RequestActed
<1>3. LayersTypes'
  BY <1>0, <1>1, <1>2 DEF LayersTypes
<1>4. StoppedIsDown'
  BY <1>0, <1>1, <1>2 DEF StoppedIsDown
<1>5. Requested'
  BY <1>0, <1>1, <1>2 DEF Requested, LayersTypes
<1> QED
  BY <1>1, <1>2, <1>3, <1>4, <1>5 DEF LayersInv

\* What the log is after an action is entered, and after it is trimmed.
LEMMA LogGrows ==
    ASSUME NEW s \in Seq(1..MaxAction), NEW all \in Seq(1..MaxAction), NEW w \in Nat, NEW no \in 1..MaxAction,
           IsNewest(s, all, w)
    PROVE  IsNewest(<<no>> \o s, Append(all, no), w + 1) /\ <<no>> \o s \in Seq(1..MaxAction)
<1> DEFINE t == <<no>> \o s
           more == Append(all, no)
<1>1. /\ t \in Seq(1..MaxAction) /\ Len(t) = Len(s) + 1 /\ Len(more) = Len(all) + 1 /\ Len(s) \in Nat /\ Len(all) \in Nat
      /\ t[1] = no /\ \A i \in 2..Len(s) + 1 : t[i] = s[i - 1]
      /\ more[Len(all) + 1] = no /\ \A i \in 1..Len(all) : more[i] = all[i]
  OBVIOUS
<1> HIDE DEF t, more
<1>2. \A i \in 1..Len(t) : i <= KeepActions => t[i] = more[Len(more) - i + 1]
  <2> SUFFICES ASSUME NEW i \in 1..Len(t), i <= KeepActions PROVE t[i] = more[Len(more) - i + 1]
    OBVIOUS
  <2>1. CASE i = 1
    BY <1>1, <2>1
  <2>2. CASE i > 1
    <3>0. i \in 2..Len(s) + 1 /\ i - 1 \in 1..Len(s) /\ KeepActions \in Int
      BY <1>1, <2>2, Bounds
    <3>1. i - 1 \in 1..Len(s) /\ i - 1 <= KeepActions /\ Len(s) <= Len(all) /\ t[i] = s[i - 1]
      BY <1>1, <3>0 DEF IsNewest
    <3>2. s[i - 1] = all[Len(all) - (i - 1) + 1]
      BY <3>1 DEF IsNewest
    <3>3. Len(all) - (i - 1) + 1 \in 1..Len(all) /\ Len(more) - i + 1 = Len(all) - (i - 1) + 1
      BY <1>1, <3>1
    <3> QED
      BY <1>1, <3>1, <3>2, <3>3
  <2> QED
    BY <1>1, <2>1, <2>2
<1>3. \A i \in 1..Len(more) : i <= KeepActions => i <= Len(t)
  <2> SUFFICES ASSUME NEW i \in 1..Len(more), i <= KeepActions PROVE i <= Len(t)
    OBVIOUS
  <2>1. CASE i = 1
    BY <1>1, <2>1
  <2>2. CASE i > 1
    <3>1. i - 1 \in 1..Len(all) /\ i - 1 <= KeepActions
      BY <1>1, <2>2, Bounds
    <3>2. i - 1 <= Len(s)
      BY <3>1 DEF IsNewest
    <3> QED
      BY <1>1, <3>2
  <2> QED
    BY <1>1, <2>1, <2>2
<1> QED
  <2>1. Len(t) <= Len(more) /\ Len(t) <= KeepActions + (w + 1)
    BY <1>1, Bounds DEF IsNewest
  <2>2. IsNewest(t, more, w + 1)
    BY <1>2, <1>3, <2>1 DEF IsNewest
  <2> QED
    BY <1>1, <2>2 DEF t, more

LEMMA FirstOnes ==
    ASSUME NEW S, NEW s \in Seq(S), NEW n \in 1..Len(s)
    PROVE  SubSeq(s, 1, n) \in Seq(S) /\ Len(SubSeq(s, 1, n)) = n /\ \A i \in 1..n : SubSeq(s, 1, n)[i] = s[i]
  OBVIOUS

LEMMA LogTrims ==
    ASSUME NEW s \in Seq(1..MaxAction), NEW all \in Seq(1..MaxAction), NEW w \in Nat, IsNewest(s, all, w + 1),
           NEW t, t = IF Len(s) <= KeepActions THEN s ELSE SubSeq(s, 1, KeepActions)
    PROVE  IsNewest(t, all, w) /\ t \in Seq(1..MaxAction)
<1>1. KeepActions \in Nat \ {0} /\ Len(s) \in Nat /\ Len(all) \in Nat
  BY Bounds
<1>2. CASE Len(s) <= KeepActions
  BY <1>1, <1>2 DEF IsNewest
<1>3. CASE Len(s) > KeepActions
  <2>1. t \in Seq(1..MaxAction) /\ Len(t) = KeepActions /\ \A i \in 1..KeepActions : t[i] = s[i]
    <3>1. KeepActions \in 1..Len(s)
      BY <1>1, <1>3
    <3>2. ~ Len(s) <= KeepActions
      BY <1>1, <1>3
    <3>3. t = SubSeq(s, 1, KeepActions)
      BY <3>2, Zenon
    <3> QED
      BY <3>1, <3>3, FirstOnes, Zenon
  <2>2. \A i \in 1..Len(t) : i <= KeepActions => t[i] = all[Len(all) - i + 1]
    BY <1>1, <1>3, <2>1 DEF IsNewest
  <2>3. Len(t) <= Len(all) /\ Len(t) <= KeepActions + w
    BY <1>1, <1>3, <2>1 DEF IsNewest
  <2>4. \A i \in 1..Len(all) : i <= KeepActions => i <= Len(t)
    BY <1>1, <2>1
  <2> QED
    BY <2>1, <2>2, <2>3, <2>4 DEF IsNewest
<1> QED
  BY <1>1, <1>2, <1>3

LEMMA LayersInsert ==
    ASSUME LayersInv, NEW h \in Handler, Layers!Insert(h)
    PROVE  LayersInv'
<1>0. /\ LayersTypes /\ StoppedIsDown /\ Requested /\ fixlog \in Seq(1..MaxAction) /\ entered \in Seq(1..MaxAction)
      /\ acting \in [Handler -> Request \cup {Layers!Idle}] /\ IsNewest(fixlog, entered, Cardinality(Trimming))
  BY DEF LayersInv, LayersTypes
<1>1. /\ acting[h].pc = "insert" /\ fixlog' = <<acting[h].no>> \o fixlog /\ entered' = Append(entered, acting[h].no)
      /\ acting' = [acting EXCEPT ![h].pc = "trim"]
      /\ UNCHANGED <<running, wanted, recovering, seen, asked, died, stopped>>
  BY DEF Layers!Insert
<1>2. acting[h] \in Request
  BY <1>0, <1>1 DEF Layers!Idle
<1> DEFINE r == [acting[h] EXCEPT !.pc = "trim"]
<1>3. r \in Request /\ r.pc = "trim" /\ acting[h].no \in 1..MaxAction
  BY <1>2 DEF Request
<1>4. acting' = [acting EXCEPT ![h] = r]
  BY <1>0, <1>1
<1> HIDE DEF r
<1>5. /\ acting' \in [Handler -> Request \cup {Layers!Idle}] /\ ToAct' = ToAct \ {h}
      /\ Unlogged' = Unlogged \ {h} /\ Trimming' = Trimming \cup {h}
  BY <1>3, <1>4, RequestMoves
<1>6. h \notin ToAct /\ h \in Unlogged /\ h \notin Trimming
  BY <1>1 DEF ToAct, Unlogged, Trimming
<1>7. ToAct' = ToAct /\ Cardinality(Unlogged') = Cardinality(Unlogged) - 1 /\ Cardinality(Trimming') = Cardinality(Trimming) + 1
      /\ Cardinality(Unlogged) \in Nat /\ Cardinality(Trimming) \in Nat
  BY <1>5, <1>6, HandlersCount, HandlersFinite DEF ToAct, Unlogged, Trimming
<1>8. IsNewest(fixlog', entered', Cardinality(Trimming)') /\ fixlog' \in Seq(1..MaxAction) /\ entered' \in Seq(1..MaxAction)
  BY <1>0, <1>1, <1>3, <1>7, LogGrows
<1>9. LayersTypes'
  BY <1>0, <1>1, <1>5, <1>8 DEF LayersTypes
<1>10. \A l \in stopped' : Layers!AsksOf(l)' \subseteq Layers!AsksOf(l) \ {h}
  BY <1>3, <1>4, AsksMove
<1>11. StoppedIsDown'
  BY <1>0, <1>1, <1>10 DEF StoppedIsDown
<1>12. Requested'
  <2>1. Len(entered') = Len(entered) + 1 /\ Len(entered) \in Nat /\ asked \in Nat
    BY <1>0, <1>1, <1>3 DEF LayersTypes
  <2> QED
    BY <1>0, <1>1, <1>7, <2>1 DEF Requested
<1> QED
  BY <1>8, <1>9, <1>11, <1>12 DEF LayersInv

LEMMA LayersTrim ==
    ASSUME LayersInv, NEW h \in Handler, Layers!Trim(h)
    PROVE  LayersInv'
<1>0. /\ LayersTypes /\ StoppedIsDown /\ Requested /\ fixlog \in Seq(1..MaxAction) /\ entered \in Seq(1..MaxAction)
      /\ IsNewest(fixlog, entered, Cardinality(Trimming))
  BY DEF LayersInv, LayersTypes
<1>1. /\ acting[h].pc = "trim" /\ acting' = [acting EXCEPT ![h] = Layers!Idle]
      /\ fixlog' = IF Len(fixlog) <= KeepActions THEN fixlog ELSE SubSeq(fixlog, 1, KeepActions)
      /\ UNCHANGED <<running, wanted, recovering, seen, asked, died, entered, stopped>>
  BY DEF Layers!Trim
<1>2. Layers!Idle.pc = "idle"
  BY DEF Layers!Idle
<1>3. /\ acting' \in [Handler -> Request \cup {Layers!Idle}] /\ ToAct' = ToAct \ {h}
      /\ Unlogged' = Unlogged \ {h} /\ Trimming' = Trimming \ {h}
  BY <1>1, <1>2, RequestMoves
<1>4. h \notin ToAct /\ h \notin Unlogged /\ h \in Trimming
  BY <1>1 DEF ToAct, Unlogged, Trimming
<1>5. ToAct' = ToAct /\ Unlogged' = Unlogged /\ Cardinality(Trimming') \in Nat /\ Cardinality(Trimming) = Cardinality(Trimming') + 1
  BY <1>3, <1>4, HandlersCount, HandlersFinite DEF ToAct, Unlogged, Trimming
<1>6. IsNewest(fixlog', entered, Cardinality(Trimming)') /\ fixlog' \in Seq(1..MaxAction)
  BY <1>0, <1>1, <1>5, LogTrims
<1>7. LayersTypes'
  BY <1>0, <1>1, <1>3, <1>6 DEF LayersTypes
<1>8. \A l \in stopped' : Layers!AsksOf(l)' \subseteq Layers!AsksOf(l) \ {h}
  BY <1>1, <1>2, AsksMove
<1>9. StoppedIsDown'
  BY <1>0, <1>1, <1>8 DEF StoppedIsDown
<1>10. Requested'
  BY <1>0, <1>1, <1>5 DEF Requested
<1> QED
  BY <1>1, <1>6, <1>7, <1>9, <1>10 DEF LayersInv

\* What the host does: layers die and come back, a script ends.
LEMMA LayersHost ==
    ASSUME LayersInv, (\E l \in Layers!Layer : Layers!Probe(l) \/ Layers!LayerDies(l) \/ Layers!Supervised(l))
                      \/ Layers!RecoveryEnds
    PROVE  LayersInv'
<1>0. LayersTypes /\ StoppedIsDown /\ Requested /\ IsNewest(fixlog, entered, Cardinality(Trimming))
  BY DEF LayersInv
<1>1. UNCHANGED <<wanted, acting, fixlog, asked, entered, stopped>>
  BY DEF Layers!Probe, Layers!LayerDies, Layers!Supervised, Layers!RecoveryEnds
<1>2. /\ ToAct' = ToAct /\ Unlogged' = Unlogged /\ Trimming' = Trimming
      /\ \A l \in Layers!Layer : Layers!AsksOf(l)' = Layers!AsksOf(l)
  BY <1>1 DEF ToAct, Unlogged, Trimming, Layers!AsksOf
<1>3. Cardinality(ToAct) \in Nat
  BY HandlersFinite DEF ToAct
<1>4. /\ running' \in [Layers!Layer -> {0, 1}] /\ seen' \in [Layers!Layer -> BOOLEAN] /\ died' \in 0..MaxDeath
      /\ recovering' \in Nat /\ recovering' <= recovering
      /\ \A l \in Layers!Layer \ wanted : l # Layers!K8s /\ running[l] = 0 => running'[l] = 0
  <2>1. /\ running \in [Layers!Layer -> {0, 1}] /\ seen \in [Layers!Layer -> BOOLEAN]
        /\ died \in 0..MaxDeath /\ recovering \in Nat /\ wanted \subseteq Layers!Layer \ {Layers!K8s}
    BY <1>0 DEF LayersTypes
  <2>2. ASSUME NEW l \in Layers!Layer, Layers!Probe(l) PROVE <1>4!:
    <3>1. seen' = [seen EXCEPT ![l] = running[l] > 0] /\ UNCHANGED <<running, recovering, died>>
      BY <2>2 DEF Layers!Probe
    <3>2. (running[l] > 0) \in BOOLEAN
      OBVIOUS
    <3>3. seen' \in [Layers!Layer -> BOOLEAN]
      BY <2>1, <3>1, <3>2
    <3> QED
      BY <2>1, <3>1, <3>3
  <2>3. ASSUME NEW l \in Layers!Layer, Layers!LayerDies(l) PROVE <1>4!:
    BY <2>1, <2>3, Bounds DEF Layers!LayerDies
  <2>4. ASSUME NEW l \in Layers!Layer, Layers!Supervised(l) PROVE <1>4!:
    BY <2>1, <2>4 DEF Layers!Supervised
  <2>5. ASSUME Layers!RecoveryEnds PROVE <1>4!:
    BY <2>1, <2>5 DEF Layers!RecoveryEnds
  <2> QED
    BY <2>2, <2>3, <2>4, <2>5
<1>5. LayersTypes'
  BY <1>0, <1>1, <1>4 DEF LayersTypes
<1>6. StoppedIsDown'
  BY <1>0, <1>1, <1>2, <1>4 DEF StoppedIsDown
<1>7. Requested'
  BY <1>0, <1>1, <1>2, <1>3, <1>4 DEF Requested, LayersTypes
<1> QED
  BY <1>0, <1>1, <1>2, <1>5, <1>6, <1>7 DEF LayersInv

LEMMA LayersReboot == LayersInv /\ Layers!Reboot => LayersInv'
<1> SUFFICES ASSUME LayersInv, Layers!Reboot PROVE LayersInv'
  OBVIOUS
<1>1. LayersTypes
  BY DEF LayersInv
<1>2. /\ wanted' = Layers!Layer \ {Layers!K8s} /\ recovering' = 0
      /\ acting' = [h \in Handler |-> Layers!Idle]
      /\ fixlog' = <<>> /\ entered' = <<>> /\ stopped' = {} /\ UNCHANGED <<seen, asked>>
  BY DEF Layers!Reboot
<1>3. died' \in 0..MaxDeath
  BY <1>1, Bounds DEF Layers!Reboot, LayersTypes
<1>4. running' \in [Layers!Layer -> {0, 1}]
  BY DEF Layers!Reboot
<1>5. LayersTypes'
  BY <1>1, <1>2, <1>3, <1>4 DEF LayersTypes
<1>6. ToAct' = {} /\ Unlogged' = {} /\ Trimming' = {}
  BY <1>2 DEF ToAct, Unlogged, Trimming, Layers!Idle
<1>7. IsNewest(<<>>, <<>>, 0)
  BY Bounds DEF IsNewest
<1>8. Cardinality(Trimming') = 0 /\ Cardinality(ToAct') = 0 /\ Cardinality(Unlogged') = 0
  BY <1>6, FS_EmptySet
<1>9. Requested'
  BY <1>1, <1>2, <1>8 DEF Requested, LayersTypes
<1> QED
  BY <1>2, <1>5, <1>7, <1>8, <1>9 DEF LayersInv, StoppedIsDown

LEMMA LayersStep == LayersInv /\ [Layers!Next]_Layers!vars => LayersInv'
<1> SUFFICES ASSUME LayersInv, [Layers!Next]_Layers!vars PROVE LayersInv'
  OBVIOUS
<1>1. CASE UNCHANGED Layers!vars
  BY <1>1 DEF Layers!vars, LayersInv, LayersTypes, StoppedIsDown, IsNewest, Requested, ToAct, Unlogged, Trimming,
              Layers!AsksOf
<1>2. CASE Layers!Next
  BY <1>2, LayersHost, LayersAsk, LayersAct, LayersActK8s, LayersInsert, LayersTrim, LayersReboot DEF Layers!Next
<1> QED
  BY <1>1, <1>2

LEMMA LayersAlways == Spec => []LayersInv
<1>1. Init => LayersInv
  BY Starts, LayersStarts
<1>2. LayersInv /\ [Next]_vars => LayersInv'
  BY Steps, LayersStep
<1> QED
  BY <1>1, <1>2, PTL DEF Spec

-----------------------------------------------------------------------------
(***************************************************************************)
(* The feedback demo.                                                      *)
(***************************************************************************)

Judgement == Demo!Verdict \cup {"none"}
Row == [flagged : BOOLEAN, truth : BOOLEAN, verdict : Judgement]
Judging == [pc : {"ready", "call", "answered", "start"}, row : Nat, verdict : Judgement, todo : SUBSET Nat,
            alone : BOOLEAN]
AtApi == {"call", "answered"}

DemoTypes ==
    /\ Demo!TypeOK
    /\ judging \in [Handler -> Judging]
    /\ \A h \in Handler : judging[h].pc \in AtApi => judging[h].row \in DOMAIN rows /\ judging[h].verdict \in Demo!Verdict

\* A judgement that began alone still is, and what the API has answered it is what it has.
AloneAtRow ==
    \A h \in Handler : judging[h].pc \in AtApi /\ judging[h].alone =>
        /\ \A g \in Handler : judging[g].pc \in AtApi /\ judging[g].row = judging[h].row => g = h
        /\ judging[h].pc = "answered" => store[judging[h].row] = judging[h].verdict

\* A row differs from what the API has only between the answer and the update of the row.
Agrees ==
    \A r \in DOMAIN rows :
        \/ r \in unsure
        \/ \E h \in Handler : judging[h].pc = "answered" /\ judging[h].row = r
        \/ rows[r].verdict = store[r]

\* A retraining is running, or its thread about to be started, as the status says.
OneAtATime ==
    /\ \A h \in Handler : judging[h].pc = "start" =>
        /\ retrain = "running" /\ \A g \in Handler : judging[g].pc = "start" => g = h
        /\ \A j \in Demo!Job : jobs[j] \notin Demo!InWork
    /\ \A j \in Demo!Job : jobs[j] \in Demo!InWork =>
        retrain = "running" /\ \A k \in Demo!Job : jobs[k] \in Demo!InWork => k = j

DemoInv == DemoTypes /\ AloneAtRow /\ Agrees /\ OneAtATime

LEMMA DemoStarts == Demo!Init => DemoInv
<1> SUFFICES ASSUME Demo!Init PROVE DemoInv
  OBVIOUS
<1>1. Demo!Ready \in Judging /\ Demo!Ready.pc = "ready"
  BY DEF Demo!Ready, Demo!None, Judging, Judgement
<1>2. judging \in [Handler -> Judging] /\ \A h \in Handler : judging[h].pc = "ready"
  BY <1>1 DEF Demo!Init
<1>3. /\ rows = <<>> /\ store = <<>> /\ retrain = "idle" /\ unsure = {} /\ stuck = FALSE /\ fleet = "absent"
      /\ \A j \in Demo!Job : jobs[j] = "none"
      /\ jobs \in [Demo!Job -> {"none", "prepare", "csv", "compare", "over"}]
  BY DEF Demo!Init, Demo!None
<1>4. /\ rows \in Seq([flagged : BOOLEAN, truth : BOOLEAN, verdict : Demo!Verdict \cup {Demo!None}]) /\ Len(rows) <= MaxRow
      /\ DOMAIN rows = {}
  BY <1>3, Bounds
<1>5. store \in [DOMAIN rows -> Demo!Verdict \cup {Demo!None}]
  BY <1>3, <1>4
<1>6. Demo!TypeOK
  BY <1>2, <1>3, <1>4, <1>5 DEF Demo!TypeOK, Demo!None
<1>7. DemoTypes /\ AloneAtRow /\ Agrees
  BY <1>2, <1>4, <1>6 DEF DemoTypes, AloneAtRow, Agrees, AtApi
<1>8. OneAtATime
  BY <1>2, <1>3 DEF OneAtATime, Demo!InWork
<1> QED
  BY <1>7, <1>8 DEF DemoInv

LEMMA DemoTyped ==
    DemoInv => /\ rows \in Seq(Row) /\ store \in [DOMAIN rows -> Judgement] /\ judging \in [Handler -> Judging]
               /\ unsure \subseteq DOMAIN rows /\ DOMAIN rows = 1..Len(rows) /\ Len(rows) \in Nat
  BY DEF DemoInv, DemoTypes, Demo!TypeOK, Row, Judgement, Demo!None

\* A prediction is sent.
LEMMA DemoSends == ASSUME DemoInv, NEW h \in Handler, Demo!Send(h) PROVE DemoInv'
<1>0. /\ rows \in Seq(Row) /\ store \in [DOMAIN rows -> Judgement] /\ unsure \subseteq DOMAIN rows
      /\ DOMAIN rows = 1..Len(rows) /\ Len(rows) \in Nat /\ Len(rows) < MaxRow /\ MaxRow \in Nat
  BY DemoTyped, Bounds DEF Demo!Send
<1>1. UNCHANGED <<judging, retrain, jobs, fleet, unsure, stuck>>
  BY DEF Demo!Send
<1>2. PICK new \in Row : new.verdict = "none" /\ rows' = Append(rows, new)
  BY ConstantsAssumption DEF Demo!Send, Row, Demo!None, Judgement
<1>3. /\ rows' \in Seq(Row) /\ Len(rows') = Len(rows) + 1 /\ DOMAIN rows' = 1..(Len(rows) + 1)
      /\ \A r \in DOMAIN rows : rows'[r] = rows[r]
      /\ rows'[Len(rows) + 1].verdict = "none"
  BY <1>0, <1>2
<1>4. /\ store' \in [DOMAIN rows' -> Judgement] /\ \A r \in DOMAIN rows : store'[r] = store[r]
      /\ store'[Len(rows) + 1] = "none"
  <2>1. store \in Seq(Judgement) /\ Len(store) = Len(rows) /\ store' = Append(store, "none") /\ "none" \in Judgement
    BY <1>0 DEF Demo!Send, Demo!None, Judgement
  <2>2. /\ store' \in Seq(Judgement) /\ Len(store') = Len(rows) + 1 /\ store'[Len(rows) + 1] = "none"
        /\ \A r \in 1..Len(rows) : store'[r] = store[r]
    BY <1>0, <2>1
  <2>3. store' \in [1..(Len(rows) + 1) -> Judgement]
    BY <2>2
  <2> QED
    BY <1>0, <1>3, <2>2, <2>3
<1>5. DOMAIN rows \subseteq DOMAIN rows' /\ \A r \in DOMAIN rows' : r \in DOMAIN rows \/ r = Len(rows) + 1
  BY <1>0, <1>3
<1>6. DemoTypes'
  BY <1>0, <1>1, <1>3, <1>4, <1>5 DEF DemoInv, DemoTypes, Demo!TypeOK, Row, Judgement, Demo!None
<1>7. AloneAtRow' /\ OneAtATime'
  BY <1>1, <1>4 DEF DemoInv, DemoTypes, AloneAtRow, OneAtATime
<1>8. Agrees'
  BY <1>1, <1>3, <1>4, <1>5 DEF DemoInv, Agrees
<1> QED
  BY <1>6, <1>7, <1>8 DEF DemoInv

\* What holds of the rows and the API goes on when no request is at the API that was not.
LEMMA DemoCalls ==
    ASSUME DemoInv, NEW h \in Handler, Demo!Judge(h) \/ Demo!Call(h) \/ Demo!Answered(h) \/ Demo!AutoJudge(h)
    PROVE  DemoInv'
<1>0. /\ rows \in Seq(Row) /\ store \in [DOMAIN rows -> Judgement] /\ judging \in [Handler -> Judging]
      /\ unsure \subseteq DOMAIN rows /\ DOMAIN rows = 1..Len(rows) /\ Len(rows) \in Nat
      /\ judging[h].pc \in AtApi => judging[h].row \in DOMAIN rows /\ judging[h].verdict \in Demo!Verdict
      /\ Demo!Ready \in Judging /\ Demo!Ready.pc = "ready"
  BY DemoTyped DEF DemoInv, DemoTypes, Demo!Ready, Demo!None, Judging, Judgement
<1>1. UNCHANGED <<retrain, jobs, fleet, stuck>>
  BY DEF Demo!Judge, Demo!Call, Demo!Answered, Demo!AutoJudge
<1>2. CASE Demo!AutoJudge(h)
  <2>1. /\ judging[h].pc = "ready" /\ UNCHANGED <<rows, store, unsure>>
        /\ judging' = [judging EXCEPT ![h] = [judging[h] EXCEPT !.todo = Demo!Unjudged]]
    BY <1>0, <1>2 DEF Demo!AutoJudge
  <2>2. [judging[h] EXCEPT !.todo = Demo!Unjudged] \in Judging /\ [judging[h] EXCEPT !.todo = Demo!Unjudged].pc = judging[h].pc
    <3>1. Demo!Unjudged \in SUBSET Nat
      BY <1>0 DEF Demo!Unjudged
    <3> QED
      BY <1>0, <3>1 DEF Judging
  <2>3. judging' \in [Handler -> Judging] /\ judging'[h].pc = "ready" /\ \A g \in Handler : g # h => judging'[g] = judging[g]
    BY <1>0, <2>1, <2>2
  <2>4. DemoTypes'
    BY <1>1, <2>1, <2>3 DEF DemoInv, DemoTypes, Demo!TypeOK, AtApi
  <2>5. AloneAtRow' /\ Agrees' /\ OneAtATime'
    BY <1>1, <2>1, <2>3 DEF DemoInv, AloneAtRow, Agrees, OneAtATime, AtApi, Demo!InWork
  <2> QED
    BY <2>4, <2>5 DEF DemoInv
<1>3. CASE Demo!Judge(h)
  <2>1. PICK r \in DOMAIN rows, v \in Demo!Verdict : judging' = Demo!Begun(h, r, v)
    <3>1. PICK a \in Demo!Asked(h) : judging' = Demo!Begun(h, a[1], a[2])
      BY <1>3 DEF Demo!Judge
    <3> QED
      BY <3>1 DEF Demo!Asked
  <2>2. judging[h].pc = "ready" /\ UNCHANGED <<rows, store, unsure>>
    BY <1>3 DEF Demo!Judge
  <2>3. h \notin Demo!AtRow(r)
    BY <2>2 DEF Demo!AtRow
  <2>4. judging'[h] = [pc |-> "call", row |-> r, verdict |-> v, alone |-> Demo!AtRow(r) = {}, todo |-> judging[h].todo \ {r}]
    BY <2>1 DEF Demo!Begun
  <2>5. judging'[h] \in Judging /\ judging'[h].pc = "call" /\ judging'[h].row = r /\ judging'[h].verdict = v
        /\ (judging'[h].alone => Demo!AtRow(r) = {})
    <3>1. judging[h].todo \ {r} \in SUBSET Nat /\ r \in Nat /\ v \in Judgement 
      BY <1>0 DEF Judging, Judgement
    <3>2. PICK b \in BOOLEAN : b = (Demo!AtRow(r) = {})
      OBVIOUS
    <3>3. judging'[h] = [pc |-> "call", row |-> r, verdict |-> v, alone |-> b, todo |-> judging[h].todo \ {r}]
      BY <2>4, <3>2
    <3>4. judging'[h] \in Judging
      BY <3>1, <3>3 DEF Judging
    <3>5. judging'[h].pc = "call" /\ judging'[h].row = r /\ judging'[h].verdict = v /\ judging'[h].alone = b
      BY <3>3
    <3> QED
      BY <3>2, <3>4, <3>5
  <2>6. ASSUME NEW g \in Handler, g \in Demo!AtRow(r)
        PROVE  /\ judging'[g] \in Judging /\ judging'[g].pc = judging[g].pc /\ judging'[g].row = judging[g].row
               /\ judging'[g].verdict = judging[g].verdict /\ ~judging'[g].alone
    <3>1. judging'[g] = [judging[g] EXCEPT !.alone = FALSE]
      BY <2>1, <2>3, <2>6 DEF Demo!Begun
    <3>2. judging[g] \in Judging
      BY <1>0
    <3> QED
      BY <3>1, <3>2 DEF Judging
  <2>7. ASSUME NEW g \in Handler, g # h, g \notin Demo!AtRow(r) PROVE judging'[g] = judging[g]
    BY <2>1, <2>7 DEF Demo!Begun
  <2>8. judging' \in [Handler -> Judging]
    <3>1. judging' = [g \in Handler |-> judging'[g]]
      BY <2>1 DEF Demo!Begun
    <3> QED
      BY <1>0, <2>5, <2>6, <2>7, <3>1
  <2>9. ASSUME NEW g \in Handler, g # h
        PROVE  /\ judging'[g].pc = judging[g].pc /\ judging'[g].row = judging[g].row
               /\ judging'[g].verdict = judging[g].verdict
               /\ judging'[g].alone => judging[g].alone /\ g \notin Demo!AtRow(r)
    BY <2>6, <2>7, <2>9
  <2>10. DemoTypes'
    BY <1>1, <2>2, <2>5, <2>8, <2>9 DEF DemoInv, DemoTypes, Demo!TypeOK, AtApi
  <2>11. AloneAtRow'
    BY <2>2, <2>5, <2>9 DEF DemoInv, AloneAtRow, AtApi, Demo!AtRow
  <2>12. Agrees' /\ OneAtATime'
    BY <1>1, <2>2, <2>5, <2>9 DEF DemoInv, Agrees, OneAtATime, Demo!InWork
  <2> QED
    BY <2>10, <2>11, <2>12 DEF DemoInv
<1>4. CASE Demo!Call(h)
  <2> DEFINE r == judging[h].row
  <2>1. judging[h].pc = "call" /\ rows' = rows /\ r \in DOMAIN rows
    BY <1>0, <1>4 DEF Demo!Call, AtApi
  <2>2. CASE /\ judging' = [judging EXCEPT ![h] = Demo!Ready]
             /\ \/ UNCHANGED <<store, unsure>>
                \/ store' = [store EXCEPT ![r] = judging[h].verdict] /\ unsure' = unsure \cup {r}
    <3>1. judging' \in [Handler -> Judging] /\ judging'[h].pc = "ready" /\ \A g \in Handler : g # h => judging'[g] = judging[g]
      BY <1>0, <2>2
    <3>2. CASE UNCHANGED <<store, unsure>>
      <4>1. DemoTypes'
        BY <1>1, <2>1, <3>1, <3>2 DEF DemoInv, DemoTypes, Demo!TypeOK, AtApi
      <4>2. AloneAtRow' /\ Agrees' /\ OneAtATime'
        BY <1>1, <2>1, <3>1, <3>2 DEF DemoInv, AloneAtRow, Agrees, OneAtATime, AtApi, Demo!InWork
      <4> QED
        BY <4>1, <4>2 DEF DemoInv
    <3>3. CASE store' = [store EXCEPT ![r] = judging[h].verdict] /\ unsure' = unsure \cup {r}
      <4>1. store' \in [DOMAIN rows -> Judgement] /\ \A q \in DOMAIN rows : q # r => store'[q] = store[q]
        BY <1>0, <2>1, <3>3 DEF Judging
      <4>2. DemoTypes'
        BY <1>0, <1>1, <2>1, <3>1, <3>3, <4>1 DEF DemoInv, DemoTypes, Demo!TypeOK, AtApi, Judgement, Demo!None
      <4>3. AloneAtRow'
        BY <2>1, <3>1, <4>1 DEF DemoInv, DemoTypes, AloneAtRow, AtApi
      <4>4. Agrees' /\ OneAtATime'
        BY <1>1, <2>1, <3>1, <3>3, <4>1 DEF DemoInv, Agrees, OneAtATime, Demo!InWork
      <4> QED
        BY <4>2, <4>3, <4>4 DEF DemoInv
    <3> QED
      BY <2>2, <3>2, <3>3
  <2>3. CASE judging' = [judging EXCEPT ![h].pc = "answered"] /\ store' = [store EXCEPT ![r] = judging[h].verdict] /\ UNCHANGED unsure
    <3>1. [judging[h] EXCEPT !.pc = "answered"] \in Judging /\ judging[h] \in Judging
      BY <1>0 DEF Judging
    <3>2. judging' = [judging EXCEPT ![h] = [judging[h] EXCEPT !.pc = "answered"]]
      BY <2>3
    <3>3. /\ judging' \in [Handler -> Judging] /\ judging'[h].pc = "answered" /\ judging'[h].row = r
          /\ judging'[h].verdict = judging[h].verdict /\ judging'[h].alone = judging[h].alone
          /\ \A g \in Handler : g # h => judging'[g] = judging[g]
      BY <1>0, <3>1, <3>2 DEF Judging
    <3>4. /\ store' \in [DOMAIN rows -> Judgement] /\ store'[r] = judging[h].verdict
          /\ \A q \in DOMAIN rows : q # r => store'[q] = store[q]
      BY <1>0, <2>1, <2>3 DEF Judging
    <3>5. DemoTypes'
      BY <1>0, <1>1, <2>1, <2>3, <3>3, <3>4 DEF DemoInv, DemoTypes, Demo!TypeOK, AtApi, Judgement, Demo!None
    <3>6. AloneAtRow'
      BY <2>1, <3>3, <3>4 DEF DemoInv, DemoTypes, AloneAtRow, AtApi
    <3>7. Agrees'
      BY <2>1, <2>3, <3>3, <3>4 DEF DemoInv, Agrees
    <3>8. OneAtATime'
      BY <1>1, <2>1, <3>3 DEF DemoInv, OneAtATime, Demo!InWork
    <3> QED
      BY <3>5, <3>6, <3>7, <3>8 DEF DemoInv
  <2> QED
    BY <1>4, <2>2, <2>3 DEF Demo!Call
<1>5. CASE Demo!Answered(h)
  <2> DEFINE r == judging[h].row
             go == [Demo!Ready EXCEPT !.todo = judging[h].todo]
  <2>1. /\ judging[h].pc = "answered" /\ r \in DOMAIN rows /\ store' = store /\ judging' = [judging EXCEPT ![h] = go]
        /\ rows' = [rows EXCEPT ![r] = [rows[r] EXCEPT !.verdict = judging[h].verdict]]
        /\ unsure' = IF judging[h].alone THEN unsure \ {r} ELSE unsure \cup {r}
    BY <1>0, <1>5 DEF Demo!Answered, AtApi
  <2>2. go \in Judging /\ go.pc = "ready"
    BY <1>0 DEF Demo!Ready, Demo!None, Judging, Judgement
  <2>3. judging' \in [Handler -> Judging] /\ judging'[h].pc = "ready" /\ \A g \in Handler : g # h => judging'[g] = judging[g]
    BY <1>0, <2>1, <2>2
  <2>4. [rows[r] EXCEPT !.verdict = judging[h].verdict] \in Row
        /\ [rows[r] EXCEPT !.verdict = judging[h].verdict].verdict = judging[h].verdict
    <3>1. rows[r] \in Row /\ judging[h].verdict \in Judgement
      BY <1>0, <2>1 DEF Judging
    <3> QED
      BY <3>1 DEF Row
  <2>5. /\ rows' \in Seq(Row) /\ Len(rows') = Len(rows) /\ DOMAIN rows' = DOMAIN rows /\ rows'[r].verdict = judging[h].verdict
        /\ \A q \in DOMAIN rows : q # r => rows'[q] = rows[q]
    BY <1>0, <2>1, <2>4
  <2>6. unsure' \subseteq DOMAIN rows
    BY <1>0, <2>1
  <2>7. DemoTypes'
    BY <1>0, <1>1, <2>1, <2>3, <2>5, <2>6 DEF DemoInv, DemoTypes, Demo!TypeOK, AtApi, Row, Judgement, Demo!None
  <2>8. AloneAtRow'
    BY <2>1, <2>3 DEF DemoInv, AloneAtRow, AtApi
  <2>9. Agrees'
    <3>1. CASE judging[h].alone
      <4>1. store[r] = judging[h].verdict
        BY <2>1, <3>1 DEF DemoInv, AloneAtRow, AtApi
      <4> QED
        BY <2>1, <2>3, <2>5, <3>1, <4>1 DEF DemoInv, Agrees
    <3>2. CASE ~judging[h].alone
      BY <2>1, <2>3, <2>5, <3>2 DEF DemoInv, Agrees
    <3> QED
      BY <3>1, <3>2
  <2>10. OneAtATime'
    BY <1>1, <2>1, <2>3 DEF DemoInv, OneAtATime, Demo!InWork
  <2> QED
    BY <2>7, <2>8, <2>9, <2>10 DEF DemoInv
<1> QED
  BY <1>2, <1>3, <1>4, <1>5

\* A retraining is claimed and started.
LEMMA DemoRetrains ==
    ASSUME DemoInv, NEW h \in Handler, Demo!Claim(h) \/ Demo!StartThread(h)
    PROVE  DemoInv'
<1>0. judging \in [Handler -> Judging] /\ Demo!Ready \in Judging /\ Demo!Ready.pc = "ready"
      /\ jobs \in [Demo!Job -> {"none", "prepare", "csv", "compare", "over"}]
  BY DEF DemoInv, DemoTypes, Demo!TypeOK, Demo!Ready, Demo!None, Judging, Judgement
<1>1. UNCHANGED <<rows, store, fleet, unsure>>
  BY DEF Demo!Claim, Demo!StartThread
<1>2. CASE Demo!Claim(h)
  <2>1. /\ judging[h].pc = "ready" /\ retrain # "running" /\ retrain' = "running" /\ UNCHANGED <<jobs, stuck>>
        /\ judging' = [judging EXCEPT ![h] = [judging[h] EXCEPT !.pc = "start"]]
    BY <1>0, <1>2 DEF Demo!Claim, Demo!Claimable
  <2>2. [judging[h] EXCEPT !.pc = "start"] \in Judging /\ [judging[h] EXCEPT !.pc = "start"].pc = "start"
    BY <1>0 DEF Judging
  <2>3. judging' \in [Handler -> Judging] /\ judging'[h].pc = "start" /\ \A g \in Handler : g # h => judging'[g] = judging[g]
    BY <1>0, <2>1, <2>2
  <2>4. DemoTypes'
    BY <1>1, <2>1, <2>3 DEF DemoInv, DemoTypes, Demo!TypeOK, AtApi
  <2>5. AloneAtRow' /\ Agrees'
    BY <1>1, <2>1, <2>3 DEF DemoInv, AloneAtRow, Agrees, AtApi
  <2>6. OneAtATime'
    BY <2>1, <2>3 DEF DemoInv, OneAtATime, Demo!InWork
  <2> QED
    BY <2>4, <2>5, <2>6 DEF DemoInv
<1>3. CASE Demo!StartThread(h)
  <2> DEFINE i == Demo!Cardinality(Demo!Started) + 1
  <2>1. /\ judging[h].pc = "start" /\ retrain' = retrain /\ judging' = [judging EXCEPT ![h] = Demo!Ready]
        /\ \/ jobs' = [jobs EXCEPT ![i] = "prepare"] /\ UNCHANGED stuck
           \/ stuck' = TRUE /\ UNCHANGED jobs
    BY <1>3 DEF Demo!StartThread
  <2>2. judging' \in [Handler -> Judging] /\ judging'[h].pc = "ready" /\ \A g \in Handler : g # h => judging'[g] = judging[g]
    BY <1>0, <2>1
  <2>3. jobs' \in [Demo!Job -> {"none", "prepare", "csv", "compare", "over"}] /\ stuck' \in BOOLEAN
        /\ \A j \in Demo!Job : j # i => jobs'[j] = jobs[j]
    BY <1>0, <2>1 DEF DemoInv, DemoTypes, Demo!TypeOK
  <2>4. DemoTypes'
    BY <1>1, <2>1, <2>2, <2>3 DEF DemoInv, DemoTypes, Demo!TypeOK, Demo!None, AtApi
  <2>5. AloneAtRow' /\ Agrees'
    BY <1>1, <2>1, <2>2 DEF DemoInv, AloneAtRow, Agrees, AtApi
  <2>6. retrain = "running" /\ (\A j \in Demo!Job : jobs[j] \notin Demo!InWork) /\ \A g \in Handler : judging'[g].pc # "start"
    BY <2>1, <2>2 DEF DemoInv, OneAtATime
  <2>7. OneAtATime'
    <3>1. Demo!InWork' = Demo!InWork
      BY DEF Demo!InWork
    <3>2. \A j \in Demo!Job : jobs'[j] \in Demo!InWork => j = i
      BY <2>3, <2>6
    <3> QED
      BY <2>1, <2>6, <3>1, <3>2 DEF OneAtATime
  <2> QED
    BY <2>4, <2>5, <2>7 DEF DemoInv
<1> QED
  BY <1>2, <1>3

\* A step of a retraining.
LEMMA DemoWorks == ASSUME DemoInv, NEW j \in Demo!Job, Demo!Works(j) PROVE DemoInv'
<1>0. jobs \in [Demo!Job -> {"none", "prepare", "csv", "compare", "over"}]
  BY DEF DemoInv, DemoTypes, Demo!TypeOK, Demo!None
<1>1. UNCHANGED <<rows, store, judging, unsure, stuck>>
  BY DEF Demo!Works, Demo!Prepare, Demo!WriteCsv, Demo!Compare, Demo!Raises, Demo!Rest
<1>2. /\ jobs[j] \in Demo!InWork /\ fleet' \in {"absent", "cut", "whole"}
      /\ \/ retrain' = retrain /\ \E x \in Demo!InWork : jobs' = [jobs EXCEPT ![j] = x]
         \/ retrain' \in {"done", "error"} /\ jobs' = [jobs EXCEPT ![j] = "over"]
  BY DEF Demo!Works, Demo!Prepare, Demo!WriteCsv, Demo!Compare, Demo!Raises, Demo!Goes, Demo!InWork,
         DemoInv, DemoTypes, Demo!TypeOK
<1>3. /\ jobs' \in [Demo!Job -> {"none", "prepare", "csv", "compare", "over"}]
      /\ \A k \in Demo!Job : k # j => jobs'[k] = jobs[k]
      /\ jobs'[j] \in Demo!InWork => retrain' = retrain
  BY <1>0, <1>2 DEF Demo!InWork
<1>4. /\ retrain = "running" /\ (\A k \in Demo!Job : jobs[k] \in Demo!InWork => k = j)
      /\ \A h \in Handler : judging[h].pc # "start"
  BY <1>2 DEF DemoInv, OneAtATime
<1>5. DemoTypes'
  BY <1>1, <1>2, <1>3, <1>4 DEF DemoInv, DemoTypes, Demo!TypeOK, Demo!None
<1>6. AloneAtRow' /\ Agrees'
  BY <1>1 DEF DemoInv, AloneAtRow, Agrees
<1>7. OneAtATime'
  BY <1>1, <1>3, <1>4 DEF OneAtATime, Demo!InWork
<1> QED
  BY <1>5, <1>6, <1>7 DEF DemoInv

LEMMA DemoAlways == Spec => []DemoInv
<1>1. DemoInv /\ [Next]_vars => DemoInv'
  <2>1. CASE DemoInv /\ UNCHANGED demo
    BY <2>1 DEF demo, DemoInv, DemoTypes, Demo!TypeOK, AloneAtRow, Agrees, OneAtATime
  <2>2. UNCHANGED Demo!vars <=> UNCHANGED demo
    BY DEF Demo!vars, demo
  <2> QED
    BY <2>1, <2>2, Steps, DemoSends, DemoCalls, DemoRetrains, DemoWorks DEF Demo!Next
<1> QED
  BY <1>1, Starts, DemoStarts, PTL DEF Spec

\* At most one retraining is at work, and the rows agree with the API.
LEMMA DemoHolds == DemoInv => Demo!OneRetraining /\ Demo!DemoHoldsApi
<1> SUFFICES ASSUME DemoInv PROVE Demo!OneRetraining /\ Demo!DemoHoldsApi
  OBVIOUS
<1>1. Demo!DemoHoldsApi
  BY DEF DemoInv, Agrees, Demo!DemoHoldsApi, Demo!AtRow
<1>2. Demo!OneRetraining
  <2> DEFINE W == {j \in Demo!Job : jobs[j] \in Demo!InWork}
  <2>1. CASE W = {}
    BY <2>1, FS_EmptySet, Sizes DEF Demo!OneRetraining
  <2>2. CASE W # {}
    <3>1. PICK j : W = {j}
      BY <2>2 DEF DemoInv, OneAtATime
    <3> QED
      BY <3>1, FS_Singleton, Sizes DEF Demo!OneRetraining
  <2> QED
    BY <2>1, <2>2
<1> QED
  BY <1>1, <1>2

\* Trainings, the console's and the demo's, run one at a time, and what is shown of them is
\* theirs (training.py, feedback_demo.py).
THEOREM TrainingsStayInOrder == Spec => []TrainingsInOrder
<1>1. TrainingInv /\ DemoInv => TrainingsInOrder
  BY DemoHolds DEF TrainingInv, Announced, Listed, TrainingsInOrder
<1> QED
  BY <1>1, TrainingAlways, DemoAlways, PTL

-----------------------------------------------------------------------------
(***************************************************************************)
(* The tests that stop services.                                           *)
(***************************************************************************)

ServiceSet == {Stops!services[i] : i \in DOMAIN Stops!services}

\* Where a test is, it has stopped the service it is about, or started it again.
Where ==
    /\ at = "begin" => turn = 1 /\ downed = {}
    /\ at = "ready" => turn = 1 /\ downed = {}
    /\ at = "down" => Stops!S \in downed /\ Stops!S \notin up
    /\ at = "start" => Stops!S \in downed
    /\ at = "back" => Stops!S \in downed /\ Stops!S \in up

\* What it has stopped is one of its own services; those before the one the finally is at
\* have been started.
Restarted ==
    /\ downed \subseteq ServiceSet
    /\ at = "finally" => \A i \in DOMAIN Stops!services : i < turn => Stops!services[i] \in up \cup unstarted
    /\ Stops!LeavesRunning

\* What it has measured has happened.
Happened ==
    /\ \A s \in Stops!AllServices :
        /\ <<s, "down">> \in times => s \in noticed
        /\ <<s, "back">> \in times => s \in ended
    /\ Stops!CompleteIsReal

StopsInv == Stops!TypeOK /\ Where /\ Restarted /\ Happened

\* The services of either test.
LEMMA Services ==
    ASSUME test \in {"agent", "chain"}
    PROVE  /\ DOMAIN Stops!services = 1..Len(Stops!services)
           /\ Len(Stops!services) \in {1, 2}
           /\ \A i \in DOMAIN Stops!services : Stops!services[i] \in Stops!AllServices
           /\ test = "agent" => Stops!services = <<"production-agent">>
           /\ test = "chain" => Stops!services = <<"prometheus", "alertmanager">>
<1>1. CASE test = "agent"
  BY <1>1 DEF Stops!services, Stops!AllServices
<1>2. CASE test = "chain"
  BY <1>2 DEF Stops!services, Stops!AllServices
<1> QED
  BY <1>1, <1>2

LEMMA StopsStarts == Stops!Init => StopsInv
<1> SUFFICES ASSUME Stops!Init PROVE StopsInv
  OBVIOUS
<1> USE DEF Stops!Init
<1>1. Stops!TypeOK
  BY Services DEF Stops!TypeOK
<1> QED
  BY <1>1, Services DEF StopsInv, Where, Restarted, Happened, Stops!LeavesRunning, Stops!CompleteIsReal

\* A step keeps the types.
LEMMA StopsTypes == ASSUME StopsInv, Stops!Next PROVE Stops!TypeOK'
<1> USE DEF Stops!TypeOK, StopsInv
<1>1. test' = test /\ Stops!services' = Stops!services
  BY DEF Stops!Next, Stops!Begin, Stops!Ready, Stops!Stop, Stops!Start, Stops!WatchDown, Stops!WatchBack, Stops!Finally,
         Stops!Killed, Stops!Alert, Stops!Raise, Stops!Goto, Stops!Measure, Stops!services
<1>2. Stops!S \in Stops!AllServices /\ 1 \in DOMAIN Stops!services /\ turn \in Nat
  BY Services DEF Stops!S
<1>3. /\ turn' \in DOMAIN Stops!services
      /\ at' \in {"begin", "ready", "stop", "down", "start", "back", "finally", "end"}
      /\ exit' \in {"none", "failed", "complete", "incomplete", "killed"}
  BY <1>2, Services DEF Stops!Next, Stops!Begin, Stops!Ready, Stops!Stop, Stops!Start, Stops!WatchDown, Stops!WatchBack,
         Stops!Finally, Stops!Killed, Stops!Alert, Stops!Raise, Stops!Goto, Stops!Measure
<1>4. up' \subseteq Stops!AllServices /\ downed' \subseteq Stops!AllServices /\ alerting' \subseteq Stops!AllServices
      /\ unstarted' \subseteq Stops!AllServices /\ times' \subseteq Stops!AllServices \X {"down", "back"}
  BY <1>2, Services DEF Stops!Next, Stops!Begin, Stops!Ready, Stops!Stop, Stops!Start, Stops!WatchDown, Stops!WatchBack,
         Stops!Finally, Stops!Killed, Stops!Alert, Stops!Raise, Stops!Goto, Stops!Measure
<1>5. noticed' \subseteq Stops!AllServices /\ ended' \subseteq Stops!AllServices
  BY <1>4 DEF Stops!Next
<1> QED
  BY <1>1, <1>3, <1>4, <1>5

\* A step goes on from where the test is.
LEMMA StopsGoOn == ASSUME StopsInv, Stops!Next PROVE Where'
<1> USE DEF Stops!TypeOK, StopsInv, Where
<1>1. Stops!services' = Stops!services /\ (turn' = turn => Stops!S' = Stops!S)
  BY DEF Stops!Next, Stops!Begin, Stops!Ready, Stops!Stop, Stops!Start, Stops!WatchDown, Stops!WatchBack, Stops!Finally,
         Stops!Killed, Stops!Alert, Stops!Raise, Stops!Goto, Stops!Measure, Stops!services, Stops!S
<1>2. CASE Stops!Begin \/ Stops!Ready
  BY <1>1, <1>2 DEF Stops!Begin, Stops!Ready, Stops!Raise, Stops!Goto
<1>3. CASE Stops!Stop
  BY <1>1, <1>3 DEF Stops!Stop, Stops!Raise
<1>4. CASE Stops!Start
  BY <1>1, <1>4 DEF Stops!Start, Stops!Raise
<1>5. CASE Stops!WatchDown
  BY <1>1, <1>5 DEF Stops!WatchDown, Stops!Measure, Stops!Raise
<1>6. CASE Stops!WatchBack
  BY <1>1, <1>6 DEF Stops!WatchBack, Stops!Measure, Stops!Raise
<1>7. CASE Stops!Finally
  BY <1>7 DEF Stops!Finally
<1>8. CASE Stops!Killed \/ Stops!Alert
  BY <1>1, <1>8 DEF Stops!Killed, Stops!Alert
<1> QED
  BY <1>2, <1>3, <1>4, <1>5, <1>6, <1>7, <1>8 DEF Stops!Next

\* No step leaves a service down behind the finally.
LEMMA StopsRestart == ASSUME StopsInv, Stops!Next PROVE Restarted'
<1> USE DEF Stops!TypeOK, StopsInv, Restarted, Stops!LeavesRunning
<1>0. Stops!services' = Stops!services /\ UNCHANGED ServiceSet
  BY DEF Stops!Next, Stops!Begin, Stops!Ready, Stops!Stop, Stops!Start, Stops!WatchDown, Stops!WatchBack, Stops!Finally,
         Stops!Killed, Stops!Alert, Stops!Raise, Stops!Goto, Stops!Measure, Stops!services, ServiceSet
<1>1. Stops!S \in ServiceSet
  BY DEF Stops!S, ServiceSet
<1>2. CASE Stops!Begin \/ Stops!Ready
  BY <1>0, <1>2, Services DEF Stops!Begin, Stops!Ready, Stops!Raise, Stops!Goto, Where
<1>3. CASE Stops!Stop \/ Stops!Start
  BY <1>0, <1>1, <1>3, Services DEF Stops!Stop, Stops!Start, Stops!Raise
<1>4. CASE Stops!WatchDown \/ Stops!WatchBack
  BY <1>0, <1>4, Services DEF Stops!WatchDown, Stops!WatchBack, Stops!Measure, Stops!Raise
<1>5. CASE Stops!Finally
  <2>1. PICK ok \in BOOLEAN :
          /\ up' = IF ok THEN up \cup {Stops!services[turn]} ELSE up
          /\ unstarted' = IF ok THEN unstarted ELSE unstarted \cup {Stops!services[turn]}
          /\ IF turn < Len(Stops!services) THEN turn' = turn + 1 /\ UNCHANGED <<at, exit>> ELSE at' = "end" /\ UNCHANGED turn
    BY <1>5 DEF Stops!Finally
  <2>2. downed' = downed /\ at = "finally" /\ turn \in Nat
    BY <1>5, Services DEF Stops!Finally
  <2>3. \A i \in DOMAIN Stops!services : i <= turn => Stops!services[i] \in up' \cup unstarted'
    BY <2>1, <2>2, Services
  <2>4. CASE turn < Len(Stops!services)
    BY <1>0, <2>1, <2>2, <2>3, <2>4, Services
  <2>5. CASE ~(turn < Len(Stops!services))
    <3>1. \A i \in DOMAIN Stops!services : i <= turn
      BY <2>2, <2>5, Services
    <3> QED
      BY <1>0, <2>1, <2>2, <2>3, <2>5, <3>1 DEF ServiceSet
  <2> QED
    BY <2>4, <2>5
<1>6. CASE Stops!Killed
  BY <1>0, <1>6 DEF Stops!Killed
<1>7. CASE Stops!Alert
  BY <1>0, <1>7 DEF Stops!Alert
<1> QED
  BY <1>2, <1>3, <1>4, <1>5, <1>6, <1>7 DEF Stops!Next

\* A step measures what is so.
LEMMA StopsMeasure == ASSUME StopsInv, Stops!Next PROVE Happened'
<1> USE DEF Stops!TypeOK, StopsInv, Happened, Stops!CompleteIsReal
<1>0. Stops!services' = Stops!services
  BY DEF Stops!Next, Stops!Begin, Stops!Ready, Stops!Stop, Stops!Start, Stops!WatchDown, Stops!WatchBack, Stops!Finally,
         Stops!Killed, Stops!Alert, Stops!Raise, Stops!Goto, Stops!Measure, Stops!services
<1>1. /\ noticed' = noticed \cup ((downed' \cap alerting') \ up') /\ ended' = ended \cup ((downed' \cap up') \ alerting')
      /\ noticed \subseteq noticed' /\ ended \subseteq ended'
  BY DEF Stops!Next
<1>2. \A s \in Stops!AllServices :
        (<<s, "down">> \in times' => s \in noticed') /\ (<<s, "back">> \in times' => s \in ended')
  <2>1. CASE UNCHANGED times
    BY <1>1, <2>1
  <2>2. CASE Stops!WatchDown
    <3>1. CASE times' = times \cup {<<Stops!S, "down">>}
      BY <1>1, <2>2, <3>1 DEF Stops!WatchDown, Stops!Measure, Stops!Firing, Where, Stops!Raise
    <3> QED
      BY <2>1, <2>2, <3>1 DEF Stops!WatchDown, Stops!Measure, Stops!Raise
  <2>3. CASE Stops!WatchBack
    <3>1. CASE times' = times \cup {<<Stops!S, "back">>}
      BY <1>1, <2>3, <3>1 DEF Stops!WatchBack, Stops!Measure, Stops!Resolved, Where, Stops!Raise
    <3> QED
      BY <2>1, <2>3, <3>1 DEF Stops!WatchBack, Stops!Measure, Stops!Raise
  <2> QED
    BY <2>1, <2>2, <2>3 DEF Stops!Next, Stops!Begin, Stops!Ready, Stops!Stop, Stops!Start, Stops!Finally,
         Stops!Killed, Stops!Alert, Stops!Raise, Stops!Goto
<1>3. exit' = "complete" => exit = "complete" \/ (Stops!Complete /\ UNCHANGED times)
  BY DEF Stops!Next, Stops!Begin, Stops!Ready, Stops!Stop, Stops!Start, Stops!WatchDown, Stops!WatchBack, Stops!Finally,
         Stops!Killed, Stops!Alert, Stops!Raise, Stops!Goto
<1>4. exit' = "complete" => \A i \in DOMAIN Stops!services : Stops!services[i] \in noticed' \cap ended'
  BY <1>1, <1>2, <1>3, Services DEF Stops!Complete
<1> QED
  BY <1>0, <1>2, <1>4 DEF Stops!AllServices

LEMMA StopsAlways == Spec => []StopsInv
<1>1. StopsInv /\ [Next]_vars => StopsInv'
  <2>1. CASE StopsInv /\ UNCHANGED stops
    BY <2>1 DEF stops, StopsInv, Stops!TypeOK, Where, Restarted, Happened, Stops!services, Stops!S, ServiceSet,
                Stops!LeavesRunning, Stops!CompleteIsReal
  <2> QED
    BY <2>1, Steps, StopsTypes, StopsGoOn, StopsRestart, StopsMeasure DEF StopsInv
<1> QED
  BY <1>1, Starts, StopsStarts, PTL DEF Spec

-----------------------------------------------------------------------------
(***************************************************************************)
(* The cluster's network.                                                  *)
(***************************************************************************)

\* Jenkins has its own address only if it was attached with it.
PinHolds == (address["jenkins"] = ".10" => pinned) /\ (fixed => address["jenkins"] \in {"none", ".10"})

\* What the script has seen of the cluster's address is still so, unless it was disturbed.
StillFree ==
    /\ step = "disconnect" => holder # "minikube"
    /\ step = "disconnect" /\ ~disturbed => Network!Holders(".2") \subseteq {holder, "minikube"}
    /\ step \in {"delete", "start"} /\ ~disturbed => Network!Holders(".2") \subseteq {"minikube"}

OneHolder == \A c, d \in Network!Attached : address[c] = ".2" /\ address[d] = ".2" => c = d

NetworkInv == Network!TypeOK /\ OneHolder /\ PinHolds /\ StillFree

LEMMA NetworkStarts == Network!Init => NetworkInv
<1> SUFFICES ASSUME Network!Init PROVE NetworkInv
  OBVIOUS
<1> USE DEF Network!Init, Network!Pool, Network!Two, Network!Pin, Network!None
<1>1. Network!TypeOK
  <2>1. address \in [Network!Attached -> {"none", ".10", ".2", ".3", ".4"}]
    OBVIOUS
  <2>2. 0 \in 0..MaxEvent
    BY Bounds
  <2> QED
    BY <2>1, <2>2 DEF Network!TypeOK
<1> QED
  BY <1>1 DEF NetworkInv, OneHolder, PinHolds, StillFree, Network!Apart, Network!Attached

\* Docker and its users: a container takes an address that no other one has.
LEMMA NetworkOutside ==
    ASSUME NetworkInv, Network!Reboot \/ \E c \in Network!Attached : Network!Attach(c)
    PROVE  NetworkInv'
<1> USE Bounds DEF NetworkInv, Network!TypeOK, Network!Pool, Network!Two, Network!Pin, Network!None
<1>1. ASSUME NEW c \in Network!Attached, Network!Attach(c) PROVE NetworkInv'
  <2>1. PICK taken \in {Network!Taken, Network!Taken \ {address[c]}} :
          address' = [address EXCEPT ![c] = Network!Lowest(taken)]
    BY <1>1 DEF Network!Attach
  <2>2. Network!Lowest(taken) \in Network!Pool /\ (Network!Lowest(taken) = ".2" => ".2" \notin taken)
    BY DEF Network!Lowest
  <2>3. Network!TypeOK'
    <3>1. address' \in [Network!Attached -> {"none", ".10"} \cup Network!Pool]
      BY <2>1, <2>2
    <3>2. events' \in 0..MaxEvent
      BY <1>1 DEF Network!Attach, Network!Event
    <3>3. pinned' \in BOOLEAN /\ fixed' \in BOOLEAN /\ disturbed' \in BOOLEAN
      BY <1>1 DEF Network!Attach
    <3> QED
      BY <1>1, <3>1, <3>2, <3>3 DEF Network!Attach
  <2>4. OneHolder'
    BY <2>1, <2>2 DEF OneHolder, Network!Taken
  <2>5. PinHolds'
    BY <1>1, <2>1, <2>2 DEF PinHolds, Network!Attach, Network!Attached
  <2> QED
    BY <1>1, <2>3, <2>4, <2>5 DEF Network!Attach, StillFree
<1>2. CASE Network!Reboot
  <2>1. Network!TypeOK' /\ step' = "off"
    BY <1>2 DEF Network!Reboot, Network!Event
  <2>2. OneHolder'
    BY <1>2 DEF OneHolder, Network!Reboot, Network!Apart
  <2>3. "jenkins" \in Network!Attached /\ pinned' = pinned /\ fixed' = fixed
    BY <1>2 DEF Network!Attached, Network!Reboot
  <2>4. /\ address'["jenkins"] = "none" <=> address["jenkins"] = "none"
        /\ address'["jenkins"] = ".10" <=> pinned /\ address["jenkins"] # "none"
    BY <1>2, <2>3 DEF Network!Reboot
  <2>5. PinHolds'
    BY <2>3, <2>4 DEF PinHolds
  <2> QED
    BY <2>1, <2>2, <2>5 DEF StillFree
<1> QED
  BY <1>1, <1>2

\* The script.
LEMMA NetworkScript ==
    ASSUME NetworkInv,
           \/ Network!Begin \/ Network!Inspect \/ Network!Disconnect \/ Network!Delete \/ Network!StartCluster
           \/ Network!Reconnect \/ Network!Connect \/ Network!Ready \/ Network!Dies \/ UNCHANGED network
    PROVE  NetworkInv'
<1> USE Bounds DEF NetworkInv, Network!TypeOK, Network!Pool, Network!Two, Network!Pin, Network!None
<1>0. {"minikube", "jenkins"} \subseteq Network!Attached /\ address \in [Network!Attached -> {"none", ".10", ".2", ".3", ".4"}]
  BY DEF Network!Attached
<1>1. CASE Network!Begin \/ Network!Ready \/ Network!Dies \/ UNCHANGED network
  <2>1. /\ UNCHANGED <<address, pinned, holder, disturbed, fixed, events>>
        /\ UNCHANGED step \/ step' \in {"off", "evict"}
        /\ rebuild' \in BOOLEAN
    BY <1>1 DEF Network!Begin, Network!Ready, Network!Dies, network
  <2> QED
    BY <2>1 DEF OneHolder, PinHolds, StillFree, Network!Holders
<1>2. CASE Network!Inspect
  <2>1. (~disturbed' => Network!Holders(".2") \subseteq {holder'}) /\ holder' \in Network!Attached \cup {"none"}
    BY <1>2 DEF Network!Inspect, OneHolder, Network!Holders
  <2>2. step' \in {"disconnect", "delete", "start"} /\ (step' # "disconnect" => holder' \in {"none", "minikube"})
    BY <1>2 DEF Network!Inspect, Network!Evict, Network!Evicted
  <2>3. step' = "disconnect" => holder' # "minikube"
    BY <1>2 DEF Network!Inspect, Network!Evict, Network!Evicted
  <2>4. Network!Holders(".2") \subseteq Network!Attached /\ "none" \notin Network!Attached
    BY ConstantsAssumption DEF Network!Holders, Network!Attached
  <2> QED
    BY <1>2, <2>1, <2>2, <2>3, <2>4 DEF Network!Inspect, OneHolder, PinHolds, StillFree, Network!Holders
<1>3. CASE Network!Disconnect
  <2>1. step' \in {"delete", "start"} /\ UNCHANGED <<pinned, rebuild, holder, fixed, events>> /\ step = "disconnect"
    BY <1>3 DEF Network!Disconnect, Network!Evicted
  <2>2. CASE address' = [address EXCEPT ![holder] = "none"] /\ UNCHANGED disturbed
    BY <1>0, <2>1, <2>2 DEF OneHolder, PinHolds, StillFree, Network!Holders
  <2>3. CASE disturbed' = TRUE /\ UNCHANGED address
    BY <1>0, <2>1, <2>3 DEF OneHolder, PinHolds, StillFree, Network!Holders
  <2> QED
    BY <1>3, <2>2, <2>3 DEF Network!Disconnect
<1>4. CASE Network!Delete
  BY <1>0, <1>4 DEF Network!Delete, OneHolder, PinHolds, StillFree, Network!Holders
<1>5. CASE Network!StartCluster
  BY <1>0, <1>5 DEF Network!StartCluster, OneHolder, PinHolds, StillFree, Network!Holders
<1>6. CASE Network!Reconnect
  BY <1>0, <1>6 DEF Network!Reconnect, Network!Released, OneHolder, PinHolds, StillFree, Network!Holders
<1>7. CASE Network!Connect
  BY <1>0, <1>7 DEF Network!Connect, OneHolder, PinHolds, StillFree, Network!Holders
<1> QED
  BY <1>1, <1>2, <1>3, <1>4, <1>5, <1>6, <1>7

LEMMA NetworkSteps == NetworkInv /\ [Network!Next]_(Network!vars) => NetworkInv'
  BY NetworkOutside, NetworkScript DEF Network!Next, Network!vars, network

LEMMA NetworkAlways == Spec => []NetworkInv
  BY Starts, Steps, NetworkStarts, NetworkSteps, PTL DEF Spec

\* Only a rebuild takes the cluster's address away.
LEMMA NetworkLeaves ==
    NetworkInv /\ [Network!Next]_(Network!vars) =>
        [address["minikube"] = ".2" /\ address'["minikube"] # ".2" => step = "delete" \/ Network!Reboot]_(Network!vars)
<1> SUFFICES ASSUME NetworkInv, Network!Next, address["minikube"] = ".2", address'["minikube"] # ".2", ~Network!Reboot
             PROVE  step = "delete"
  OBVIOUS
<1>1. "minikube" \in Network!Attached /\ "jenkins" \in Network!Attached
      /\ address \in [Network!Attached -> {"none", ".10", ".2", ".3", ".4"}]
  BY DEF Network!Attached, NetworkInv, Network!TypeOK, Network!Pool, Network!Two, Network!Pin, Network!None
<1>2. ASSUME NEW c \in Network!Attached, Network!Attach(c) PROVE FALSE
  BY <1>1, <1>2 DEF Network!Attach
<1>3. ~Network!Disconnect
  BY <1>1 DEF Network!Disconnect, NetworkInv, StillFree
<1>4. ~Network!StartCluster
  BY <1>1 DEF Network!StartCluster, Network!Two
<1>5. ~Network!Reconnect /\ ~Network!Connect
  BY <1>1 DEF Network!Reconnect, Network!Connect, Network!Released
<1>6. ~Network!Begin /\ ~Network!Inspect /\ ~Network!Ready /\ ~Network!Dies
  BY DEF Network!Begin, Network!Inspect, Network!Ready, Network!Dies
<1> QED
  BY <1>2, <1>3, <1>4, <1>5, <1>6 DEF Network!Next, Network!Delete

\* The address of the cluster is free when it is started, whoever held it, and a
\* reconnected Jenkins does not take it again (disconnect_ip_holder, reconnect_jenkins).
THEOREM NetworkStaysInOrder == Spec => []NetworkInOrder
<1>1. NetworkInv => NetworkInOrder
  BY DEF NetworkInv, NetworkInOrder, StillFree, PinHolds, Network!AddressIsFree, Network!JenkinsStaysOff, Network!Two
<1> QED
  BY <1>1, NetworkAlways, PTL

-----------------------------------------------------------------------------
(***************************************************************************)
(* The panel.                                                              *)
(***************************************************************************)

LEMMA LayersTyped == LayersInv => Layers!TypeOK
<1> SUFFICES ASSUME LayersInv PROVE Layers!TypeOK
  OBVIOUS
<1>1. LayersTypes /\ StoppedIsDown /\ Requested /\ IsNewest(fixlog, entered, Cardinality(Trimming))
  BY DEF LayersInv
<1>2. Cardinality(Unlogged) \in Nat /\ Cardinality(ToAct) \in Nat
  BY HandlersFinite DEF Unlogged, ToAct
<1>3. recovering \in 0..MaxAction /\ Len(fixlog) <= MaxAction
  <2>1. Len(fixlog) \in Nat /\ Len(entered) \in Nat /\ recovering \in Nat /\ asked \in 0..MaxAction
    BY <1>1 DEF LayersTypes
  <2>2. Len(fixlog) <= Len(entered)
    BY <1>1 DEF IsNewest
  <2> QED
    BY <1>1, <1>2, <2>1, <2>2, Bounds DEF Requested
<1>4. \A h \in Handler : acting[h].pc \in {"idle", "act", "insert", "trim"} /\ acting[h].layer \in Layers!Layer
  BY <1>1 DEF LayersTypes, Request, Layers!Idle, Layers!Layer
<1>5. running \in [Layers!Layer -> Nat] /\ stopped \subseteq Layers!Layer
  BY <1>1 DEF LayersTypes, StoppedIsDown
<1> QED
  BY <1>1, <1>3, <1>4, <1>5 DEF LayersTypes, Layers!TypeOK

\* Type correctness of every part of the panel.
THEOREM TypeCorrect == Spec => []TypeOK
<1>1. TrainingInv /\ LabelsInv /\ SilencesInv /\ LayersInv /\ DemoInv /\ StopsInv /\ NetworkInv => TypeOK
  BY LayersTyped DEF TypeOK, TrainingInv, LabelsInv, LabelsTypes, SilencesInv, DemoInv, DemoTypes, StopsInv, NetworkInv
<1> QED
  BY <1>1, TrainingAlways, LabelsAlways, SilencesAlways, LayersAlways, DemoAlways, StopsAlways, NetworkAlways, PTL

\* A layer whose stop was confirmed stays down until somebody asks for it, none runs twice,
\* and the log has the newest actions although requests insert and trim without a lock
\* (ui_fix, _log_fix_action); what a test of the alerts stops runs again at its end
\* (watchdog_test.py).
THEOREM ServicesRunAsAsked == Spec => []ServicesAsAsked
<1>1. ASSUME LayersInv PROVE Layers!StopStays /\ Layers!OneCopy /\ Layers!NewestActions
  <2>1. Layers!StopStays
    BY <1>1 DEF LayersInv, StoppedIsDown, Layers!StopStays
  <2>2. Layers!OneCopy
    BY <1>1 DEF LayersInv, LayersTypes, Layers!OneCopy
  <2>3. Layers!NewestActions
    <3>1. /\ IsNewest(fixlog, entered, Cardinality(Trimming)) /\ fixlog \in Seq(1..MaxAction) /\ entered \in Seq(1..MaxAction)
      BY <1>1 DEF LayersInv, LayersTypes
    <3>2. Layers!Cardinality(Trimming) = Cardinality(Trimming)
      BY Sizes
    <3>3. \A i \in 1..Len(entered) : i <= KeepActions => i \in DOMAIN fixlog /\ fixlog[i] = entered[Len(entered) - i + 1]
      BY <3>1 DEF IsNewest
    <3>4. Len(fixlog) <= KeepActions + Layers!Cardinality(Trimming)
      BY <3>1, <3>2 DEF IsNewest
    <3> QED
      BY <3>3, <3>4 DEF Layers!NewestActions, Trimming
  <2> QED
    BY <2>1, <2>2, <2>3
<1>2. StopsInv => Stops!LeavesRunning /\ Stops!CompleteIsReal
  BY DEF StopsInv, Restarted, Happened
<1>3. LayersInv /\ StopsInv => ServicesAsAsked
  BY <1>1, <1>2 DEF ServicesAsAsked
<1> QED
  BY <1>3, LayersAlways, StopsAlways, PTL

\* The panel ends only its own silences, of the scope that was asked for, and nothing but a
\* rebuild takes its address away from the cluster (_panel_silences, k8s_recover.sh).
THEOREM OthersAreKept == Spec => OthersKept
<1>1. Spec => Network!ClusterKept
  BY NetworkAlways, NetworkLeaves, Steps, PTL DEF Spec, Network!ClusterKept, Network!Two
<1> QED
  BY <1>1, SilencesOwn DEF OthersKept
=============================================================================
