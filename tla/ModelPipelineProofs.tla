------------------------- MODULE ModelPipelineProofs -------------------------
(***************************************************************************)
(* Proofs about ModelPipeline, for any files, thresholds, scores, models   *)
(* and commits.  Type correctness and that a pushed model was compared     *)
(* with the one it replaces hold for any number of tools at once on the    *)
(* VM; what is served was approved and evaluated when the tools run there  *)
(* one at a time.                                                          *)
(***************************************************************************)
EXTENDS ModelPipeline, TLAPS

StepNames == {"idle", "train", "choose", "guard", "test", "install", "gate", "push",
              "evaluate", "update", "select", "record"}
RunType == [pc : StepNames, promote : BOOLEAN, thr : Threshold, initial : BOOLEAN, against : Files,
            passed : BOOLEAN, left : SUBSET File, sel : SUBSET Selection, ev : SUBSET Evaluation]
ManifestType == [readable : BOOLEAN, artifacts : Files, thr : Threshold \cup {0},
                 sel : SUBSET Selection, ev : SUBSET Evaluation]
Content == [files : Files, manifest : ManifestType]
TreeType == [files : Files, manifest : ManifestType, base : Nat]

Runs == run \in [Tool -> RunType]
Trees == tree \in [Place -> TreeType]

Typed ==
    /\ main \in Content /\ head \in 0..MaxCommit /\ Trees /\ Runs /\ work \in [Place -> Files]
    /\ trained \in 0..MaxModel
    /\ served \subseteq Content /\ approved \subseteq Files /\ reselected \subseteq Files
    /\ \A c \in Place : tree[c].base <= head
    /\ \A p \in Tool :
        /\ run[p].pc \in {"gate", "push"} => p = "job" /\ run[p].passed
        /\ run[p].passed \/ run[p].pc = "guard" => run[p].sel # {}

\* As long as nobody has pushed under the job, the model it is compared with, or was, is
\* the one on main.
Compared ==
    LET r == run["job"] IN
    /\ r.pc \in {"idle", "train", "choose", "guard", "test", "install", "gate", "push"}
    /\ r.pc = "train" => r.promote
    /\ tree["job"].base = head =>
        /\ r.pc \in {"train", "choose", "guard"} => tree["job"].files = main.files
        /\ r.pc \in {"test", "install", "gate", "push"} => r.against = main.files

\* At most one tool at a time on the VM, as the runbooks use it.
OneShell == \A p, q \in Shell : p = q

\* The files a manifest's threshold was selected for were approved, and when they are the
\* artifacts its evaluation is theirs.
Honest(m, ok) ==
    /\ \A s \in m.sel : s.files \in ok
    /\ \A e \in m.ev : \A s \in m.sel : s.files = m.artifacts => e.of = s.files
    /\ \A d, e \in m.ev : d = e

Checked == approved \cup reselected

\* What a tool relies on between two of its steps.
UnderWay(p) ==
    LET r == run[p]
        w == work[At(p)]
    IN
    /\ r.pc \in {"train", "choose", "guard"} /\ r.initial => tree[At(p)].manifest.artifacts = NoFiles
    /\ r.pc = "train" => r.sel = {}
    /\ r.pc \in {"guard", "test"} => \A s \in r.sel : s.files = w
    /\ r.pc \in {"test", "install"} /\ r.passed => \A s \in r.sel : s.files \in approved
    /\ r.pc = "install" => \A e \in r.ev : \A s \in r.sel : e.of = s.files
    /\ r.pc = "update" => \A e \in r.ev : e.of = tree[At(p)].files
    /\ r.pc \in {"install", "update"} => \A d, e \in r.ev : d = e
    /\ r.pc = "record" => \A s \in r.sel : s.files \in reselected

Sound ==
    /\ Honest(main.manifest, Checked)
    /\ \A c \in Place : Honest(tree[c].manifest, Checked)
    /\ \A s \in served : Gate(s) /\ Honest(s.manifest, Checked)
    /\ \A p \in Tool : UnderWay(p)

IInv == Typed /\ Compared /\ (OneShell => Sound)

(***************************************************************************)
(* What an update does to the record of a tool, and to a clone.            *)
(***************************************************************************)
OtherTools(p) == \A q \in Tool \ {p} : run'[q] = run[q]
OtherTrees(c) == \A d \in Place \ {c} : tree'[d] = tree[d]
OtherWork(c) == \A d \in Place \ {c} : work'[d] = work[d]

\* What was asked of the tool, and what it has found, stay.
AskedStays(p) == run'[p].promote = run[p].promote /\ run'[p].initial = run[p].initial
GuardStays(p) == run'[p].against = run[p].against /\ run'[p].passed = run[p].passed
FoundStays(p) == run'[p].sel = run[p].sel /\ run'[p].ev = run[p].ev

LEMMA OnlyPc ==
    ASSUME Runs, NEW p \in Tool, NEW s \in StepNames, run' = [run EXCEPT ![p].pc = s]
    PROVE  Runs' /\ OtherTools(p) /\ run'[p].pc = s /\ AskedStays(p) /\ GuardStays(p) /\ FoundStays(p)
BY Zenon DEF Runs, RunType, OtherTools, AskedStays, GuardStays, FoundStays

LEMMA PcThr ==
    ASSUME Runs, NEW p \in Tool, NEW s \in StepNames, NEW x \in Threshold,
           run' = [run EXCEPT ![p].pc = s, ![p].thr = x]
    PROVE  Runs' /\ OtherTools(p) /\ run'[p].pc = s /\ GuardStays(p) /\ FoundStays(p)
BY Zenon DEF Runs, RunType, OtherTools, GuardStays, FoundStays

LEMMA PcSel ==
    ASSUME Runs, NEW p \in Tool, NEW s \in StepNames, NEW x \in SUBSET Selection,
           run' = [run EXCEPT ![p].pc = s, ![p].sel = x]
    PROVE  Runs' /\ OtherTools(p) /\ run'[p].pc = s /\ run'[p].sel = x /\ AskedStays(p) /\ GuardStays(p)
BY Zenon DEF Runs, RunType, OtherTools, AskedStays, GuardStays

LEMMA PcEv ==
    ASSUME Runs, NEW p \in Tool, NEW s \in StepNames, NEW x \in SUBSET Evaluation,
           run' = [run EXCEPT ![p].pc = s, ![p].ev = x]
    PROVE  Runs' /\ OtherTools(p) /\ run'[p].pc = s /\ run'[p].ev = x /\ run'[p].sel = run[p].sel /\ GuardStays(p)
BY Zenon DEF Runs, RunType, OtherTools, GuardStays

LEMMA OnlyLeft ==
    ASSUME Runs, NEW p \in Tool, NEW y \in SUBSET File, run' = [run EXCEPT ![p].left = y]
    PROVE  Runs' /\ OtherTools(p) /\ run'[p].pc = run[p].pc /\ AskedStays(p) /\ GuardStays(p) /\ FoundStays(p)
BY Zenon DEF Runs, RunType, OtherTools, AskedStays, GuardStays, FoundStays

LEMMA NewRun ==
    ASSUME Runs, NEW p \in Tool, NEW r \in RunType, run' = [run EXCEPT ![p] = r]
    PROVE  Runs' /\ OtherTools(p) /\ run'[p] = r
BY Zenon DEF Runs, OtherTools

LEMMA IdleIs ==
    Idle \in RunType /\ Idle.pc = "idle" /\ ~Idle.passed /\ Idle.sel = {} /\ Idle.ev = {}
<1>1. NoFiles \in Files /\ {} \in SUBSET File /\ {} \in SUBSET Selection /\ {} \in SUBSET Evaluation
  BY ConstantsAssumption, SMT DEF NoFiles, Files, Missing
<1>2. "idle" \in StepNames /\ Fallback \in Threshold
  BY ConstantsAssumption DEF StepNames
<1> QED
  BY <1>1, <1>2, SMT DEF Idle, RunType

LEMMA BegunIs ==
    ASSUME NEW c \in [files : Files, manifest : ManifestType, base : Nat] \cup Content, NEW promote \in BOOLEAN
    PROVE  LET r == Begun(c, promote) IN
           /\ r \in RunType /\ r.pc = "train" /\ r.promote = promote /\ r.initial = ~HasProduction(c.files)
           /\ ~r.passed /\ r.sel = {} /\ r.ev = {}
<1>1. ThresholdOf(c.manifest) \in Threshold
  BY ConstantsAssumption, SMT DEF ThresholdOf, ManifestType, Content
<1>2. "train" \in StepNames /\ (~HasProduction(c.files)) \in BOOLEAN
  BY DEF HasProduction, StepNames
<1> QED
  BY <1>1, <1>2, IdleIs, ZenonT(60) DEF Begun, RunType

LEMMA FileOfTree ==
    ASSUME Trees, NEW c \in Place, NEW f \in File, NEW x \in 0..MaxModel + 1,
           tree' = [tree EXCEPT ![c].files[f] = x]
    PROVE  Trees' /\ OtherTrees(c) /\ tree'[c].manifest = tree[c].manifest /\ tree'[c].base = tree[c].base
BY Zenon DEF Trees, TreeType, OtherTrees, Files

LEMMA ManifestOfTree ==
    ASSUME Trees, NEW c \in Place, NEW m \in ManifestType, tree' = [tree EXCEPT ![c].manifest = m]
    PROVE  /\ Trees' /\ OtherTrees(c)
           /\ tree'[c].files = tree[c].files /\ tree'[c].base = tree[c].base /\ tree'[c].manifest = m
BY Zenon DEF Trees, TreeType, OtherTrees

LEMMA ReadableOfTree ==
    ASSUME Trees, NEW c \in Place, tree' = [tree EXCEPT ![c].manifest.readable = FALSE]
    PROVE  /\ Trees' /\ OtherTrees(c)
           /\ tree'[c].files = tree[c].files /\ tree'[c].base = tree[c].base
           /\ tree'[c].manifest.artifacts = tree[c].manifest.artifacts
           /\ tree'[c].manifest.sel = tree[c].manifest.sel /\ tree'[c].manifest.ev = tree[c].manifest.ev
BY Zenon DEF Trees, TreeType, ManifestType, OtherTrees

LEMMA NewTree ==
    ASSUME Trees, NEW c \in Place, NEW t \in TreeType, tree' = [tree EXCEPT ![c] = t]
    PROVE  Trees' /\ OtherTrees(c) /\ tree'[c] = t
BY Zenon DEF Trees, OtherTrees

LEMMA BaseOfTree ==
    ASSUME Trees, NEW c \in Place, NEW n \in Nat, tree' = [tree EXCEPT ![c].base = n]
    PROVE  /\ Trees' /\ OtherTrees(c)
           /\ tree'[c].files = tree[c].files /\ tree'[c].manifest = tree[c].manifest /\ tree'[c].base = n
BY Zenon DEF Trees, TreeType, OtherTrees

(***************************************************************************)
(* A step of one tool.                                                     *)
(***************************************************************************)

LEMMA Places ==
    /\ \A p \in Tool : At(p) \in Place
    /\ "job" \in Tool /\ At("job") = "job"
    /\ \A p \in Tool \ {"job"} : At(p) = "vm"
    /\ \A p \in Shell : p \in Tool \ {"job"}
    /\ OneShell => \A p, q \in Tool : At(p) = At(q) => p = q
BY ConstantsAssumption DEF At, Place, Tool, OneShell

LEMMA MoreApproved == ASSUME NEW m, NEW a, NEW b, a \subseteq b, Honest(m, a) PROVE Honest(m, b)
BY DEF Honest

\* What others see of a tool's step.
Local(p) ==
    /\ OtherTools(p) /\ OtherTrees(At(p)) /\ OtherWork(At(p))
    /\ main' = main /\ head' = head /\ served' = served
    /\ approved \subseteq approved' /\ reselected \subseteq reselected'

\* A step of one tool keeps the invariant if what it leaves to itself does: what it did to
\* its own record and clone.
LEMMA ToolStepKeeps ==
    ASSUME IInv, NEW p \in Tool, Local(p), Runs', Trees', work' \in [Place -> Files],
           trained' \in 0..MaxModel, approved' \subseteq Files, reselected' \subseteq Files,
           tree'[At(p)].base <= head,
           run'[p].pc \in {"gate", "push"} => p = "job" /\ run'[p].passed,
           run'[p].passed \/ run'[p].pc = "guard" => run'[p].sel # {},
           p = "job" => Compared',
           OneShell /\ Sound => Honest(tree'[At(p)].manifest, Checked') /\ UnderWay(p)'
    PROVE  IInv'
<1>1. Typed'
  <2>1. \A c \in Place : tree'[c].base <= head'
    BY Places DEF IInv, Typed, Local, OtherTrees
  <2>2. \A q \in Tool :
          /\ run'[q].pc \in {"gate", "push"} => q = "job" /\ run'[q].passed
          /\ run'[q].passed \/ run'[q].pc = "guard" => run'[q].sel # {}
    BY DEF IInv, Typed, Local, OtherTools
  <2> QED
    BY <2>1, <2>2 DEF IInv, Typed, Local
<1>2. Compared'
  <2>1. CASE p = "job"
    BY <2>1
  <2>2. CASE p # "job"
    <3>1. run'["job"] = run["job"] /\ tree'["job"] = tree["job"] /\ main' = main /\ head' = head
      BY <2>2, Places DEF Local, OtherTools, OtherTrees, Place
    <3> QED
      BY <3>1 DEF IInv, Compared
  <2> QED
    BY <2>1, <2>2
<1>3. ASSUME OneShell PROVE Sound'
  <2>1. Sound /\ Checked \subseteq Checked'
    BY <1>3 DEF IInv, Local, Checked
  <2>2. Honest(main'.manifest, Checked')
    BY <2>1, MoreApproved DEF Sound, Local
  <2>3. ASSUME NEW c \in Place PROVE Honest(tree'[c].manifest, Checked')
    <3>1. CASE c = At(p)
      BY <1>3, <2>1, <3>1
    <3>2. CASE c # At(p)
      <4>1. tree'[c] = tree[c] /\ Honest(tree[c].manifest, Checked)
        BY <2>1, <3>2 DEF Local, OtherTrees, Sound
      <4> QED
        BY <4>1, <2>1, MoreApproved
    <3> QED
      BY <3>1, <3>2
  <2>4. ASSUME NEW s \in served' PROVE Gate(s) /\ Honest(s.manifest, Checked')
    BY <2>1, MoreApproved DEF Sound, Local
  <2>5. ASSUME NEW q \in Tool PROVE UnderWay(q)'
    <3>1. CASE q = p
      BY <1>3, <2>1, <3>1
    <3>2. CASE q # p
      <4>1. At(q) \in Place /\ At(q) # At(p)
        BY <1>3, <3>2, Places
      <4>2. run'[q] = run[q] /\ tree'[At(q)] = tree[At(q)] /\ work'[At(q)] = work[At(q)] /\ UnderWay(q)
        BY <2>1, <3>2, <4>1 DEF Local, OtherTools, OtherTrees, OtherWork, Sound
      <4> QED
        BY <4>2 DEF UnderWay, Local
    <3> QED
      BY <3>1, <3>2
  <2> QED
    BY <2>2, <2>3, <2>4, <2>5 DEF Sound
<1> QED
  BY <1>1, <1>2, <1>3 DEF IInv

LEMMA EmptyIs ==
    /\ NoFiles \in Files /\ NoManifest \in ManifestType /\ Empty \in Content
    /\ Empty.files = NoFiles /\ Empty.manifest = NoManifest
    /\ NoManifest.artifacts = NoFiles /\ \A ok : Honest(NoManifest, ok)
<1>1. NoFiles \in Files
  BY ConstantsAssumption, SMT DEF NoFiles, Files, Missing
<1> QED
  BY <1>1 DEF NoManifest, ManifestType, Empty, Content, Honest

LEMMA PromotedIs ==
    ASSUME NEW m \in Model
    PROVE  /\ Of(m) \in Files /\ Promoted(m) \in Content
           /\ \A ok : Of(m) \in ok => Honest(Promoted(m).manifest, ok)
<1>1. Of(m) \in Files
  BY ConstantsAssumption, SMT DEF Of, Files, Model
<1>2. MaxScore \in Score /\ Fallback \in Threshold
  BY ConstantsAssumption DEF Score
<1> QED
  BY <1>1, <1>2 DEF Promoted, Content, ManifestType, Selection, Evaluation, Honest

LEMMA InitIInv == Init => IInv
<1> SUFFICES ASSUME Init PROVE IInv
  OBVIOUS
<1>1. 1 \in Model
  BY ConstantsAssumption DEF Model
<1>2. /\ main \in Content /\ trained \in 0..MaxModel /\ head = 0 /\ served = {} /\ reselected = {}
      /\ approved \subseteq Files /\ Honest(main.manifest, Checked)
  BY <1>1, EmptyIs, PromotedIs, ConstantsAssumption DEF Init, Checked
<1>3. /\ tree \in [Place -> TreeType] /\ \A c \in Place : tree[c].base = 0
      /\ \A c \in Place : tree[c].manifest \in {main.manifest, NoManifest}
  BY <1>2, EmptyIs DEF Init, Clone, Content, TreeType
<1>4. run \in [Tool -> RunType] /\ \A p \in Tool : run[p] = Idle
  BY IdleIs DEF Init
<1>5. Typed
  BY <1>2, <1>3, <1>4, EmptyIs, IdleIs, ConstantsAssumption DEF Init, Typed, Runs, Trees
<1>6. Compared
  <2>1. run["job"].pc = "idle"
    BY <1>4, Places, IdleIs
  <2> QED
    BY <2>1 DEF Compared
<1>7. Sound
  <2>1. \A p \in Tool : UnderWay(p)
    BY <1>4, IdleIs DEF UnderWay
  <2> QED
    BY <1>2, <1>3, <2>1, EmptyIs DEF Sound
<1> QED
  BY <1>5, <1>6, <1>7 DEF IInv

\* The clone a tool works in, as the invariant has it.
LEMMA HereIs ==
    ASSUME IInv, NEW p \in Tool
    PROVE  /\ At(p) \in Place /\ Here(p) = tree[At(p)] /\ Here(p) \in TreeType /\ tree[At(p)].base <= head
           /\ work[At(p)] \in Files /\ run[p] \in RunType
           /\ p \in Shell => p # "job"
BY Places DEF IInv, Typed, Runs, Trees, Here

LEMMA StartTrainingKeeps == ASSUME IInv, NEW p \in Tool, StartTraining(p) PROVE IInv'
<1>1. PICK promote \in BOOLEAN : run' = [run EXCEPT ![p] = Begun(Here(p), promote)]
  BY DEF StartTraining
<1>2. /\ Runs' /\ OtherTools(p) /\ run'[p].pc = "train" /\ ~run'[p].passed /\ run'[p].sel = {}
      /\ run'[p].initial = ~HasProduction(Here(p).files)
  <2>1. Here(p) \in [files : Files, manifest : ManifestType, base : Nat] \cup Content
    BY HereIs DEF TreeType
  <2> DEFINE r == Begun(Here(p), promote)
  <2>2. r \in RunType /\ r.pc = "train" /\ ~r.passed /\ r.sel = {} /\ r.initial = ~HasProduction(Here(p).files)
    BY <2>1, BegunIs, Zenon
  <2> HIDE DEF r
  <2>3. Runs' /\ OtherTools(p) /\ run'[p] = r
    BY <1>1, <2>2, NewRun, Zenon DEF r, IInv, Typed
  <2> QED
    BY <2>2, <2>3
<1>3. p \in Shell /\ MayBegin(Here(p)) /\ UNCHANGED <<main, head, tree, work, trained, served, approved, reselected>>
  BY DEF StartTraining, Repository, Ghosts
<1>4. Local(p)
  BY <1>2, <1>3 DEF Local, OtherTrees, OtherWork
<1>5. OneShell /\ Sound => Honest(tree'[At(p)].manifest, Checked') /\ UnderWay(p)'
  BY <1>2, <1>3, HereIs DEF Sound, Checked, UnderWay, MayBegin, ProductionFilesMissing
<1> QED
  BY <1>2, <1>3, <1>4, <1>5, HereIs, ToolStepKeeps DEF IInv, Typed, Trees

LEMMA TrainKeeps == ASSUME IInv, NEW p \in Tool, Train(p) PROVE IInv'
<1>1. /\ run[p].pc = "train" /\ trained' = trained + 1 /\ trained < MaxModel
      /\ work' = [work EXCEPT ![At(p)] = Of(trained')]
      /\ run' = [run EXCEPT ![p].pc = IF run[p].promote THEN "choose" ELSE "test"]
      /\ UNCHANGED <<main, head, tree, served, approved, reselected>>
  BY DEF Train, Goes, Repository, Ghosts
<1>2. (IF run[p].promote THEN "choose" ELSE "test") \in StepNames
  BY DEF StepNames
<1>3. /\ Runs' /\ OtherTools(p) /\ AskedStays(p) /\ GuardStays(p) /\ FoundStays(p)
      /\ run'[p].pc = IF run[p].promote THEN "choose" ELSE "test"
  BY <1>1, <1>2, OnlyPc DEF IInv, Typed
<1>4. trained' \in 1..MaxModel /\ work' \in [Place -> Files] /\ OtherWork(At(p))
  <2>1. trained' \in 1..MaxModel
    BY <1>1, ConstantsAssumption DEF IInv, Typed
  <2>2. Of(trained') \in Files
    BY <2>1, PromotedIs DEF Model
  <2> QED
    BY <1>1, <2>1, <2>2, HereIs DEF IInv, Typed, OtherWork
<1>5. Local(p)
  BY <1>1, <1>3, <1>4 DEF Local, OtherTrees
<1>6. p = "job" => Compared'
  BY <1>1, <1>3 DEF IInv, Compared, AskedStays
<1>7. OneShell /\ Sound => Honest(tree'[At(p)].manifest, Checked') /\ UnderWay(p)'
  <2>1. run[p].pc = "train" /\ tree' = tree /\ Checked' = Checked
    BY <1>1 DEF Checked
  <2>2. run'[p].pc \in {"choose", "test"} /\ run'[p].initial = run[p].initial /\ run'[p].sel = run[p].sel
    BY <1>3 DEF AskedStays, FoundStays
  <2> QED
    BY <2>1, <2>2, HereIs DEF Sound, UnderWay
<1>8. run'[p].passed \/ run'[p].pc = "guard" => run'[p].sel # {}
  BY <1>1, <1>3 DEF IInv, Typed, GuardStays, FoundStays
<1> QED
  BY <1>1, <1>3, <1>4, <1>5, <1>6, <1>7, <1>8, HereIs, ToolStepKeeps DEF IInv, Typed, Trees

LEMMA ChooseThresholdKeeps == ASSUME IInv, NEW p \in Tool, ChooseThreshold(p) PROVE IInv'
<1>1. PICK t \in Threshold :
        run' = [run EXCEPT ![p].pc = "guard", ![p].sel = {[thr |-> t, files |-> work[At(p)]]}]
  BY DEF ChooseThreshold
<1>2. run[p].pc = "choose" /\ UNCHANGED <<main, head, tree, work, trained, served, approved, reselected>>
  BY DEF ChooseThreshold, Repository, Ghosts
<1> DEFINE chosen == {[thr |-> t, files |-> work[At(p)]]}
<1>3. chosen \in SUBSET Selection /\ chosen # {} /\ (\A s \in chosen : s.files = work[At(p)]) /\ "guard" \in StepNames
  BY HereIs DEF Selection, StepNames
<1> HIDE DEF chosen
<1>4. /\ Runs' /\ OtherTools(p) /\ AskedStays(p) /\ GuardStays(p) /\ run'[p].pc = "guard" /\ run'[p].sel = chosen
  <2>1. run' = [run EXCEPT ![p].pc = "guard", ![p].sel = chosen]
    BY <1>1, Zenon DEF chosen
  <2> QED
    BY <1>3, <2>1, PcSel DEF IInv, Typed
<1>5. Local(p)
  BY <1>2, <1>4 DEF Local, OtherTrees, OtherWork
<1>6. p = "job" => Compared'
  BY <1>2, <1>4 DEF IInv, Compared
<1>7. OneShell /\ Sound => Honest(tree'[At(p)].manifest, Checked') /\ UnderWay(p)'
  BY <1>2, <1>3, <1>4, HereIs DEF Sound, Checked, UnderWay, AskedStays
<1> QED
  BY <1>2, <1>3, <1>4, <1>5, <1>6, <1>7, HereIs, ToolStepKeeps DEF IInv, Typed, Trees

LEMMA GuardKeeps == ASSUME IInv, NEW p \in Tool, Guard(p) PROVE IInv'
<1>1. PICK cand, prod \in [f1: Score, recall: Score] :
        LET passes == run[p].initial \/ Guardrail(cand, prod)
            sound == Guardrail(cand, prod) \/ Here(p).manifest.artifacts = NoFiles
        IN  /\ run' = [run EXCEPT ![p].pc = "test", ![p].passed = passes, ![p].against = Here(p).files]
            /\ approved' = IF passes /\ sound THEN approved \cup {work[At(p)]} ELSE approved
  BY DEF Guard
<1> DEFINE passes == run[p].initial \/ Guardrail(cand, prod)
<1>2. run[p].pc = "guard" /\ UNCHANGED <<main, head, tree, work, trained, served, reselected>>
  BY DEF Guard, Repository
<1>3. passes \in BOOLEAN /\ Here(p).files \in Files /\ "test" \in StepNames
  BY HereIs DEF StepNames, TreeType, RunType, Guardrail
<1> HIDE DEF passes
<1>4. /\ Runs' /\ OtherTools(p) /\ FoundStays(p)
      /\ run'[p].pc = "test" /\ run'[p].passed = passes /\ run'[p].against = tree[At(p)].files
  <2>1. run' = [run EXCEPT ![p].pc = "test", ![p].passed = passes, ![p].against = Here(p).files]
    BY <1>1, Zenon DEF passes
  <2> QED
    BY <1>3, <2>1, ZenonT(60) DEF IInv, Typed, Here, Runs, RunType, OtherTools, FoundStays
<1>5. /\ approved \subseteq approved' /\ approved' \subseteq Files
      /\ passes /\ (run[p].initial => tree[At(p)].manifest.artifacts = NoFiles) => work[At(p)] \in approved'
  BY <1>1, HereIs DEF passes, IInv, Typed
<1>6. Local(p)
  BY <1>2, <1>4, <1>5 DEF Local, OtherTrees, OtherWork
<1>7. p = "job" => Compared'
  BY <1>2, <1>4, Places DEF IInv, Compared
<1>8. OneShell /\ Sound => Honest(tree'[At(p)].manifest, Checked') /\ UnderWay(p)'
  <2> SUFFICES ASSUME OneShell, Sound PROVE Honest(tree'[At(p)].manifest, Checked') /\ UnderWay(p)'
    OBVIOUS
  <2>1. Honest(tree'[At(p)].manifest, Checked')
    BY <1>2, <1>5, HereIs, MoreApproved DEF Sound, Checked
  <2>2. UnderWay(p) /\ passes => work[At(p)] \in approved'
    BY <1>2, <1>5 DEF Sound, UnderWay
  <2>3. UnderWay(p)'
    BY <1>2, <1>4, <2>2 DEF UnderWay, FoundStays, Sound
  <2> QED
    BY <2>1, <2>3
<1>9. run'[p].sel # {}
  BY <1>2, <1>4 DEF IInv, Typed, FoundStays
<1> QED
  BY <1>2, <1>4, <1>5, <1>6, <1>7, <1>8, <1>9, HereIs, ToolStepKeeps DEF IInv, Typed, Trees

LEMMA TestKeeps == ASSUME IInv, NEW p \in Tool, Test(p) PROVE IInv'
<1>1. PICK score \in Score, t \in Threshold :
        run' = [run EXCEPT ![p].pc = "install",
                           ![p].ev = {[thr |-> t, f1 |-> score, of |-> work[At(p)]]},
                           ![p].left = IF run[p].passed THEN File ELSE {}]
  BY DEF Test
<1>2. run[p].pc = "test" /\ UNCHANGED <<main, head, tree, work, trained, served, approved, reselected>>
  BY DEF Test, Repository, Ghosts
<1> DEFINE found == {[thr |-> t, f1 |-> score, of |-> work[At(p)]]}
           left == IF run[p].passed THEN File ELSE {}
<1>3. /\ found \in SUBSET Evaluation /\ left \in SUBSET File /\ "install" \in StepNames
      /\ \A e \in found : e.of = work[At(p)] /\ \A d \in found : d = e
  BY HereIs DEF Evaluation, StepNames
<1> HIDE DEF found, left
<1>4. /\ Runs' /\ OtherTools(p) /\ GuardStays(p)
      /\ run'[p].pc = "install" /\ run'[p].ev = found /\ run'[p].sel = run[p].sel
  <2>1. run' = [run EXCEPT ![p].pc = "install", ![p].ev = found, ![p].left = left]
    BY <1>1, Zenon DEF found, left
  <2> QED
    BY <1>3, <2>1, ZenonT(60) DEF IInv, Typed, Runs, RunType, OtherTools, GuardStays
<1>5. Local(p)
  BY <1>2, <1>4 DEF Local, OtherTrees, OtherWork
<1>6. p = "job" => Compared'
  BY <1>2, <1>4 DEF IInv, Compared, GuardStays
<1>7. OneShell /\ Sound => Honest(tree'[At(p)].manifest, Checked') /\ UnderWay(p)'
  <2>1. tree' = tree /\ Checked' = Checked /\ approved' = approved
    BY <1>2 DEF Checked
  <2>2. Sound => \A s \in run'[p].sel : s.files = work[At(p)] /\ (run'[p].passed => s.files \in approved)
    BY <1>2, <1>4 DEF Sound, UnderWay, GuardStays
  <2>3. Sound => UnderWay(p)'
    BY <1>3, <1>4, <2>1, <2>2 DEF UnderWay
  <2> QED
    BY <2>1, <2>3, HereIs DEF Sound
<1>8. run'[p].passed \/ run'[p].pc = "guard" => run'[p].sel # {}
  BY <1>4 DEF IInv, Typed, GuardStays
<1> QED
  BY <1>2, <1>4, <1>5, <1>6, <1>7, <1>8, HereIs, ToolStepKeeps DEF IInv, Typed, Trees

LEMMA InstallKeeps == ASSUME IInv, NEW p \in Tool, Install(p) PROVE IInv'
<1>1. PICK f \in run[p].left :
        /\ tree' = [tree EXCEPT ![At(p)].files[f] = work[At(p)][f]]
        /\ run' = [run EXCEPT ![p].left = @ \ {f}]
  BY DEF Install
<1>2. run[p].pc = "install" /\ UNCHANGED <<main, head, work, trained, served, approved, reselected>>
  BY DEF Install, Repository, Ghosts
<1>3. f \in File /\ run[p].left \ {f} \in SUBSET File /\ work[At(p)][f] \in 0..MaxModel + 1
  BY HereIs DEF RunType, Files
<1>4. Runs' /\ OtherTools(p) /\ run'[p].pc = "install" /\ GuardStays(p) /\ FoundStays(p)
  <2>1. run' = [run EXCEPT ![p].left = run[p].left \ {f}]
    BY <1>1, Zenon
  <2> QED
    BY <1>2, <1>3, <2>1, OnlyLeft, Zenon DEF IInv, Typed
<1>5. Trees' /\ OtherTrees(At(p)) /\ tree'[At(p)].manifest = tree[At(p)].manifest /\ tree'[At(p)].base = tree[At(p)].base
  BY <1>1, <1>3, HereIs, FileOfTree, Zenon DEF IInv, Typed
<1>6. Local(p)
  BY <1>2, <1>4, <1>5 DEF Local, OtherWork
<1>7. p = "job" => Compared'
  BY <1>2, <1>4, <1>5, Places DEF IInv, Compared, GuardStays
<1>8. OneShell /\ Sound => Honest(tree'[At(p)].manifest, Checked') /\ UnderWay(p)'
  <2>1. Checked' = Checked /\ approved' = approved
    BY <1>2 DEF Checked
  <2>2. Sound => UnderWay(p)'
    BY <1>2, <1>4, <2>1 DEF Sound, UnderWay, GuardStays, FoundStays
  <2> QED
    BY <1>5, <2>1, <2>2, HereIs DEF Sound
<1>9. run'[p].passed \/ run'[p].pc = "guard" => run'[p].sel # {}
  BY <1>4 DEF IInv, Typed, GuardStays, FoundStays
<1> QED
  BY <1>2, <1>4, <1>5, <1>6, <1>7, <1>8, <1>9, HereIs, ToolStepKeeps DEF IInv, Typed

\* A tool ends: its record is Idle, and what the clone holds of a candidate is a candidate or none.
LEMMA EndsIs ==
    ASSUME IInv, NEW p \in Tool, Ends(p)
    PROVE  /\ Runs' /\ OtherTools(p) /\ run'[p] = Idle
           /\ work' \in [Place -> Files] /\ OtherWork(At(p))
           /\ UnderWay(p)' /\ (p = "job" => Compared')
<1>1. run' = [run EXCEPT ![p] = Idle] /\ (work' = work \/ work' = [work EXCEPT ![At(p)] = NoFiles])
  BY DEF Ends
<1>2. Runs' /\ OtherTools(p) /\ run'[p] = Idle
  BY <1>1, IdleIs, NewRun, Zenon DEF IInv, Typed
<1>3. work' \in [Place -> Files] /\ OtherWork(At(p))
  BY <1>1, HereIs, EmptyIs DEF IInv, Typed, OtherWork
<1>4. UnderWay(p)'
  BY <1>2, IdleIs DEF UnderWay
<1>5. p = "job" => Compared'
  BY <1>2, IdleIs DEF Compared
<1> QED
  BY <1>2, <1>3, <1>4, <1>5

LEMMA EndsHereKeeps ==
    ASSUME IInv, NEW p \in Tool, EndsHere(p),
           UNCHANGED <<main, head, trained, served, approved, reselected>>
    PROVE  IInv'
<1>1. /\ Runs' /\ OtherTools(p) /\ run'[p] = Idle
      /\ work' \in [Place -> Files] /\ OtherWork(At(p)) /\ UnderWay(p)' /\ (p = "job" => Compared')
  BY EndsIs DEF EndsHere
<1>2. /\ Trees' /\ OtherTrees(At(p)) /\ tree'[At(p)].base <= head
      /\ OneShell /\ Sound => Honest(tree'[At(p)].manifest, Checked')
  <2>1. CASE p = "job"
    <3>1. /\ Clone(Empty, 0) \in TreeType /\ Clone(Empty, 0).base = 0
          /\ Clone(Empty, 0).manifest = NoManifest
      BY EmptyIs DEF Clone, TreeType, Content
    <3>2. tree' = [tree EXCEPT !["job"] = Clone(Empty, 0)] /\ At(p) = "job"
      BY <2>1, Places DEF EndsHere
    <3>3. Trees' /\ OtherTrees(At(p)) /\ tree'[At(p)] = Clone(Empty, 0)
      BY <3>1, <3>2, HereIs, NewTree DEF IInv, Typed
    <3> QED
      BY <3>1, <3>3, EmptyIs, ConstantsAssumption DEF IInv, Typed
  <2>2. CASE p # "job"
    <3>1. tree' = tree /\ Checked' = Checked
      BY <2>2 DEF EndsHere, Checked
    <3> QED
      BY <3>1, HereIs DEF IInv, Typed, Trees, OtherTrees, Sound
  <2> QED
    BY <2>1, <2>2
<1>3. Local(p)
  BY <1>1, <1>2 DEF Local
<1> QED
  BY <1>1, <1>2, <1>3, IdleIs, ToolStepKeeps DEF IInv, Typed

\* The same for a tool that has written the manifest.
LEMMA EndsWritten ==
    ASSUME IInv, NEW p \in Tool, Ends(p), Trees', OtherTrees(At(p)), tree'[At(p)].base = tree[At(p)].base,
           UNCHANGED <<main, head, trained, served, approved, reselected>>,
           OneShell /\ Sound => Honest(tree'[At(p)].manifest, Checked)
    PROVE  IInv'
<1>1. Local(p) /\ Checked' = Checked
  BY EndsIs DEF Local, Checked
<1>2. IInv => Runs' /\ run'[p] = Idle /\ work' \in [Place -> Files] /\ UnderWay(p)' /\ (p = "job" => Compared')
  BY EndsIs
<1> QED
  BY <1>1, <1>2, IdleIs, HereIs, ToolStepKeeps DEF IInv, Typed

LEMMA RecordKeeps == ASSUME IInv, NEW p \in Tool, Record(p) PROVE IInv'
<1>1. run[p].pc = "install" /\ UNCHANGED <<main, head, trained, served, approved, reselected>>
  BY DEF Record, Repository, Ghosts
<1>2. CASE ~run[p].passed
  BY <1>1, <1>2, EndsHereKeeps DEF Record
<1>3. CASE run[p].passed
  <2> DEFINE written == [readable |-> TRUE, artifacts |-> Here(p).files,
                         thr |-> (CHOOSE s \in run[p].sel : TRUE).thr, sel |-> run[p].sel, ev |-> run[p].ev]
  <2>1. written \in ManifestType
    <3>1. run[p].sel # {} /\ run[p].sel \subseteq Selection
      BY <1>3, HereIs DEF IInv, Typed, RunType
    <3>2. (CHOOSE s \in run[p].sel : TRUE) \in Selection
      BY <3>1
    <3>3. (CHOOSE s \in run[p].sel : TRUE).thr \in Threshold
      BY <3>2 DEF Selection
    <3> QED
      BY <3>3, HereIs DEF ManifestType, RunType, TreeType
  <2>2. written.sel = run[p].sel /\ written.ev = run[p].ev
    OBVIOUS
  <2>3. tree' = [tree EXCEPT ![At(p)].manifest = written]
    BY <1>3 DEF Record
  <2> HIDE DEF written
  <2>4. /\ Trees' /\ OtherTrees(At(p)) /\ tree'[At(p)].files = tree[At(p)].files
        /\ tree'[At(p)].base = tree[At(p)].base /\ tree'[At(p)].manifest = written
    BY <2>1, <2>3, HereIs, ManifestOfTree, Zenon DEF IInv, Typed
  <2>5. Sound => Honest(written, Checked)
    BY <1>1, <1>3, <2>2 DEF Sound, UnderWay, Honest, Checked
  <2>6. CASE p = "job"
    <3>1. run' = [run EXCEPT ![p].pc = "gate"] /\ work' = work /\ "gate" \in StepNames
      BY <1>3, <2>6 DEF Record, Goes, StepNames
    <3>2. Runs' /\ OtherTools(p) /\ run'[p].pc = "gate" /\ GuardStays(p) /\ FoundStays(p)
      BY <3>1, OnlyPc, Zenon DEF IInv, Typed
    <3>3. Local(p) /\ Checked' = Checked
      BY <1>1, <2>4, <3>1, <3>2 DEF Local, OtherWork, Checked
    <3>4. Compared'
      BY <1>1, <2>4, <2>6, <3>2, Places DEF IInv, Compared, GuardStays
    <3>5. UnderWay(p)'
      BY <3>2 DEF UnderWay
    <3>6. run'[p].passed /\ run'[p].sel # {}
      BY <1>3, <3>2 DEF IInv, Typed, GuardStays, FoundStays
    <3> QED
      BY <1>1, <2>4, <2>5, <2>6, <3>1, <3>2, <3>3, <3>4, <3>5, <3>6, HereIs, ToolStepKeeps DEF IInv, Typed
  <2>7. CASE p # "job"
    <3>1. Ends(p)
      BY <1>3, <2>7 DEF Record
    <3> QED
      BY <1>1, <2>4, <2>5, <3>1, EndsWritten
  <2> QED
    BY <2>6, <2>7
<1> QED
  BY <1>2, <1>3

LEMMA StartEvaluatingKeeps == ASSUME IInv, NEW p \in Tool, StartEvaluating(p) PROVE IInv'
<1>1. /\ p \in Shell /\ run[p].pc = "idle"
      /\ run' = [run EXCEPT ![p].pc = "evaluate", ![p].thr = ThresholdOf(Here(p).manifest)]
      /\ UNCHANGED <<main, head, tree, work, trained, served, approved, reselected>>
  BY DEF StartEvaluating, Repository, Ghosts
<1>2. ThresholdOf(Here(p).manifest) \in Threshold /\ "evaluate" \in StepNames
  BY HereIs, ConstantsAssumption DEF ThresholdOf, TreeType, ManifestType, StepNames
<1>3. Runs' /\ OtherTools(p) /\ run'[p].pc = "evaluate" /\ GuardStays(p) /\ FoundStays(p)
  BY <1>1, <1>2, PcThr, Zenon DEF IInv, Typed
<1>4. Local(p) /\ Checked' = Checked
  BY <1>1, <1>3 DEF Local, OtherTrees, OtherWork, Checked
<1>5. UnderWay(p)' /\ p # "job" /\ (run'[p].passed => run'[p].sel # {})
  BY <1>1, <1>3, HereIs DEF UnderWay, IInv, Typed, GuardStays, FoundStays
<1> QED
  BY <1>1, <1>3, <1>4, <1>5, HereIs, ToolStepKeeps DEF IInv, Typed, Trees, Sound

LEMMA EvaluateProductionKeeps == ASSUME IInv, NEW p \in Tool, EvaluateProduction(p) PROVE IInv'
<1>1. PICK score \in Score :
        run' = [run EXCEPT ![p].pc = "update", ![p].ev = {[thr |-> run[p].thr, f1 |-> score, of |-> Here(p).files]}]
  BY DEF EvaluateProduction
<1>2. run[p].pc = "evaluate" /\ UNCHANGED <<main, head, tree, work, trained, served, approved, reselected>>
  BY DEF EvaluateProduction, Repository, Ghosts
<1> DEFINE found == {[thr |-> run[p].thr, f1 |-> score, of |-> Here(p).files]}
<1>3. /\ found \in SUBSET Evaluation /\ "update" \in StepNames
      /\ \A e \in found : e.of = tree[At(p)].files /\ \A d \in found : d = e
  BY HereIs DEF Evaluation, StepNames, RunType, TreeType
<1> HIDE DEF found
<1>4. Runs' /\ OtherTools(p) /\ run'[p].pc = "update" /\ run'[p].ev = found /\ run'[p].sel = run[p].sel /\ GuardStays(p)
  <2>1. run' = [run EXCEPT ![p].pc = "update", ![p].ev = found]
    BY <1>1, Zenon DEF found
  <2> QED
    BY <1>3, <2>1, PcEv, Zenon DEF IInv, Typed
<1>5. Local(p) /\ Checked' = Checked
  BY <1>2, <1>4 DEF Local, OtherTrees, OtherWork, Checked
<1>6. UnderWay(p)' /\ (run'[p].passed => run'[p].sel # {})
  BY <1>2, <1>3, <1>4, HereIs DEF UnderWay, IInv, Typed, GuardStays
<1>7. p # "job"
  BY <1>2 DEF IInv, Compared
<1> QED
  BY <1>2, <1>4, <1>5, <1>6, <1>7, HereIs, ToolStepKeeps DEF IInv, Typed, Trees, Sound

LEMMA UpdateEvaluationKeeps == ASSUME IInv, NEW p \in Tool, UpdateEvaluation(p) PROVE IInv'
<1>1. /\ run[p].pc = "update" /\ Ends(p) /\ UNCHANGED <<main, head, trained, served, approved, reselected>>
      /\ tree' = [tree EXCEPT ![At(p)].manifest = [@ EXCEPT !.ev = run[p].ev, !.artifacts = Here(p).files]]
  BY DEF UpdateEvaluation, Repository, Ghosts
<1> DEFINE written == [tree[At(p)].manifest EXCEPT !.ev = run[p].ev, !.artifacts = Here(p).files]
<1>2. /\ written \in ManifestType /\ written.ev = run[p].ev /\ written.artifacts = tree[At(p)].files
      /\ written.sel = tree[At(p)].manifest.sel
  <2>1. tree[At(p)].manifest \in ManifestType /\ run[p].ev \in SUBSET Evaluation /\ Here(p).files \in Files
    BY HereIs DEF TreeType, RunType
  <2> QED
    BY <2>1, ZenonT(60) DEF Here, ManifestType
<1>3. tree' = [tree EXCEPT ![At(p)].manifest = written]
  BY <1>1, Zenon
<1> HIDE DEF written
<1>4. /\ Trees' /\ OtherTrees(At(p)) /\ tree'[At(p)].base = tree[At(p)].base /\ tree'[At(p)].manifest = written
  BY <1>2, <1>3, HereIs, ManifestOfTree, Zenon DEF IInv, Typed
<1>5. Sound => Honest(written, Checked)
  <2> SUFFICES ASSUME Sound PROVE Honest(written, Checked)
    OBVIOUS
  <2>1. (\A e \in written.ev : e.of = written.artifacts) /\ (\A d, e \in written.ev : d = e)
    BY <1>1, <1>2 DEF Sound, UnderWay
  <2>2. \A s \in written.sel : s.files \in Checked
    BY <1>2, HereIs DEF Sound, Honest
  <2> QED
    BY <2>1, <2>2 DEF Honest
<1> QED
  BY <1>1, <1>4, <1>5, EndsWritten

LEMMA SelectKeeps == ASSUME IInv, NEW p \in Tool, Select(p) PROVE IInv'
<1>1. PICK t \in Threshold :
        run' = [run EXCEPT ![p].pc = "record", ![p].sel = {[thr |-> t, files |-> Here(p).files]}]
  BY DEF Select
<1>2. /\ p \in Shell /\ reselected' = reselected \cup {Here(p).files}
      /\ UNCHANGED <<main, head, tree, work, trained, served, approved>>
  BY DEF Select, Repository
<1> DEFINE chosen == {[thr |-> t, files |-> Here(p).files]}
<1>3. /\ chosen \in SUBSET Selection /\ chosen # {} /\ "record" \in StepNames /\ Here(p).files \in Files
      /\ \A s \in chosen : s.files = Here(p).files
  BY HereIs DEF Selection, StepNames, TreeType
<1> HIDE DEF chosen
<1>4. Runs' /\ OtherTools(p) /\ run'[p].pc = "record" /\ run'[p].sel = chosen
  <2>1. run' = [run EXCEPT ![p].pc = "record", ![p].sel = chosen]
    BY <1>1, Zenon DEF chosen
  <2> QED
    BY <1>3, <2>1, PcSel, Zenon DEF IInv, Typed
<1>5. Local(p) /\ Checked \subseteq Checked'
  BY <1>2, <1>4 DEF Local, OtherTrees, OtherWork, Checked
<1>6. UnderWay(p)' /\ p # "job"
  BY <1>2, <1>3, <1>4, HereIs DEF UnderWay
<1>7. Sound => Honest(tree'[At(p)].manifest, Checked')
  BY <1>2, <1>5, HereIs, MoreApproved DEF Sound
<1> QED
  BY <1>2, <1>3, <1>4, <1>5, <1>6, <1>7, HereIs, ToolStepKeeps DEF IInv, Typed, Trees

LEMMA RecordSelectionKeeps == ASSUME IInv, NEW p \in Tool, RecordSelection(p) PROVE IInv'
<1>1. /\ run[p].pc = "record" /\ Ends(p) /\ UNCHANGED <<main, head, trained, served, approved, reselected>>
  BY DEF RecordSelection, Repository, Ghosts
<1>2. PICK s \in run[p].sel :
        tree' = [tree EXCEPT ![At(p)].manifest = [@ EXCEPT !.thr = s.thr, !.sel = {s}, !.ev = {}]]
  BY DEF RecordSelection
<1> DEFINE written == [tree[At(p)].manifest EXCEPT !.thr = s.thr, !.sel = {s}, !.ev = {}]
<1>3. written \in ManifestType /\ written.sel = {s} /\ written.ev = {}
  <2>1. tree[At(p)].manifest \in ManifestType /\ s.thr \in Threshold \cup {0} /\ {s} \in SUBSET Selection
        /\ {} \in SUBSET Evaluation
    BY HereIs DEF TreeType, RunType, Selection
  <2> QED
    BY <2>1, ZenonT(60) DEF ManifestType
<1>4. tree' = [tree EXCEPT ![At(p)].manifest = written]
  BY <1>2, Zenon
<1> HIDE DEF written
<1>5. /\ Trees' /\ OtherTrees(At(p)) /\ tree'[At(p)].base = tree[At(p)].base /\ tree'[At(p)].manifest = written
  BY <1>3, <1>4, HereIs, ManifestOfTree, Zenon DEF IInv, Typed
<1>6. Sound => Honest(written, Checked)
  BY <1>1, <1>3 DEF Sound, UnderWay, Honest, Checked
<1> QED
  BY <1>1, <1>5, <1>6, EndsWritten

LEMMA DiesWritingKeeps == ASSUME IInv, NEW p \in Tool, DiesWriting(p) PROVE IInv'
<1>1. /\ Ends(p) /\ UNCHANGED <<main, head, trained, served, approved, reselected>>
  BY DEF DiesWriting, Repository, Ghosts
<1>2. CASE \E f \in run[p].left : tree' = [tree EXCEPT ![At(p)].files[f] = Torn]
  <2>1. PICK f \in run[p].left : tree' = [tree EXCEPT ![At(p)].files[f] = Torn]
    BY <1>2
  <2>2. f \in File /\ Torn \in 0..MaxModel + 1
    BY HereIs, ConstantsAssumption DEF RunType, Torn
  <2>3. /\ Trees' /\ OtherTrees(At(p)) /\ tree'[At(p)].base = tree[At(p)].base
        /\ tree'[At(p)].manifest = tree[At(p)].manifest
    BY <2>1, <2>2, HereIs, FileOfTree, Zenon DEF IInv, Typed
  <2> QED
    BY <1>1, <2>3, HereIs, EndsWritten DEF Sound
<1>3. CASE tree' = [tree EXCEPT ![At(p)].manifest.readable = FALSE]
  <2>1. /\ Trees' /\ OtherTrees(At(p)) /\ tree'[At(p)].base = tree[At(p)].base
        /\ tree'[At(p)].manifest.artifacts = tree[At(p)].manifest.artifacts
        /\ tree'[At(p)].manifest.sel = tree[At(p)].manifest.sel /\ tree'[At(p)].manifest.ev = tree[At(p)].manifest.ev
    BY <1>3, HereIs, ReadableOfTree, Zenon DEF IInv, Typed
  <2>2. Sound => Honest(tree'[At(p)].manifest, Checked)
    BY <2>1, HereIs DEF Sound, Honest
  <2> QED
    BY <1>1, <2>1, <2>2, EndsWritten
<1> QED
  BY <1>2, <1>3 DEF DiesWriting

(***************************************************************************)
(* What people, git and the job do.                                        *)
(***************************************************************************)

\* People work in the VM's clone between two tools: the job and what it found stay, and no
\* tool there relies on anything.
LEMMA AtHandKeeps ==
    ASSUME IInv, Unattended, Trees', OtherTrees("vm"), tree'["vm"].base <= head', head' \in 0..MaxCommit,
           main' \in Content, UNCHANGED <<work, run, trained, served, approved, reselected>>,
           (head' = head /\ main' = main) \/ head' = head + 1,
           OneShell /\ Sound => Honest(tree'["vm"].manifest, Checked) /\ Honest(main'.manifest, Checked)
    PROVE  IInv'
<1>1. tree'["job"] = tree["job"] /\ tree["job"].base \in Nat /\ tree["job"].base <= head /\ head \in Nat
  BY ConstantsAssumption DEF OtherTrees, Place, IInv, Typed, Trees, TreeType
<1>2. Typed'
  <2>1. \A c \in Place : tree'[c].base <= head'
    <3>1. tree'["job"].base <= head'
      BY <1>1
    <3> QED
      BY <3>1 DEF Place
  <2> QED
    BY <2>1 DEF IInv, Typed, Runs
<1>3. Compared'
  BY <1>1 DEF IInv, Compared
<1>4. ASSUME OneShell PROVE Sound'
  <2>1. Sound /\ Checked' = Checked
    BY <1>4 DEF IInv, Checked
  <2>2. \A c \in Place : Honest(tree'[c].manifest, Checked)
    BY <1>1, <1>4, <2>1 DEF Sound, Place
  <2>3. ASSUME NEW p \in Tool PROVE UnderWay(p)'
    <3>1. CASE p = "job"
      BY <1>1, <2>1, <3>1, Places DEF Sound, UnderWay
    <3>2. CASE p # "job"
      BY <3>2 DEF Unattended, Tool, UnderWay
    <3> QED
      BY <3>1, <3>2
  <2> QED
    BY <1>4, <2>1, <2>2, <2>3 DEF Sound
<1> QED
  BY <1>2, <1>3, <1>4 DEF IInv

LEMMA LoseFileKeeps == ASSUME IInv, LoseFile PROVE IInv'
<1>1. PICK f \in File : tree' = [tree EXCEPT !["vm"].files[f] = Missing]
  BY DEF LoseFile
<1>2. Missing \in 0..MaxModel + 1 /\ "vm" \in Place
  BY ConstantsAssumption DEF Missing, Place
<1>3. /\ Trees' /\ OtherTrees("vm") /\ tree'["vm"].manifest = tree["vm"].manifest
      /\ tree'["vm"].base = tree["vm"].base
  BY <1>1, <1>2, FileOfTree, Zenon DEF IInv, Typed
<1> QED
  BY <1>2, <1>3, AtHandKeeps DEF LoseFile, Repository, Ghosts, IInv, Typed, Sound

LEMMA CommitKeeps == ASSUME IInv, Commit PROVE IInv'
<1>1. /\ head' = head + 1 /\ head' \in 0..MaxCommit /\ tree' = [tree EXCEPT !["vm"].base = head']
      /\ "vm" \in Place /\ head' \in Nat
  BY ConstantsAssumption DEF Commit, CanCommit, Place, IInv, Typed
<1>2. /\ Trees' /\ OtherTrees("vm") /\ tree'["vm"].base = head'
      /\ tree'["vm"].manifest = tree["vm"].manifest
  BY <1>1, BaseOfTree, Zenon DEF IInv, Typed
<1>3. main' \in Content /\ main'.manifest = tree["vm"].manifest
  BY <1>1 DEF Commit, Content, IInv, Typed, Trees, TreeType
<1>4. tree'["vm"].base <= head'
  BY <1>1, <1>2
<1> QED
  BY <1>1, <1>2, <1>3, <1>4, AtHandKeeps DEF Commit, Ghosts, Sound

LEMMA PullKeeps == ASSUME IInv, Pull PROVE IInv'
<1>1. /\ tree' = [tree EXCEPT !["vm"] = Clone(main, head)] /\ main' = main /\ head' = head /\ "vm" \in Place
  BY DEF Pull, Repository, Place
<1>2. Clone(main, head) \in TreeType /\ Clone(main, head).base = head /\ Clone(main, head).manifest = main.manifest
  BY ConstantsAssumption DEF IInv, Typed, Content, Clone, TreeType
<1>3. Trees' /\ OtherTrees("vm") /\ tree'["vm"] = Clone(main, head)
  BY <1>1, <1>2, NewTree, Zenon DEF IInv, Typed
<1> QED
  BY <1>1, <1>2, <1>3, AtHandKeeps, ConstantsAssumption DEF Pull, Ghosts, IInv, Typed, Sound

LEMMA JobStartsKeeps == ASSUME IInv, JobStarts PROVE IInv'
<1>1. /\ run["job"].pc = "idle" /\ MayBegin(main) /\ tree' = [tree EXCEPT !["job"] = Clone(main, head)]
      /\ run' = [run EXCEPT !["job"] = Begun(main, TRUE)]
      /\ UNCHANGED <<main, head, work, trained, served, approved, reselected>>
  BY DEF JobStarts, Repository, Ghosts
<1>2. /\ Clone(main, head) \in TreeType /\ Clone(main, head).base = head
      /\ Clone(main, head).manifest = main.manifest /\ Clone(main, head).files = main.files
  BY ConstantsAssumption DEF IInv, Typed, Content, Clone, TreeType
<1>3. Trees' /\ OtherTrees("job") /\ tree'["job"] = Clone(main, head)
  BY <1>1, <1>2, Places, NewTree, Zenon DEF IInv, Typed
<1>4. /\ Runs' /\ OtherTools("job") /\ run'["job"].pc = "train" /\ run'["job"].promote
      /\ ~run'["job"].passed /\ run'["job"].sel = {} /\ run'["job"].initial = ~HasProduction(main.files)
  <2> DEFINE r == Begun(main, TRUE)
  <2>1. main \in [files : Files, manifest : ManifestType, base : Nat] \cup Content /\ TRUE \in BOOLEAN
    BY DEF IInv, Typed
  <2>2. /\ r \in RunType /\ r.pc = "train" /\ r.promote = TRUE /\ ~r.passed /\ r.sel = {}
        /\ r.initial = ~HasProduction(main.files)
    BY <2>1, BegunIs, Zenon
  <2> HIDE DEF r
  <2>3. Runs' /\ OtherTools("job") /\ run'["job"] = r
    BY <1>1, <2>2, Places, NewRun, Zenon DEF r, IInv, Typed
  <2> QED
    BY <2>2, <2>3
<1>5. Local("job") /\ Checked' = Checked
  BY <1>1, <1>3, <1>4, Places DEF Local, OtherWork, Checked
<1>6. Compared'
  BY <1>1, <1>2, <1>3, <1>4 DEF Compared
<1>7. UnderWay("job")'
  <2>1. run'["job"].initial => main.manifest.artifacts = NoFiles
    BY <1>1, <1>4 DEF MayBegin, ProductionFilesMissing
  <2>2. tree'[At("job")].manifest = main.manifest
    BY <1>2, <1>3, Places
  <2> QED
    BY <1>4, <2>1, <2>2 DEF UnderWay
<1>8. /\ work' \in [Place -> Files] /\ trained' \in 0..MaxModel /\ approved' \subseteq Files
      /\ reselected' \subseteq Files /\ tree'["job"].base <= head
  BY <1>1, <1>2, <1>3, ConstantsAssumption DEF IInv, Typed
<1>9. Sound => Honest(tree'["job"].manifest, Checked')
  BY <1>2, <1>3, <1>5 DEF Sound
<1> QED
  BY <1>3, <1>4, <1>5, <1>6, <1>7, <1>8, <1>9, Places, ToolStepKeeps

LEMMA JobCommitsKeeps == ASSUME IInv, JobCommits PROVE IInv'
<1>1. run["job"].pc = "gate" /\ UNCHANGED <<main, head, trained, served, approved, reselected>>
  BY DEF JobCommits, Repository, Ghosts
<1>2. CASE EndsHere("job")
  BY <1>1, <1>2, Places, EndsHereKeeps
<1>3. CASE Goes("job", "push") /\ UNCHANGED <<tree, work>>
  <2>1. /\ Runs' /\ OtherTools("job") /\ run'["job"].pc = "push"
        /\ AskedStays("job") /\ GuardStays("job") /\ FoundStays("job")
    <3>1. run' = [run EXCEPT !["job"].pc = "push"] /\ "push" \in StepNames
      BY <1>3 DEF Goes, StepNames
    <3> QED
      BY <3>1, OnlyPc, Places, Zenon DEF IInv, Typed
  <2>2. Local("job") /\ Checked' = Checked
    BY <1>1, <1>3, <2>1 DEF Local, OtherTrees, OtherWork, Checked
  <2>3. Compared' /\ UnderWay("job")'
    BY <1>1, <1>3, <2>1 DEF IInv, Compared, UnderWay, GuardStays
  <2>4. run'["job"].passed /\ run'["job"].sel # {}
    BY <1>1, <2>1, Places DEF IInv, Typed, GuardStays, FoundStays
  <2> QED
    BY <1>1, <1>3, <2>1, <2>2, <2>3, <2>4, Places, HereIs, ToolStepKeeps DEF IInv, Typed, Trees, Sound
<1> QED
  BY <1>2, <1>3 DEF JobCommits

LEMMA DeployKeeps == ASSUME IInv, Deploy PROVE IInv'
<1>1. Gate(main) /\ served' = {main} /\ UNCHANGED <<main, head, tree, work, run, trained, approved, reselected>>
  BY DEF Deploy, Repository, Ghosts
<1>2. Typed' /\ Compared'
  BY <1>1 DEF IInv, Typed, Compared, Runs, Trees
<1>3. Sound => Sound'
  BY <1>1 DEF Sound, Checked, UnderWay
<1> QED
  BY <1>2, <1>3 DEF IInv

LEMMA JobPushesKeeps == ASSUME IInv, JobPushes PROVE IInv'
<1>1. run["job"].pc = "push" /\ EndsHere("job") /\ UNCHANGED <<trained, served, approved, reselected>>
  BY DEF JobPushes, Ghosts
<1>2. CASE tree["job"].base # head
  <2>1. UNCHANGED <<main, head>>
    BY <1>2 DEF JobPushes, Repository
  <2> QED
    BY <1>1, <2>1, Places, EndsHereKeeps
<1>3. CASE tree["job"].base = head
  <2>1. /\ main' = [files |-> tree["job"].files, manifest |-> tree["job"].manifest]
        /\ head' = head + 1 /\ head' \in 0..MaxCommit /\ head \in Nat
    BY <1>3, ConstantsAssumption DEF JobPushes, CanCommit, IInv, Typed
  <2>2. /\ Runs' /\ OtherTools("job") /\ run'["job"] = Idle
        /\ work' \in [Place -> Files] /\ OtherWork("job") /\ UnderWay("job")' /\ Compared'
    BY <1>1, Places, EndsIs DEF EndsHere
  <2>3. Trees' /\ OtherTrees("job") /\ tree'["job"] = Clone(Empty, 0)
    <3>1. Clone(Empty, 0) \in TreeType /\ tree' = [tree EXCEPT !["job"] = Clone(Empty, 0)] /\ "job" \in Place
      BY <1>1, EmptyIs DEF Clone, TreeType, Content, EndsHere, Place
    <3> QED
      BY <3>1, NewTree, Zenon DEF IInv, Typed
  <2>4. Clone(Empty, 0).base = 0 /\ Clone(Empty, 0).manifest = NoManifest
    BY EmptyIs DEF Clone
  <2>5. Typed'
    <3>1. \A c \in Place : tree'[c].base <= head'
      BY <2>1, <2>3, <2>4 DEF IInv, Typed, Trees, TreeType, OtherTrees
    <3>2. main' \in Content
      BY <2>1 DEF IInv, Typed, Trees, TreeType, Content, Place
    <3>3. \A q \in Tool :
            /\ run'[q].pc \in {"gate", "push"} => q = "job" /\ run'[q].passed
            /\ run'[q].passed \/ run'[q].pc = "guard" => run'[q].sel # {}
      BY <2>2, IdleIs DEF IInv, Typed, OtherTools
    <3> QED
      BY <1>1, <2>1, <2>2, <2>3, <3>1, <3>2, <3>3 DEF IInv, Typed
  <2>6. ASSUME OneShell PROVE Sound'
    <3>1. Sound /\ Checked' = Checked
      BY <1>1, <2>6 DEF IInv, Checked
    <3>2. Honest(main'.manifest, Checked)
      BY <2>1, <3>1 DEF Sound, Place
    <3>3. \A c \in Place : Honest(tree'[c].manifest, Checked)
      BY <2>3, <2>4, <3>1, EmptyIs DEF Sound, OtherTrees
    <3>4. ASSUME NEW q \in Tool \ {"job"} PROVE UnderWay(q)'
      <4>1. /\ run'[q] = run[q] /\ tree'[At(q)] = tree[At(q)] /\ work'[At(q)] = work[At(q)]
        BY <2>2, <2>3, Places DEF OtherTools, OtherTrees, OtherWork, Place
      <4> QED
        BY <1>1, <3>1, <4>1 DEF Sound, UnderWay
    <3> QED
      BY <1>1, <2>2, <3>1, <3>2, <3>3, <3>4 DEF Sound
  <2> QED
    BY <2>2, <2>5, <2>6 DEF IInv
<1> QED
  BY <1>2, <1>3

LEMMA NextIInv == IInv /\ [Next]_vars => IInv'
<1> SUFFICES ASSUME IInv, [Next]_vars PROVE IInv'
  OBVIOUS
<1>1. ASSUME NEW p \in Tool, ToolStep(p) PROVE IInv'
  <2>1. CASE StartTraining(p) \/ Train(p) \/ ChooseThreshold(p) \/ Guard(p) \/ Test(p) \/ Install(p) \/ Record(p)
    BY <2>1, StartTrainingKeeps, TrainKeeps, ChooseThresholdKeeps, GuardKeeps, TestKeeps, InstallKeeps, RecordKeeps
  <2>2. CASE StartEvaluating(p) \/ EvaluateProduction(p) \/ UpdateEvaluation(p) \/ Select(p) \/ RecordSelection(p)
    BY <2>2, StartEvaluatingKeeps, EvaluateProductionKeeps, UpdateEvaluationKeeps, SelectKeeps, RecordSelectionKeeps
  <2>3. CASE Dies(p)
    BY <2>3, EndsHereKeeps DEF Dies, Repository, Ghosts
  <2> QED
    BY <1>1, <2>1, <2>2, <2>3, DiesWritingKeeps DEF ToolStep
<1>2. CASE UNCHANGED vars
  <2>1. UNCHANGED <<main, head, tree, work, run, trained, served, approved, reselected>>
    BY <1>2 DEF vars
  <2>2. Typed'
    BY <2>1 DEF IInv, Typed, Runs, Trees
  <2>3. Compared'
    BY <2>1 DEF IInv, Compared
  <2>4. Sound => Sound'
    BY <2>1 DEF Sound, UnderWay, Checked
  <2> QED
    BY <2>2, <2>3, <2>4 DEF IInv
<1> QED
  BY <1>1, <1>2, LoseFileKeeps, CommitKeeps, PullKeeps, JobStartsKeeps, JobCommitsKeeps, JobPushesKeeps,
     DeployKeeps DEF Next

LEMMA Invariant == Spec => []IInv
BY InitIInv, NextIInv, PTL DEF Spec

-----------------------------------------------------------------------------
(***************************************************************************)
(* The theorems.                                                           *)
(***************************************************************************)

\* Every variable keeps its type, for any number of tools at once: in particular only the
\* job reaches the gate, and only with a model that passed (Jenkinsfile.model).
THEOREM TypeCorrect == Spec => []TypeOK
<1>1. IInv => TypeOK
  <2> SUFFICES ASSUME IInv PROVE TypeOK
    OBVIOUS
  <2>1. \A m \in ManifestType : IsManifest(m)
    BY DEF ManifestType, IsManifest, NoManifest
  <2>2. main.files \in Files /\ IsManifest(main.manifest)
    BY <2>1 DEF IInv, Typed, Content
  <2>3. \A c \in Place : tree[c].files \in Files /\ IsManifest(tree[c].manifest) /\ tree[c].base \in 0..head
    BY <2>1, ConstantsAssumption DEF IInv, Typed, Trees, TreeType
  <2>4. DOMAIN run = Tool /\ \A p \in Tool : run[p] \in RunType
    BY DEF IInv, Typed, Runs
  <2>5. \A p \in Tool :
        /\ run[p].pc \in StepNames
        /\ run[p].thr \in Threshold /\ run[p].left \subseteq File /\ run[p].against \in Files
        /\ \A s \in run[p].sel : s \in Selection
        /\ \A e \in run[p].ev : e \in Evaluation
    BY <2>4 DEF RunType
  <2> QED
    BY <2>2, <2>3, <2>4, <2>5 DEF TypeOK, IInv, Typed, StepNames
<1> QED
  BY Invariant, <1>1, PTL

\* A model the job pushes was compared with the very model it replaces, for any number of
\* tools, people and pushes beside it: git moves main forward only from where the job began.
THEOREM ReplacedWasCompared == Spec => ComparedWithReplaced
<1>1. IInv /\ [Next]_vars =>
        [head' # head /\ run["job"].pc = "push" /\ run'["job"].pc = "idle" => main.files = run["job"].against]_vars
  <2> SUFFICES ASSUME IInv, [Next]_vars, head' # head, run["job"].pc = "push", run'["job"].pc = "idle"
               PROVE  main.files = run["job"].against
    OBVIOUS
  <2>1. ASSUME NEW p \in Tool, ToolStep(p) PROVE head' = head
    BY <2>1, Zenon
       DEF ToolStep, StartTraining, Train, ChooseThreshold, Guard, Test, Install, Record, StartEvaluating,
           EvaluateProduction, UpdateEvaluation, Select, RecordSelection, Dies, DiesWriting, Repository
  <2>2. ASSUME Commit PROVE run' = run
    BY <2>2 DEF Commit
  <2>3. ASSUME LoseFile \/ Pull \/ JobStarts \/ JobCommits \/ Deploy \/ UNCHANGED vars PROVE head' = head
    BY <2>3, Zenon DEF LoseFile, Pull, JobStarts, JobCommits, Deploy, vars, Repository
  <2>4. JobPushes
    BY <2>1, <2>2, <2>3 DEF Next
  <2>5. tree["job"].base = head
    BY <2>4, Zenon DEF JobPushes, Repository
  <2> QED
    BY <2>5 DEF IInv, Compared
<1> QED
  BY Invariant, <1>1, PTL DEF Spec, ComparedWithReplaced

\* With one tool at a time on the VM, no model is served that neither passed the guardrail
\* nor had its threshold chosen by hand, whichever step a tool was killed at.
THEOREM ServedIsApproved == ASSUME OneShell PROVE Spec => []ServedWasApproved
<1>1. IInv => ServedWasApproved
  BY OneShell DEF IInv, Sound, Honest, Gate, Matches, SelectionHolds, Checked, ServedWasApproved
<1> QED
  BY Invariant, <1>1, PTL

\* With one tool at a time on the VM, what is served was evaluated, all of it together, at
\* the threshold it is served with.
THEOREM ServedIsEvaluated == ASSUME OneShell PROVE Spec => []ServesWhatWasEvaluated
<1>1. IInv => ServesWhatWasEvaluated
  <2> SUFFICES ASSUME IInv, NEW s \in served
               PROVE  \E e \in s.manifest.ev : e.of = s.files /\ e.thr = ThresholdOf(s.manifest) /\ e.f1 >= MinF1
    BY DEF ServesWhatWasEvaluated
  <2>1. Gate(s) /\ Honest(s.manifest, Checked) /\ s \in Content
    BY OneShell DEF IInv, Sound, Typed
  <2>2. PICK d \in s.manifest.ev : d.f1 >= MinF1
    BY <2>1 DEF Gate, ScoresEnough
  <2>3. PICK c \in s.manifest.sel, e \in s.manifest.ev :
          e.thr = s.manifest.thr /\ c.files = s.manifest.artifacts
    BY <2>1 DEF Gate, SelectionHolds
  <2>4. d = e /\ e.of = s.files
    BY <2>1, <2>2, <2>3 DEF Honest, Gate, Matches
  <2>5. e.thr \in Threshold /\ 0 \notin Threshold
    BY <2>1, <2>3, ConstantsAssumption DEF Content, ManifestType, Evaluation
  <2> QED
    BY <2>2, <2>3, <2>4, <2>5 DEF ThresholdOf
<1> QED
  BY Invariant, <1>1, PTL
===============================================================================
