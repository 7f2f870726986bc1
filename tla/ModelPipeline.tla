---------------------------- MODULE ModelPipeline ----------------------------
(***************************************************************************)
(* How a model comes to be served: ml-model/train_production.py and        *)
(* select_threshold.py change the files of models/ and their manifest,     *)
(* Jenkinsfile.model promotes and pushes, scripts/verify_model_manifest.py *)
(* gates every image, and api/app.py refuses files the manifest does not   *)
(* list.  The tools run in two clones, the Jenkins job's and the one on    *)
(* the VM, where people run them by hand.                                  *)
(*                                                                         *)
(* A file is identified by the model it was written for; a score is what   *)
(* some fleet gave, so evaluating twice may score twice.                   *)
(***************************************************************************)
EXTENDS Naturals

CONSTANTS
    File,       \* ARTIFACTS: what is copied, hashed and loaded as one model
    Threshold,  \* the grid of config/model_policy.json
    Fallback,   \* FALLBACK_THRESHOLD
    MaxScore,   \* scores are 0..MaxScore
    MinF1,      \* --min-f1 of the gate
    F1Drop, RecallDrop, \* the guardrail's margins
    Shell,      \* the tools that may run on the VM at once
    MaxModel,   \* bound: models trained
    MaxCommit   \* bound: commits on main

ASSUME ConstantsAssumption ==
    /\ File # {}
    /\ Threshold \subseteq Nat \ {0} /\ Fallback \in Threshold
    /\ {MaxScore, MinF1, F1Drop, RecallDrop, MaxCommit} \subseteq Nat /\ MaxModel \in Nat \ {0}
    /\ "job" \notin Shell

VARIABLES
    main, head,  \* models/ on the main branch, and how many commits it has
    tree,        \* models/ in each clone, with the commit it is based on
    work,        \* build/candidate in each clone
    run,         \* the tools under way
    trained,     \* models trained so far
    served,      \* models/ of the image in use, if any
    approved, reselected \* ghosts: models that passed the guardrail, and those
                         \* whose threshold select_threshold.py --record chose

vars == <<main, head, tree, work, run, trained, served, approved, reselected>>

Missing == 0
Torn == MaxModel + 1  \* a copy that was cut off
Model == 1..MaxModel
Files == [File -> 0..MaxModel + 1]
NoFiles == [f \in File |-> Missing]
Of(m) == [f \in File |-> m]

Place == {"vm", "job"}
Tool == Shell \cup {"job"}
At(p) == IF p = "job" THEN "job" ELSE "vm"

Score == 0..MaxScore
Selection == [thr: Threshold, files: Files]
\* What a manifest says of the evaluation, and (of) what really was evaluated.
Evaluation == [thr: Threshold, f1: Score, of: Files]
AtMostOne(S) == {{}} \cup {{x} : x \in S}

\* The production entry: artifacts, decision_threshold (0: none),
\* threshold_selection and evaluation.
NoManifest == [readable |-> TRUE, artifacts |-> NoFiles, thr |-> 0, sel |-> {}, ev |-> {}]

IsManifest(m) ==
    /\ DOMAIN m = DOMAIN NoManifest
    /\ m.readable \in BOOLEAN /\ m.artifacts \in Files /\ m.thr \in Threshold \cup {0}
    /\ \A s \in m.sel : s \in Selection
    /\ \A e \in m.ev : e \in Evaluation

Idle == [pc |-> "idle", promote |-> FALSE, thr |-> Fallback, initial |-> FALSE, against |-> NoFiles,
         passed |-> FALSE, left |-> {}, sel |-> {}, ev |-> {}]

TypeOK ==
    /\ main.files \in Files /\ IsManifest(main.manifest)
    /\ head \in 0..MaxCommit
    /\ \A c \in Place : tree[c].files \in Files /\ IsManifest(tree[c].manifest) /\ tree[c].base \in 0..head
    /\ work \in [Place -> Files]
    /\ DOMAIN run = Tool
    /\ \A p \in Tool :
        /\ run[p].pc \in {"idle", "train", "choose", "guard", "test", "install", "gate", "push",
                          "evaluate", "update", "select", "record"}
        /\ run[p].thr \in Threshold /\ run[p].left \subseteq File /\ run[p].against \in Files
        /\ \A s \in run[p].sel : s \in Selection
        /\ \A e \in run[p].ev : e \in Evaluation
        /\ run[p].pc \in {"gate", "push"} => p = "job" /\ run[p].passed
    /\ trained \in 0..MaxModel
    /\ approved \subseteq Files /\ reselected \subseteq Files

Promoted(m) ==
    [files |-> Of(m),
     manifest |-> [readable |-> TRUE, artifacts |-> Of(m), thr |-> Fallback,
                   sel |-> {[thr |-> Fallback, files |-> Of(m)]},
                   ev |-> {[thr |-> Fallback, f1 |-> MaxScore, of |-> Of(m)]}]]

Empty == [files |-> NoFiles, manifest |-> NoManifest]

Clone(content, commit) == [files |-> content.files, manifest |-> content.manifest, base |-> commit]

\* A repository without a model, or one that has promoted one.
Init ==
    /\ \/ trained = 0 /\ main = Empty /\ approved = {}
       \/ trained = 1 /\ main = Promoted(1) /\ approved = {Of(1)}
    /\ head = 0
    /\ tree = [c \in Place |-> Clone(IF c = "vm" THEN main ELSE Empty, 0)]
    /\ work = [c \in Place |-> NoFiles]
    /\ run = [p \in Tool |-> Idle]
    /\ served = {} /\ reselected = {}

(***************************************************************************)
(* What the tools ask.                                                     *)
(***************************************************************************)
Here(p) == tree[At(p)]
Loadable(files) == \A f \in File : files[f] \in Model

\* args.threshold
ThresholdOf(manifest) == IF manifest.thr = 0 THEN Fallback ELSE manifest.thr

HasProduction(files) == \A f \in File : files[f] # Missing
ProductionFilesMissing(content) == ~HasProduction(content.files) /\ content.manifest.artifacts # NoFiles

Guardrail(cand, prod) ==
    /\ cand.f1 + F1Drop >= prod.f1
    /\ cand.recall + RecallDrop >= prod.recall

\* A plausible slip: one file that matches is enough.
MatchesSome(content) ==
    /\ content.manifest.readable
    /\ \E f \in File : content.manifest.artifacts[f] = content.files[f] /\ content.files[f] # Missing

Matches(content) ==
    /\ content.manifest.readable
    /\ content.manifest.artifacts # NoFiles
    /\ content.manifest.artifacts = content.files

\* A plausible slip: the selection may be of other files.
SelectionOfAnyFiles(manifest) ==
    \E s \in manifest.sel, e \in manifest.ev : e.thr = manifest.thr /\ s.thr = manifest.thr

SelectionHolds(manifest) ==
    \E s \in manifest.sel, e \in manifest.ev :
        /\ e.thr = manifest.thr
        /\ s.thr = manifest.thr
        /\ s.files = manifest.artifacts

ScoresEnough(manifest) == \E e \in manifest.ev : e.f1 >= MinF1

Gate(content) ==
    /\ Matches(content)
    /\ ScoresEnough(content.manifest)
    /\ SelectionHolds(content.manifest)

(***************************************************************************)
(* train_production.py: a run, with or without --promote.                  *)
(***************************************************************************)
Goes(p, step) == run' = [run EXCEPT ![p].pc = step]

\* A tool ends.  A candidate no tool will read again is forgotten, and so is
\* the workspace of the job: the next one checks out and empties build/.
Ends(p) ==
    /\ run' = [run EXCEPT ![p] = Idle]
    /\ work' = IF \E q \in Tool \ {p} : At(q) = At(p) /\ run[q].pc # "idle" THEN work
               ELSE [work EXCEPT ![At(p)] = NoFiles]

EndsHere(p) ==
    /\ Ends(p)
    /\ IF p = "job" THEN tree' = [tree EXCEPT ![p] = Clone(Empty, 0)] ELSE UNCHANGED tree

Ghosts == <<approved, reselected>>
Repository == <<main, head>>

\* parse_args, and run_pipeline up to the training.
Begun(content, promote) ==
    [Idle EXCEPT !.pc = "train", !.promote = promote, !.thr = ThresholdOf(content.manifest),
                 !.initial = ~HasProduction(content.files)]

MayBegin(content) == content.manifest.readable /\ ~ProductionFilesMissing(content)

StartTraining(p) ==
    /\ p \in Shell /\ run[p].pc = "idle"
    /\ MayBegin(Here(p))
    /\ \E promote \in BOOLEAN : run' = [run EXCEPT ![p] = Begun(Here(p), promote)]
    /\ UNCHANGED <<Repository, tree, work, trained, served, Ghosts>>

\* train_candidate writes over whatever candidate the clone held.
Train(p) ==
    /\ run[p].pc = "train" /\ trained < MaxModel
    /\ trained' = trained + 1
    /\ work' = [work EXCEPT ![At(p)] = Of(trained')]
    /\ Goes(p, IF run[p].promote THEN "choose" ELSE "test")
    /\ UNCHANGED <<Repository, tree, served, Ghosts>>

\* select_candidate_threshold, for the candidate.
ChooseThreshold(p) ==
    /\ run[p].pc = "choose" /\ Loadable(work[At(p)])
    /\ \E t \in Threshold :
        run' = [run EXCEPT ![p].pc = "guard", ![p].sel = {[thr |-> t, files |-> work[At(p)]]}]
    /\ UNCHANGED <<Repository, tree, work, trained, served, Ghosts>>

\* guardrail_on_validation and guardrail: each model at its own threshold.
Guard(p) ==
    /\ run[p].pc = "guard" /\ Loadable(work[At(p)])
    /\ run[p].initial \/ Loadable(Here(p).files)
    /\ \E cand, prod \in [f1: Score, recall: Score] :
        LET passes == run[p].initial \/ Guardrail(cand, prod)
            sound == Guardrail(cand, prod) \/ Here(p).manifest.artifacts = NoFiles
        IN  /\ run' = [run EXCEPT ![p].pc = "test", ![p].passed = passes, ![p].against = Here(p).files]
            /\ approved' = IF passes /\ sound THEN approved \cup {work[At(p)]} ELSE approved
    /\ UNCHANGED <<Repository, tree, work, trained, served, reselected>>

\* evaluate_set on the test fleet, which is only reported.
Test(p) ==
    /\ run[p].pc = "test" /\ Loadable(work[At(p)])
    /\ run[p].initial \/ Loadable(Here(p).files)
    /\ \E score \in Score, t \in Threshold :
        /\ IF run[p].promote THEN \E s \in run[p].sel : t = s.thr ELSE t = run[p].thr
        /\ run' = [run EXCEPT ![p].pc = "install",
                              ![p].ev = {[thr |-> t, f1 |-> score, of |-> work[At(p)]]},
                              ![p].left = IF run[p].passed THEN File ELSE {}]
    /\ UNCHANGED <<Repository, tree, work, trained, served, Ghosts>>

\* record_run copies the files one after the other, here in any order ...
Install(p) ==
    /\ run[p].pc = "install" /\ Here(p).manifest.readable
    /\ \E f \in run[p].left :
        /\ tree' = [tree EXCEPT ![At(p)].files[f] = work[At(p)][f]]
        /\ run' = [run EXCEPT ![p].left = @ \ {f}]
    /\ UNCHANGED <<Repository, work, trained, served, Ghosts>>

\* A plausible slip: a candidate that was refused is followed by the gate all the same.
RecordUnread(p) ==
    /\ run[p].pc = "install" /\ run[p].left = {} /\ Here(p).manifest.readable
    /\ IF run[p].passed
       THEN /\ tree' = [tree EXCEPT ![At(p)].manifest =
                    [readable |-> TRUE, artifacts |-> Here(p).files,
                     thr |-> (CHOOSE s \in run[p].sel : TRUE).thr, sel |-> run[p].sel, ev |-> run[p].ev]]
            /\ IF p = "job" THEN Goes(p, "gate") /\ UNCHANGED work ELSE Ends(p)
       ELSE (IF p = "job" THEN Goes(p, "gate") /\ UNCHANGED work ELSE Ends(p)) /\ UNCHANGED tree
    /\ UNCHANGED <<Repository, trained, served, Ghosts>>

\* ... and then writes the manifest; without a promotion, its history only.
Record(p) ==
    /\ run[p].pc = "install" /\ run[p].left = {} /\ Here(p).manifest.readable
    /\ IF run[p].passed
       THEN /\ tree' = [tree EXCEPT ![At(p)].manifest =
                    [readable |-> TRUE, artifacts |-> Here(p).files,
                     thr |-> (CHOOSE s \in run[p].sel : TRUE).thr, sel |-> run[p].sel, ev |-> run[p].ev]]
            /\ IF p = "job" THEN Goes(p, "gate") /\ UNCHANGED work ELSE Ends(p)
       ELSE EndsHere(p)
    /\ UNCHANGED <<Repository, trained, served, Ghosts>>

(***************************************************************************)
(* The two tools that work on the production model.                        *)
(***************************************************************************)
StartEvaluating(p) ==
    /\ p \in Shell /\ run[p].pc = "idle" /\ Here(p).manifest.readable
    /\ run' = [run EXCEPT ![p].pc = "evaluate", ![p].thr = ThresholdOf(Here(p).manifest)]
    /\ UNCHANGED <<Repository, tree, work, trained, served, Ghosts>>

\* evaluate_production_only, up to the manifest.
EvaluateProduction(p) ==
    /\ run[p].pc = "evaluate" /\ Loadable(Here(p).files)
    /\ \E score \in Score :
        run' = [run EXCEPT ![p].pc = "update", ![p].ev = {[thr |-> run[p].thr, f1 |-> score, of |-> Here(p).files]}]
    /\ UNCHANGED <<Repository, tree, work, trained, served, Ghosts>>

\* It hashes the files as they are now.
UpdateEvaluation(p) ==
    /\ run[p].pc = "update" /\ Here(p).manifest.readable
    /\ tree' = [tree EXCEPT ![At(p)].manifest = [@ EXCEPT !.ev = run[p].ev, !.artifacts = Here(p).files]]
    /\ Ends(p)
    /\ UNCHANGED <<Repository, trained, served, Ghosts>>

\* select_threshold.py --record, up to the manifest.
Select(p) ==
    /\ p \in Shell /\ run[p].pc = "idle" /\ Loadable(Here(p).files)
    /\ \E t \in Threshold :
        run' = [run EXCEPT ![p].pc = "record", ![p].sel = {[thr |-> t, files |-> Here(p).files]}]
    /\ reselected' = reselected \cup {Here(p).files}
    /\ UNCHANGED <<Repository, tree, work, trained, served, approved>>

RecordSelection(p) ==
    /\ run[p].pc = "record" /\ Here(p).manifest.readable
    /\ \E s \in run[p].sel :
        tree' = [tree EXCEPT ![At(p)].manifest = [@ EXCEPT !.thr = s.thr, !.sel = {s}, !.ev = {}]]
    /\ Ends(p)
    /\ UNCHANGED <<Repository, trained, served, Ghosts>>

(***************************************************************************)
(* A tool fails or is killed: between two steps, or in a clone that people *)
(* use also in a copy or while it rewrites the manifest.                   *)
(***************************************************************************)
Dies(p) ==
    /\ run[p].pc # "idle" /\ EndsHere(p)
    /\ UNCHANGED <<Repository, trained, served, Ghosts>>

DiesWriting(p) ==
    /\ p \in Shell /\ Ends(p)
    /\ \/ /\ run[p].pc = "install"
          /\ \E f \in run[p].left : tree' = [tree EXCEPT ![At(p)].files[f] = Torn]
       \/ /\ run[p].pc \in {"install", "update", "record"} /\ run[p].left = {}
          /\ tree' = [tree EXCEPT ![At(p)].manifest.readable = FALSE]
    /\ UNCHANGED <<Repository, trained, served, Ghosts>>

\* No tool is at work on the VM: what people do there themselves, they do between two tools.
Unattended == \A p \in Shell : run[p].pc = "idle"

\* A file of models/ is deleted by hand.
LoseFile ==
    /\ Unattended
    /\ \E f \in File : tree' = [tree EXCEPT !["vm"].files[f] = Missing]
    /\ UNCHANGED <<Repository, work, run, trained, served, Ghosts>>

(***************************************************************************)
(* Git, the Jenkins job, and the pipeline that builds the image.           *)
(***************************************************************************)
CanCommit == head < MaxCommit

\* Someone commits models/ as it is in the VM's clone, and pushes.
Commit ==
    /\ CanCommit /\ Unattended
    /\ tree["vm"].base = head
    /\ main' = [files |-> tree["vm"].files, manifest |-> tree["vm"].manifest]
    /\ head' = head + 1
    /\ tree' = [tree EXCEPT !["vm"].base = head']
    /\ UNCHANGED <<work, run, trained, served, Ghosts>>

\* Someone brings the VM's clone up to date and drops what was not committed.
Pull ==
    /\ Unattended
    /\ tree' = [tree EXCEPT !["vm"] = Clone(main, head)]
    /\ UNCHANGED <<Repository, work, run, trained, served, Ghosts>>

\* Stages 1 to 4 of Jenkinsfile.model with SCOPE=full and PROMOTE.
JobStarts ==
    /\ run["job"].pc = "idle" /\ MayBegin(main)
    /\ tree' = [tree EXCEPT !["job"] = Clone(main, head)]
    /\ run' = [run EXCEPT !["job"] = Begun(main, TRUE)]
    /\ UNCHANGED <<Repository, work, trained, served, Ghosts>>

\* Stage 7, the gate and the local commit.
JobCommits ==
    /\ run["job"].pc = "gate"
    /\ IF Gate(tree["job"])
       THEN Goes("job", "push") /\ UNCHANGED <<tree, work>>
       ELSE EndsHere("job")
    /\ UNCHANGED <<Repository, trained, served, Ghosts>>

\* A plausible slip: git push --force.
JobForces ==
    /\ run["job"].pc = "push" /\ CanCommit
    /\ main' = [files |-> tree["job"].files, manifest |-> tree["job"].manifest]
    /\ head' = head + 1
    /\ EndsHere("job")
    /\ UNCHANGED <<trained, served, Ghosts>>

\* git push, which only ever moves a branch forward.
JobPushes ==
    /\ run["job"].pc = "push" /\ CanCommit
    /\ IF tree["job"].base = head
       THEN main' = [files |-> tree["job"].files, manifest |-> tree["job"].manifest] /\ head' = head + 1
       ELSE UNCHANGED Repository
    /\ EndsHere("job")
    /\ UNCHANGED <<trained, served, Ghosts>>

\* The application pipeline: the gate, the image, and pods that load it.
Deploy ==
    /\ Gate(main) /\ Matches(main)
    /\ served' = {main}
    /\ UNCHANGED <<Repository, tree, work, run, trained, Ghosts>>

ToolStep(p) ==
    \/ StartTraining(p) \/ Train(p) \/ ChooseThreshold(p) \/ Guard(p) \/ Test(p) \/ Install(p) \/ Record(p)
    \/ StartEvaluating(p) \/ EvaluateProduction(p) \/ UpdateEvaluation(p)
    \/ Select(p) \/ RecordSelection(p)
    \/ Dies(p) \/ DiesWriting(p)

Next ==
    \/ \E p \in Tool : ToolStep(p)
    \/ LoseFile \/ Commit \/ Pull
    \/ JobStarts \/ JobCommits \/ JobPushes
    \/ Deploy

Spec == Init /\ [][Next]_vars

-----------------------------------------------------------------------------
(***************************************************************************)
(* Properties.                                                             *)
(***************************************************************************)

\* The files the pods load, all of them, are the ones that were evaluated
\* on the test fleet at the very threshold the pods use, with an F1 the gate
\* accepts, whatever was committed, cut off or done by hand before.
ServesWhatWasEvaluated ==
    \A s \in served : \E e \in s.manifest.ev :
        e.of = s.files /\ e.thr = ThresholdOf(s.manifest) /\ e.f1 >= MinF1

\* No model is served that neither passed the guardrail nor had its
\* threshold chosen anew by hand: not a mixture that an interrupted
\* promotion left, not a candidate the guardrail refused.
ServedWasApproved ==
    \A s \in served : s.files \in approved \cup reselected

\* A model the job pushes was compared with the very model it replaces, even
\* when someone pushed another one while the job trained.
ComparedWithReplaced ==
    [][head' # head /\ run["job"].pc = "push" /\ run'["job"].pc = "idle" =>
        main.files = run["job"].against]_vars
=============================================================================
