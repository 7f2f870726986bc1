------------------------------ MODULE Delivery ------------------------------
(***************************************************************************)
(* How an image reaches the cluster: Jenkinsfile, with the cluster's       *)
(* Deployment also applied by the Ansible role and by k8s_recover.sh,      *)
(* which know nothing of each other.                                       *)
(*                                                                         *)
(* An image is the number of the build that made it; 0 is the tag that     *)
(* kubernetes/deployment.yaml pins and Ansible installs.  All have the     *)
(* same VERSION, as builds between two releases do.  What a kubectl undo   *)
(* goes back to is always the template before the last change.             *)
(***************************************************************************)
EXTENDS Naturals

CONSTANT MaxBuild  \* bound: builds

ASSUME MaxBuildAssumption == MaxBuild \in Nat \ {0}

VARIABLES
    deployed, previous, \* the Deployment's template and the revision before it, if any
    store,    \* images in the node (imagePullPolicy: Never)
    quality,  \* how each image does in the cluster
    latest,   \* what the registry's :latest is, if anything
    build, outcome, \* the builds of the job, and how the last one ended
    play,     \* the image an Ansible play has decided to keep, if one runs
    rebuilding, \* k8s_recover.sh has deleted the cluster
    smoked    \* ghost: images whose pods passed stage 9

cluster == <<deployed, previous, store>>
others == <<play, rebuilding>>
vars == <<cluster, quality, latest, build, outcome, others, smoked>>

Baseline == 0
Build == 1..MaxBuild
Image == Build \cup {Baseline}

\* override: the Deployment carries a PREDICT_THRESHOLD.
Template == [image: Image, override: BOOLEAN]
AtMostOne(S) == {{}} \cup {{x} : x \in S}

\* "stuck" pods never become ready; "wrong" ones do, and fail the smoke test.
Quality == {"works", "wrong", "stuck"}

\* before: the images deployed when stage 8 began.  disturbed, a ghost: others
\* touched the Deployment since the build started.
Step == {"new", "prepare", "load", "unset", "set", "rollout", "check", "smoke", "undo", "latest", "ended"}
BuildState == [pc: Step, before: SUBSET Image, disturbed: BOOLEAN]

NewBuild == [pc |-> "new", before |-> {}, disturbed |-> FALSE]

TypeOK ==
    /\ deployed \in AtMostOne(Template) /\ previous \in AtMostOne(Template)
    /\ store \subseteq Image
    /\ quality \in [Image -> Quality]
    /\ latest \in AtMostOne(Build)
    /\ build \in [Build -> BuildState]
    /\ outcome \in {"none", "success", "failure", "not rolled back", "aborted"}
    /\ play \in AtMostOne(Image)
    /\ rebuilding \in BOOLEAN
    /\ smoked \subseteq Image
    /\ deployed = {} => previous = {}

Init ==
    /\ \/ deployed = {} /\ store = {}
       \/ deployed \in {{[image |-> Baseline, override |-> o]} : o \in BOOLEAN} /\ store = {Baseline}
    /\ previous = {}
    /\ quality = [i \in Image |-> "works"]
    /\ latest = {}
    /\ build = [b \in Build |-> NewBuild]
    /\ outcome = "none"
    /\ play = {} /\ rebuilding = FALSE
    /\ smoked = {}

Images(ts) == {t.image : t \in ts}

\* A change of the template is a new revision; the same template is none.
Change(new) ==
    /\ deployed' = {new}
    /\ previous' = IF new \in deployed THEN previous ELSE deployed

\* kubectl rollout status ends well: pods of the template are ready.
Ready == \E t \in deployed : t.image \in store /\ quality[t.image] # "stuck"

(***************************************************************************)
(* Jenkinsfile.                                                            *)
(***************************************************************************)
Running(b) == build[b].pc \notin {"new", "ended"}

\* A plausible slip: builds may run at once.
NoGuard == TRUE

\* disableConcurrentBuilds()
Alone == \A b \in Build : ~Running(b)

Goes(b, step) == build' = [build EXCEPT ![b].pc = step] /\ UNCHANGED outcome

\* What the ghosts of an ended build tell is needed only when it moved :latest.
Ends(b, how) ==
    /\ build' = [build EXCEPT ![b] = [NewBuild EXCEPT !.pc = "ended", !.disturbed = how = "success" /\ build[b].disturbed]]
    /\ outcome' = how

\* A command of stage 8 that took effect may still be reported as failed.
Follows(b, step) == Goes(b, step) \/ Goes(b, "check")

Start(b) ==
    /\ Alone
    /\ build[b].pc = "new" /\ \A a \in 1..(b - 1) : build[a].pc # "new"
    /\ Goes(b, "prepare")
    /\ UNCHANGED <<cluster, quality, latest, others, smoked>>

BeginsDeploying(b) ==
    /\ build' = [build EXCEPT ![b].pc = "load", ![b].before = Images(deployed)]
    /\ UNCHANGED outcome

\* As it was once: every image pushed becomes :latest.
PrepareLatest(b) ==
    /\ build[b].pc = "prepare"
    /\ \E q \in Quality : quality' = [quality EXCEPT ![b] = q]
    /\ latest' = {b}
    /\ BeginsDeploying(b)
    /\ UNCHANGED <<cluster, others, smoked>>

\* Stages 1 to 7: tests, scans, the model gate, the image and its own tag.
Prepare(b) ==
    /\ build[b].pc = "prepare"
    /\ \E q \in Quality : quality' = [quality EXCEPT ![b] = q]
    /\ BeginsDeploying(b)
    /\ UNCHANGED <<cluster, latest, others, smoked>>

\* Stage 8: docker save and load, set env, set image, rollout status.
Load(b) ==
    /\ build[b].pc = "load" /\ ~rebuilding
    /\ store' = store \cup {b}
    /\ Follows(b, "unset")
    /\ UNCHANGED <<deployed, previous, quality, latest, others, smoked>>

UnsetThreshold(b) ==
    /\ build[b].pc = "unset"
    /\ \E t \in deployed : Change([image |-> t.image, override |-> FALSE])
    /\ Follows(b, "set")
    /\ UNCHANGED <<store, quality, latest, others, smoked>>

SetImage(b) ==
    /\ build[b].pc = "set"
    /\ \E t \in deployed : Change([image |-> b, override |-> t.override])
    /\ Follows(b, "rollout")
    /\ UNCHANGED <<store, quality, latest, others, smoked>>

RolloutDone(b) ==
    /\ build[b].pc = "rollout" /\ Ready
    /\ Goes(b, "smoke")
    /\ UNCHANGED <<cluster, quality, latest, others, smoked>>

\* A plausible slip: whatever is deployed is undone.
PutBackAlways(b) ==
    /\ build[b].pc = "check" /\ deployed # {}
    /\ Goes(b, "undo")
    /\ UNCHANGED <<cluster, quality, latest, others, smoked>>

\* The post section of stage 8: put back only what this build deployed.
PutBackOwn(b) ==
    /\ build[b].pc = "check" /\ deployed # {}
    /\ IF b \in Images(deployed) THEN Goes(b, "undo") ELSE Ends(b, "failure")
    /\ UNCHANGED <<cluster, quality, latest, others, smoked>>

\* kubectl rollout undo, also in the post section of stage 9.
Undo(b) ==
    /\ build[b].pc = "undo" /\ previous # {}
    /\ deployed' = previous /\ previous' = deployed
    /\ Ends(b, "failure")
    /\ UNCHANGED <<store, quality, latest, others, smoked>>

\* Stage 9, in a pod of whatever the Deployment is by now.
Smoke(b) ==
    /\ build[b].pc = "smoke" /\ Ready
    /\ \E t \in deployed :
        /\ quality[t.image] = "works" /\ ~t.override
        /\ smoked' = smoked \cup {t.image}
    /\ Goes(b, "latest")
    /\ UNCHANGED <<cluster, quality, latest, others>>

\* Stage 10.
TagLatest(b) ==
    /\ build[b].pc = "latest"
    /\ latest' = {b}
    /\ Ends(b, "success")
    /\ UNCHANGED <<cluster, quality, others, smoked>>

\* A command fails without effect, or a wait is over.
Fails(b) ==
    /\ \/ build[b].pc \in {"prepare", "latest"} /\ Ends(b, "failure")
       \/ build[b].pc \in {"load", "unset", "set", "rollout"} /\ Goes(b, "check")
       \/ build[b].pc = "smoke" /\ Goes(b, "undo")
       \/ build[b].pc \in {"check", "undo"} /\ Ends(b, "not rolled back")
    /\ UNCHANGED <<cluster, quality, latest, others, smoked>>

\* Aborted by hand or with Jenkins: no post section for failures runs.
Abort(b) ==
    /\ Running(b) /\ Ends(b, "aborted")
    /\ UNCHANGED <<cluster, quality, latest, others, smoked>>

(***************************************************************************)
(* Ansible and the recovery.                                               *)
(***************************************************************************)
Disturbs == build' = [b \in Build |-> [build[b] EXCEPT !.disturbed = @ \/ Running(b)]]

\* kubectl apply leaves what the manifest does not mention, the override, alone.
Apply(image) == Change([image |-> image, override |-> \E t \in deployed : t.override])

\* The role keeps the image it finds, and installs the pinned one on a new cluster.
PlayReads ==
    /\ play = {} /\ ~rebuilding
    /\ IF deployed = {} THEN play' = {Baseline} /\ store' = store \cup {Baseline}
       ELSE /\ play' = Images(deployed)
            /\ IF play' = {Baseline} THEN store' = store \cup {Baseline}
               ELSE play' \subseteq store /\ UNCHANGED store
    /\ UNCHANGED <<deployed, previous, quality, latest, build, outcome, rebuilding, smoked>>

PlayApplies ==
    /\ ~rebuilding
    /\ \E image \in play : Apply(image)
    /\ play' = {}
    /\ Disturbs /\ UNCHANGED outcome
    /\ UNCHANGED <<store, quality, latest, rebuilding, smoked>>

PlayStops ==
    /\ play # {} /\ play' = {}
    /\ UNCHANGED <<cluster, quality, latest, build, outcome, rebuilding, smoked>>

\* The gentle path applies the manifests when the pods are not ready in time.
RecoveryApplies ==
    /\ ~rebuilding
    /\ store' = store \cup {Baseline}
    /\ Apply(Baseline)
    /\ Disturbs /\ UNCHANGED outcome
    /\ UNCHANGED <<quality, latest, others, smoked>>

\* A plausible slip: the revisions outlive the cluster.
RecoveryKeepsHistory ==
    /\ ~rebuilding
    /\ deployed' = {} /\ store' = {}
    /\ rebuilding' = TRUE
    /\ Disturbs /\ UNCHANGED outcome
    /\ UNCHANGED <<previous, quality, latest, play, smoked>>

\* The rebuild: minikube delete, and a fresh start with its manifests applied.
RecoveryDeletes ==
    /\ ~rebuilding
    /\ deployed' = {} /\ previous' = {} /\ store' = {}
    /\ rebuilding' = TRUE
    /\ Disturbs /\ UNCHANGED outcome
    /\ UNCHANGED <<quality, latest, play, smoked>>

RecoveryInstalls ==
    /\ rebuilding
    /\ store' = store \cup {Baseline}
    /\ Apply(Baseline)
    /\ rebuilding' = FALSE
    /\ Disturbs /\ UNCHANGED outcome
    /\ UNCHANGED <<quality, latest, play, smoked>>

Stage(b) ==
    \/ Start(b) \/ Prepare(b) \/ Load(b) \/ UnsetThreshold(b) \/ SetImage(b) \/ RolloutDone(b)
    \/ PutBackOwn(b) \/ Undo(b) \/ Smoke(b) \/ TagLatest(b)
    \/ Fails(b) \/ Abort(b)

Next ==
    \/ \E b \in Build : Stage(b)
    \/ PlayReads \/ PlayApplies \/ PlayStops
    \/ RecoveryApplies \/ RecoveryDeletes \/ RecoveryInstalls

Spec == Init /\ [][Next]_vars

-----------------------------------------------------------------------------
(***************************************************************************)
(* Properties.                                                             *)
(***************************************************************************)

\* The registry's :latest is an image whose own pods passed the smoke test in
\* the cluster, whatever earlier builds did, unless the recovery or a play
\* touched the Deployment during the build that moved it.
LatestWasServed ==
    \A b \in latest : b \in smoked \/ build[b].disturbed

\* "Only a version that is deployed and passed its smoke test becomes
\* :latest", as the comment on stage 10 has it.
LatestWasServedAlways == latest \subseteq smoked

\* A build that fails before its image passed the smoke test leaves the image
\* that ran before it, at whichever command it failed and whether or not the
\* failed command took effect; unless others touched the Deployment meanwhile
\* or the rollback itself failed.
FailedBuildPutsBack ==
    [][\A b \in Build :
        /\ build[b].pc \notin {"prepare", "latest", "ended"} /\ build'[b].pc = "ended"
        /\ outcome' = "failure" /\ ~build[b].disturbed
        => Images(deployed') = build[b].before]_vars

\* Once the Deployment carries no PREDICT_THRESHOLD, no rollback, play or
\* recovery brings an old one back over the manifest's threshold.
OverrideStaysGone ==
    [][(deployed # {} /\ \A t \in deployed : ~t.override) => \A t \in deployed' : ~t.override]_vars
=============================================================================
