--------------------------- MODULE DeliveryProofs ---------------------------
(***************************************************************************)
(* Proofs about Delivery, for any number of builds: what :latest names was *)
(* served, a failed build puts back the image before it, and an override   *)
(* of the threshold that is gone stays gone.                               *)
(***************************************************************************)
EXTENDS Delivery, TLAPS

-----------------------------------------------------------------------------
(***************************************************************************)
(* What the shared parts of the actions do.                                *)
(***************************************************************************)

\* The Deployment has one template or none.
LEMMA OneTemplate ==
    ASSUME NEW ts \in AtMostOne(Template)
    PROVE ts = {} \/ \E i \in Image, o \in BOOLEAN :
                        ts = {[image |-> i, override |-> o]} /\ Images(ts) = {i}
BY DEF AtMostOne, Template, Images

LEMMA Templates ==
    TypeOK => \A t \in deployed \cup previous : t \in Template /\ t.image \in Image /\ t.override \in BOOLEAN
<1> SUFFICES ASSUME TypeOK, NEW t \in deployed \cup previous PROVE t \in Template
  BY DEF Template
<1> QED BY DEF TypeOK, AtMostOne

\* A new template becomes the only one, and the one it replaces the previous.
LEMMA ChangeIs ==
    ASSUME TypeOK, NEW i \in Image, NEW o \in BOOLEAN,
           Change([image |-> i, override |-> o])
    PROVE /\ deployed' = {[image |-> i, override |-> o]}
          /\ deployed' \in AtMostOne(Template) /\ previous' \in AtMostOne(Template)
          /\ Images(deployed') = {i}
          /\ previous' = deployed \/ (previous' = previous /\ deployed' = deployed)
          /\ i \notin Images(deployed) => previous' = deployed
<1>1. deployed' = {[image |-> i, override |-> o]} BY DEF Change
<1>2. [image |-> i, override |-> o] \in Template BY DEF Template
<1>3. Images(deployed') = {i} BY <1>1 DEF Images
<1>4. previous' = deployed \/ (previous' = previous /\ deployed' = deployed)
  <2>1. CASE [image |-> i, override |-> o] \in deployed
    <3>1. deployed = {[image |-> i, override |-> o]} BY <2>1 DEF TypeOK, AtMostOne
    <3> QED BY <1>1, <2>1, <3>1 DEF Change
  <2>2. CASE [image |-> i, override |-> o] \notin deployed BY <2>2 DEF Change
  <2> QED BY <2>1, <2>2
<1>5. i \notin Images(deployed) => previous' = deployed
  <2>1. [image |-> i, override |-> o] \in deployed => i \in Images(deployed) BY DEF Images
  <2> QED BY <2>1 DEF Change
<1> QED BY <1>1, <1>2, <1>3, <1>4, <1>5 DEF TypeOK, AtMostOne

\* A build's next command changes nothing else of any build.
LEMMA GoesIs ==
    ASSUME TypeOK, NEW b \in Build, NEW step \in Step, Goes(b, step)
    PROVE /\ build' \in [Build -> BuildState]
          /\ build'[b].pc = step
          /\ build'[b].before = build[b].before /\ build'[b].disturbed = build[b].disturbed
          /\ \A a \in Build \ {b} : build'[a] = build[a]
          /\ outcome' = outcome
BY DEF Goes, TypeOK, BuildState

\* A build that ends keeps what the ghosts tell only if it succeeded.
LEMMA EndsIs ==
    ASSUME TypeOK, NEW b \in Build,
           NEW how \in {"success", "failure", "not rolled back", "aborted"}, Ends(b, how)
    PROVE /\ build' \in [Build -> BuildState]
          /\ build'[b].pc = "ended"
          /\ how = "success" => build'[b].disturbed = build[b].disturbed
          /\ \A a \in Build \ {b} : build'[a] = build[a]
          /\ outcome' = how
BY DEF Ends, TypeOK, BuildState, Step, NewBuild

\* Who else touches the Deployment marks the builds that run.
LEMMA DisturbsIs ==
    ASSUME TypeOK, Disturbs
    PROVE /\ build' \in [Build -> BuildState]
          /\ \A b \in Build : /\ build'[b].pc = build[b].pc
                              /\ build'[b].disturbed = (build[b].disturbed \/ Running(b))
BY DEF Disturbs, TypeOK, BuildState

\* The two commands of stage 8 that change the template.
LEMMA UnsetIs ==
    ASSUME TypeOK, NEW b \in Build, UnsetThreshold(b)
    PROVE \E i \in Image : Images(deployed) = {i} /\ Change([image |-> i, override |-> FALSE])
<1>1. PICK t \in deployed : Change([image |-> t.image, override |-> FALSE]) BY DEF UnsetThreshold
<1>2. deployed = {t} BY DEF TypeOK, AtMostOne
<1>3. Images(deployed) = {t.image} BY <1>2 DEF Images
<1> QED BY <1>1, <1>3, Templates

LEMMA SetIs ==
    ASSUME TypeOK, NEW b \in Build, SetImage(b)
    PROVE \E t \in deployed : Change([image |-> b, override |-> t.override]) /\ t.override \in BOOLEAN
BY Templates DEF SetImage

\* kubectl apply of a manifest with the given image.
LEMMA ApplyIs ==
    ASSUME TypeOK, NEW i \in Image, Apply(i)
    PROVE \E o \in BOOLEAN :
            /\ (\A t \in deployed : ~t.override) => o = FALSE
            /\ Change([image |-> i, override |-> o])
BY DEF Apply

-----------------------------------------------------------------------------
(***************************************************************************)
(* Types.                                                                  *)
(***************************************************************************)

LEMMA TypeInit == Init => TypeOK
<1> SUFFICES ASSUME Init PROVE TypeOK OBVIOUS
<1>1. deployed \in AtMostOne(Template) /\ store \subseteq Image
  BY DEF Init, AtMostOne, Template, Image
<1>2. previous \in AtMostOne(Template) /\ latest \in AtMostOne(Build) /\ play \in AtMostOne(Image)
  BY DEF Init, AtMostOne
<1>3. quality \in [Image -> Quality] /\ build \in [Build -> BuildState]
  BY DEF Init, Quality, BuildState, Step, NewBuild
<1> QED BY <1>1, <1>2, <1>3 DEF Init, TypeOK

LEMMA TypeStep == TypeOK /\ [Next]_vars => TypeOK'
<1> SUFFICES ASSUME TypeOK, [Next]_vars PROVE TypeOK' OBVIOUS
<1>1. ASSUME NEW b \in Build, Stage(b) PROVE TypeOK'
  <2> b \in Image BY DEF Image
  <2>1. CASE Start(b) BY <2>1, GoesIs DEF Start, TypeOK, Step, cluster, others
  <2>2. CASE Prepare(b)
    <3>1. build' \in [Build -> BuildState] /\ outcome' = outcome
      <4>1. Images(deployed) \subseteq Image BY Templates DEF Images
      <4>2. build' = [build EXCEPT ![b] = [@ EXCEPT !.pc = "load", !.before = Images(deployed)]]
        BY <2>2 DEF Prepare, BeginsDeploying
      <4>3. [build[b] EXCEPT !.pc = "load", !.before = Images(deployed)] \in BuildState
        BY <4>1 DEF TypeOK, BuildState, Step
      <4> QED BY <2>2, <4>2, <4>3 DEF Prepare, BeginsDeploying, TypeOK
    <3> QED BY <2>2, <3>1 DEF Prepare, TypeOK, cluster, others
  <2>3. CASE Load(b) BY <2>3, GoesIs DEF Load, Follows, TypeOK, Step, others
  <2>4. CASE UnsetThreshold(b)
    <3>1. PICK i \in Image : Change([image |-> i, override |-> FALSE]) BY <2>4, UnsetIs
    <3>2. deployed' \in AtMostOne(Template) /\ previous' \in AtMostOne(Template) /\ deployed' # {}
      BY <3>1, ChangeIs
    <3> QED BY <2>4, <3>2, GoesIs DEF UnsetThreshold, Follows, TypeOK, Step, others
  <2>5. CASE SetImage(b)
    <3>1. PICK o \in BOOLEAN : Change([image |-> b, override |-> o]) BY <2>5, SetIs
    <3>2. deployed' \in AtMostOne(Template) /\ previous' \in AtMostOne(Template) /\ deployed' # {}
      BY <3>1, ChangeIs
    <3> QED BY <2>5, <3>2, GoesIs DEF SetImage, Follows, TypeOK, Step, others
  <2>6. CASE RolloutDone(b) BY <2>6, GoesIs DEF RolloutDone, TypeOK, Step, cluster, others
  <2>7. CASE PutBackOwn(b) BY <2>7, GoesIs, EndsIs DEF PutBackOwn, TypeOK, Step, cluster, others
  <2>8. CASE Undo(b) BY <2>8, EndsIs DEF Undo, TypeOK, others
  <2>9. CASE Smoke(b)
    <3>1. smoked' \subseteq Image
      <4>1. PICK t \in deployed : smoked' = smoked \cup {t.image} BY <2>9 DEF Smoke
      <4>2. t.image \in Image BY Templates
      <4> QED BY <4>1, <4>2 DEF TypeOK
    <3> QED BY <2>9, <3>1, GoesIs DEF Smoke, TypeOK, Step, cluster, others
  <2>10. CASE TagLatest(b) BY <2>10, EndsIs DEF TagLatest, TypeOK, AtMostOne, cluster, others
  <2>11. CASE Fails(b) BY <2>11, GoesIs, EndsIs DEF Fails, TypeOK, Step, cluster, others
  <2>12. CASE Abort(b) BY <2>12, EndsIs DEF Abort, TypeOK, cluster, others
  <2> QED BY <1>1, <2>1, <2>2, <2>3, <2>4, <2>5, <2>6, <2>7, <2>8, <2>9, <2>10, <2>11, <2>12 DEF Stage
<1>2. CASE PlayReads
  <2>1. play' \in AtMostOne(Image) /\ store' \subseteq Image
    <3>1. CASE deployed = {} BY <1>2, <3>1 DEF PlayReads, TypeOK, AtMostOne, Image
    <3>2. CASE deployed # {}
      <4>1. PICK i \in Image : Images(deployed) = {i} BY <3>2, OneTemplate DEF TypeOK
      <4> QED BY <1>2, <3>2, <4>1 DEF PlayReads, TypeOK, AtMostOne, Image
    <3> QED BY <3>1, <3>2
  <2> QED BY <1>2, <2>1 DEF PlayReads, TypeOK
<1>3. ASSUME NEW i \in Image, Apply(i)
      PROVE deployed' \in AtMostOne(Template) /\ previous' \in AtMostOne(Template) /\ deployed' # {}
  BY <1>3, ApplyIs, ChangeIs
<1>4. CASE PlayApplies
  <2>1. PICK i \in play : Apply(i) BY <1>4 DEF PlayApplies
  <2>2. i \in Image BY <2>1 DEF TypeOK, AtMostOne
  <2> QED BY <1>3, <1>4, <2>1, <2>2, DisturbsIs DEF PlayApplies, TypeOK, AtMostOne
<1>5. CASE PlayStops BY <1>5 DEF PlayStops, TypeOK, AtMostOne, cluster
<1>6. CASE RecoveryApplies BY <1>3, <1>6, DisturbsIs DEF RecoveryApplies, TypeOK, Image, others
<1>7. CASE RecoveryDeletes BY <1>7, DisturbsIs DEF RecoveryDeletes, TypeOK, AtMostOne
<1>8. CASE RecoveryInstalls BY <1>3, <1>8, DisturbsIs DEF RecoveryInstalls, TypeOK, Image
<1>9. CASE UNCHANGED vars BY <1>9 DEF vars, cluster, others, TypeOK
<1> QED BY <1>1, <1>2, <1>4, <1>5, <1>6, <1>7, <1>8, <1>9 DEF Next

\* Every state of the delivery has the types the model is written for.
THEOREM TypeCorrect == Spec => []TypeOK
BY TypeInit, TypeStep, PTL DEF Spec

-----------------------------------------------------------------------------
(***************************************************************************)
(* The invariant.                                                          *)
(***************************************************************************)

NoOverride(ts) == \A t \in ts : ~t.override

\* The builds whose image is deployed or may come back.
Shown == Images(deployed) \cup Images(previous) \cup play

OneRuns == \A a, b \in Build : Running(a) /\ Running(b) => a = b

\* Nobody has a build's image before the build sets it.
NotYetShown ==
    \A b \in Build : build[b].pc \in {"new", "prepare", "load", "unset", "set"} => b \notin Shown

\* From unset on the Deployment has no override; from set on a rollback has none.
OverrideGone ==
    \A b \in Build :
        /\ build[b].pc = "set" => NoOverride(deployed)
        /\ build[b].pc \in {"rollout", "smoke", "undo"} \/ b \in Shown
              => NoOverride(deployed) /\ NoOverride(previous)

\* Where a build can find the image that ran before it.
Rollback(b) ==
    /\ build[b].pc \in {"load", "unset", "set"} => Images(deployed) = build[b].before
    /\ build[b].pc \in {"rollout", "smoke"} => Images(deployed) = {b}
    /\ build[b].pc \in {"rollout", "smoke", "undo"} => Images(previous) = build[b].before
    /\ build[b].pc = "check" =>
         IF b \in Images(deployed) THEN Images(previous) = build[b].before
         ELSE Images(deployed) = build[b].before

Undisturbed ==
    \A b \in Build : ~build[b].disturbed => Rollback(b) /\ (build[b].pc = "latest" => b \in smoked)

LatestEnded ==
    \A b \in latest : build[b].pc = "ended" /\ (b \in smoked \/ build[b].disturbed)

IInv == TypeOK /\ OneRuns /\ NotYetShown /\ OverrideGone /\ Undisturbed /\ LatestEnded

LEMMA InvInit == Init => IInv
<1> SUFFICES ASSUME Init PROVE IInv OBVIOUS
<1>1. TypeOK BY TypeInit
<1>2. \A b \in Build : build[b] = NewBuild BY DEF Init
<1>3. \A b \in Build : b \notin Shown /\ b # Baseline
  BY MaxBuildAssumption DEF Init, Shown, Images, Build, Baseline
<1> QED
  BY <1>1, <1>2, <1>3 DEF Init, IInv, NewBuild, OneRuns, Running, NotYetShown, OverrideGone, Undisturbed,
     Rollback, LatestEnded

\* A stage is a step of one build, the one that runs.
LEMMA StageIs ==
    ASSUME TypeOK, NEW b \in Build, Stage(b)
    PROVE /\ Running(b) \/ (build[b].pc = "new" /\ build'[b].pc = "prepare" /\ Alone)
          /\ \A a \in Build \ {b} : build'[a] = build[a]
          /\ play' = play /\ rebuilding' = rebuilding
<1> USE DEF Running
<1>1. CASE Start(b) BY <1>1, GoesIs DEF Start, Step, others
<1>2. CASE Prepare(b) BY <1>2 DEF Prepare, BeginsDeploying, others, TypeOK
<1>3. CASE Load(b) BY <1>3, GoesIs DEF Load, Follows, Step, others
<1>4. CASE UnsetThreshold(b) BY <1>4, GoesIs DEF UnsetThreshold, Follows, Step, others
<1>5. CASE SetImage(b) BY <1>5, GoesIs DEF SetImage, Follows, Step, others
<1>6. CASE RolloutDone(b) BY <1>6, GoesIs DEF RolloutDone, Step, others
<1>7. CASE PutBackOwn(b) BY <1>7, GoesIs, EndsIs DEF PutBackOwn, Step, others
<1>8. CASE Undo(b) BY <1>8, EndsIs DEF Undo, others
<1>9. CASE Smoke(b) BY <1>9, GoesIs DEF Smoke, Step, others
<1>10. CASE TagLatest(b) BY <1>10, EndsIs DEF TagLatest, others
<1>11. CASE Fails(b) BY <1>11, GoesIs, EndsIs DEF Fails, Step, others
<1>12. CASE Abort(b) BY <1>12, EndsIs DEF Abort, others
<1> QED BY <1>1, <1>2, <1>3, <1>4, <1>5, <1>6, <1>7, <1>8, <1>9, <1>10, <1>11, <1>12 DEF Stage

\* What the plays and the recovery leave of the builds.
Outside == PlayReads \/ PlayApplies \/ PlayStops \/ RecoveryApplies \/ RecoveryDeletes \/ RecoveryInstalls

LEMMA OutsideIs ==
    ASSUME TypeOK, Outside
    PROVE /\ \A b \in Build : build'[b].pc = build[b].pc
          /\ \/ build' = build /\ deployed' = deployed /\ previous' = previous
             \/ \A b \in Build : build'[b].disturbed = (build[b].disturbed \/ Running(b))
          /\ latest' = latest /\ smoked' = smoked
<1>1. CASE PlayReads BY <1>1 DEF PlayReads
<1>2. CASE PlayApplies BY <1>2, DisturbsIs DEF PlayApplies
<1>3. CASE PlayStops BY <1>3 DEF PlayStops, cluster
<1>4. CASE RecoveryApplies BY <1>4, DisturbsIs DEF RecoveryApplies, others
<1>5. CASE RecoveryDeletes BY <1>5, DisturbsIs DEF RecoveryDeletes
<1>6. CASE RecoveryInstalls BY <1>6, DisturbsIs DEF RecoveryInstalls
<1> QED BY <1>1, <1>2, <1>3, <1>4, <1>5, <1>6 DEF Outside

LEMMA OneRunsStep == TypeOK /\ OneRuns /\ [Next]_vars => OneRuns'
<1> SUFFICES ASSUME TypeOK, OneRuns, [Next]_vars PROVE OneRuns' OBVIOUS
<1>1. ASSUME NEW b \in Build, Stage(b) PROVE OneRuns'
  <2>1. \A a \in Build \ {b} : ~Running(a) BY <1>1, StageIs DEF OneRuns, Alone
  <2>2. \A a \in Build \ {b} : ~Running(a)' BY <1>1, <2>1, StageIs DEF Running
  <2> QED BY <2>2 DEF OneRuns
<1>2. CASE Outside BY <1>2, OutsideIs DEF OneRuns, Running
<1>3. CASE UNCHANGED vars BY <1>3 DEF vars, OneRuns, Running
<1> QED BY <1>1, <1>2, <1>3 DEF Next, Outside

\* What a step of others can show of the builds, and what override it can bring.
LEMMA OutsideShows ==
    ASSUME TypeOK, Outside
    PROVE /\ Shown' \subseteq Shown \cup {Baseline}
          /\ NoOverride(deployed) => NoOverride(deployed')
          /\ NoOverride(deployed) /\ NoOverride(previous) => NoOverride(previous')
<1>1. ASSUME NEW i \in Image, i \in play \cup {Baseline}, Apply(i), play' \subseteq play
      PROVE /\ Shown' \subseteq Shown \cup {Baseline}
            /\ NoOverride(deployed) => NoOverride(deployed')
            /\ NoOverride(deployed) /\ NoOverride(previous) => NoOverride(previous')
  <2>1. PICK o \in BOOLEAN : /\ NoOverride(deployed) => o = FALSE
                             /\ Change([image |-> i, override |-> o])
    BY <1>1, ApplyIs DEF NoOverride
  <2>2. deployed' = {[image |-> i, override |-> o]} /\ Images(deployed') = {i} BY <2>1, ChangeIs
  <2>3. previous' = deployed \/ previous' = previous BY <2>1, ChangeIs
  <2>4. Images(previous') \subseteq Images(deployed) \cup Images(previous) BY <2>3 DEF Images
  <2> QED BY <1>1, <2>1, <2>2, <2>3, <2>4 DEF Shown, NoOverride
<1>2. CASE PlayReads
  <2>1. play' \subseteq Images(deployed) \cup {Baseline} BY <1>2 DEF PlayReads
  <2> QED BY <1>2, <2>1 DEF PlayReads, Shown, Images, NoOverride
<1>3. CASE PlayApplies
  <2>1. PICK i \in play : Apply(i) BY <1>3 DEF PlayApplies
  <2>2. i \in Image BY DEF TypeOK, AtMostOne
  <2> QED BY <1>1, <1>3, <2>1, <2>2 DEF PlayApplies
<1>4. CASE PlayStops BY <1>4 DEF PlayStops, Shown, Images, NoOverride, cluster
<1>5. CASE RecoveryApplies BY <1>1, <1>5 DEF RecoveryApplies, others, Image
<1>6. CASE RecoveryDeletes BY <1>6 DEF RecoveryDeletes, Shown, Images, NoOverride
<1>7. CASE RecoveryInstalls BY <1>1, <1>7 DEF RecoveryInstalls, Image
<1> QED BY <1>2, <1>3, <1>4, <1>5, <1>6, <1>7 DEF Outside

\* The commands of the pipeline that leave the Deployment alone.
Quiet(b) ==
    Start(b) \/ Prepare(b) \/ Load(b) \/ RolloutDone(b) \/ PutBackOwn(b) \/ Smoke(b) \/ TagLatest(b)
    \/ Fails(b) \/ Abort(b)

\* Which command follows which, and what each tells of the build.
LEMMA QuietIs ==
    ASSUME TypeOK, NEW b \in Build, Quiet(b)
    PROVE /\ deployed' = deployed /\ previous' = previous
          /\ \/ build[b].pc = "new" /\ build'[b].pc = "prepare"
             \/ build[b].pc = "prepare" /\ build'[b].pc = "load" /\ build'[b].before = Images(deployed)
             \/ /\ build'[b].before = build[b].before
                /\ \/ build[b].pc = "load" /\ build'[b].pc = "unset"
                   \/ build[b].pc \in {"load", "unset", "set", "rollout"} /\ build'[b].pc = "check"
                   \/ build[b].pc = "rollout" /\ build'[b].pc = "smoke"
                   \/ build[b].pc = "check" /\ b \in Images(deployed) /\ build'[b].pc = "undo"
                   \/ build[b].pc = "smoke" /\ build'[b].pc \in {"undo", "latest"}
             \/ build'[b].pc = "ended"
          /\ build'[b].pc # "ended" => build'[b].disturbed = build[b].disturbed
          /\ smoked \subseteq smoked'
<1>1. CASE Start(b) BY <1>1, GoesIs DEF Start, Step, cluster
<1>2. CASE Prepare(b) BY <1>2 DEF Prepare, BeginsDeploying, cluster, TypeOK, BuildState
<1>3. CASE Load(b) BY <1>3, GoesIs DEF Load, Follows, Step
<1>4. CASE RolloutDone(b) BY <1>4, GoesIs DEF RolloutDone, Step, cluster
<1>5. CASE PutBackOwn(b) BY <1>5, GoesIs, EndsIs DEF PutBackOwn, Step, cluster
<1>6. CASE Smoke(b) BY <1>6, GoesIs DEF Smoke, Step, cluster
<1>7. CASE TagLatest(b) BY <1>7, EndsIs DEF TagLatest, cluster
<1>8. CASE Fails(b) BY <1>8, GoesIs, EndsIs DEF Fails, Step, cluster
<1>9. CASE Abort(b) BY <1>9, EndsIs DEF Abort, cluster
<1> QED BY <1>1, <1>2, <1>3, <1>4, <1>5, <1>6, <1>7, <1>8, <1>9 DEF Quiet

LEMMA UnsetStep ==
    ASSUME TypeOK, NEW b \in Build, UnsetThreshold(b)
    PROVE /\ NoOverride(deployed') /\ (NoOverride(deployed) /\ NoOverride(previous) => NoOverride(previous'))
          /\ Images(deployed') = Images(deployed) /\ Shown' \subseteq Shown
          /\ build[b].pc = "unset" /\ build'[b].pc \in {"set", "check"}
          /\ build'[b].before = build[b].before /\ build'[b].disturbed = build[b].disturbed
<1>1. PICK i \in Image : Images(deployed) = {i} /\ Change([image |-> i, override |-> FALSE]) BY UnsetIs
<1>2. deployed' = {[image |-> i, override |-> FALSE]} /\ Images(deployed') = {i} BY <1>1, ChangeIs
<1>3. previous' = deployed \/ previous' = previous BY <1>1, ChangeIs
<1>4. Images(previous') \subseteq Images(deployed) \cup Images(previous) BY <1>3 DEF Images
<1>5. play' = play BY DEF UnsetThreshold, others
<1>6. Shown' \subseteq Shown BY <1>1, <1>2, <1>4, <1>5 DEF Shown
<1> QED BY <1>1, <1>2, <1>3, <1>6, GoesIs DEF UnsetThreshold, Follows, Step, NoOverride

LEMMA SetStep ==
    ASSUME TypeOK, NEW b \in Build, SetImage(b)
    PROVE /\ NoOverride(deployed) => NoOverride(deployed')
          /\ NoOverride(deployed) /\ NoOverride(previous) => NoOverride(previous')
          /\ Images(deployed') = {b} /\ Shown' \subseteq Shown \cup {b}
          /\ b \notin Images(deployed) => previous' = deployed
          /\ build[b].pc = "set" /\ build'[b].pc \in {"rollout", "check"}
          /\ build'[b].before = build[b].before /\ build'[b].disturbed = build[b].disturbed
<1>1. PICK t \in deployed : Change([image |-> b, override |-> t.override]) /\ t.override \in BOOLEAN BY SetIs
<1> b \in Image BY DEF Image
<1>2. deployed' = {[image |-> b, override |-> t.override]} /\ Images(deployed') = {b} BY <1>1, ChangeIs
<1>3. /\ previous' = deployed \/ previous' = previous
      /\ b \notin Images(deployed) => previous' = deployed
  BY <1>1, ChangeIs
<1>4. Images(previous') \subseteq Images(deployed) \cup Images(previous) BY <1>3 DEF Images
<1>5. play' = play BY DEF SetImage, others
<1>6. Shown' \subseteq Shown \cup {b} BY <1>2, <1>4, <1>5 DEF Shown
<1>7. NoOverride(deployed) => NoOverride(deployed') BY <1>1, <1>2 DEF NoOverride
<1>8. NoOverride(deployed) /\ NoOverride(previous) => NoOverride(previous') BY <1>3
<1> QED BY <1>2, <1>3, <1>6, <1>7, <1>8, GoesIs DEF SetImage, Follows, Step

LEMMA UndoStep ==
    ASSUME TypeOK, NEW b \in Build, Undo(b)
    PROVE /\ deployed' = previous /\ previous' = deployed /\ Shown' = Shown
          /\ build[b].pc = "undo" /\ build'[b].pc = "ended"
<1>1. deployed' = previous /\ previous' = deployed /\ play' = play BY DEF Undo, others
<1>2. Shown' = Shown BY <1>1 DEF Shown, Images
<1> QED BY <1>1, <1>2, EndsIs DEF Undo

LEMMA StageKinds ==
    ASSUME NEW b \in Build
    PROVE Stage(b) <=> Quiet(b) \/ UnsetThreshold(b) \/ SetImage(b) \/ Undo(b)
BY DEF Stage, Quiet

\* The part of the invariant the override rests on.
LEMMA OverrideStep ==
    ASSUME TypeOK, OneRuns, NotYetShown, OverrideGone, [Next]_vars
    PROVE NotYetShown' /\ OverrideGone'
<1>1. ASSUME NEW b \in Build, Stage(b) PROVE NotYetShown' /\ OverrideGone'
  <2>1. \A a \in Build \ {b} : build'[a] = build[a] BY <1>1, StageIs
  <2>2. CASE Quiet(b)
    <3>1. Shown' = Shown BY <1>1, <2>2, QuietIs, StageIs DEF Shown, Images
    <3>2. NotYetShown'
      BY <2>1, <2>2, <3>1, QuietIs DEF NotYetShown
    <3>3. OverrideGone'
      <4>1. build'[b].pc # "set" BY <2>2, QuietIs
      <4>2. build'[b].pc \in {"smoke", "undo"} => build[b].pc \in {"rollout", "smoke"} \/ b \in Shown
        BY <2>2, QuietIs DEF Shown
      <4>3. build'[b].pc # "rollout" BY <2>2, QuietIs
      <4> QED BY <2>1, <2>2, <3>1, <4>1, <4>2, <4>3, QuietIs DEF OverrideGone, NoOverride
    <3> QED BY <3>2, <3>3
  <2>3. CASE UnsetThreshold(b)
    <3>1. NotYetShown' BY <2>1, <2>3, UnsetStep DEF NotYetShown
    <3>2. OverrideGone' BY <2>1, <2>3, UnsetStep DEF OverrideGone
    <3> QED BY <3>1, <3>2
  <2>4. CASE SetImage(b)
    <3>1. b \notin Images(deployed) /\ NoOverride(deployed)
      BY <2>4, SetStep DEF NotYetShown, OverrideGone, Shown
    <3>2. NoOverride(deployed') /\ NoOverride(previous') BY <2>4, <3>1, SetStep
    <3>3. NotYetShown' BY <2>1, <2>4, SetStep DEF NotYetShown
    <3>4. OverrideGone' BY <3>2, <2>4, SetStep DEF OverrideGone
    <3> QED BY <3>3, <3>4
  <2>5. CASE Undo(b)
    <3>1. NotYetShown' BY <2>1, <2>5, UndoStep DEF NotYetShown
    <3>2. NoOverride(deployed') /\ NoOverride(previous') BY <2>5, UndoStep DEF OverrideGone
    <3>3. OverrideGone' BY <3>2 DEF OverrideGone
    <3> QED BY <3>1, <3>3
  <2> QED BY <1>1, <2>2, <2>3, <2>4, <2>5, StageKinds
<1>2. CASE Outside
  <2>1. \A b \in Build : b # Baseline BY MaxBuildAssumption DEF Build, Baseline
  <2>2. NotYetShown' BY <1>2, <2>1, OutsideIs, OutsideShows DEF NotYetShown
  <2>3. OverrideGone' BY <1>2, <2>1, OutsideIs, OutsideShows DEF OverrideGone
  <2> QED BY <2>2, <2>3
<1>3. CASE UNCHANGED vars
  BY <1>3 DEF vars, cluster, others, NotYetShown, OverrideGone, Shown, Images, NoOverride
<1> QED BY <1>1, <1>2, <1>3 DEF Next, Outside

\* The part that says where the image before a build is.
LEMMA UndisturbedStep ==
    ASSUME TypeOK, OneRuns, NotYetShown, Undisturbed, [Next]_vars
    PROVE Undisturbed'
<1>1. ASSUME NEW b \in Build, Stage(b) PROVE Undisturbed'
  <2>1. \A a \in Build \ {b} : build'[a] = build[a] /\ ~Running(a) BY <1>1, StageIs DEF OneRuns, Alone
  <2>2. \A a \in Build \ {b} : Rollback(a)' /\ build'[a].pc # "latest"
    BY <2>1 DEF Rollback, Running
  <2>3. ASSUME ~build'[b].disturbed PROVE Rollback(b)' /\ (build'[b].pc = "latest" => b \in smoked')
    <3>1. CASE Quiet(b)
      <4>1. Rollback(b)'
        <5>1. Images(deployed') = Images(deployed) /\ Images(previous') = Images(previous)
          BY <3>1, QuietIs DEF Images
        <5>2. build[b].pc \in {"load", "unset", "set"} => b \notin Images(deployed)
          BY DEF NotYetShown, Shown
        <5> QED BY <2>3, <3>1, <5>1, <5>2, QuietIs DEF Undisturbed, Rollback
      <4>2. ASSUME build'[b].pc = "latest" PROVE b \in smoked'
        <5>1. Smoke(b)
          BY <1>1, <3>1, <4>2, GoesIs, EndsIs DEF Quiet, Start, Prepare, BeginsDeploying, Load, Follows, RolloutDone,
             PutBackOwn, TagLatest, Fails, Abort, Step, TypeOK, BuildState
        <5>2. Images(deployed) = {b} BY <2>3, <3>1, <5>1, QuietIs, <4>2 DEF Undisturbed, Rollback, Smoke
        <5> QED BY <5>1, <5>2 DEF Smoke, Images
      <4> QED BY <4>1, <4>2
    <3>2. CASE UnsetThreshold(b)
      <4>1. b \notin Images(deployed) BY <3>2, UnsetStep DEF NotYetShown, Shown
      <4> QED BY <2>3, <3>2, <4>1, UnsetStep DEF Undisturbed, Rollback
    <3>3. CASE SetImage(b)
      <4>1. Images(deployed') = {b} /\ Images(previous') = Images(deployed)
        BY <3>3, SetStep DEF NotYetShown, Shown, Images
      <4> QED BY <2>3, <3>3, <4>1, SetStep DEF Undisturbed, Rollback
    <3>4. CASE Undo(b) BY <3>4, UndoStep DEF Rollback
    <3> QED BY <1>1, <3>1, <3>2, <3>3, <3>4, StageKinds
  <2> QED BY <2>2, <2>3 DEF Undisturbed
<1>2. CASE Outside
  <2>1. CASE build' = build /\ deployed' = deployed /\ previous' = previous
    BY <1>2, <2>1, OutsideIs DEF Undisturbed, Rollback, Images
  <2>2. CASE \A b \in Build : build'[b].disturbed = (build[b].disturbed \/ Running(b))
    <3>1. ASSUME NEW b \in Build, ~build'[b].disturbed PROVE ~Running(b)' BY <1>2, <2>2, <3>1, OutsideIs DEF Running
    <3> QED BY <3>1 DEF Undisturbed, Rollback, Running
  <2> QED BY <1>2, <2>1, <2>2, OutsideIs
<1>3. CASE UNCHANGED vars BY <1>3 DEF vars, cluster, Undisturbed, Rollback, Images
<1> QED BY <1>1, <1>2, <1>3 DEF Next, Outside

LEMMA LatestStep ==
    ASSUME TypeOK, OneRuns, Undisturbed, LatestEnded, [Next]_vars
    PROVE LatestEnded'
<1>1. ASSUME NEW b \in Build, Stage(b) PROVE LatestEnded'
  <2>1. b \notin latest BY <1>1, StageIs DEF LatestEnded, Running
  <2>2. \A a \in Build \ {b} : build'[a] = build[a] BY <1>1, StageIs
  <2>3. latest \subseteq Build BY DEF TypeOK, AtMostOne
  <2>4. smoked \subseteq smoked'
    BY <1>1, QuietIs, StageKinds DEF UnsetThreshold, SetImage, Undo
  <2>5. CASE TagLatest(b)
    <3>1. b \in smoked \/ build[b].disturbed BY <2>5 DEF TagLatest, Undisturbed
    <3>2. build'[b].pc = "ended" /\ build'[b].disturbed = build[b].disturbed
      BY <2>5, EndsIs DEF TagLatest
    <3> QED BY <2>4, <2>5, <3>1, <3>2 DEF TagLatest, LatestEnded
  <2>6. CASE ~TagLatest(b)
    <3>1. latest' = latest
      BY <1>1, <2>6 DEF Stage, Start, Prepare, Load, UnsetThreshold, SetImage, RolloutDone, PutBackOwn, Undo, Smoke,
         Fails, Abort
    <3> QED BY <2>1, <2>2, <2>3, <2>4, <3>1 DEF LatestEnded
  <2> QED BY <2>5, <2>6
<1>2. CASE Outside
  <2>1. latest \subseteq Build BY DEF TypeOK, AtMostOne
  <2> QED BY <1>2, <2>1, OutsideIs DEF LatestEnded
<1>3. CASE UNCHANGED vars BY <1>3 DEF vars, LatestEnded
<1> QED BY <1>1, <1>2, <1>3 DEF Next, Outside

LEMMA InvStep == IInv /\ [Next]_vars => IInv'
BY TypeStep, OneRunsStep, OverrideStep, UndisturbedStep, LatestStep DEF IInv

LEMMA Invariant == Spec => []IInv
BY InvInit, InvStep, PTL DEF Spec

-----------------------------------------------------------------------------
(***************************************************************************)
(* The theorems.                                                           *)
(***************************************************************************)

\* What the registry's :latest names passed the smoke test in its own pods,
\* unless others touched the Deployment while its build ran.
THEOREM LatestIsServed == Spec => []LatestWasServed
<1>1. IInv => LatestWasServed BY DEF IInv, LatestEnded, LatestWasServed
<1> QED BY <1>1, Invariant, PTL

\* A build that fails and says it has rolled back leaves the image that ran
\* before it: what Rollback says of the command it failed at.
THEOREM FailureIsUndone == Spec => FailedBuildPutsBack
<1>1. ASSUME IInv, Next, NEW b \in Build,
             build[b].pc \notin {"prepare", "latest", "ended"}, build'[b].pc = "ended",
             outcome' = "failure", ~build[b].disturbed
      PROVE Images(deployed') = build[b].before
  <2> USE DEF IInv
  <2>1. Stage(b)
    <3>1. ~Outside BY <1>1, OutsideIs
    <3>2. PICK a \in Build : Stage(a) BY <1>1, <3>1 DEF Next, Outside
    <3> QED BY <1>1, <3>2, StageIs
  <2>2. PutBackOwn(b) \/ Undo(b)
    BY <1>1, <2>1, GoesIs, EndsIs DEF Stage, Start, Prepare, BeginsDeploying, Load, UnsetThreshold, SetImage, Follows,
       RolloutDone, Smoke, TagLatest, Fails, Abort, Step
  <2>3. CASE PutBackOwn(b)
    <3>1. b \notin Images(deployed) /\ deployed' = deployed
      BY <1>1, <2>3, GoesIs DEF PutBackOwn, cluster, Step
    <3> QED BY <1>1, <2>3, <3>1 DEF PutBackOwn, Undisturbed, Rollback, Images
  <2>4. CASE Undo(b)
    <3>1. deployed' = previous /\ build[b].pc = "undo" BY <1>1, <2>4, UndoStep
    <3>2. Images(previous) = build[b].before BY <1>1, <3>1 DEF Undisturbed, Rollback
    <3> QED BY <3>1, <3>2 DEF Images
  <2> QED BY <2>2, <2>3, <2>4
<1>2. IInv /\ [Next]_vars
      => [\A b \in Build :
            /\ build[b].pc \notin {"prepare", "latest", "ended"} /\ build'[b].pc = "ended"
            /\ outcome' = "failure" /\ ~build[b].disturbed
            => Images(deployed') = build[b].before]_vars
  BY <1>1
<1> QED BY <1>2, Invariant, PTL DEF Spec, FailedBuildPutsBack

\* An override that is gone stays gone: a rollback to a template that has one
\* would need a build whose image is deployed beside it.
THEOREM OverrideIsGone == Spec => OverrideStaysGone
<1>1. ASSUME IInv, Next, deployed # {}, \A t \in deployed : ~t.override
      PROVE \A t \in deployed' : ~t.override
  <2> USE DEF IInv
  <2>1. CASE Outside BY <1>1, <2>1, OutsideShows DEF NoOverride
  <2>2. ASSUME NEW b \in Build, Stage(b) PROVE NoOverride(deployed')
    <3>1. NoOverride(deployed) BY <1>1 DEF NoOverride
    <3>2. CASE Undo(b) BY <1>1, <3>2, UndoStep DEF OverrideGone
    <3>3. CASE Quiet(b) BY <1>1, <3>1, <3>3, QuietIs
    <3> QED BY <1>1, <2>2, <3>1, <3>2, <3>3, StageKinds, UnsetStep, SetStep
  <2> QED BY <1>1, <2>1, <2>2 DEF Next, Outside, NoOverride
<1>2. IInv /\ [Next]_vars
      => [(deployed # {} /\ \A t \in deployed : ~t.override) => \A t \in deployed' : ~t.override]_vars
  BY <1>1
<1> QED BY <1>2, Invariant, PTL DEF Spec, OverrideStaysGone
=============================================================================
