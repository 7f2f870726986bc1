# TLA+ models of the DevSecMLOps platform

The repository serves anomaly predictions for a simulated fleet of telecom machines: a FastAPI service on
Kubernetes scores readings and logs them to PostgreSQL, operators judge them, Prometheus and Alertmanager turn
them into Telegram messages, a control panel repairs what is down, and pipelines retrain and roll out the
models. This directory holds TLA+ models of the parts whose correctness is a matter of order, failure and
concurrency, the TLC runs that check them, and proofs for every value of the constants.

## Inventory

| Part | State it keeps | Operations | Talks to | What is hard | Modelled by |
|---|---|---|---|---|---|
| Alerting watchdog (`scripts/prometheus_watchdog.py`) | failure counts, which targets are down, when the alert was last posted, whether Alertmanager has it | one pass: check, report transitions, refresh | Prometheus and Alertmanager (HTTP), Telegram | outages of either in any order, lost posts and answers, restarts, TTL against refresh | `Watchdog`, `WatchdogProofs` |
| Prediction log and feedback (`api/app.py`, `api/feedback_db.py`) | the readiness flag and retry time of each pod; the table | log a prediction, judge one, read, reconnect | PostgreSQL | threads of several pods, outages in the middle of a transaction, lost commit answers, row locks | `PredictionLog` implements `FeedbackStore`, `PredictionLogProofs` |
| Serving metrics (`api/app.py`, `alert_rules.yml`) | per replica: last sighting, verdict gauge, cause series | publish a verdict; scrape; pick the freshest replica | Prometheus | handlers interleave, a scrape cuts through one, several replicas disagree, replicas vanish | `ServingMetrics`, `ServingMetricsProofs` |
| Cluster recovery (`scripts/k8s_recover.sh`) | the cluster, the saved verdicts, the new dump | gentle start, dump, delete, rebuild, restore | Minikube, PostgreSQL, the pods, the control panel | steps that fail, the script killed, pods that serve too early | `K8sRecovery`, `K8sRecoveryProofs` |
| Machine agents (`monitoring/production_agent.py`) | position, the last readings | report one reading with its history | the API | gaps and restarts of the rows, exceptions | `MachineAgent`, `ScoringProofs` |
| Model pipeline and promotion (`train_production.py`, `select_threshold.py`, `Jenkinsfile.model`, `verify_model_manifest.py`) | `models/` and its manifest in two clones and on main, the candidate | train, choose a threshold, guard, copy, record, gate, push, load | MLflow, git, the API | files and manifest of different builds, a copy cut off, a push under a job | `ModelPipeline`, `ModelPipelineProofs` |
| Delivery (`Jenkinsfile`, `kubernetes/`, the Ansible role) | the Deployment, its revisions, the images, `:latest` | build, load, set, wait, smoke test, undo, tag; plays; recovery | the cluster | a failure at any command, others applying the Deployment meanwhile | `Delivery`, `DeliveryProofs` |
| Experiment console (`api/training.py`) | the training lock, status, run list | start, run, report, poll | the panel | the end of a run against the start of the next | `TrainingConsole` in `ControlPanel` |
| Demo labels (`api/demo_labels.py`) | one file of labels | append, truncate | control panel and agent processes | two processes, a truncation in two steps, deaths in it | `DemoLabels` in `ControlPanel` |
| Silences (`api/app.py`) | silences, in Alertmanager | mute, unmute | Alertmanager, other people's silences | several calls, of which some fail or are taken unanswered | `AlertSilences` in `ControlPanel` |
| Layers of the platform (`api/app.py`) | the services, the log of actions | show, start, stop, recover | systemd, Docker, the recovery script | stale pages, supervisors that restart, late answers, a list without a lock | `PanelLayers` in `ControlPanel` |
| Feedback demo (`scripts/feedback_demo.py`) | the rows shown, the retraining's status | send, judge, judge all, retrain | the API, the training script | calls that overlap, a lost answer, a sandbox that is shared | `FeedbackDemo` in `ControlPanel` |
| Tests that stop services (`scripts/agent_stop_test.py`, `watchdog_test.py`) | the step reached, the times | stop, wait, start, wait | systemd, Alertmanager | commands that fail, polls without an answer, signals | `StopTests` in `ControlPanel` |
| Cluster's network (`scripts/k8s_recover.sh`) | who has which address | evict, start, reconnect | Docker | reboots, containers that come and go, commands that fail | `ClusterNetwork` in `ControlPanel` |
| Preprocessing (`ml-model/preprocess.py`, `train_production.py`, `api/app.py`) | the baselines, each machine's last readings | features of a reading, of a file, of feedback | the models | the same features computed in three places | `Features` in `Scoring`, `ScoringProofs` |
| Decision rule (`ml-model/decision.py`, `train_production.py`, `api/app.py`) | counts of an evaluation | vote on one reading, vote on many, count | the models | ties, thresholds per class, chunks | `Verdicts` in `Scoring`, `ScoringProofs` |
| Fleet rules and root cause (`api/fleet_rules.py`, `ml-model/root_cause.py`, `production_agent.py`, `api/app.py`) | what a page or a relay has read | read twice, classify, rank | Prometheus, the API | two queries between which machines report | `FleetView` in `Scoring`, `ScoringProofs` |
| Replay and bridge (`monitoring/replay_exporter.py`, `anomaly_bridge.py`) | the exported row, the gauges | tick, scrape, cycle | Prometheus, the API | a scrape that cuts a tick, a cycle that fails half way | `DemoBridge` in `Scoring`, `ScoringProofs` |
| Feedback dataset (`scripts/export_feedback_dataset.py`, `train_production.py`) | files of exported verdicts | export, label | the prediction log | verdicts changed after their export, two exports in a second | `FeedbackDataset` in `Scoring`, `ScoringProofs` |
| Readings sampled and judged (`api/app.py`, `api/demo_labels.py`, `monitoring/production_agent.py`) | the pool of samples, each tab, the labels | sample, send, record, review, judge | the cluster's API, the fleet files, the agents | random places in a file, labels recorded late or never and by two programs, an operator who judges what the agents sent | `Review` in `Scoring`, `ScoringProofs` |
| History of episodes (`api/app.py`) | none | list, details | Prometheus, the prediction log | samples further apart than scrapes, limits on the list | `Episodes` in `Scoring`, `ScoringProofs` |
| Live check of the alerts (`scripts/safety_net_live.py`, `production_agent.py`) | the labels read, the predictions found | replay, label, look up, count | the agents, the label file, the prediction log | predictions older than their labels, pages and slices of time, readings that come meanwhile | `LiveCheck` in `Scoring`, `ScoringProofs` |
| List alerts, generators, earlier trainers, exporters, dashboards, provisioning, live tests | none that others rely on | | | | not modelled; see the end |

What makes each modelled part correct:

* **Watchdog**: an outage of Prometheus fires and stays firing as long as it lasts, ends after it, and while
  Alertmanager is down the operator hears of every outage directly.
* **Prediction log**: an id the API returned is a stored row; a verdict it confirmed was written to that row;
  the answer shows the caller's own verdict; logging comes back after an outage; no request hangs.
* **Serving metrics**: never two causes for a machine on one replica; cause and verdict agree; the fleet view
  settles on the latest verdict whichever replica gave it.
* **Recovery**: no verdict is lost in a rebuild; the saved file is only replaced by a whole dump; what was
  saved is put back.
* **Agents**: a history is the machine's own last readings without a gap, it is sent whenever there is one,
  and the agent goes on for ever.
* **Model pipeline**: the files pods load were evaluated, together, at the threshold the pods use; they passed the
  guardrail or were chosen by hand; a promotion replaces the model it was compared with.
* **Delivery**: `:latest` was served and tested; a failed build leaves the image before it; an old override of the
  threshold does not come back.
* **Experiment console**: the status is that of the run under way; a page finds its run in the list; the lock is
  given back.
* **Demo labels**: a label is not lost to the truncation of another process.
* **Silences**: a confirmed unmute has lifted all the panel's silences of its scope, and nobody else's.
* **Layers**: a layer whose stop was confirmed stays down, none runs twice, the log has the newest actions.
* **Feedback demo**: it shows and trains with the verdicts the API holds; two retrainings never share the sandbox.
* **Tests that stop services**: they leave the services running, and complete times are those of real alerts.
* **Cluster's network**: the cluster's address is free when the cluster starts, and only a rebuild takes it away.
* **Preprocessing and decision**: what is served is what was evaluated, feature by feature and vote by vote, and a
  retraining on feedback learns from what the candidate will be shown.
* **Fleet rules and root cause**: the tab, its evaluated form and the ranking agree; a router shown as unreachable
  has lost its machines; an effect is never named without its cause.
* **Replay and bridge**: between two cycles the bridge exports one cycle.
* **Feedback dataset**: a retraining takes the last exported verdict on each prediction.
* **Readings sampled and judged**: a history is the machine's own rows; the label shown for a prediction is that of its
  reading, whether a tab or an agent sent it, and a reading that has none shows none.
* **Live check**: a label is of the reading its prediction was made of; every label that was there is counted once.
* **History**: an episode is a run of anomalous samples, as long as it can be; totals and causes add up.

## Modules

### Watchdog

One pass of the service's loop is four actions, because other processes act between them: `Sleep` (the wait,
and the time a slow pass takes), `Observe` (both health checks; `fails` and `down` are `self.fails` and
`self.down`), `Report` (the transitions found by `step`: `BothWentDown`, `BothBack`, `PrometheusWentDown`,
`AlertmanagerWentDown` and their returns) and `Refresh`. `postAge` is `last_post` kept as an age, `Never` where
the code has `None`. `env` is what the targets do: up, down, or slow, where a call may take effect and still be
answered too late. `held` is the life left to the alert in Alertmanager. `ServiceRestarts` is systemd's.

`told`, `missed` and `intact` are ghosts. `told` is what the direct messages leave the operator believing, `missed`
that one was lost, and `intact` that of this outage no post was refused or lost since the last one taken: the
alert may lapse only when Alertmanager did not take or did not keep it.

Time runs in units of the check interval. `MaxGap` bounds how long a pass may be late. The assumption
`AlertTTL >= RefreshAge + MaxGap` is what the constants of the script satisfy and what the proof of `NoLapse` uses: a
check every 5 s, two failures, a refresh after 30 s and a TTL of 180 s leave a pass 150 s to be late, more than its
timeouts add up to (3 s for each of the two checks, 5 s for a post, 10 s for a direct message).

### PredictionLog and FeedbackStore

A thread of a pod handles one request: it consults `_db_ready` (`Check`, `Connect`, `Enable`, `MarkDown`), then
inserts, updates or selects in transactions of their own steps (`Insert`, `Stamp`, `Update`, `ReadBack`,
`Select`), any of which the outage of the database may cut (`QueryFails`; a commit may stand although its answer
is lost), and answers (`Reply`). `avail` and `retryIn` are each pod's `FEEDBACK_DB_AVAILABLE` and the time left
to `_db_next_retry`. Row locks are PostgreSQL's: an update waits for the other transaction. A verdict is
identified by its time stamp.

`FeedbackStore` is what the API promises its callers, four sets that only grow. `KeepsPromises` is the
refinement: the stored rows, the verdicts ever written, the ids returned and the verdicts confirmed of
`PredictionLog` implement it.

### ServingMetrics

`Begin` is `predict` up to the verdict; `Seen`, `SetGauge`, `RemoveCause` and `AddCause` are the writes of
`_record_prediction_metrics` and `_set_cause_metric` in order, each a step of its own, the last two under the
replica's lock. A scrape reads the families in registration order in three steps. `Freshest`, `AnomalousNow`
and `NetOnlyNow` are `_freshest` and the two recorded rules. `ReplicaRestarts` forgets a replica's gauges.
Time is the number of predictions published: two replicas never see a machine at the same instant here. The type
label is left out because every agent sends its machine's own type. `mixed` is a ghost: the machines whose last
readings on a replica overlapped. Their gauge and cause may disagree until the next reading, as the two are set in
separate steps.

### K8sRecovery

`Begin`, `GentleStart` and `GentleReady` are the gentle path; `OpenNew`, `Dump`, `CheckNew`, `KeepNew` and
`DiscardNew` are `backup_feedback`; `DeleteCluster`, `FreshStart` and `ApplyManifests` the rebuild;
`RestoreBegins`, `RestoreWaits`, `RestoreCount` and `RestoreCopy` are `restore_feedback`. Files are inodes under
names, because runs share `.new`: redirecting truncates the inode, `mv` and `rm` move names, and an open file
stays open.

`owed` is the set of verdicts the script can answer for: all that were given, but those that were only in a
database no dump could read. The ghosts `served` and `failed` tell what happened between a dump and the end of its
restore: the pods logged something, or a step failed. `FeedbackSurvives` and `PutBack` need both to be false. A pod
that logs a prediction in the rebuilt cluster before the restore makes its table non-empty, and the script then
restores nothing; `recovery_fails` shows what a failure does. The runs have one execution of the script at a time.
The module allows more, and with two `GoodBackupKept` fails: one truncates the `.new` the other is about to rename.
A row is judged once; a verdict that is changed later is not followed.

### MachineAgent

The loop of `machine_agent`: `Skip` for an unreachable row, `Send` for the others, `Returns` and `Raises` for how
`send_one` ends. `at` is `i % len(rows)` and `begun` is `i != 0`, so `i` needs no bound. Every pattern of outages
is an initial state. After an exception that `send_one` does not catch the agent's thread is gone and nothing more
happens, which is why deadlock is not checked there.

### ModelPipeline

`main` is `models/` on the main branch, `tree` what each of two clones holds (the Jenkins job's and the one people
work in), `work` the candidate in `build/`. A file is identified by the model it was written for, or is missing or
torn. `StartTraining`, `Train`, `ChooseThreshold`, `Guard`, `Test`, `Install` and `Record` are a run of
`train_production.py`; `EvaluateProduction` and `UpdateEvaluation` its `--evaluate-production`; `Select` and
`RecordSelection` are `select_threshold.py --record`; `Gate` is `verify_model_manifest.py` and `Deploy` the image
build with the checks the API makes when it loads. A tool may die between any two steps, in a copy, or while it
writes the manifest (`Dies`, `DiesWriting`). A manifest records what was evaluated (`thr`, `f1`); `of` beside it is
what the evaluation really read, which only the properties look at. `approved` and `reselected` are ghosts.

One tool runs at a time in the clone on the VM, which is how the runbooks use it; people's own `git` commands come
between two tools. With two tools at once there `ServesWhatWasEvaluated` fails, since `--evaluate-production` hashes
the files as they are when it writes and not as they were when it evaluated.

### Delivery

`deployed` is the Deployment's template (its image, and whether it carries `PREDICT_THRESHOLD`), `previous` the
template before the last change, which is where `kubectl rollout undo` goes. A build is `Start`, `Prepare` (stages 1
to 7), the commands of stage 8 (`Load`, `UnsetThreshold`, `SetImage`, `RolloutDone`), `Smoke` and `TagLatest`. Each
command of stage 8 may take effect and be reported as failed, or fail without effect (`Follows`, `Fails`); then
`PutBackOwn` and `Undo` are the post sections. `Abort` runs none. `PlayReads` and `PlayApplies` are the Ansible role, with
time between the image it reads and the manifest it applies; `RecoveryApplies`, `RecoveryDeletes` and
`RecoveryInstalls` are what `k8s_recover.sh` does to the Deployment.

All images have the same `VERSION`, as builds between two releases do, so that the smoke test's comparison of
versions does not tell them apart. `disturbed` (others touched the Deployment during this build), `outcome` and
`smoked` (the images whose own pods passed stage 9) are ghosts.

### ControlPanel

Seven parts of the panel and the scripts around it. They share no state, so `ControlPanel` lets a behaviour exercise
one of them (`part`): together they would only multiply states. Each part is a module with its own `Next` and named
properties; a property of `ControlPanel` is the conjunction of those of several parts that say the same kind of thing,
so `TrainingsInOrder` is `StatusIsTheRuns`, `ResultIsListed`, `OneRetraining` and `DemoHoldsApi`.

* `TrainingConsole`: `Acquire`, `Announce` and `StartThread` are `start_training`; the worker's order of assignments,
  `Order`, is that of `_run_training`; `Poll` and `LoadRuns` are the page.
* `DemoLabels`: `record` with its thread lock, its file lock, and a truncation in the two steps in which the file is
  emptied and written again; a process may die in between.
* `AlertSilences`: `Mute` and `Post` are `ui_alerting_mute`; `Unmute`, `List`, `Delete`, `Deleted` and `Unmuted` are
  `ui_alerting_unmute`, one action per call to Alertmanager. Any call may be taken without an answer (Alertmanager
  changes, the handler answers 502) or fail. `Expires` and `SomebodySilences` are others at Alertmanager; `before`,
  what there was to lift when the operator asked, is a ghost.
* `PanelLayers`: `Probe` is a page's look at a layer, which may be stale when it is acted on; `Ask`, `Act` and
  `ActK8s` are `ui_fix` and `ui_pipeline_control`; `Insert` and `Trim` the two statements on the log of actions.
  `Supervised` is what systemd and Docker do to a layer that died; a confirmed stop is kept in the ghost `stopped`.
* `FeedbackDemo`: `Send`, `Judge`, `AutoJudge` and the `Call` they make outside the lock; `Claim`, `StartThread` and
  `Works` are a retraining. `unsure` is a ghost: rows whose judgements overlapped or lost an answer.
* `StopTests`: both scripts, one action per command or wait; `Alert` is Alertmanager's side. `noticed` and `ended` are
  ghosts: the services whose alert really came while they were down, and really went.
* `ClusterNetwork`: `Inspect`, `Disconnect`, `StartCluster`, `Reconnect` and `Connect` are the script's commands,
  any of which may fail; `Attach` and `Reboot` are what others do. An unpinned container gets the lowest free address, as Docker's IPAM gives it.

What is proved of the parts is in `ControlPanelProofs`.

### Scoring

From readings to conclusions, and back to the models: eight parts that, like those of `ControlPanel`, share no state
that one could see another change, and of which a behaviour exercises one. `AsEvaluated`, `ViewsAgree`, `LabelsAreTrue`
and `EpisodesAreWhole` are conjunctions of the parts' properties.

* `Features`: `BuildBaselines`, `FleetFeatures` and `AddRollingFeatures` are the pipeline's, `Predict` the API's route,
  `Retrain` the examples made of judged predictions. A baseline is the set of training rows its mean and deviation are
  taken of, and a z-score a value with its baseline: two computations agree on the number if they agree on this pair.
* `Verdicts`: `ClassifierVote` is `classifier_vote`, `VoteBatch` its vectorised form; `Serve` decides a reading and
  `EvaluateChunk` counts some whole machines at a time. A probability is a multiple of `1/Scale`, so that ties happen.
* `FleetView`: `Classify` and `ClassifyArrays` are the two forms of the rule, `ScoreRootCauses` the ranking over the
  graph `DependsOn`; `PageReads` and `PageAges` the tab's two queries, `RelayReads` and `RelayAsks` the agent's relay.
  Shares are pairs of integers, those of `fleet_rules.py`.
* `DemoBridge`: `TickFastcycle`, `TickRealtime` and `PublishRow` are the exporter, `Cycle` one cycle of the bridge, a
  step per query. Two features stand for the six, since each has a query of its own.
* `FeedbackDataset`: `Export` writes one file a second, `Train` labels from all files, `latest` (a ghost) is each
  prediction's verdict when it was last exported.
* `Review`: `LoadSamplePool` and `ReadRun` read the fleet file at a random place; `Send` and `Record` are
  `ui_cluster_predict` before and after the answer, `AgentSends` and `AgentRecords` the agents' `send_one` before and after
  it; `ReadRecent`, `ReadLabels` and `Judge` are a review in a tab, of the predictions of both. The panel samples the
  operator stream only, because the test set must never be trained on (`app.py:1581`). That holds of the panel's own
  samples alone: by default the agents replay the test set to the same cluster (`production_agent.py:72`), a review lists
  their flagged predictions, and one that is judged is exported and trained on. The model has these steps; no property
  says more than the code keeps, and the case is in the list of hazards.
* `Episodes`: `UiHistory` and `UiHistoryEpisode` over every trace of verdicts, with the step and the limits of the code.
  `Loop` is the loop of `_episodes` as a function of the time it has got to, and what is listed is the set of the episodes
  that fewer than the limit are newer than.
* `LiveCheck`: `BuildSegments` and `ReadConsecutiveRun` take the rows an agent replays, `Send` and `RememberLabel` are
  `send_one` before and after the answer, while `Interrupted` ends all agents; `WindowOf` and `Walk` are the script's
  queries by machine and slice of time, and `Report` is what it counts. Ids are places in the cluster's log. An answer
  takes less than `MaxDelay`, which is at most `Pad`: the agent's calls time out after 10 s and the script adds a minute
  around the labels.

## Runs

| Run | Bounds | Shows |
|---|---|---|
| `watchdog` | 2 failures, refresh 3, gap 2, TTL 5 | types, `NoLapse`, `OutagesTold`, `OutageFollowed` (it fires for good and ends for good) |
| `watchdog_back` (violated) | the same | an outage told directly that is never followed by a message that it is over |
| `log` | 3 threads, 2 pods, 1 row, 2 verdicts | types, `OwnVerdict`, the refinement of `FeedbackStore`, `RecoversByItself` (logging comes back, no request hangs) |
| `metrics` | 2 handlers, 2 causes; 1 replica with 3 readings, or 2 with 2 | types, `OneCause`, `CauseWhileAnomalous`, `Settles` |
| `recovery` | 3 rows, 1 run, 3 inodes | types, `VerdictsKept` (they survive, and are put back), `GoodBackupKept` |
| `recovery_fails` (violated) | 2 rows, 1 run | verdicts lost over two rebuilds when the fresh start fails |
| `agent` | 8 rows, window 3, all outage patterns | types, `GenuineHistory`, `HistoryGiven`, `KeepsReporting` |
| `model` | 2 files, 2 thresholds, 2 scores, 2 models, 2 commits, 1 tool on the VM and the job | types, `ServesWhatWasEvaluated`, `ServedWasApproved`, `ComparedWithReplaced` |
| `delivery` | 3 builds | types, `LatestWasServed`, `FailedBuildPutsBack`, `OverrideStaysGone` |
| `delivery_recovered` (violated) | 2 builds | `:latest` moved to an image that was never tested in the cluster |
| `panel` | 2 pages, 3 runs; 2 processes with 2 threads, 3 lines of which 2 are kept, 7 labels; 2 handlers, 3 silences; 3 layers, 3 actions, 1 death; 2 demo rows, 3 pieces of work; 1 container beside Jenkins and the cluster, 3 events | types, `TrainingsInOrder`, `TrainingsEnd`, `NoLabelLost`, `UnmuteLifts`, `OthersKept`, `ServicesAsAsked`, `NetworkInOrder` |
| `scoring` | 2 machines with 3 readings of 2 values, window 2; 2 causes, scores in thirds, chunks of 1 machine; 1 router with 3 machines, 1 report; 2 rows a file, 2 ticks; 2 predictions, 2 exports; fleet files of 3 and 4 lines, 2 predictions logged, 2 tabs; 6 scrapes of 2 machines; replayed files of 4 lines, segments of 2, 2 predictions in 3 instants, pages of 1, slices of 2 | types, `AsEvaluated`, `ViewsAgree`, `LabelsAreTrue`, `EpisodesAreWhole` |

Why these bounds are enough. Two failures are the least that debounce, and every age of the alert up to its TTL
occurs. Three threads are a reader, a writer and a reconnecting one, on two pods so that two are one pod's; one row
is all that two verdicts can meet on. Two handlers meet on one lock, and three readings are two that overlap and
one that repairs what they left; for the fleet view two readings are one on each replica, in both orders and at
once (a behaviour has one case or the other, as two replicas and three readings together are out of TLC's reach). Three
verdicts let one be saved, one be given after it and one be lost. Eight rows hold a window of three before, after and
across an outage and the restart of the rows. Two files are the least that can be of different models; two models
and two commits are one in use and one that replaces it, and a push under the job. Three builds are one that
succeeded, one that fails after it and one that runs on what that left. Three runs of two pages let a page's run be
followed by two others; seven labels are enough for both processes to truncate twice. Three silences let a
listed one be expired, one be left and one be made while the unmute goes on. Three actions over a log of one are an
insert between another's insert and trim; one death is what a supervisor needs to be tempted. Two demo rows and one
more piece of work are two judgements that overlap, or two retrainings. Three events at the network are a container
that takes the address, one that is replaced and a reboot.

Of the parts of `Scoring`, three readings and a window of two have a full window, a partial one and a reading that left
it; a training file that lacks a machine, and one that lacks its window, walk down the whole fallback chain. Thirds and
a grid of two thresholds give every tie between two causes, above, at and below a threshold. One router with three
machines stands on each side of the three shares. Two files with a changed verdict between them, in one second and in
two, are what the labels' order is about. A cut-off line, a row of another machine and three of its own are in the
fleet files. Two predictions of one machine overflow a page of one, and three instants are a window longer than a
slice. Two predictions are one of a tab and one of an agent, or two of either; tabs are alike, so that the run takes
them as symmetric, which is sound because none of its properties is a liveness property. Six scrapes sampled at every one or every second hold an episode that is over, one that is cut by the end
of the range and a gap that must or must not be bridged.

The violated runs are disagreements between the code and its own comments, listed under `findings` with the line of
the code and the quoted sentence. Deadlock is not checked for `agent` (above) and `panel` (its runs and labels are
bounded). Nor is it for `scoring`, whose inputs are bounded likewise.

### Fairness

Only what the code's scheduling gives is assumed. The watchdog's loop goes on (systemd restarts the service, every
call has a timeout). A thread of the API that has started a request goes on: `connect_timeout` bounds the connect,
and the transaction that holds a row lock ends because its own thread goes on. Handlers run, Prometheus keeps
scraping. An agent's wait ends and its request times out. The training threads of the
console and of the demo run, and a handler that took their lock goes on to start them. Nothing is assumed of outages,
of the operators or of new requests, except where a property names them (an outage that lasts, requests that keep
coming). The pipeline, the delivery, the recovery, `Scoring` and the panel's other parts are checked for safety
only: nothing makes their people and their clusters go on.

## Proofs

`WatchdogProofs`: `TypeCorrect`; `AlertNeverLapses`, from an invariant that bounds the alert's remaining life from
below by the time left until the next refresh. It speaks of `Tracked` outages only, those with no transition still
to be reported, because a transition makes a post due at once; the assumption on the timing constants closes the
induction. `OutagesAreTold`, from an invariant that follows the transitions of a pass from the moment they are
observed to the moment they are told.

`K8sRecoveryProofs`: `TypeCorrect` for any number of runs, where a restore invents no row because both files and
every dump only ever hold rows that were made. `SavedFileKept`: with one run at a time, the saved file is only
replaced by the whole of a non-empty dump. The property alone is not inductive: a step renames whatever `.new`
holds. The invariant adds that `.new` is never the saved file, that the open file is `.new`, that from the write to
the rename it holds the dump, and that at the rename the dump is not empty.
`NoVerdictLost` is about a run alone in whose rebuild nothing failed and no pod logged a prediction. Its invariant follows
the verdicts through the steps: before the delete they are in the database (`InPlace`), from the dump to the rename they
are what was dumped (`Dumped`), from the delete to the end of the restore what is owed is in the saved file (`Covered`),
the new table is empty (`Emptied`) and answers when it is counted (`Answering`). A disturbance ends the obligation for
good, so that one fact about the two ghosts carries it over every step of the cluster.

`DeliveryProofs`, for any number of builds: `LatestIsServed`, `FailureIsUndone` and `OverrideIsGone`. One invariant
carries all three. Only one build runs (`OneRuns`). Nobody shows a build's image before it sets it, neither the
Deployment, its previous revision nor a play (`NotYetShown`), so setting it is a new revision and the one before is
the image that ran. `Rollback` says, for each command of an undisturbed build, where the image before it is;
`OverrideGone` that once a build's image is shown neither revision has an override. `LatestEnded` keeps what `:latest`
names from running again.

`ControlPanelProofs`, for any pages, processes, requests, silences, layers, rows and actions. A step of the panel is a
step of one part, and the other parts' variables stay (`Steps`); so an invariant that is inductive for a part's own
`Next` is one of the panel, and a property of the panel is the conjunction of what the parts give.

* `TrainingsStayInOrder`: the console's lock belongs to the run that is being started or to its thread
  (`LockIsTheRuns`), runs are numbered in the order in which they start (`Numbered`), the status is the run's from before
  its thread exists (`Announced`), and the list holds exactly the runs whose thread has got that far (`Listed`). That the
  page finds its run follows from the last, that the status is never another run's from the first two. For the demo,
  `OneAtATime`: whoever starts a retraining or runs one has set the status, and is alone; `Agrees`: a row and the API
  differ only between an answer and the update, unless two judgements overlapped.
* `LabelsAreKept`: whoever is at the file holds its lock (`FileIsLocked`), and what the file, or a caller that is
  rewriting it, holds is all the labels or at least as many of the newest as a truncation keeps (`NewestHeld`), unless a
  process died between the two steps. That the labels are in order needs that a new one is written under the lock.
* `UnmuteIsComplete` and `OthersAreKept` (an action property): what a handler still has to expire covers what is active
  of what it was asked for, and holds only the panel's own of that scope. A step of anyone else keeps this, because
  silences only end.
* `ServicesRunAsAsked`: a layer that was stopped is down, no script is starting it and no supervisor wants it
  (`StoppedIsDown`); the log is the newest of the actions entered and as many too many as there are requests waiting to
  trim it (`IsNewest`). The tests that stop services have stopped no others, and in the `finally` have started those they
  have passed (`Restarted`); a time they noted is of an alert that came or went (`Happened`).
* `NetworkStaysInOrder`: no two containers have the cluster's address (`OneHolder`), and what the script has read of it is
  still so when it acts, if nobody attached a container meanwhile (`StillFree`).
* `TypeCorrect` is the conjunction of the parts' types; those of the labels and the actions need that no more calls are
  under way than labels or actions remain.

The assumptions are that there are finitely many handlers, processes and threads, that "none" is not a container's name,
and that a truncation keeps no more lines than the limit.

`PredictionLogProofs`, for any pods, threads, ids and verdicts: `TypeCorrect`, `OwnVerdictHolds` and `Refinement`.
The invariant says what a request has behind it at each step (`Served`): before its statement no time stamp, between
update and read the lock of a stored row, at the answer a row that is stored or a verdict that was written. The clock
stays in its bound because verdicts without a stamp are counted with those that have one. The refinement goes step by
step: an insert, a commit and an answer are steps of `FeedbackStore`, everything else leaves its variables alone.

`ServingMetricsProofs`, for any replicas, machines, handlers and causes: `OneCauseHolds` and `CauseGoesWithState`.
Between the removal of a machine's cause and the addition of the new one the handler holds the replica's lock, so
nobody else is between the two; and a handler that is alone with a machine's reading has set its gauge to what the
cause will say, unless the readings were mixed. `TypeCorrect` holds with it: no reading is published that was not
scored, which is what bounds the times.

`ModelPipelineProofs`, for any files, thresholds, scores, models and commits. `TypeCorrect` and `ReplacedWasCompared`
hold for any number of tools at once: as long as main is where the job began, the model it compares with, or has
compared with, is the one on main (`Compared`), and git pushes from nowhere else. `ServedIsApproved` and
`ServedIsEvaluated` assume `OneShell`, one tool at a time on the VM. Their invariant has two halves. A manifest,
wherever it is, is `Honest`: the files its threshold was selected for were approved, and if they are its artifacts its
evaluation is theirs; a gate that finds selection, artifacts and files equal therefore lets only evaluated and approved
files through, whatever mixture a tool that was killed left behind. And a tool between two steps is `UnderWay`: what it
chose, guarded and evaluated is the candidate the clone still has. Without `OneShell` the second half is false.

`ScoringProofs` proves every property of `Scoring`: `TypeCorrect`, `ServedAsJudged` (`AsEvaluated`), `PastIsWhole`
(`EpisodesAreWhole`), `FleetIsSeen` (`ViewsAgree`) and `LabelsMeanIt` (`LabelsAreTrue`). The parts share no variable, so
each has an inductive invariant of its own, `ScoringInv` is their conjunction, and `PartsStep` says that a step of
`Scoring` is a step of a part or leaves it alone.

* `Verdicts`, for any causes, thresholds, probabilities and chunk: the first place where a row is largest is the place the
  scalar loop ends with (`BestIsArgMax`), so the two votes agree row by row, ties included (`RowsAsBatch`). The counts of an
  evaluation are, after each chunk, the sizes of the sets of readings so far (`VerdictsInv`): a chunk adds disjoint
  sets (`AccumulatedIs`, `TallyAdds`), and none of its rows is counted twice or left out.
* `Features`, for any telemetry, window and training file: an entry of the log keeps what it was made of, a machine has
  one baseline in a window (`OneBaseline`), and the rows of a full window are the last of the file's (`HistoriesAre`).
* `FleetView`, for any fleet and shares: every dependent machine has a router of the fleet (`DependsOnARouter`), both
  forms of the rule give a state to each combination of counts (`OneRule`), and what is ranked was ranked of some batch
  of machines (`ViewInv`). `UnreachableIsSilent`, an action property, holds because a page marks as stale only machines
  that were silent and whose verdict it had read.
* `DemoBridge`: at each step of a cycle, which gauges are already this cycle's (`BridgeInv`). `FeedbackDataset`: of the
  files that hold a prediction, the newest holds what was last exported of it (`DatasetInv`).
* `Review`: what is sampled is a window of the file (`WindowOK`), and a label is that of the sample or the replayed row
  that the prediction of its id was made of, also while it is on its way in a tab (`TabOK`) or an agent (`OwedOK`).
* `LiveCheck`: every label is of a prediction of its machine, older by `MaxDelay` at most (`FlagOK`), and each one that was
  there when the script began is counted, or its time is in a slice still to be walked, unless a page was cut off
  (`CheckOK`).
* `Episodes`, for any trace, period, limit and step: by each time, `Loop` has the runs that have ended and the one that
  goes on. From it come that an episode is a maximal run, that two of one machine are apart, that the time given to
  its causes is less than a step longer than it is, and that the totals count each anomalous sample once.

The theorems about `MachineAgent`, which makes the histories that `Features` are computed of, are there as well:
`AgentTyped` (`AgentTypeOK`), `HistoryIsGenuine` and `HistoryIsGiven`, for any window, rows and outages. What is kept is
the longest run of reachable rows ending at the last row, up to the window (`AgentRun`): being a run gives the second
theorem, being the longest the third. The names of `MachineAgent` are apart from those of `Scoring` for this.

The library's induction theorems take an operator, which the provers cannot instantiate. Here induction is done over sets: a
nonempty set of numbers has a least element, by the well-foundedness of `<` (`LeastOne`), so a set that
holds 0 and with each number the next holds all (`Induction`). That is enough for `Loop`, for the sums of the History tab
and for the counts.

The assumptions of `Scoring` are those of its parts: causes are names other than the reserved ones, the votes of the
safety net and of nothing among them; telemetry, fleet and files are sequences of rows; the routers are of the fleet;
shares are fractions of natural numbers; machines are finitely many; the bounds and the limits are numbers, those that
divide or limit a list positive; the longest period lies within the scrapes there are; an answer takes no longer than
what the script adds around the labels.

Model-checked only are the liveness properties: `OutageFollowed`, `RecoversByItself`, `Settles`, `KeepsReporting` and
`TrainingsEnd`. Liveness under fairness and ENABLED are out of the prover's reach. Every safety property of the passing
runs, invariant or action property, is stated by a theorem; no module here declares a recursive operator.

## Plan

What is left, in this order:

1. What the parts modelled in part still leave out: the replicas and the autoscaler in `Delivery`, the smoke scope and
   the manifest's history in `ModelPipeline`, the comparison with production in `TrainingConsole`, the readers of the
   labels in `DemoLabels`, the age limit of the fresh verdict (300 s, `alert_rules.yml:35`) in `ServingMetrics`, the late
   effects of commands that timed out in `PanelLayers`.
2. Two runs of the recovery at once, and pods that log before the restore: hazards whose outcome the code does not
   promise, and which need a statement of what it should.

## Not modelled

* List alerts (`alert_rules.yml` beside the two freshest-replica rules): expressions and `for` timers that Prometheus
  evaluates; there is no code of the repository that runs them.
* Data generators and loaders: seeded random data written once, from top to bottom.
* Earlier trainers and benchmarks: straight-line scripts kept as a record; the served models come from
  `train_production.py`.
* Exporters other than the replay's: sources of metrics that keep no state others depend on.
* Dashboards, alert routing, provisioning: configuration, and set-up done once by one operator; what Grafana, Jenkins,
  Minikube and Ansible do inside is theirs.
* Live tests and reports other than the two that stop services and the check of the alerts: they observe a running system, and what they look for
  is stated as properties of the parts.
* What a call of the panel does after the panel gave up on it: a `systemctl` or `docker` command that times out has had its
  effect by then, or has none (`PanelLayers`).
* Throughout: numbers that no decision compares (z-scores, probabilities and metrics appear as what they are computed
  from, or as small integers where they are compared), rounding and the width of floats, wording, layout, input
  validation and the tokens of the user interface.
