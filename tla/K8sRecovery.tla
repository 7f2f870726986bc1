----------------------------- MODULE K8sRecovery -----------------------------
(***************************************************************************)
(* scripts/k8s_recover.sh: the cluster is started gently or else deleted   *)
(* and rebuilt, and the operators' verdicts, which live in the PostgreSQL  *)
(* of that cluster, are carried over in a file.  The control panel starts  *)
(* the script in the background (api/app.py, _start_k8s) without asking    *)
(* whether one is running.                                                 *)
(*                                                                         *)
(* A file is an inode under a name: > truncates the inode of an existing   *)
(* name, mv and rm change names only, an open file stays open.  Jenkins'   *)
(* network address is in ClusterNetwork; file permissions and the image    *)
(* are left out.                                                           *)
(***************************************************************************)
EXTENDS Naturals

CONSTANTS
    Row,    \* predictions: insert_prediction draws a fresh UUID for each
    Run,    \* executions of the script that may be under way at once
    Inode   \* enough for both names and every open file

Missing == "missing"

ASSUME ConstantsAssumption == Missing \notin Inode

FileName == {"new", "backup"}    \* $FEEDBACK_BACKUP.new and $FEEDBACK_BACKUP
Window == {"check", "keep", "discard", "delete", "fresh", "apply", "restore", "wait", "count", "copy"}
Step == Window \cup {"off", "gentle", "ready", "open", "dump", "final"}

VARIABLES
    cluster,       \* "none", "stopped" or "running"
    deployed,      \* the manifests are applied
    answers,       \* PostgreSQL answers
    table,         \* the predictions table exists
    rows, judged,  \* its rows, and those with a verdict
    made,          \* rows ever inserted
    name, content, \* the two files
    pc, fd,        \* each run: its next step, its open dump
    dump,          \* ghost: what each run's dump read
    owed,          \* ghost: verdicts given, but those that were only in a
                   \* database no dump could read
    served, failed \* ghosts: between a dump and its restore, the pods logged
                   \* something; a step failed or the script died

database == <<cluster, deployed, answers, table, rows, judged, made>>
files == <<name, content>>
ghosts == <<dump, owed, served, failed>>
vars == <<database, files, pc, fd, ghosts>>

ContentOf(file) == IF name[file] = Missing THEN {} ELSE content[name[file]]
Saved == ContentOf("backup")
Reachable == cluster = "running" /\ deployed /\ answers
Readable == Reachable /\ table
InWindow == \E x \in Run : pc[x] \in Window

TypeOK ==
    /\ cluster \in {"none", "stopped", "running"}
    /\ deployed \in BOOLEAN /\ answers \in BOOLEAN /\ table \in BOOLEAN
    /\ judged \subseteq rows /\ rows \subseteq made /\ made \subseteq Row
    /\ name \in [FileName -> Inode \cup {Missing}]
    /\ content \in [Inode -> SUBSET Row]
    /\ pc \in [Run -> Step]
    /\ fd \in [Run -> Inode \cup {Missing}]
    /\ dump \in [Run -> SUBSET Row]
    /\ owed \subseteq made
    /\ served \in BOOLEAN /\ failed \in BOOLEAN
    /\ cluster = "none" => ~deployed /\ ~table /\ rows = {}

Init ==
    /\ cluster = "running" /\ deployed = TRUE /\ answers = TRUE /\ table = TRUE
    /\ rows = {} /\ judged = {} /\ made = {}
    /\ name = [f \in FileName |-> Missing]
    /\ content = [i \in Inode |-> {}]
    /\ pc = [x \in Run |-> "off"]
    /\ fd = [x \in Run |-> Missing]
    /\ dump = [x \in Run |-> {}]
    /\ owed = {} /\ served = FALSE /\ failed = FALSE

(***************************************************************************)
(* The cluster.                                                            *)
(***************************************************************************)

\* A pod logs something.
Serve == Readable /\ served' = (served \/ InWindow)

\* Something goes wrong.
Fail == failed' = (failed \/ InWindow)

\* insert_prediction
Predict ==
    /\ Serve
    /\ \E r \in Row \ made : made' = made \cup {r} /\ rows' = rows \cup {r}
    /\ UNCHANGED <<cluster, deployed, answers, table, judged, files, pc, fd, dump, owed, failed>>

\* update_verdict
Judge ==
    /\ Serve
    /\ \E r \in rows \ judged : judged' = judged \cup {r} /\ owed' = owed \cup {r}
    /\ UNCHANGED <<cluster, deployed, answers, table, rows, made, files, pc, fd, dump, failed>>

\* init_db, when a pod starts: it serves no prediction before.
CreateTable ==
    /\ Reachable /\ ~table
    /\ table' = TRUE
    /\ UNCHANGED <<cluster, deployed, answers, rows, judged, made, files, pc, fd, ghosts>>

PostgresAnswers ==
    /\ cluster = "running" /\ deployed
    /\ answers' = ~answers
    /\ IF answers THEN Fail ELSE UNCHANGED failed
    /\ UNCHANGED <<cluster, deployed, table, rows, judged, made, files, pc, fd, dump, owed, served>>

ClusterStops ==
    /\ cluster = "running"
    /\ cluster' = "stopped"
    /\ answers' = FALSE
    /\ Fail
    /\ UNCHANGED <<deployed, table, rows, judged, made, files, pc, fd, dump, owed, served>>

(***************************************************************************)
(* The script.                                                             *)
(***************************************************************************)

Goto(x, step) == pc' = [pc EXCEPT ![x] = step]

Begin(x) ==
    /\ pc[x] = "off"
    /\ Goto(x, "gentle")
    /\ UNCHANGED <<database, files, fd, ghosts>>

\* "minikube start", on the cluster there is or a new one: the nodes respond, or
\* they do not, or it fails.
GentleStart(x) ==
    /\ pc[x] = "gentle"
    /\ \/ cluster' = "running" /\ Goto(x, "ready")
       \/ cluster' \in {cluster, "running"} /\ Goto(x, "open")
    /\ UNCHANGED <<deployed, answers, table, rows, judged, made, files, fd, ghosts>>

\* The manifests are applied and the pods become ready, which ends the script, or
\* do not.
GentleReady(x) ==
    /\ pc[x] = "ready"
    /\ deployed' = (cluster = "running")
    /\ \/ cluster = "running" /\ Goto(x, "off")
       \/ Goto(x, "open")
    /\ UNCHANGED <<cluster, answers, table, rows, judged, made, files, fd, ghosts>>

\* backup_feedback opens the new file: > creates or truncates it.
OpenNew(x) ==
    /\ pc[x] = "open"
    /\ \E i \in Inode :
         /\ IF name["new"] = Missing
            THEN i \notin {name["backup"]} \cup {fd[y] : y \in Run}
            ELSE i = name["new"]
         /\ name' = [name EXCEPT !["new"] = i]
         /\ content' = [content EXCEPT ![i] = {}]
         /\ fd' = [fd EXCEPT ![x] = i]
    /\ dump' = [dump EXCEPT ![x] = {}]
    /\ Goto(x, "dump")
    /\ UNCHANGED <<database, owed, served, failed>>

\* A plausible slip: verdicts that were saved before are not dumped again.
DumpUnsaved(x) ==
    /\ pc[x] = "dump"
    /\ fd' = [fd EXCEPT ![x] = Missing]
    /\ IF Readable
       THEN /\ content' = [content EXCEPT ![fd[x]] = judged \ Saved]
            /\ dump' = [dump EXCEPT ![x] = judged \ Saved]
            /\ Goto(x, "check")
            /\ UNCHANGED owed
       ELSE /\ owed' = owed \ (judged \ Saved)
            /\ Goto(x, "discard")
            /\ UNCHANGED <<content, dump>>
    /\ UNCHANGED <<database, name, served, failed>>

\* COPY (... operator_verdict IS NOT NULL) TO STDOUT
Dump(x) ==
    /\ pc[x] = "dump"
    /\ fd' = [fd EXCEPT ![x] = Missing]
    /\ IF Readable
       THEN /\ content' = [content EXCEPT ![fd[x]] = judged]
            /\ dump' = [dump EXCEPT ![x] = judged]
            /\ Goto(x, "check")
            /\ UNCHANGED owed
       ELSE /\ owed' = owed \ (judged \ Saved)
            /\ Goto(x, "discard")
            /\ UNCHANGED <<content, dump>>
    /\ UNCHANGED <<database, name, served, failed>>

\* A plausible slip: an empty dump is kept like any other.
CheckNothing(x) ==
    /\ pc[x] = "check"
    /\ Goto(x, "keep")
    /\ UNCHANGED <<database, files, fd, ghosts>>

\* [ -s "$tmp" ]
CheckNew(x) ==
    /\ pc[x] = "check"
    /\ Goto(x, IF ContentOf("new") # {} THEN "keep" ELSE "discard")
    /\ UNCHANGED <<database, files, fd, ghosts>>

\* mv "$tmp" "$FEEDBACK_BACKUP"
KeepNew(x) ==
    /\ pc[x] = "keep"
    /\ name' = IF name["new"] = Missing THEN name
               ELSE [name EXCEPT !["backup"] = name["new"], !["new"] = Missing]
    /\ Goto(x, "delete")
    /\ UNCHANGED <<database, content, fd, ghosts>>

\* rm -f "$tmp"
DiscardNew(x) ==
    /\ pc[x] = "discard"
    /\ name' = [name EXCEPT !["new"] = Missing]
    /\ Goto(x, "delete")
    /\ UNCHANGED <<database, content, fd, ghosts>>

\* A plausible slip: the volume outlives the cluster.
DeleteKeepsVolume(x) ==
    /\ pc[x] = "delete"
    /\ cluster' = "none"
    /\ deployed' = FALSE /\ answers' = FALSE
    /\ Goto(x, "fresh")
    /\ UNCHANGED <<table, rows, judged, made, files, fd, ghosts>>

\* minikube delete, with the container and the volume.
DeleteCluster(x) ==
    /\ pc[x] = "delete"
    /\ cluster' = "none"
    /\ deployed' = FALSE /\ answers' = FALSE /\ table' = FALSE
    /\ rows' = {} /\ judged' = {}
    /\ Goto(x, "fresh")
    /\ UNCHANGED <<made, files, fd, ghosts>>

FreshStart(x) ==
    /\ pc[x] = "fresh"
    /\ \/ cluster' = "running" /\ Goto(x, "apply") /\ UNCHANGED failed
       \/ UNCHANGED cluster /\ Goto(x, "off") /\ Fail
    /\ UNCHANGED <<deployed, answers, table, rows, judged, made, files, fd, dump, owed, served>>

ApplyManifests(x) ==
    /\ pc[x] = "apply"
    /\ deployed' = (cluster = "running")
    /\ Goto(x, "restore")
    /\ UNCHANGED <<cluster, answers, table, rows, judged, made, files, fd, ghosts>>

\* restore_feedback has nothing to do without a backup.
RestoreBegins(x) ==
    /\ pc[x] = "restore"
    /\ Goto(x, IF Saved = {} THEN "final" ELSE "wait")
    /\ UNCHANGED <<database, files, fd, ghosts>>

\* The sixty polls end with the table there, or without it.
RestoreWaits(x) ==
    /\ pc[x] = "wait"
    /\ IF Readable THEN UNCHANGED failed ELSE Fail
    /\ Goto(x, "count")
    /\ UNCHANGED <<database, files, fd, dump, owed, served>>

\* Only an empty table is restored into.
RestoreCount(x) ==
    /\ pc[x] = "count"
    /\ Goto(x, IF Readable /\ rows = {} THEN "copy" ELSE "final")
    /\ UNCHANGED <<database, files, fd, ghosts>>

\* COPY predictions FROM STDIN, all of it or nothing.
RestoreCopy(x) ==
    /\ pc[x] = "copy"
    /\ IF Readable /\ Saved \cap rows = {}
       THEN rows' = rows \cup Saved /\ judged' = judged \cup Saved
       ELSE UNCHANGED <<rows, judged>>
    /\ Goto(x, "final")
    /\ UNCHANGED <<cluster, deployed, answers, table, made, files, fd, ghosts>>

\* The script waits for the pods and ends, whatever their state.
Finish(x) ==
    /\ pc[x] = "final"
    /\ Goto(x, "off")
    /\ UNCHANGED <<database, files, fd, ghosts>>

\* The script is killed: the machine or the control panel restarts.
Dies(x) ==
    /\ pc[x] # "off"
    /\ Fail
    /\ Goto(x, "off")
    /\ fd' = [fd EXCEPT ![x] = Missing]
    /\ UNCHANGED <<database, files, dump, owed, served>>

Cluster == Predict \/ Judge \/ CreateTable \/ PostgresAnswers \/ ClusterStops

Script(x) ==
    \/ Begin(x) \/ GentleStart(x) \/ GentleReady(x)
    \/ OpenNew(x) \/ Dump(x) \/ CheckNew(x) \/ KeepNew(x) \/ DiscardNew(x)
    \/ DeleteCluster(x) \/ FreshStart(x) \/ ApplyManifests(x)
    \/ RestoreBegins(x) \/ RestoreWaits(x) \/ RestoreCount(x) \/ RestoreCopy(x)
    \/ Finish(x) \/ Dies(x)

Next == Cluster \/ \E x \in Run : Script(x)

Spec == Init /\ [][Next]_vars

(***************************************************************************)
(* Properties.                                                             *)
(***************************************************************************)

Kept == owed \subseteq judged \cup Saved
Restored == \A x \in Run : pc[x] = "final" => Saved \subseteq judged

\* As long as no pod logs anything and nothing fails between a dump and its
\* restore, operator feedback survives cluster rebuilds: every verdict given is in
\* the database or in the saved file, but those that only a database no dump could
\* read ever held (backup_feedback and restore_feedback around the delete).
FeedbackSurvives == ~served /\ ~failed => Kept

\* Under the same conditions the saved verdicts are in the database of the rebuilt
\* cluster when the script has restored them.
PutBack == ~served /\ ~failed => Restored

\* No verdict is lost in a rebuild, and what was saved is put back, as long as nothing
\* fails and no pod logs anything meanwhile (k8s_recover.sh).
VerdictsKept == FeedbackSurvives /\ PutBack

\* What the comment on the backup says, "operator feedback survives a cluster
\* rebuild", whatever fails on the way.
SurvivesFailures == ~served => Kept

\* The dump only replaces the saved file when it is not empty, and then by all
\* of it, so a wedged cluster can never overwrite a good backup.
GoodBackupKept ==
    [][Saved' # Saved => \E x \in Run : dump[x] # {} /\ Saved' = dump[x]]_vars
=============================================================================
