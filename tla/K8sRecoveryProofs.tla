-------------------------- MODULE K8sRecoveryProofs --------------------------
(***************************************************************************)
(* Proofs about K8sRecovery: type correctness, and that one run at a time  *)
(* never replaces the saved file but by a whole dump.                      *)
(***************************************************************************)
EXTENDS K8sRecovery, TLAPS

(***************************************************************************)
(* Type correctness, in three parts.  Nothing but rows that were made is   *)
(* ever in a file, or a restore could invent some.                         *)
(***************************************************************************)

DatabaseOK ==
    /\ cluster \in {"none", "stopped", "running"}
    /\ deployed \in BOOLEAN /\ answers \in BOOLEAN /\ table \in BOOLEAN
    /\ judged \subseteq rows /\ rows \subseteq made /\ made \subseteq Row
    /\ owed \subseteq made /\ served \in BOOLEAN /\ failed \in BOOLEAN
    /\ cluster = "none" => ~deployed /\ ~table /\ rows = {}

FilesOK ==
    /\ name \in [FileName -> Inode \cup {Missing}]
    /\ content \in [Inode -> SUBSET made]

ScriptOK ==
    /\ pc \in [Run -> Step]
    /\ fd \in [Run -> Inode \cup {Missing}]
    /\ dump \in [Run -> SUBSET made]

TypeInv == DatabaseOK /\ FilesOK /\ ScriptOK

LEMMA SavedWasMade ==
    ASSUME TypeInv
    PROVE  Saved \subseteq made
BY DEF TypeInv, FilesOK, Saved, ContentOf, FileName

LEMMA InitTypeInv == Init => TypeInv
BY DEF Init, TypeInv, DatabaseOK, FilesOK, ScriptOK, Step, Window

LEMMA NextDatabaseOK ==
    ASSUME TypeInv, [Next]_vars
    PROVE  DatabaseOK'
<1>. USE DEF TypeInv, DatabaseOK
<1>1. CASE Predict
  BY <1>1 DEF Predict, files, database, ghosts, Serve, Readable, Reachable
<1>2. CASE Judge
  BY <1>2 DEF Judge, Serve, files, database, ghosts
<1>3. CASE CreateTable
  BY <1>3 DEF CreateTable, files, database, ghosts, Reachable
<1>4. CASE PostgresAnswers
  BY <1>4 DEF PostgresAnswers, Fail, files, database, ghosts
<1>5. CASE ClusterStops
  BY <1>5 DEF ClusterStops, Fail, files, database, ghosts
<1>6. ASSUME NEW x \in Run, Script(x)
     PROVE  DatabaseOK'
  <2>1. CASE Begin(x)
    BY <2>1 DEF Begin, Goto, files, database, ghosts
  <2>2. CASE GentleStart(x)
    BY <2>2 DEF GentleStart, Goto, files, database, ghosts
  <2>3. CASE GentleReady(x)
    BY <2>3 DEF GentleReady, Goto, files, database, ghosts
  <2>4. CASE OpenNew(x)
    BY <2>4 DEF OpenNew, Goto, files, database, ghosts
  <2>5. CASE Dump(x)
    BY <2>5 DEF Dump, Goto, files, database, ghosts
  <2>6. CASE CheckNew(x)
    BY <2>6 DEF CheckNew, Goto, files, database, ghosts
  <2>7. CASE KeepNew(x)
    BY <2>7 DEF KeepNew, Goto, files, database, ghosts, FileName
  <2>8. CASE DiscardNew(x)
    BY <2>8 DEF DiscardNew, Goto, files, database, ghosts
  <2>9. CASE DeleteCluster(x)
    BY <2>9 DEF DeleteCluster, Goto, files, database, ghosts
  <2>10. CASE FreshStart(x)
    BY <2>10 DEF FreshStart, Fail, Goto, files, database, ghosts
  <2>11. CASE ApplyManifests(x)
    BY <2>11 DEF ApplyManifests, Goto, files, database, ghosts
  <2>12. CASE RestoreBegins(x)
    BY <2>12 DEF RestoreBegins, Goto, files, database, ghosts
  <2>13. CASE RestoreWaits(x)
    BY <2>13 DEF RestoreWaits, Fail, Goto, files, database, ghosts
  <2>14. CASE RestoreCount(x)
    BY <2>14 DEF RestoreCount, Goto, files, database, ghosts
  <2>15. CASE RestoreCopy(x)
    BY <2>15, SavedWasMade DEF RestoreCopy, Goto, files, database, ghosts, Readable, Reachable
  <2>16. CASE Finish(x)
    BY <2>16 DEF Finish, Goto, files, database, ghosts
  <2>17. CASE Dies(x)
    BY <2>17 DEF Dies, Fail, Goto, files, database, ghosts
  <2>. QED BY <1>6, <2>1, <2>2, <2>3, <2>4, <2>5, <2>6, <2>7, <2>8, <2>9, <2>10, <2>11, <2>12, <2>13, <2>14, <2>15, <2>16, <2>17 DEF Script
<1>7. CASE UNCHANGED vars
  BY <1>7 DEF vars, files, database, ghosts
<1>. QED BY <1>1, <1>2, <1>3, <1>4, <1>5, <1>6, <1>7 DEF Next, Cluster

LEMMA NextFilesOK ==
    ASSUME TypeInv, [Next]_vars
    PROVE  FilesOK'
<1>. USE DEF TypeInv, FilesOK, DatabaseOK
<1>1. CASE Predict
  BY <1>1 DEF Predict, files, database, ghosts, Serve, Readable, Reachable
<1>2. CASE Judge
  BY <1>2 DEF Judge, Serve, files, database, ghosts
<1>3. CASE CreateTable
  BY <1>3 DEF CreateTable, files, database, ghosts, Reachable
<1>4. CASE PostgresAnswers
  BY <1>4 DEF PostgresAnswers, Fail, files, database, ghosts
<1>5. CASE ClusterStops
  BY <1>5 DEF ClusterStops, Fail, files, database, ghosts
<1>6. ASSUME NEW x \in Run, Script(x)
     PROVE  FilesOK'
  <2>1. CASE Begin(x)
    BY <2>1 DEF Begin, Goto, files, database, ghosts
  <2>2. CASE GentleStart(x)
    BY <2>2 DEF GentleStart, Goto, files, database, ghosts
  <2>3. CASE GentleReady(x)
    BY <2>3 DEF GentleReady, Goto, files, database, ghosts
  <2>4. CASE OpenNew(x)
    BY <2>4 DEF OpenNew, Goto, files, database, ghosts
  <2>5. CASE Dump(x)
    BY <2>5 DEF Dump, Goto, files, database, ghosts
  <2>6. CASE CheckNew(x)
    BY <2>6 DEF CheckNew, Goto, files, database, ghosts
  <2>7. CASE KeepNew(x)
    BY <2>7 DEF KeepNew, Goto, files, database, ghosts, FileName
  <2>8. CASE DiscardNew(x)
    BY <2>8 DEF DiscardNew, Goto, files, database, ghosts
  <2>9. CASE DeleteCluster(x)
    BY <2>9 DEF DeleteCluster, Goto, files, database, ghosts
  <2>10. CASE FreshStart(x)
    BY <2>10 DEF FreshStart, Fail, Goto, files, database, ghosts
  <2>11. CASE ApplyManifests(x)
    BY <2>11 DEF ApplyManifests, Goto, files, database, ghosts
  <2>12. CASE RestoreBegins(x)
    BY <2>12 DEF RestoreBegins, Goto, files, database, ghosts
  <2>13. CASE RestoreWaits(x)
    BY <2>13 DEF RestoreWaits, Fail, Goto, files, database, ghosts
  <2>14. CASE RestoreCount(x)
    BY <2>14 DEF RestoreCount, Goto, files, database, ghosts
  <2>15. CASE RestoreCopy(x)
    BY <2>15, SavedWasMade DEF RestoreCopy, Goto, files, database, ghosts, Readable, Reachable
  <2>16. CASE Finish(x)
    BY <2>16 DEF Finish, Goto, files, database, ghosts
  <2>17. CASE Dies(x)
    BY <2>17 DEF Dies, Fail, Goto, files, database, ghosts
  <2>. QED BY <1>6, <2>1, <2>2, <2>3, <2>4, <2>5, <2>6, <2>7, <2>8, <2>9, <2>10, <2>11, <2>12, <2>13, <2>14, <2>15, <2>16, <2>17 DEF Script
<1>7. CASE UNCHANGED vars
  BY <1>7 DEF vars, files, database, ghosts
<1>. QED BY <1>1, <1>2, <1>3, <1>4, <1>5, <1>6, <1>7 DEF Next, Cluster

LEMMA NextScriptOK ==
    ASSUME TypeInv, [Next]_vars
    PROVE  ScriptOK'
<1>. USE DEF TypeInv, ScriptOK, DatabaseOK, Step, Window
<1>1. CASE Predict
  BY <1>1 DEF Predict, files, database, ghosts, Serve, Readable, Reachable
<1>2. CASE Judge
  BY <1>2 DEF Judge, Serve, files, database, ghosts
<1>3. CASE CreateTable
  BY <1>3 DEF CreateTable, files, database, ghosts, Reachable
<1>4. CASE PostgresAnswers
  BY <1>4 DEF PostgresAnswers, Fail, files, database, ghosts
<1>5. CASE ClusterStops
  BY <1>5 DEF ClusterStops, Fail, files, database, ghosts
<1>6. ASSUME NEW x \in Run, Script(x)
     PROVE  ScriptOK'
  <2>1. CASE Begin(x)
    BY <2>1 DEF Begin, Goto, files, database, ghosts
  <2>2. CASE GentleStart(x)
    BY <2>2 DEF GentleStart, Goto, files, database, ghosts
  <2>3. CASE GentleReady(x)
    BY <2>3 DEF GentleReady, Goto, files, database, ghosts
  <2>4. CASE OpenNew(x)
    BY <2>4 DEF OpenNew, Goto, files, database, ghosts
  <2>5. CASE Dump(x)
    BY <2>5 DEF Dump, Goto, files, database, ghosts
  <2>6. CASE CheckNew(x)
    BY <2>6 DEF CheckNew, Goto, files, database, ghosts
  <2>7. CASE KeepNew(x)
    BY <2>7 DEF KeepNew, Goto, files, database, ghosts, FileName
  <2>8. CASE DiscardNew(x)
    BY <2>8 DEF DiscardNew, Goto, files, database, ghosts
  <2>9. CASE DeleteCluster(x)
    BY <2>9 DEF DeleteCluster, Goto, files, database, ghosts
  <2>10. CASE FreshStart(x)
    BY <2>10 DEF FreshStart, Fail, Goto, files, database, ghosts
  <2>11. CASE ApplyManifests(x)
    BY <2>11 DEF ApplyManifests, Goto, files, database, ghosts
  <2>12. CASE RestoreBegins(x)
    BY <2>12 DEF RestoreBegins, Goto, files, database, ghosts
  <2>13. CASE RestoreWaits(x)
    BY <2>13 DEF RestoreWaits, Fail, Goto, files, database, ghosts
  <2>14. CASE RestoreCount(x)
    BY <2>14 DEF RestoreCount, Goto, files, database, ghosts
  <2>15. CASE RestoreCopy(x)
    BY <2>15, SavedWasMade DEF RestoreCopy, Goto, files, database, ghosts, Readable, Reachable
  <2>16. CASE Finish(x)
    BY <2>16 DEF Finish, Goto, files, database, ghosts
  <2>17. CASE Dies(x)
    BY <2>17 DEF Dies, Fail, Goto, files, database, ghosts
  <2>. QED BY <1>6, <2>1, <2>2, <2>3, <2>4, <2>5, <2>6, <2>7, <2>8, <2>9, <2>10, <2>11, <2>12, <2>13, <2>14, <2>15, <2>16, <2>17 DEF Script
<1>7. CASE UNCHANGED vars
  BY <1>7 DEF vars, files, database, ghosts
<1>. QED BY <1>1, <1>2, <1>3, <1>4, <1>5, <1>6, <1>7 DEF Next, Cluster

\* Every state has values of the right types (the variables of the script and of
\* the cluster it works on).
THEOREM TypeCorrect == Spec => []TypeOK
<1>1. TypeInv => TypeOK
  BY DEF TypeInv, DatabaseOK, FilesOK, ScriptOK, TypeOK
<1>2. TypeInv /\ [Next]_vars => TypeInv'
  BY NextDatabaseOK, NextFilesOK, NextScriptOK DEF TypeInv
<1>. QED BY InitTypeInv, <1>1, <1>2, PTL DEF Spec

(***************************************************************************)
(* The saved file, when at most one run of the script is under way.  The   *)
(* new file is never the saved one, the run's open file is the new file,   *)
(* and once written it holds the dump until it is renamed.                 *)
(***************************************************************************)

OneRun == \A x, y \in Run : x = y

Apart == name["new"] # Missing => name["new"] # name["backup"]
Opened == \A x \in Run : pc[x] = "dump" => fd[x] = name["new"] /\ fd[x] # Missing
Written == \A x \in Run : pc[x] \in {"check", "keep"} => ContentOf("new") = dump[x]
Filled == \A x \in Run : pc[x] = "keep" => dump[x] # {}

DumpInv == Apart /\ Opened /\ Written /\ Filled

\* What a step may do to the saved file.
WholeDump == Saved' = Saved \/ \E x \in Run : dump[x] # {} /\ Saved' = dump[x]

\* The steps that leave the files and the dump alone, and go nowhere near them.
LEMMA OtherSteps ==
    ASSUME TypeInv, DumpInv, NEW x \in Run,
           UNCHANGED <<files, fd, dump>>,
           \E step \in Step \ {"dump", "check", "keep"} : Goto(x, step)
    PROVE  DumpInv' /\ WholeDump
<1>. USE DEF TypeInv, ScriptOK, DumpInv
<1>1. Apart' /\ WholeDump
  BY DEF Apart, WholeDump, Saved, ContentOf, files
<1>2. Opened'
  BY DEF Opened, Goto, files
<1>3. Written'
  BY DEF Written, ContentOf, Goto, files
<1>4. Filled'
  BY DEF Filled, Goto
<1>. QED BY <1>1, <1>2, <1>3, <1>4

LEMMA NoScriptStep ==
    ASSUME DumpInv, UNCHANGED <<files, pc, fd, dump>>
    PROVE  DumpInv' /\ WholeDump
BY DEF DumpInv, Apart, Opened, Written, Filled, WholeDump, Saved, ContentOf, files

\* One run: every step keeps DumpInv and the saved file, or replaces it by a dump.
LEMMA NextDumpInv ==
    ASSUME OneRun, TypeInv, DumpInv, [Next]_vars
    PROVE  DumpInv' /\ WholeDump
<1>. USE DEF TypeInv, FilesOK, ScriptOK, FileName
<1>1. CASE Cluster
  BY <1>1, NoScriptStep DEF Cluster, Predict, Judge, CreateTable, PostgresAnswers, ClusterStops, ghosts
<1>2. CASE UNCHANGED vars
  BY <1>2, NoScriptStep DEF vars, ghosts
<1>3. ASSUME NEW x \in Run, Script(x)
     PROVE  DumpInv' /\ WholeDump
  <2>1. CASE Begin(x)
    BY <2>1, OtherSteps DEF Begin, Goto, ghosts, Step, Window
  <2>2. CASE GentleStart(x)
    BY <2>2, OtherSteps DEF GentleStart, Goto, ghosts, Step, Window
  <2>3. CASE GentleReady(x)
    BY <2>3, OtherSteps DEF GentleReady, Goto, ghosts, Step, Window
  <2>4. CASE OpenNew(x)
    <3>. USE <2>4, ConstantsAssumption DEF OpenNew, DumpInv
    <3>1. Apart'
      BY DEF Apart, Opened, files
    <3>2. Opened'
      BY DEF Opened, OneRun, Goto, files, Apart
    <3>3. Written'
      BY DEF Written, Opened, ContentOf, OneRun, Goto, files
    <3>4. Filled'
      BY DEF Filled, Written, ContentOf, OneRun, Goto, files
    <3>5. WholeDump
      BY DEF WholeDump, Saved, ContentOf, Apart, Opened, Written, Filled, files
    <3>. QED BY <3>1, <3>2, <3>3, <3>4, <3>5
  <2>5. CASE Dump(x)
    <3>. USE <2>5, ConstantsAssumption DEF Dump, DumpInv
    <3>1. Apart'
      BY DEF Apart, Opened, files
    <3>2. Opened'
      BY DEF Opened, OneRun, Goto, files, Apart
    <3>3. Written'
      BY DEF Written, Opened, ContentOf, OneRun, Goto, files
    <3>4. Filled'
      BY DEF Filled, Written, ContentOf, OneRun, Goto, files
    <3>5. WholeDump
      BY DEF WholeDump, Saved, ContentOf, Apart, Opened, Written, Filled, files
    <3>. QED BY <3>1, <3>2, <3>3, <3>4, <3>5
  <2>6. CASE CheckNew(x)
    <3>. USE <2>6, ConstantsAssumption DEF CheckNew, ghosts, DumpInv
    <3>1. Apart'
      BY DEF Apart, Opened, files
    <3>2. Opened'
      BY DEF Opened, OneRun, Goto, files, Apart
    <3>3. Written'
      BY DEF Written, Opened, ContentOf, OneRun, Goto, files
    <3>4. Filled'
      BY DEF Filled, Written, ContentOf, OneRun, Goto, files
    <3>5. WholeDump
      BY DEF WholeDump, Saved, ContentOf, Apart, Opened, Written, Filled, files
    <3>. QED BY <3>1, <3>2, <3>3, <3>4, <3>5
  <2>7. CASE KeepNew(x)
    <3>. USE <2>7, ConstantsAssumption DEF KeepNew, ghosts, DumpInv
    <3>1. Apart'
      BY DEF Apart, Opened, files
    <3>2. Opened'
      BY DEF Opened, OneRun, Goto, files, Apart
    <3>3. Written'
      BY DEF Written, Opened, ContentOf, OneRun, Goto, files
    <3>4. Filled'
      BY DEF Filled, Written, ContentOf, OneRun, Goto, files
    <3>5. WholeDump
      BY DEF WholeDump, Saved, ContentOf, Apart, Opened, Written, Filled, files
    <3>. QED BY <3>1, <3>2, <3>3, <3>4, <3>5
  <2>8. CASE DiscardNew(x)
    <3>. USE <2>8, ConstantsAssumption DEF DiscardNew, ghosts, DumpInv
    <3>1. Apart'
      BY DEF Apart, Opened, files
    <3>2. Opened'
      BY DEF Opened, OneRun, Goto, files, Apart
    <3>3. Written'
      BY DEF Written, Opened, ContentOf, OneRun, Goto, files
    <3>4. Filled'
      BY DEF Filled, Written, ContentOf, OneRun, Goto, files
    <3>5. WholeDump
      BY DEF WholeDump, Saved, ContentOf, Apart, Opened, Written, Filled, files
    <3>. QED BY <3>1, <3>2, <3>3, <3>4, <3>5
  <2>9. CASE DeleteCluster(x)
    BY <2>9, OtherSteps DEF DeleteCluster, Goto, ghosts, Step, Window
  <2>10. CASE FreshStart(x)
    BY <2>10, OtherSteps DEF FreshStart, Goto, ghosts, Step, Window
  <2>11. CASE ApplyManifests(x)
    BY <2>11, OtherSteps DEF ApplyManifests, Goto, ghosts, Step, Window
  <2>12. CASE RestoreBegins(x)
    BY <2>12, OtherSteps DEF RestoreBegins, Goto, ghosts, Step, Window
  <2>13. CASE RestoreWaits(x)
    BY <2>13, OtherSteps DEF RestoreWaits, Goto, ghosts, Step, Window
  <2>14. CASE RestoreCount(x)
    BY <2>14, OtherSteps DEF RestoreCount, Goto, ghosts, Step, Window
  <2>15. CASE RestoreCopy(x)
    BY <2>15, OtherSteps DEF RestoreCopy, Goto, ghosts, Step, Window
  <2>16. CASE Finish(x)
    BY <2>16, OtherSteps DEF Finish, Goto, ghosts, Step, Window
  <2>17. CASE Dies(x)
    <3>. USE <2>17, ConstantsAssumption DEF Dies, DumpInv
    <3>1. Apart'
      BY DEF Apart, Opened, files
    <3>2. Opened'
      BY DEF Opened, OneRun, Goto, files, Apart
    <3>3. Written'
      BY DEF Written, Opened, ContentOf, OneRun, Goto, files
    <3>4. Filled'
      BY DEF Filled, Written, ContentOf, OneRun, Goto, files
    <3>5. WholeDump
      BY DEF WholeDump, Saved, ContentOf, Apart, Opened, Written, Filled, files
    <3>. QED BY <3>1, <3>2, <3>3, <3>4, <3>5
  <2>. QED BY <1>3, <2>1, <2>2, <2>3, <2>4, <2>5, <2>6, <2>7, <2>8, <2>9, <2>10, <2>11, <2>12, <2>13, <2>14, <2>15, <2>16, <2>17 DEF Script
<1>. QED BY <1>1, <1>2, <1>3 DEF Next

\* As long as the script is not started a second time while it runs, the saved file
\* is only ever replaced by the whole of a non-empty dump, whatever fails and
\* whatever the pods do meanwhile (backup_feedback).
THEOREM SavedFileKept ==
    ASSUME OneRun
    PROVE  Spec => GoodBackupKept
<1>1. Init => TypeInv /\ DumpInv
  BY InitTypeInv DEF Init, DumpInv, Apart, Opened, Written, Filled, FileName
<1>2. TypeInv /\ DumpInv /\ [Next]_vars => (TypeInv /\ DumpInv)'
  BY OneRun, NextDumpInv, NextDatabaseOK, NextFilesOK, NextScriptOK DEF TypeInv
<1>3. TypeInv /\ DumpInv /\ [Next]_vars
        => [Saved' # Saved => \E x \in Run : dump[x] # {} /\ Saved' = dump[x]]_vars
  BY OneRun, NextDumpInv DEF WholeDump
<1>. QED BY <1>1, <1>2, <1>3, PTL DEF Spec, GoodBackupKept

(***************************************************************************)
(* No verdict is lost in a rebuild.  FeedbackSurvives is not inductive: a  *)
(* dump replaces the saved file, so whatever that file alone still holds   *)
(* would be lost with it.  The invariant says that outside of a rebuild    *)
(* the saved verdicts are in the database, that from the dump on it has    *)
(* what was dumped, that from there to the restore the saved file covers   *)
(* what is owed, and that the restore finds an empty table that answers.   *)
(***************************************************************************)

Gone == {"fresh", "apply", "restore", "wait", "count", "copy"}
Undisturbed == ~served /\ ~failed

InPlace == (\A x \in Run : pc[x] \notin Gone) => Saved \subseteq judged /\ owed \subseteq judged
Dumped == \A x \in Run : pc[x] \in {"check", "keep"} => dump[x] = judged
Covered == \A x \in Run : pc[x] \in Gone \cup {"discard", "delete"} => owed \subseteq Saved
Emptied == \A x \in Run : pc[x] \in Gone => rows = {}
Answering == \A x \in Run : pc[x] \in {"count", "copy"} => Readable

Carried == InPlace /\ Dumped /\ Covered /\ Emptied /\ Answering
CarryInv == Undisturbed => Carried

\* What has happened in a rebuild stays known.
LEMMA DisturbanceStays ==
    ASSUME TypeInv, [Next]_vars, Undisturbed'
    PROVE  Undisturbed
<1>. USE DEF TypeInv, DatabaseOK, InWindow
<1>1. CASE Cluster
  BY <1>1 DEF Undisturbed, Cluster, Predict, Judge, CreateTable, PostgresAnswers, ClusterStops, Serve, Fail, ghosts
<1>2. ASSUME NEW x \in Run, Script(x) PROVE Undisturbed
  BY <1>2 DEF Undisturbed, Script, Begin, GentleStart, GentleReady, OpenNew, Dump, CheckNew, KeepNew, DiscardNew,
              DeleteCluster, FreshStart, ApplyManifests, RestoreBegins, RestoreWaits, RestoreCount, RestoreCopy,
              Finish, Dies, Fail, ghosts
<1>3. CASE UNCHANGED vars
  BY <1>3 DEF Undisturbed, vars, ghosts
<1>. QED BY <1>1, <1>2, <1>3 DEF Next

\* Only a rename replaces the saved file.
LEMMA OnlyKeepReplaces ==
    ASSUME TypeInv, DumpInv, OneRun, NEW x \in Run, Script(x), ~KeepNew(x)
    PROVE  Saved' = Saved
<1>. USE DEF TypeInv, FilesOK, ScriptOK, FileName, DumpInv, Saved, ContentOf
<1>1. CASE OpenNew(x)
  BY <1>1, ConstantsAssumption DEF OpenNew, Apart
<1>2. CASE Dump(x)
  BY <1>2, ConstantsAssumption DEF Dump, Apart, Opened
<1>3. CASE DiscardNew(x)
  BY <1>3 DEF DiscardNew
<1>4. CASE UNCHANGED files
  BY <1>4 DEF files
<1>. QED
  BY <1>1, <1>2, <1>3, <1>4 DEF Script, Begin, GentleStart, GentleReady, CheckNew, DeleteCluster, FreshStart,
      ApplyManifests, RestoreBegins, RestoreWaits, RestoreCount, RestoreCopy, Finish, Dies, ghosts

\* What the cluster does outside of a rebuild: a verdict may be added.
LEMMA ClusterCarries ==
    ASSUME TypeInv, Carried, Cluster, Undisturbed'
    PROVE  Carried'
<1>. USE DEF Carried, TypeInv, DatabaseOK, Gone
<1>1. CASE Predict \/ Judge
  <2>1. ~InWindow
    BY <1>1 DEF Predict, Judge, Serve, Undisturbed
  <2>2. UNCHANGED <<files, pc, dump>> /\ judged \subseteq judged' /\ owed' \subseteq owed \cup judged'
    BY <1>1 DEF Predict, Judge
  <2>3. \A x \in Run : pc[x] \notin Window
    BY <2>1 DEF InWindow
  <2>4. InPlace'
    BY <2>2, <2>3 DEF InPlace, Window, Saved, ContentOf, files
  <2>5. Dumped' /\ Covered' /\ Emptied' /\ Answering'
    BY <2>2, <2>3 DEF Dumped, Covered, Emptied, Answering, Window
  <2>. QED BY <2>4, <2>5
<1>2. CASE CreateTable
  BY <1>2 DEF CreateTable, InPlace, Dumped, Covered, Emptied, Answering, Readable, Reachable, Saved, ContentOf, files, ghosts
<1>3. CASE PostgresAnswers
  <2>1. answers => \A x \in Run : pc[x] \notin Window
    BY <1>3 DEF PostgresAnswers, Fail, Undisturbed, InWindow
  <2>2. Answering'
    BY <1>3, <2>1 DEF PostgresAnswers, Answering, Readable, Reachable, Window
  <2>. QED BY <1>3, <2>2 DEF PostgresAnswers, InPlace, Dumped, Covered, Emptied, Saved, ContentOf, files
<1>4. CASE ClusterStops
  <2>1. \A x \in Run : pc[x] \notin Window
    BY <1>4 DEF ClusterStops, Fail, Undisturbed, InWindow
  <2>2. Answering'
    BY <1>4, <2>1 DEF ClusterStops, Answering, Window
  <2>. QED BY <1>4, <2>2 DEF ClusterStops, InPlace, Dumped, Covered, Emptied, Saved, ContentOf, files
<1>. QED BY <1>1, <1>2, <1>3, <1>4 DEF Cluster

\* Each step of the one run there is.
LEMMA ScriptCarries ==
    ASSUME OneRun, TypeInv, DumpInv, Carried, NEW x \in Run, Script(x), Undisturbed'
    PROVE  Carried'
<1>. USE DEF TypeInv, DatabaseOK, ScriptOK, OneRun, Carried, Gone, Goto
<1>. DEFINE Same == Saved' = Saved
<1>1. Same \/ KeepNew(x)
  BY OnlyKeepReplaces
<1>2. CASE Begin(x)
  BY <1>1, <1>2 DEF Begin, KeepNew, InPlace, Dumped, Covered, Emptied, Answering, database, ghosts, Readable, Reachable
<1>3. CASE GentleStart(x)
  BY <1>1, <1>3 DEF GentleStart, KeepNew, InPlace, Dumped, Covered, Emptied, Answering, database, ghosts, Readable, Reachable
<1>4. CASE GentleReady(x)
  BY <1>1, <1>4 DEF GentleReady, KeepNew, InPlace, Dumped, Covered, Emptied, Answering, database, ghosts, Readable, Reachable
<1>5. CASE OpenNew(x)
  BY <1>1, <1>5 DEF OpenNew, KeepNew, InPlace, Dumped, Covered, Emptied, Answering, database, Readable, Reachable
<1>6. CASE Dump(x)
  BY <1>1, <1>6 DEF Dump, KeepNew, InPlace, Dumped, Covered, Emptied, Answering, database, Readable, Reachable
<1>7. CASE CheckNew(x)
  <2>1. ContentOf("new") = judged
    BY <1>7 DEF CheckNew, DumpInv, Written, Dumped
  <2>. QED BY <1>1, <1>7, <2>1 DEF CheckNew, KeepNew, InPlace, Dumped, Covered, Emptied, Answering, database, ghosts, Readable, Reachable
<1>8. CASE KeepNew(x)
  <2>1. Saved' = judged /\ dump[x] = judged
    BY <1>8, ConstantsAssumption DEF KeepNew, FilesOK, FileName, DumpInv, Written, Filled, Dumped, Saved, ContentOf
  <2>. QED BY <1>8, <2>1 DEF KeepNew, InPlace, Dumped, Covered, Emptied, Answering, database, ghosts, Readable, Reachable
<1>9. CASE DiscardNew(x)
  BY <1>1, <1>9 DEF DiscardNew, KeepNew, InPlace, Dumped, Covered, Emptied, Answering, database, ghosts, Readable, Reachable
<1>10. CASE DeleteCluster(x)
  BY <1>1, <1>10 DEF DeleteCluster, KeepNew, InPlace, Dumped, Covered, Emptied, Answering, database, ghosts, Readable, Reachable
<1>11. CASE FreshStart(x)
  BY <1>1, <1>11 DEF FreshStart, KeepNew, InPlace, Dumped, Covered, Emptied, Answering, database, Fail, InWindow, Window, Undisturbed, Readable, Reachable
<1>12. CASE ApplyManifests(x)
  BY <1>1, <1>12 DEF ApplyManifests, KeepNew, InPlace, Dumped, Covered, Emptied, Answering, database, ghosts, Readable, Reachable
<1>13. CASE RestoreBegins(x)
  BY <1>1, <1>13 DEF RestoreBegins, KeepNew, InPlace, Dumped, Covered, Emptied, Answering, database, ghosts, Readable, Reachable
<1>14. CASE RestoreWaits(x)
  BY <1>1, <1>14 DEF RestoreWaits, KeepNew, InPlace, Dumped, Covered, Emptied, Answering, database, Fail, InWindow, Window, Undisturbed, Readable, Reachable
<1>15. CASE RestoreCount(x)
  BY <1>1, <1>15 DEF RestoreCount, KeepNew, InPlace, Dumped, Covered, Emptied, Answering, database, ghosts, Readable, Reachable
<1>16. CASE RestoreCopy(x)
  BY <1>1, <1>16 DEF RestoreCopy, KeepNew, InPlace, Dumped, Covered, Emptied, Answering, database, ghosts, Readable, Reachable
<1>17. CASE Finish(x)
  BY <1>1, <1>17 DEF Finish, KeepNew, InPlace, Dumped, Covered, Emptied, Answering, database, ghosts, Readable, Reachable
<1>18. CASE Dies(x)
  BY <1>1, <1>18 DEF Dies, KeepNew, InPlace, Dumped, Covered, Emptied, Answering, database, Fail, InWindow, Window, Undisturbed, Readable, Reachable
<1>. QED BY <1>2, <1>3, <1>4, <1>5, <1>6, <1>7, <1>8, <1>9, <1>10, <1>11, <1>12, <1>13, <1>14, <1>15, <1>16, <1>17, <1>18 DEF Script

LEMMA NextCarryInv ==
    ASSUME OneRun, TypeInv, DumpInv, CarryInv, [Next]_vars
    PROVE  CarryInv'
<1>. SUFFICES ASSUME Undisturbed' PROVE Carried'
  BY DEF CarryInv
<1>1. Carried
  BY DisturbanceStays DEF CarryInv
<1>2. CASE UNCHANGED vars
  BY <1>1, <1>2 DEF vars, database, files, ghosts, Carried, InPlace, Dumped, Covered, Emptied, Answering,
                    Saved, ContentOf, Readable, Reachable
<1>. QED BY <1>1, <1>2, ClusterCarries, ScriptCarries DEF Next

\* As long as the script is not started a second time while it runs, nothing fails and
\* no pod logs anything between a dump and its restore, every verdict that was given is
\* in the database or in the saved file, and a finished restore has put back what was
\* saved (backup_feedback and restore_feedback around the delete).
THEOREM NoVerdictLost ==
    ASSUME OneRun
    PROVE  Spec => []VerdictsKept
<1>. DEFINE IInv == TypeInv /\ DumpInv /\ CarryInv
<1>1. Init => IInv
  BY InitTypeInv DEF Init, DumpInv, Apart, Opened, Written, Filled, FileName, CarryInv, Carried, InPlace, Dumped,
                     Covered, Emptied, Answering, Gone, Saved, ContentOf
<1>2. IInv /\ [Next]_vars => IInv'
  BY OneRun, NextDumpInv, NextCarryInv, NextDatabaseOK, NextFilesOK, NextScriptOK DEF TypeInv
<1>3. IInv => VerdictsKept
  BY OneRun DEF VerdictsKept, FeedbackSurvives, PutBack, Kept, Restored, CarryInv, Undisturbed, Carried, InPlace,
                Covered, Gone, OneRun
<1>. QED BY <1>1, <1>2, <1>3, PTL DEF Spec
=============================================================================
