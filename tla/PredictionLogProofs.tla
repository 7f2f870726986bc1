------------------------- MODULE PredictionLogProofs -------------------------
(***************************************************************************)
(* Proofs about PredictionLog, for any pods, threads, ids and verdicts:    *)
(* type correctness, that a verdict is answered with the caller's own row, *)
(* and that the log implements FeedbackStore, whatever the database, the   *)
(* connections and the pods do at any step.                                *)
(***************************************************************************)
EXTENDS PredictionLog, FiniteSetTheorems, TLAPS

\* Verdicts whose time stamp is still to be drawn.
Unstamped == {t \in Thread : req[t].kind = "judge" /\ req[t].stamp = Pending}

\* What a request at a step has behind it: an id, a time stamp, the lock of a stored row,
\* the row or the verdict that is committed.
Served ==
    \A t \in Thread :
        /\ req[t].kind # "read" => req[t].id \in Id
        /\ pc[t] \in {"idle", "check", "connect", "enable", "query"} => req[t].stamp = Pending
        /\ pc[t] \in {"update", "read"} => req[t].kind = "judge" /\ req[t].stamp \in Stamps
        /\ pc[t] = "read" => req[t].id \in Stored /\ lock[req[t].id] = t
        /\ pc[t] = "reply" /\ req[t].kind = "predict" => req[t].id \in Stored
        /\ pc[t] = "reply" /\ req[t].kind = "judge" =>
             req[t].row = req[t].stamp /\ <<req[t].id, req[t].stamp>> \in judged

IInv == TypeOK /\ clock + Cardinality(Unstamped) <= MaxJudgements /\ Served

AskedType ==
    \A kind \in Kinds, id \in Id \cup {"none"}, stamp \in Row, row \in Row :
        /\ Asked(kind, id, stamp, row) \in Request
        /\ Asked(kind, id, stamp, row).kind = kind /\ Asked(kind, id, stamp, row).id = id
        /\ Asked(kind, id, stamp, row).stamp = stamp /\ Asked(kind, id, stamp, row).row = row

LEMMA AskedIs == AskedType
BY DEF AskedType, Asked, Request

LEMMA IdleIs == Idle \in Request /\ Idle.kind = "read" /\ Idle.stamp = Pending
BY DEF Idle, Asked, Request, Kinds, Row

\* The stamps that can still be drawn only get fewer when no new verdict is begun.
LEMMA FewerUnstamped ==
    ASSUME IInv, clock' = clock, Unstamped' \subseteq Unstamped
    PROVE  (clock + Cardinality(Unstamped) <= MaxJudgements)'
<1>1. IsFiniteSet(Unstamped)
  BY ConstantsAssumption, FS_Subset DEF Unstamped
<1>2. Cardinality(Unstamped') <= Cardinality(Unstamped) /\ Cardinality(Unstamped) \in Nat /\ Cardinality(Unstamped') \in Nat
  BY <1>1, FS_Subset, FS_CardinalityType
<1> QED
  BY <1>2, ConstantsAssumption DEF IInv, TypeOK

LEMMA InitIInv == Init => IInv
<1> SUFFICES ASSUME Init PROVE IInv
  OBVIOUS
<1>1. TypeOK
  BY ConstantsAssumption, IdleIs DEF Init, TypeOK, Stored, Row, Pending, Steps
<1>2. Unstamped = {}
  BY IdleIs DEF Init, Unstamped
<1>3. clock + Cardinality(Unstamped) <= MaxJudgements
  BY <1>2, FS_EmptySet, ConstantsAssumption DEF Init
<1>4. Served
  BY IdleIs DEF Init, Served
<1> QED
  BY <1>1, <1>3, <1>4 DEF IInv

LEMMA CheckIInv == ASSUME IInv, NEW t \in Thread, Check(t) PROVE IInv'
<1> USE ConstantsAssumption, AskedIs, IdleIs DEF IInv, AskedType
<1>1. TypeOK'
  BY DEF Check, Goto, Finish, TypeOK, dbVars, answers, Steps, Stored
<1>2. clock' = clock /\ Unstamped' \subseteq Unstamped
  BY DEF Check, Goto, Finish, TypeOK, Unstamped, answers, podVars, Request, Kinds, Row
<1>3. Served'
  BY DEF Check, Goto, Finish, TypeOK, Served, dbVars, podVars, answers, Stored, Row, Kinds, Pending, Request
<1> QED
  BY <1>1, <1>2, <1>3, FewerUnstamped

LEMMA ConnectIInv == ASSUME IInv, NEW t \in Thread, Connect(t) PROVE IInv'
<1> USE ConstantsAssumption, AskedIs, IdleIs DEF IInv, AskedType
<1>1. TypeOK'
  BY DEF Connect, Goto, TypeOK, dbVars, podVars, answers, Steps, Stored, Row, Kinds, Pending, Stamps, Request, Served
<1>2. clock' = clock /\ Unstamped' \subseteq Unstamped
  BY DEF Connect, Goto, TypeOK, Unstamped, answers, podVars, Request, Kinds, Row
<1>3. Served'
  BY DEF Connect, Goto, TypeOK, Served, dbVars, podVars, answers, Stored, Row, Kinds, Pending, Request
<1> QED
  BY <1>1, <1>2, <1>3, FewerUnstamped

LEMMA EnableIInv == ASSUME IInv, NEW t \in Thread, Enable(t) PROVE IInv'
<1> USE ConstantsAssumption, AskedIs, IdleIs DEF IInv, AskedType
<1>1. TypeOK'
  BY DEF Enable, Goto, TypeOK, dbVars, podVars, answers, Steps, Stored, Row, Kinds, Pending, Stamps, Request, Served
<1>2. clock' = clock /\ Unstamped' \subseteq Unstamped
  BY DEF Enable, Goto, TypeOK, Unstamped, answers, podVars, Request, Kinds, Row
<1>3. Served'
  BY DEF Enable, Goto, TypeOK, Served, dbVars, podVars, answers, Stored, Row, Kinds, Pending, Request
<1> QED
  BY <1>1, <1>2, <1>3, FewerUnstamped

LEMMA MarkDownIInv == ASSUME IInv, NEW t \in Thread, MarkDown(t) PROVE IInv'
<1> USE ConstantsAssumption, AskedIs, IdleIs DEF IInv, AskedType
<1>1. TypeOK'
  <2>1. PodOf[t] \in Pod /\ Retry \in 0..Retry
    OBVIOUS
  <2>2. avail' \in [Pod -> BOOLEAN] /\ retryIn' \in [Pod -> 0..Retry]
    BY <2>1 DEF MarkDown, TypeOK
  <2>3. pc' \in [Thread -> Steps] /\ req' \in [Thread -> Request]
    BY DEF MarkDown, Goto, Finish, TypeOK, Steps
  <2> QED
    BY <2>2, <2>3 DEF MarkDown, TypeOK, dbVars, answers, Stored
<1>2. clock' = clock /\ Unstamped' \subseteq Unstamped
  BY DEF MarkDown, Goto, Finish, TypeOK, Unstamped, answers, podVars, Request, Kinds, Row
<1>3. Served'
  BY DEF MarkDown, Goto, Finish, TypeOK, Served, dbVars, podVars, answers, Stored, Row, Kinds, Pending, Request
<1> QED
  BY <1>1, <1>2, <1>3, FewerUnstamped

LEMMA QueryFailsIInv == ASSUME IInv, NEW t \in Thread, QueryFails(t) PROVE IInv'
<1> USE ConstantsAssumption, AskedIs, IdleIs DEF IInv, AskedType
<1>1. TypeOK'
  BY DEF QueryFails, Goto, TypeOK, dbVars, podVars, answers, Steps, Stored, Row, Kinds, Pending, Stamps, Request, Served
<1>2. clock' = clock /\ Unstamped' \subseteq Unstamped
  BY DEF QueryFails, Goto, TypeOK, Unstamped, answers, podVars, Request, Kinds, Row
<1>3. Served'
  BY DEF QueryFails, Goto, TypeOK, Served, dbVars, podVars, answers, Stored, Row, Kinds, Pending, Request
<1> QED
  BY <1>1, <1>2, <1>3, FewerUnstamped

LEMMA InsertIInv == ASSUME IInv, NEW t \in Thread, Insert(t) PROVE IInv'
<1> USE ConstantsAssumption, AskedIs, IdleIs DEF IInv, AskedType
<1>1. TypeOK'
  <2>1. req[t].id \in Id
    BY DEF Insert, Served
  <2>2. Stored' \subseteq Id /\ \A id \in Stored' : rows'[id] \in Row
    BY <2>1 DEF Insert, TypeOK, Stored, Row
  <2> QED
    BY <2>2 DEF Insert, Goto, TypeOK, podVars, answers, Steps
<1>2. clock' = clock /\ Unstamped' \subseteq Unstamped
  BY DEF Insert, Goto, TypeOK, Unstamped, answers, podVars, Request, Kinds, Row
<1>3. Served'
  BY DEF Insert, Goto, TypeOK, Served, dbVars, podVars, answers, Stored, Row, Kinds, Pending, Request
<1> QED
  BY <1>1, <1>2, <1>3, FewerUnstamped

LEMMA UpdateMissesIInv == ASSUME IInv, NEW t \in Thread, UpdateMisses(t) PROVE IInv'
<1> USE ConstantsAssumption, AskedIs, IdleIs DEF IInv, AskedType
<1>1. TypeOK'
  BY DEF UpdateMisses, Goto, Finish, TypeOK, dbVars, podVars, answers, Steps, Stored, Row, Kinds, Pending, Stamps, Request, Served
<1>2. clock' = clock /\ Unstamped' \subseteq Unstamped
  BY DEF UpdateMisses, Goto, Finish, TypeOK, Unstamped, answers, podVars, Request, Kinds, Row
<1>3. Served'
  BY DEF UpdateMisses, Goto, Finish, TypeOK, Served, dbVars, podVars, answers, Stored, Row, Kinds, Pending, Request
<1> QED
  BY <1>1, <1>2, <1>3, FewerUnstamped

LEMMA UpdateIInv == ASSUME IInv, NEW t \in Thread, Update(t) PROVE IInv'
<1> USE ConstantsAssumption, AskedIs, IdleIs DEF IInv, AskedType
<1>1. TypeOK'
  BY DEF Update, Goto, TypeOK, dbVars, podVars, answers, Steps, Stored, Row, Kinds, Pending, Stamps, Request, Served
<1>2. clock' = clock /\ Unstamped' \subseteq Unstamped
  BY DEF Update, Goto, TypeOK, Unstamped, answers, podVars, Request, Kinds, Row
<1>3. Served'
  BY DEF Update, Goto, TypeOK, Served, dbVars, podVars, answers, Stored, Row, Kinds, Pending, Request
<1> QED
  BY <1>1, <1>2, <1>3, FewerUnstamped

LEMMA ReadBackIInv == ASSUME IInv, NEW t \in Thread, ReadBack(t) PROVE IInv'
<1> USE ConstantsAssumption, AskedIs, IdleIs DEF IInv, AskedType
<1>1. /\ req[t].kind = "judge" /\ req[t].stamp \in Stamps /\ req[t].id \in Stored /\ lock[req[t].id] = t
      /\ req[t].id \in Id /\ req[t] \in Request
  BY DEF ReadBack, Served, TypeOK
<1>2. /\ req' = [req EXCEPT ![t] = Asked("judge", req[t].id, req[t].stamp, req[t].stamp)]
      /\ rows' = [rows EXCEPT ![req[t].id] = req[t].stamp]
      /\ judged' = judged \cup {<<req[t].id, req[t].stamp>>}
      /\ lock' = [lock EXCEPT ![req[t].id] = "free"]
      /\ pc' = [pc EXCEPT ![t] = "reply"]
      /\ UNCHANGED <<dbUp, avail, retryIn, clock, known, confirmed>>
  BY <1>1 DEF ReadBack, Goto, podVars, answers
<1>3. /\ req' \in [Thread -> Request] /\ \A u \in Thread \ {t} : req'[u] = req[u] /\ pc'[u] = pc[u]
      /\ req'[t].kind = "judge" /\ req'[t].id = req[t].id
      /\ req'[t].stamp = req[t].stamp /\ req'[t].row = req[t].stamp /\ pc'[t] = "reply"
  BY <1>1, <1>2 DEF TypeOK, Kinds, Row
<1>4. Stored' = Stored /\ \A id \in Stored : rows'[id] \in Row
  BY <1>1, <1>2 DEF Stored, TypeOK, Row
<1>5. TypeOK'
  BY <1>1, <1>2, <1>3, <1>4 DEF TypeOK, Steps
<1>6. clock' = clock /\ Unstamped' \subseteq Unstamped
  <2>1. \A u \in Thread : req'[u].kind = req[u].kind /\ req'[u].stamp = req[u].stamp
    BY <1>1, <1>3
  <2> QED
    BY <1>2, <2>1 DEF Unstamped
<1>7. Served'
  <2> SUFFICES ASSUME NEW u \in Thread
               PROVE /\ req'[u].kind # "read" => req'[u].id \in Id
                     /\ pc'[u] \in {"idle", "check", "connect", "enable", "query"} => req'[u].stamp = Pending
                     /\ pc'[u] \in {"update", "read"} => req'[u].kind = "judge" /\ req'[u].stamp \in Stamps
                     /\ pc'[u] = "read" => req'[u].id \in Stored' /\ lock'[req'[u].id] = u
                     /\ pc'[u] = "reply" /\ req'[u].kind = "predict" => req'[u].id \in Stored'
                     /\ pc'[u] = "reply" /\ req'[u].kind = "judge" =>
                          req'[u].row = req'[u].stamp /\ <<req'[u].id, req'[u].stamp>> \in judged'
    BY DEF Served
  <2>1. CASE u = t
    BY <1>1, <1>2, <1>3, <2>1
  <2>2. CASE u # t
    <3>1. pc[u] = "read" => req[u].id # req[t].id /\ req[u].id \in Id
      BY <1>1, <2>2 DEF Served
    <3> QED
      BY <1>2, <1>3, <1>4, <2>2, <3>1 DEF Served, TypeOK
  <2> QED
    BY <2>1, <2>2
<1> QED
  BY <1>5, <1>6, <1>7, FewerUnstamped

LEMMA SelectIInv == ASSUME IInv, NEW t \in Thread, Select(t) PROVE IInv'
<1> USE ConstantsAssumption, AskedIs, IdleIs DEF IInv, AskedType
<1>1. TypeOK'
  BY DEF Select, Goto, TypeOK, dbVars, podVars, answers, Steps, Stored, Row, Kinds, Pending, Stamps, Request, Served
<1>2. clock' = clock /\ Unstamped' \subseteq Unstamped
  BY DEF Select, Goto, TypeOK, Unstamped, answers, podVars, Request, Kinds, Row
<1>3. Served'
  BY DEF Select, Goto, TypeOK, Served, dbVars, podVars, answers, Stored, Row, Kinds, Pending, Request
<1> QED
  BY <1>1, <1>2, <1>3, FewerUnstamped

LEMMA ReplyIInv == ASSUME IInv, NEW t \in Thread, Reply(t) PROVE IInv'
<1> USE ConstantsAssumption, AskedIs, IdleIs DEF IInv, AskedType
<1>1. TypeOK'
  <2>1. req[t].kind = "predict" => req[t].id \in Id
    BY DEF Served
  <2>2. pc[t] = "reply" /\ judged \subseteq Id \X Stamps
    BY DEF Reply, TypeOK
  <2>3. req[t].kind = "judge" => <<req[t].id, req[t].row>> \in Id \X Stamps
    BY <2>2 DEF Served
  <2>4. known' \subseteq Id /\ confirmed' \subseteq Id \X Stamps
    BY <2>1, <2>3 DEF Reply, TypeOK
  <2> QED
    BY <2>4 DEF Reply, Goto, Finish, TypeOK, dbVars, podVars, Steps, Stored
<1>2. clock' = clock /\ Unstamped' \subseteq Unstamped
  BY DEF Reply, Goto, Finish, TypeOK, Unstamped, answers, podVars, Request, Kinds, Row
<1>3. Served'
  BY DEF Reply, Goto, Finish, TypeOK, Served, dbVars, podVars, answers, Stored, Row, Kinds, Pending, Request
<1> QED
  BY <1>1, <1>2, <1>3, FewerUnstamped

LEMMA BeginReadIInv == ASSUME IInv, NEW t \in Thread, BeginRead(t) PROVE IInv'
<1> USE ConstantsAssumption, AskedIs, IdleIs DEF IInv, AskedType
<1>1. TypeOK'
  BY DEF BeginRead, Goto, TypeOK, dbVars, podVars, answers, Steps, Stored, Row, Kinds, Pending, Stamps, Request, Served
<1>2. clock' = clock /\ Unstamped' \subseteq Unstamped
  BY DEF BeginRead, Goto, TypeOK, Unstamped, answers, podVars, Request, Kinds, Row
<1>3. Served'
  BY DEF BeginRead, Goto, TypeOK, Served, dbVars, podVars, answers, Stored, Row, Kinds, Pending, Request
<1> QED
  BY <1>1, <1>2, <1>3, FewerUnstamped

LEMMA BeginPredictIInv == ASSUME IInv, NEW t \in Thread, BeginPredict(t) PROVE IInv'
<1> USE ConstantsAssumption, AskedIs, IdleIs DEF IInv, AskedType
<1>1. TypeOK'
  BY DEF BeginPredict, Goto, Drawn, TypeOK, dbVars, podVars, answers, Steps, Stored, Row, Kinds, Pending, Stamps, Request, Served
<1>2. clock' = clock /\ Unstamped' \subseteq Unstamped
  <2>1. PICK id \in Id : req' = [req EXCEPT ![t] = Asked("predict", id, Pending, Pending)]
    BY DEF BeginPredict, Drawn
  <2>2. Asked("predict", id, Pending, Pending).kind = "predict"
    BY DEF Kinds, Row
  <2>3. req'[t].kind = "predict" /\ \A u \in Thread \ {t} : req'[u] = req[u]
    BY <2>1, <2>2 DEF TypeOK
  <2> QED
    BY <2>3 DEF BeginPredict, Unstamped
<1>3. Served'
  BY DEF BeginPredict, Goto, Drawn, TypeOK, Served, dbVars, podVars, answers, Stored, Row, Kinds, Pending, Request
<1> QED
  BY <1>1, <1>2, <1>3, FewerUnstamped

\* A verdict is begun only while there is a stamp left for it.
LEMMA BeginJudgeIInv == ASSUME IInv, NEW t \in Thread, BeginJudge(t) PROVE IInv'
<1> USE ConstantsAssumption DEF IInv
<1>1. /\ pc[t] = "idle" /\ pc' = [pc EXCEPT ![t] = "check"]
      /\ clock + Cardinality({u \in Thread : req[u].kind = "judge"}) < MaxJudgements
      /\ UNCHANGED <<dbUp, rows, lock, avail, retryIn, clock, judged, known, confirmed>>
  BY DEF BeginJudge, Goto, dbVars, podVars, answers
<1>2. PICK id \in Id : req' = [req EXCEPT ![t] = Asked("judge", id, Pending, Pending)]
  BY DEF BeginJudge
<1>3. /\ Asked("judge", id, Pending, Pending) \in Request
      /\ Asked("judge", id, Pending, Pending).kind = "judge"
      /\ Asked("judge", id, Pending, Pending).id = id /\ Asked("judge", id, Pending, Pending).stamp = Pending
  BY AskedIs DEF AskedType, Kinds, Row
<1>4. /\ req' \in [Thread -> Request] /\ pc' \in [Thread -> Steps]
      /\ req'[t].kind = "judge" /\ req'[t].id = id /\ req'[t].stamp = Pending /\ pc'[t] = "check"
      /\ \A u \in Thread \ {t} : req'[u] = req[u] /\ pc'[u] = pc[u]
  BY <1>1, <1>2, <1>3 DEF TypeOK, Steps
<1>5. TypeOK'
  BY <1>1, <1>4 DEF TypeOK, Stored
<1>6. clock' + Cardinality(Unstamped') <= MaxJudgements
  <2> DEFINE judging == {u \in Thread : req[u].kind = "judge"}
  <2>1. IsFiniteSet(judging)
    BY FS_Subset
  <2> HIDE DEF judging
  <2>2. /\ IsFiniteSet(judging \cup {t})
        /\ Cardinality(judging \cup {t}) = IF t \in judging THEN Cardinality(judging) ELSE Cardinality(judging) + 1
    BY <2>1, FS_AddElement
  <2>3. Cardinality(judging) \in Nat
    BY <2>1, FS_CardinalityType
  <2>4. IsFiniteSet(judging \cup {t}) /\ Cardinality(judging \cup {t}) <= Cardinality(judging) + 1
        /\ Cardinality(judging) \in Nat /\ Cardinality(judging \cup {t}) \in Nat
    BY <2>2, <2>3
  <2> USE DEF judging
  <2>5. Unstamped' \subseteq judging \cup {t}
    BY <1>4 DEF Unstamped
  <2>6. Cardinality(Unstamped') <= Cardinality(judging \cup {t}) /\ Cardinality(Unstamped') \in Nat
    BY <2>4, <2>5, FS_Subset, FS_CardinalityType
  <2> QED
    BY <1>1, <2>4, <2>6 DEF TypeOK
<1>7. Served'
  BY <1>1, <1>4 DEF Served, Stored
<1> QED
  BY <1>5, <1>6, <1>7

\* The stamp of a verdict is drawn: one verdict fewer is without.
LEMMA StampIInv == ASSUME IInv, NEW t \in Thread, Stamp(t) PROVE IInv'
<1> USE ConstantsAssumption DEF IInv
<1>1. /\ pc[t] = "query" /\ req[t].kind = "judge" /\ pc' = [pc EXCEPT ![t] = "update"]
      /\ clock' = clock + 1 /\ req' = [req EXCEPT ![t] = Asked("judge", req[t].id, clock + 1, Pending)]
      /\ UNCHANGED <<dbUp, rows, lock, avail, retryIn, judged, known, confirmed>>
  BY DEF Stamp, Goto, dbVars, podVars, answers
<1>2. req[t].id \in Id /\ t \in Unstamped /\ clock \in Nat
  <2>1. req[t].id \in Id /\ req[t].stamp = Pending
    BY <1>1 DEF Served
  <2>2. clock \in Nat
    BY DEF TypeOK
  <2> QED
    BY <1>1, <2>1, <2>2 DEF Unstamped
<1>3. IsFiniteSet(Unstamped) /\ Cardinality(Unstamped) \in Nat /\ Cardinality(Unstamped \ {t}) = Cardinality(Unstamped) - 1
      /\ IsFiniteSet(Unstamped \ {t}) /\ Cardinality(Unstamped \ {t}) \in Nat
  <2>1. IsFiniteSet(Unstamped)
    BY FS_Subset DEF Unstamped
  <2> QED
    BY <1>2, <2>1, FS_RemoveElement, FS_CardinalityType
<1>4. clock + 1 \in Stamps
  BY <1>2, <1>3 DEF Stamps
<1>5. /\ Asked("judge", req[t].id, clock + 1, Pending) \in Request
      /\ Asked("judge", req[t].id, clock + 1, Pending).kind = "judge"
      /\ Asked("judge", req[t].id, clock + 1, Pending).id = req[t].id
      /\ Asked("judge", req[t].id, clock + 1, Pending).stamp = clock + 1
  BY <1>2, <1>4, AskedIs DEF AskedType, Kinds, Row
<1>6. /\ req' \in [Thread -> Request] /\ pc' \in [Thread -> Steps]
      /\ req'[t].kind = "judge" /\ req'[t].id = req[t].id /\ req'[t].stamp = clock + 1 /\ pc'[t] = "update"
      /\ \A u \in Thread \ {t} : req'[u] = req[u] /\ pc'[u] = pc[u]
  BY <1>1, <1>5 DEF TypeOK, Steps
<1>7. TypeOK'
  BY <1>1, <1>4, <1>6 DEF TypeOK, Stored, Stamps
<1>8. clock' + Cardinality(Unstamped') <= MaxJudgements
  <2>1. Unstamped' \subseteq Unstamped \ {t}
    BY <1>2, <1>6 DEF Unstamped, Pending
  <2>2. Cardinality(Unstamped') <= Cardinality(Unstamped \ {t}) /\ Cardinality(Unstamped') \in Nat
    BY <1>3, <2>1, FS_Subset, FS_CardinalityType
  <2> QED
    BY <1>1, <1>2, <1>3, <2>2
<1>9. Served'
  BY <1>1, <1>2, <1>4, <1>6 DEF Served, Stored
<1> QED
  BY <1>7, <1>8, <1>9

\* Connections break, a pod is replaced: requests are given up and their locks released.
LEMMA DbStopsIInv == ASSUME IInv, DbStops PROVE IInv'
<1> USE ConstantsAssumption DEF IInv
<1>1. TypeOK'
  BY DEF DbStops, TypeOK, Stored, Steps, podVars, answers
<1>2. clock' = clock /\ Unstamped' \subseteq Unstamped
  BY DEF DbStops, Unstamped, podVars, answers
<1>3. Served'
  BY DEF DbStops, Served, Stored, TypeOK, podVars, answers
<1> QED
  BY <1>1, <1>2, <1>3, FewerUnstamped

LEMMA PodRestartsIInv == ASSUME IInv, NEW p \in Pod, PodRestarts(p) PROVE IInv'
<1> USE ConstantsAssumption, IdleIs DEF IInv
<1>1. TypeOK'
  BY DEF PodRestarts, TypeOK, Stored, Steps, answers
<1>2. clock' = clock /\ Unstamped' \subseteq Unstamped
  BY DEF PodRestarts, Unstamped, answers
<1>3. Served'
  BY DEF PodRestarts, Served, Stored, TypeOK, answers
<1> QED
  BY <1>1, <1>2, <1>3, FewerUnstamped

\* The database comes back, the clock runs.
LEMMA DbStartsTickIInv == ASSUME IInv, DbStarts \/ Tick PROVE IInv'
<1> USE ConstantsAssumption DEF IInv
<1>1. TypeOK'
  <2>1. avail' \in [Pod -> BOOLEAN] /\ dbUp' \in BOOLEAN
    BY DEF DbStarts, Tick, TypeOK, podVars, dbVars
  <2>2. retryIn' \in [Pod -> 0..Retry]
    BY DEF DbStarts, Tick, TypeOK, podVars
  <2>3. UNCHANGED <<rows, lock, pc, req, clock, judged, known, confirmed>>
    BY DEF DbStarts, Tick, dbVars, answers
  <2> QED
    BY <2>1, <2>2, <2>3 DEF TypeOK, Stored
<1>2. UNCHANGED <<rows, lock, pc, req, clock, judged>>
  BY DEF DbStarts, Tick, dbVars
<1> QED
  BY <1>1, <1>2 DEF Served, Unstamped, Stored

LEMMA NextIInv == IInv /\ [Next]_vars => IInv'
<1> SUFFICES ASSUME IInv, [Next]_vars PROVE IInv'
  OBVIOUS
<1>1. CASE Environment
  BY <1>1, DbStopsIInv, DbStartsTickIInv, PodRestartsIInv DEF Environment
<1>2. CASE \E t \in Thread : Begin(t)
  BY <1>2, BeginPredictIInv, BeginJudgeIInv, BeginReadIInv DEF Begin
<1>3. CASE \E t \in Thread : Step(t)
  BY <1>3, CheckIInv, ConnectIInv, EnableIInv, MarkDownIInv, QueryFailsIInv, InsertIInv, StampIInv,
     UpdateMissesIInv, UpdateIInv, ReadBackIInv, SelectIInv, ReplyIInv DEF Step
<1>4. CASE UNCHANGED vars
  BY <1>4 DEF IInv, TypeOK, Served, Unstamped, Stored, vars, dbVars, podVars, answers
<1> QED
  BY <1>1, <1>2, <1>3, <1>4 DEF Next

LEMMA Invariant == Spec => []IInv
BY InitIInv, NextIInv, PTL DEF Spec

\* Every variable keeps its type; no more stamps are drawn than verdicts were submitted.
THEOREM TypeCorrect == Spec => []TypeOK
<1>1. IInv => TypeOK
  BY DEF IInv
<1> QED
  BY Invariant, <1>1, PTL

\* A verdict is answered with the caller's own row, whoever judges the same prediction at
\* the same time: the row is read back under the lock of its own update (update_verdict).
THEOREM OwnVerdictHolds == Spec => []OwnVerdict
<1>1. IInv => OwnVerdict
  BY DEF IInv, Served, OwnVerdict
<1> QED
  BY Invariant, <1>1, PTL

\* The steps of the log are steps of FeedbackStore: the commit of a row, the return of its
\* id, the commit of a verdict and its confirmation; all others change nothing of it.
LEMMA StepRefines == IInv /\ [Next]_vars => [Store!Next]_(Store!vars)
<1> SUFFICES ASSUME IInv, [Next]_vars PROVE Store!Next \/ UNCHANGED <<Stored, judged, known, confirmed>>
  BY DEF Store!vars
<1> USE DEF IInv
<1>1. ASSUME NEW t \in Thread, Insert(t) PROVE Store!Next
  <2>1. req[t].id \in Id
    BY <1>1 DEF Insert, Served
  <2>2. Stored' = Stored \cup {req[t].id} /\ UNCHANGED <<judged, known, confirmed>>
    BY <1>1 DEF Insert, Stored, answers
  <2> QED
    BY <2>1, <2>2 DEF Store!Next, Store!Store
<1>2. ASSUME NEW t \in Thread, ReadBack(t) PROVE Store!Next
  <2>1. /\ req[t].id \in Id /\ req[t].stamp \in Stamps /\ req[t].id \in Stored
        /\ lock[req[t].id] = t
    BY <1>2 DEF ReadBack, Served
  <2>2. Stored' = Stored /\ judged' = judged \cup {<<req[t].id, req[t].stamp>>} /\ UNCHANGED <<known, confirmed>>
    BY <1>2, <2>1 DEF ReadBack, Stored, answers
  <2> QED
    BY <2>1, <2>2 DEF Store!Next, Store!Judge
<1>3. ASSUME NEW t \in Thread, Reply(t) PROVE Store!Next \/ UNCHANGED <<Stored, judged, known, confirmed>>
  <2>1. Stored' = Stored /\ judged' = judged /\ pc[t] = "reply" /\ req[t].kind \in Kinds
    BY <1>3 DEF Reply, Stored, dbVars, TypeOK, Request
  <2>2. CASE req[t].kind = "predict"
    <3>1. req[t].id \in Id /\ req[t].id \in Stored
      BY <2>1, <2>2 DEF Served
    <3>2. known' = known \cup {req[t].id} /\ confirmed' = confirmed
      BY <1>3, <2>2 DEF Reply
    <3> QED
      BY <2>1, <3>1, <3>2 DEF Store!Next, Store!Return
  <2>3. CASE req[t].kind = "judge"
    <3>1. req[t].id \in Id /\ <<req[t].id, req[t].row>> \in judged
      BY <2>1, <2>3 DEF Served
    <3>2. req[t].row \in Stamps
      BY <3>1 DEF TypeOK
    <3>3. confirmed' = confirmed \cup {<<req[t].id, req[t].row>>} /\ known' = known
      BY <1>3, <2>3 DEF Reply
    <3> QED
      BY <2>1, <3>1, <3>2, <3>3 DEF Store!Next, Store!Confirm
  <2>4. CASE req[t].kind = "read"
    BY <1>3, <2>1, <2>4 DEF Reply
  <2> QED
    BY <2>1, <2>2, <2>3, <2>4 DEF Kinds
<1>4. ASSUME NEW t \in Thread,
             Begin(t) \/ Check(t) \/ Connect(t) \/ Enable(t) \/ MarkDown(t) \/ QueryFails(t)
               \/ Stamp(t) \/ UpdateMisses(t) \/ Update(t) \/ Select(t)
      PROVE  UNCHANGED <<rows, judged, known, confirmed>>
  BY <1>4 DEF Begin, BeginPredict, BeginJudge, BeginRead, Check, Connect, Enable, MarkDown, QueryFails,
              Stamp, UpdateMisses, Update, Select, dbVars, answers
<1>5. ASSUME Environment \/ UNCHANGED vars PROVE UNCHANGED <<rows, judged, known, confirmed>>
  BY <1>5 DEF Environment, DbStops, DbStarts, Tick, PodRestarts, vars, dbVars, answers
<1> QED
  BY <1>1, <1>2, <1>3, <1>4, <1>5 DEF Next, Step, Stored

\* The prediction log implements FeedbackStore, for any pods, threads, ids and verdicts.
THEOREM Refinement == Spec => KeepsPromises
<1>1. Init => Store!Init
  BY DEF Init, Store!Init, Stored
<1> QED
  BY Invariant, StepRefines, <1>1, PTL DEF Spec, KeepsPromises, Store!Spec
=============================================================================
