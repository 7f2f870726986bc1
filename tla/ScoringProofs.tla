---------------------------- MODULE ScoringProofs ----------------------------
(***************************************************************************)
(* Proofs about Scoring, for every value of its constants: what is served  *)
(* is what was evaluated, the views of the fleet agree, past episodes are  *)
(* whole, and labels are true.  The parts share no variable that one of    *)
(* them changes in another, so each has an inductive invariant of its own, *)
(* and the one of Scoring is their conjunction.  The machine agent, which  *)
(* makes the histories that Features are computed of, comes last.          *)
(***************************************************************************)
EXTENDS Scoring, MachineAgent, FiniteSetTheorems, WellFoundedInduction, TLAPS

(***************************************************************************)
(* Numbers, sets and sequences.                                            *)
(***************************************************************************)

LEMMA LeastOne ==
    ASSUME NEW S, S \subseteq Nat, S # {}
    PROVE  \E m \in S : \A k \in S : m <= k
<1> DEFINE R == {p \in Nat \X Nat : p[1] < p[2]}
<1>1. OpToRel(<, Nat) = R
  BY DEF OpToRel
<1>2. IsWellFoundedOn(R, Nat)
  BY NatLessThanWellFounded, <1>1
<1>3. IsWellFoundedOn(R, S)
  BY <1>2, IsWellFoundedOnSubset
<1>4. PICK m \in S : \A k \in S : ~ (<<k, m>> \in R)
  <2> HIDE DEF R
  <2> QED BY <1>3, WFMin
<1>5. ASSUME NEW k \in S PROVE m <= k
  <2>1. k \in Nat /\ m \in Nat /\ <<k, m>> \in Nat \X Nat /\ <<k, m>>[1] = k /\ <<k, m>>[2] = m
    OBVIOUS
  <2>2. <<k, m>> \in R <=> k < m
    BY <2>1
  <2>3. <<k, m>> \notin R
    <3> HIDE DEF R
    <3> QED BY <1>4
  <2> QED
    BY <2>1, <2>2, <2>3
<1> QED
  BY <1>5

\* A property of numbers, as the set of those that have it.
LEMMA Induction ==
    ASSUME NEW S, 0 \in S, \A n \in Nat : n \in S => n + 1 \in S
    PROVE  Nat \subseteq S
<1> SUFFICES ASSUME Nat \ S # {} PROVE FALSE
  OBVIOUS
<1>1. PICK m \in Nat \ S : \A k \in Nat \ S : m <= k
  BY LeastOne
<1>2. m # 0 /\ m - 1 \in Nat /\ m - 1 \notin Nat \ S
  BY <1>1
<1> QED
  BY <1>2

LEMMA GreatestOne ==
    ASSUME NEW S, S \subseteq Int, S # {}, NEW b \in Int, \A k \in S : k <= b
    PROVE  \E m \in S : \A k \in S : k <= m
<1> DEFINE T == {b - k : k \in S}
<1>1. \A k \in S : k \in Int /\ b - k \in Nat
  OBVIOUS
<1>9. T # {}
  OBVIOUS
<1>0. T \subseteq Nat
  BY <1>1
<1>2. PICK m \in T : \A k \in T : m <= k
  <2> HIDE DEF T
  <2> QED BY <1>0, <1>9, LeastOne
<1>3. PICK k \in S : m = b - k
  BY <1>2
<1>4. \A j \in S : m <= b - j
  BY <1>2
<1>5. \A j \in S : j \in Int /\ k \in Int
  OBVIOUS
<1> QED
  BY <1>3, <1>4, <1>5

\* A set of numbers that is finite has a greatest element.
LEMMA FiniteMax ==
    ASSUME NEW S, IsFiniteSet(S), S \subseteq Int, S # {}
    PROVE  \E m \in S : \A k \in S : k <= m
<1> DEFINE Done == {n \in Nat : \A T \in SUBSET Int :
                      IsFiniteSet(T) /\ Cardinality(T) = n => \E b \in Int : \A k \in T : k <= b}
<1>1. 0 \in Done
  <2>1. \A T : IsFiniteSet(T) /\ Cardinality(T) = 0 => T = {}
    BY FS_EmptySet
  <2> QED BY <2>1
<1>2. ASSUME NEW n \in Nat, n \in Done PROVE n + 1 \in Done
  <2> SUFFICES ASSUME NEW T \in SUBSET Int, IsFiniteSet(T), Cardinality(T) = n + 1
               PROVE  \E b \in Int : \A k \in T : k <= b
    OBVIOUS
  <2>1. T # {}
    BY FS_EmptySet
  <2>2. PICK t \in T : TRUE
    BY <2>1
  <2>3. IsFiniteSet(T \ {t}) /\ Cardinality(T \ {t}) = n /\ T \ {t} \in SUBSET Int
    BY <2>2, FS_RemoveElement
  <2>4. PICK b \in Int : \A k \in T \ {t} : k <= b
    BY <1>2, <2>3
  <2>5. t \in Int
    BY <2>2
  <2> DEFINE c == IF t <= b THEN b ELSE t
  <2>6. c \in Int /\ b <= c /\ t <= c
    BY <2>5
  <2>7. \A k \in T : k <= c
    <3> HIDE DEF c
    <3> QED BY <2>4, <2>5, <2>6
  <2> QED BY <2>6, <2>7
<1>3. Nat \subseteq Done
  <2> HIDE DEF Done
  <2> QED BY <1>1, <1>2, Induction
<1>4. Cardinality(S) \in Done
  <2> HIDE DEF Done
  <2> QED BY <1>3, FS_CardinalityType
<1>5. \E b \in Int : \A k \in S : k <= b
  BY <1>4
<1> QED BY <1>5, GreatestOne

\* A sequence, whatever its elements are, and one element more.
LEMMA Appended ==
    ASSUME NEW s, NEW e, \E A : s \in Seq(A)
    PROVE  /\ \E A : Append(s, e) \in Seq(A)
           /\ Len(s) \in Nat /\ DOMAIN s = 1..Len(s)
           /\ Len(Append(s, e)) = Len(s) + 1 /\ DOMAIN Append(s, e) = 1..(Len(s) + 1)
           /\ \A i \in 1..Len(s) : Append(s, e)[i] = s[i]
           /\ Append(s, e)[Len(s) + 1] = e
<1>1. PICK A : s \in Seq(A)
  OBVIOUS
<1>2. s \in Seq(A \cup {e})
  BY <1>1
<1>3. Append(s, e) \in Seq(A \cup {e}) /\ Len(s) \in Nat /\ DOMAIN s = 1..Len(s)
  BY <1>2
<1>4. /\ Len(Append(s, e)) = Len(s) + 1 /\ DOMAIN Append(s, e) = 1..(Len(s) + 1)
      /\ \A i \in 1..Len(s) : Append(s, e)[i] = s[i]
      /\ Append(s, e)[Len(s) + 1] = e
  BY <1>2, <1>3
<1> QED BY <1>3, <1>4

\* The first k of some numbers.
FirstOf(S, k) == {i \in S : Cardinality({j \in S : j <= i}) <= k}

LEMMA FirstOnes ==
    ASSUME NEW k \in Nat
    PROVE  \A S \in SUBSET Nat : IsFiniteSet(S) /\ Cardinality(S) >= k => Cardinality(FirstOf(S, k)) = k
<1> DEFINE Done == {n \in Nat : \A S \in SUBSET Nat :
                      IsFiniteSet(S) /\ Cardinality(S) = k + n => Cardinality(FirstOf(S, k)) = k}
<1>1. 0 \in Done
  <2> SUFFICES ASSUME NEW S \in SUBSET Nat, IsFiniteSet(S), Cardinality(S) = k
               PROVE  Cardinality(FirstOf(S, k)) = k
    OBVIOUS
  <2>1. \A i \in S : IsFiniteSet({j \in S : j <= i}) /\ Cardinality({j \in S : j <= i}) <= Cardinality(S)
    <3> SUFFICES ASSUME NEW i \in S PROVE IsFiniteSet({j \in S : j <= i}) /\ Cardinality({j \in S : j <= i}) <= Cardinality(S)
      OBVIOUS
    <3>1. {j \in S : j <= i} \in SUBSET S
      OBVIOUS
    <3> QED BY <3>1, FS_Subset
  <2>2. FirstOf(S, k) = S
    BY <2>1 DEF FirstOf
  <2> QED BY <2>2
<1>2. ASSUME NEW n \in Nat, n \in Done PROVE n + 1 \in Done
  <2> SUFFICES ASSUME NEW S \in SUBSET Nat, IsFiniteSet(S), Cardinality(S) = k + (n + 1)
               PROVE  Cardinality(FirstOf(S, k)) = k
    OBVIOUS
  <2>0. S # {} /\ S \subseteq Int
    BY FS_EmptySet
  <2>1. PICK m \in S : \A i \in S : i <= m
    BY <2>0, FiniteMax
  <2> DEFINE R == S \ {m}
  <2>2. IsFiniteSet(R) /\ Cardinality(R) = k + n /\ R \in SUBSET Nat
    BY <2>1, FS_RemoveElement
  <2>3. Cardinality(FirstOf(R, k)) = k
    <3> HIDE DEF R
    <3> QED BY <1>2, <2>2
  <2>4. m \notin FirstOf(S, k)
    <3>1. {j \in S : j <= m} = S
      BY <2>1
    <3> QED BY <3>1 DEF FirstOf
  <2>5. ASSUME NEW i \in R PROVE {j \in S : j <= i} = {j \in R : j <= i}
    <3>1. i # m /\ i <= m /\ i \in Nat /\ m \in Nat
      BY <2>1
    <3>2. ~ (m <= i)
      BY <3>1
    <3> QED BY <3>2
  <2>6. FirstOf(S, k) = FirstOf(R, k)
    BY <2>4, <2>5 DEF FirstOf
  <2> QED BY <2>3, <2>6
<1>3. Nat \subseteq Done
  <2> HIDE DEF Done
  <2> QED BY <1>1, <1>2, Induction
<1>4. ASSUME NEW S \in SUBSET Nat, IsFiniteSet(S), Cardinality(S) >= k PROVE Cardinality(FirstOf(S, k)) = k
  <2> DEFINE n == Cardinality(S) - k
  <2>1. n \in Nat /\ Cardinality(S) = k + n
    BY <1>4, FS_CardinalityType
  <2>2. n \in Done
    <3> HIDE DEF Done
    <3> QED BY <1>3, <2>1
  <2> QED BY <1>4, <2>1, <2>2
<1> QED BY <1>4

(***************************************************************************)
(* Verdicts: the vote on one row and on many is the same, and an evaluation *)
(* counts the rows up to the chunk it has done, each once.                 *)
(***************************************************************************)

LEMMA CausesAreNamed ==
    /\ Len(Causes) \in Nat \ {0} /\ DOMAIN Causes = 1..Len(Causes)
    /\ \A i \in DOMAIN Causes : Causes[i] \in Decided!Class /\ Causes[i] # Decided!Normal
BY VerdictsAssumption DEF Decided!Class, Decided!Normal

\* The first place where a row is largest: what numpy argmax returns.
LEMMA ArgMaxIsFirst ==
    ASSUME NEW n \in Nat \ {0}, NEW row \in [1..n -> Int]
    PROVE  /\ Decided!ArgMax(row) \in 1..n
           /\ \A j \in 1..n : row[j] <= row[Decided!ArgMax(row)]
           /\ \A j \in 1..n : j < Decided!ArgMax(row) => row[j] < row[Decided!ArgMax(row)]
<1> DEFINE Top == {i \in 1..n : \A j \in 1..n : row[j] <= row[i]}
           Vals == {row[i] : i \in 1..n}
<1>1. Decided!ArgMax(row) = CHOOSE x \in Top : \A y \in Top : x <= y
  BY DEF Decided!ArgMax, Decided!Min
<1>2. Top # {}
  <2>1. \E b \in Int : \A i \in 1..n : row[i] <= b
    <3> DEFINE Done == {k \in Nat : k <= n => \E b \in Int : \A i \in 1..k : row[i] <= b}
    <3>1. 0 \in Done
      OBVIOUS
    <3>2. ASSUME NEW k \in Nat, k \in Done PROVE k + 1 \in Done
      <4> SUFFICES ASSUME k + 1 <= n PROVE \E b \in Int : \A i \in 1..(k + 1) : row[i] <= b
        OBVIOUS
      <4>1. PICK b \in Int : \A i \in 1..k : row[i] <= b
        BY <3>2
      <4>2. row[k + 1] \in Int
        OBVIOUS
      <4>3. CASE row[k + 1] <= b
        BY <4>1, <4>3
      <4>4. CASE ~ (row[k + 1] <= b)
        <5>1. \A i \in 1..(k + 1) : row[i] <= row[k + 1]
          BY <4>1, <4>2, <4>4
        <5> QED
          BY <4>2, <5>1
      <4> QED
        BY <4>3, <4>4
    <3>3. Nat \subseteq Done
      <4> HIDE DEF Done
      <4> QED BY <3>1, <3>2, Induction
    <3>4. n \in Done
      <4> HIDE DEF Done
      <4> QED BY <3>3
    <3> QED
      BY <3>4
  <2>2. PICK b \in Int : \A i \in 1..n : row[i] <= b
    BY <2>1
  <2>3. Vals \subseteq Int /\ Vals # {} /\ \A k \in Vals : k <= b
    <3>1. 1 \in 1..n
      OBVIOUS
    <3> QED BY <2>2, <3>1
  <2>4. PICK v \in Vals : \A k \in Vals : k <= v
    <3> HIDE DEF Vals
    <3> QED BY <2>3, GreatestOne
  <2>5. PICK i \in 1..n : v = row[i]
    BY <2>4
  <2>6. \A j \in 1..n : row[j] <= row[i]
    BY <2>4, <2>5
  <2> QED
    BY <2>6
<1>3. Top \subseteq Nat
  OBVIOUS
<1>4. \E x \in Top : \A y \in Top : x <= y
  <2> HIDE DEF Top
  <2> QED BY <1>2, <1>3, LeastOne
<1>5. Decided!ArgMax(row) \in Top /\ \A y \in Top : Decided!ArgMax(row) <= y
  <2> HIDE DEF Top
  <2> QED BY <1>1, <1>4
<1>6. ASSUME NEW j \in 1..n, j < Decided!ArgMax(row) PROVE row[j] < row[Decided!ArgMax(row)]
  <2>1. j \notin Top
    BY <1>3, <1>5, <1>6
  <2>2. PICK k \in 1..n : ~ (row[k] <= row[j])
    BY <2>1
  <2>3. row[k] <= row[Decided!ArgMax(row)] /\ row[k] \in Int /\ row[j] \in Int /\ row[Decided!ArgMax(row)] \in Int
    BY <1>5
  <2> QED
    BY <2>2, <2>3
<1> QED
  BY <1>5, <1>6

\* The vote on one reading takes the place that the vote on a column takes, where the row
\* of the column has the scores of those that passed and less for the others.
LEMMA BestIsArgMax ==
    ASSUME NEW points, NEW among \in SUBSET DOMAIN Causes, NEW row \in [DOMAIN Causes -> Int], among # {},
           \A i \in among : row[i] = points[Causes[i]],
           \A i \in among : \A j \in DOMAIN Causes \ among : row[j] < row[i]
    PROVE  Decided!Best(points, among) = Causes[Decided!ArgMax(row)]
<1> DEFINE a == Decided!ArgMax(row)
           First(i) == \A j \in among :
              IF j < i THEN points[Causes[j]] < points[Causes[i]] ELSE points[Causes[j]] <= points[Causes[i]]
<1>0. DOMAIN Causes = 1..Len(Causes) /\ Len(Causes) \in Nat \ {0} /\ row \in [1..Len(Causes) -> Int]
  BY CausesAreNamed
<1>1. /\ a \in DOMAIN Causes
      /\ \A j \in DOMAIN Causes : row[j] <= row[a]
      /\ \A j \in DOMAIN Causes : j < a => row[j] < row[a]
  BY <1>0, ArgMaxIsFirst
<1>ints. \A j \in DOMAIN Causes : row[j] \in Int /\ j \in Int
  BY <1>0
<1> HIDE DEF a
<1>2. a \in among
  <2>1. PICK i \in among : TRUE
    OBVIOUS
  <2>2. a \notin among => row[a] < row[i]
    BY <1>1
  <2> QED BY <1>1, <1>ints, <2>1, <2>2
<1>3. First(a)
  <2> TAKE j \in among
  <2>1. points[Causes[j]] = row[j] /\ points[Causes[a]] = row[a]
    BY <1>2
  <2> QED BY <2>1, <1>1
<1>4. ASSUME NEW i \in among, First(i) PROVE i = a
  <2>1. points[Causes[i]] = row[i] /\ points[Causes[a]] = row[a]
    BY <1>2
  <2>2. ~ (a < i)
    BY <1>4, <1>2, <1>1, <1>ints, <2>1
  <2>3. ~ (i < a)
    BY <1>4, <1>2, <1>1, <1>ints, <2>1
  <2> QED BY <2>2, <2>3, <1>ints, <1>2
<1>5. (CHOOSE i \in among : First(i)) = a
  <2> HIDE DEF First
  <2> QED BY <1>2, <1>3, <1>4
<1> QED
  BY <1>5 DEF Decided!Best, a

LEMMA VotesAreInts ==
    ASSUME Decided!TypeOK, NEW r \in Decided!Rated, NEW per \in PerClass \cup {Decided!Unset}
    PROVE  /\ \A c \in Decided!Class : proba[r][c] \in Nat
           /\ \A i \in DOMAIN Causes : Decided!Bar(per, Causes[i]) \in Nat
<1>1. proba[r] \in [Decided!Class -> 0..Scale]
  BY DEF Decided!TypeOK, Decided!Distribution
<1>2. Scale \in Nat
  BY ConstantsAssumption
<1>3. \A c \in DOMAIN per : per[c] \in Nat
  BY VerdictsAssumption DEF Decided!Unset
<1> QED
  BY <1>1, <1>2, <1>3 DEF Decided!Bar

\* The two forms of the rule, at one threshold per class and at one for all.
LEMMA RowsAsBatch ==
    ASSUME Decided!TypeOK, NEW r \in Decided!Rated, NEW rows, r \in rows, NEW th,
           NEW per \in PerClass \cup {Decided!Unset}
    PROVE  LET vote == Decided!ClassifierVote(proba[r], th, per)
               batch == Decided!VoteBatch(rows, th, per)
           IN batch.hit[r] = vote[1] /\ batch.cause[r] = vote[2]
<1> DEFINE p == proba[r]
           other == [i \in DOMAIN Causes |-> p[Causes[i]]]
           passed == [i \in DOMAIN Causes |-> other[i] >= Decided!Bar(per, Causes[i])]
           margin == [i \in DOMAIN Causes |->
                        IF passed[i] THEN other[i] - Decided!Bar(per, Causes[i]) ELSE -(2 * Scale + 2)]
           exceed == {i \in DOMAIN Causes : p[Causes[i]] >= Decided!Bar(per, Causes[i])}
           points == [c \in Decided!Class |-> p[c] - Decided!Bar(per, c)]
<1>n. Scale \in Nat
  BY ConstantsAssumption
<1>p. \A i \in DOMAIN Causes : /\ Causes[i] \in Decided!Class /\ p[Causes[i]] \in Nat
                               /\ Decided!Bar(per, Causes[i]) \in Nat
  BY CausesAreNamed, VotesAreInts
<1> DEFINE batch == Decided!VoteBatch(rows, th, per)
           vote == Decided!ClassifierVote(p, th, per)
<1> SUFFICES batch.hit[r] = vote[1] /\ batch.cause[r] = vote[2]
  OBVIOUS
<1>1. CASE per # Decided!Unset
  <2>1. /\ exceed = {} => batch.hit[r] = FALSE
        /\ exceed # {} => batch.hit[r] = TRUE
    BY <1>1 DEF Decided!VoteBatch
  <2>2. batch.cause[r] = IF batch.hit[r] THEN Causes[Decided!ArgMax(margin)] ELSE Decided!Normal
    BY <1>1 DEF Decided!VoteBatch
  <2>3. vote = IF exceed = {} THEN <<FALSE, Decided!Normal>> ELSE <<TRUE, Decided!Best(points, exceed)>>
    BY <1>1 DEF Decided!ClassifierVote
  <2>4. ASSUME exceed # {} PROVE Decided!Best(points, exceed) = Causes[Decided!ArgMax(margin)]
    <3>1. margin \in [DOMAIN Causes -> Int]
      BY <1>n, <1>p
    <3>2. ASSUME NEW i \in exceed PROVE margin[i] = points[Causes[i]] /\ margin[i] \in Nat
      <4>1. i \in DOMAIN Causes /\ passed[i] /\ other[i] = p[Causes[i]]
        OBVIOUS
      <4>2. margin[i] = p[Causes[i]] - Decided!Bar(per, Causes[i])
        BY <4>1
      <4>3. p[Causes[i]] >= Decided!Bar(per, Causes[i])
        OBVIOUS
      <4> HIDE DEF p
      <4> QED
        BY <4>1, <4>2, <4>3, <1>p
    <3>3. ASSUME NEW j \in DOMAIN Causes \ exceed PROVE margin[j] = -(2 * Scale + 2)
      OBVIOUS
    <3>4. ASSUME NEW i \in exceed, NEW j \in DOMAIN Causes \ exceed PROVE margin[j] < margin[i]
      <4> HIDE DEF margin, exceed
      <4>1. margin[i] \in Nat /\ margin[j] = -(2 * Scale + 2)
        BY <3>2, <3>3
      <4> QED
        BY <4>1, <1>n
    <3> HIDE DEF margin, points, exceed
    <3>5. exceed \in SUBSET DOMAIN Causes
      BY DEF exceed
    <3> QED
      BY <2>4, <3>1, <3>2, <3>4, <3>5, BestIsArgMax
  <2> HIDE DEF margin, points, exceed, batch, vote
  <2>5. CASE exceed = {}
    BY <2>1, <2>2, <2>3, <2>5
  <2>6. CASE exceed # {}
    BY <2>1, <2>2, <2>3, <2>4, <2>6
  <2> QED
    BY <2>5, <2>6
<1>2. CASE per = Decided!Unset
  <2>1. /\ p[Decided!Normal] < th => batch.hit[r] = TRUE
        /\ ~ (p[Decided!Normal] < th) => batch.hit[r] = FALSE
    <3> DEFINE beaten(q) == proba[q][Decided!Normal] < th
    <3>1. batch.hit = [q \in rows |-> IF per # Decided!Unset
              THEN \E i \in DOMAIN Causes : [j \in DOMAIN Causes |->
                 [k \in DOMAIN Causes |-> proba[q][Causes[k]]][j] >= Decided!Bar(per, Causes[j])][i] ELSE beaten(q)]
      BY DEF Decided!VoteBatch
    <3>2. batch.hit = [q \in rows |-> beaten(q)]
      <4> HIDE DEF beaten, batch
      <4> QED BY <1>2, <3>1
    <3>3. CASE p[Decided!Normal] < th
      BY <3>2, <3>3
    <3>4. CASE ~ (p[Decided!Normal] < th)
      <4>1. batch.hit[r] = beaten(r)
        BY <3>2
      <4>2. beaten(r) = FALSE
        BY <3>4
      <4>3. batch.hit[r] = FALSE
        <5> HIDE DEF beaten, batch
        <5> QED BY <4>1, <4>2
      <4> QED BY <3>4, <4>3
    <3> QED
      BY <3>3, <3>4
  <2>2. batch.cause[r] = IF batch.hit[r] THEN Causes[Decided!ArgMax(other)] ELSE Decided!Normal
    BY <1>2 DEF Decided!VoteBatch
  <2>3. vote = IF p[Decided!Normal] < th THEN <<TRUE, Decided!Best(p, DOMAIN Causes)>> ELSE <<FALSE, Decided!Normal>>
    BY <1>2 DEF Decided!ClassifierVote
  <2>4. Decided!Best(p, DOMAIN Causes) = Causes[Decided!ArgMax(other)]
    <3>1. other \in [DOMAIN Causes -> Int] /\ \A i \in DOMAIN Causes : other[i] = p[Causes[i]]
      BY <1>p
    <3>2. DOMAIN Causes # {}
      BY CausesAreNamed
    <3> HIDE DEF other, p
    <3> QED
      BY <3>1, <3>2, BestIsArgMax
  <2> HIDE DEF p, other, batch, vote
  <2>5. CASE p[Decided!Normal] < th
    BY <2>1, <2>2, <2>3, <2>4, <2>5
  <2>6. CASE ~ (p[Decided!Normal] < th)
    BY <2>1, <2>2, <2>3, <2>6
  <2> QED
    BY <2>5, <2>6
<1> QED
  BY <1>1, <1>2

LEMMA VerdictsSizes == \A S : Decided!Cardinality(S) = Cardinality(S)
BY DEF Cardinality, Decided!Cardinality

\* The readings so far, those that are hit and flagged at a threshold, and the rest.
ToNow == 1..evaluated
HitAt(th) == {r \in Decided!Rated : proba[r][Decided!Normal] < th}
FlaggedAt(th) == {r \in Decided!Rated : proba[r][Decided!Normal] < th \/ iso[r]}
Broken == {r \in Decided!Rated : truth[r] # Decided!Normal}
OfTruth(t) == {r \in Decided!Rated : truth[r] = t}
RightAt(th) == {r \in HitAt(th) : /\ truth[r] \notin {Decided!Normal, "cascade"}
                                  /\ Decided!ClassifierVote(proba[r], th, Decided!Unset)[2] = truth[r]}
Tally(rows, th) == [tp |-> Cardinality(rows \cap (FlaggedAt(th) \cap Broken)),
                    fp |-> Cardinality(rows \cap (FlaggedAt(th) \ Broken)),
                    fn |-> Cardinality(rows \cap (Broken \ FlaggedAt(th)))]

LEMMA BatchHits ==
    ASSUME Decided!TypeOK, NEW rows \in SUBSET Decided!Rated, NEW th
    PROVE  LET batch == Decided!VoteBatch(rows, th, Decided!Unset) IN
           /\ DOMAIN batch.hit = rows
           /\ \A r \in rows : /\ batch.hit[r] \in BOOLEAN /\ (batch.hit[r] <=> r \in HitAt(th))
                              /\ batch.cause[r] = Decided!ClassifierVote(proba[r], th, Decided!Unset)[2]
<1> DEFINE batch == Decided!VoteBatch(rows, th, Decided!Unset)
<1>1. DOMAIN batch.hit = rows
  BY DEF Decided!VoteBatch
<1>2. ASSUME NEW r \in rows
      PROVE  /\ batch.hit[r] \in BOOLEAN /\ (batch.hit[r] <=> r \in HitAt(th))
             /\ batch.cause[r] = Decided!ClassifierVote(proba[r], th, Decided!Unset)[2]
  <2> DEFINE vote == Decided!ClassifierVote(proba[r], th, Decided!Unset)
  <2>1. batch.hit[r] = vote[1] /\ batch.cause[r] = vote[2]
    <3>1. Decided!Unset \in PerClass \cup {Decided!Unset} /\ r \in Decided!Rated
      OBVIOUS
    <3> QED BY <3>1, RowsAsBatch
  <2>2. vote = IF proba[r][Decided!Normal] < th
               THEN <<TRUE, Decided!Best(proba[r], DOMAIN Causes)>> ELSE <<FALSE, Decided!Normal>>
    BY DEF Decided!ClassifierVote
  <2> HIDE DEF batch, vote
  <2>3. CASE proba[r][Decided!Normal] < th
    BY <2>1, <2>2, <2>3 DEF HitAt, vote
  <2>4. CASE ~ (proba[r][Decided!Normal] < th)
    BY <2>1, <2>2, <2>4 DEF HitAt, vote
  <2> QED BY <2>1, <2>3, <2>4 DEF vote
<1> QED BY <1>1, <1>2

\* What a chunk adds, as sizes of sets.
LEMMA AccumulatedIs ==
    ASSUME Decided!TypeOK, NEW rows \in SUBSET Decided!Rated, NEW th
    PROVE  LET more == Decided!Accumulated(rows, th) IN
           /\ DOMAIN more = {"served", "alone", "hits", "named"}
           /\ more.served = Tally(rows, th)
           /\ more.hits = [t \in Decided!Truth |-> Cardinality(rows \cap (OfTruth(t) \cap FlaggedAt(th)))]
           /\ DOMAIN more.named = {"rows", "correct"}
           /\ more.named.correct = Cardinality(rows \cap RightAt(th))
<1> DEFINE batch == Decided!VoteBatch(rows, th, Decided!Unset)
           final == Decided!FinalBatch(batch)
           more == Decided!Accumulated(rows, th)
           hit == batch.hit
           flagged == final.anomaly
           named == {r \in rows : truth[r] \notin {Decided!Normal, "cascade"} /\ hit[r]}
<1>t. iso \in [Decided!Rated -> BOOLEAN]
  BY DEF Decided!TypeOK
<1>1. /\ DOMAIN hit = rows
      /\ \A r \in rows : /\ hit[r] \in BOOLEAN /\ (hit[r] <=> r \in HitAt(th))
                         /\ batch.cause[r] = Decided!ClassifierVote(proba[r], th, Decided!Unset)[2]
  BY BatchHits
<1>2. /\ flagged = [r \in rows |-> hit[r] \/ iso[r]]
      /\ \A r \in rows : hit[r] => final.cause[r] = batch.cause[r]
  <2> HIDE DEF batch
  <2> QED BY <1>1 DEF Decided!FinalBatch
<1>3. \A r \in rows : flagged[r] <=> r \in FlaggedAt(th)
  <2> HIDE DEF batch, final
  <2> QED BY <1>t, <1>1, <1>2 DEF FlaggedAt, HitAt
<1>4. more = [served |-> Decided!Confusion(flagged, rows),
              alone |-> Decided!Confusion(hit, rows),
              hits |-> [t \in Decided!Truth |-> Decided!Cardinality({r \in rows : truth[r] = t /\ flagged[r]})],
              named |-> [rows |-> Decided!Cardinality(named),
                         correct |-> Decided!Cardinality({r \in named : final.cause[r] = truth[r]})]]
  BY DEF Decided!Accumulated
<1> HIDE DEF batch, final, more
<1>5. Decided!Confusion(flagged, rows) = Tally(rows, th)
  <2>1. {r \in rows : flagged[r] /\ truth[r] # Decided!Normal} = rows \cap (FlaggedAt(th) \cap Broken)
    BY <1>3 DEF Broken
  <2>2. {r \in rows : flagged[r] /\ truth[r] = Decided!Normal} = rows \cap (FlaggedAt(th) \ Broken)
    BY <1>3 DEF Broken
  <2>3. {r \in rows : ~ flagged[r] /\ truth[r] # Decided!Normal} = rows \cap (Broken \ FlaggedAt(th))
    BY <1>3 DEF Broken
  <2> QED
    BY <2>1, <2>2, <2>3, VerdictsSizes DEF Decided!Confusion, Tally
<1>6. \A t \in Decided!Truth : {r \in rows : truth[r] = t /\ flagged[r]} = rows \cap (OfTruth(t) \cap FlaggedAt(th))
  BY <1>3 DEF OfTruth
<1>7. {r \in named : final.cause[r] = truth[r]} = rows \cap RightAt(th)
  BY <1>1, <1>2 DEF RightAt, HitAt
<1>8. more.hits = [t \in Decided!Truth |-> Cardinality(rows \cap (OfTruth(t) \cap FlaggedAt(th)))]
  BY <1>4, <1>6, VerdictsSizes
<1>9. DOMAIN more = {"served", "alone", "hits", "named"} /\ more.served = Tally(rows, th)
  BY <1>4, <1>5
<1>10. DOMAIN more.named = {"rows", "correct"}
  BY <1>4
<1>11. more.named.correct = Cardinality(rows \cap RightAt(th))
  BY <1>4, <1>7, VerdictsSizes
<1> QED
  BY <1>8, <1>9, <1>10, <1>11 DEF more

LEMMA TallyAdds ==
    ASSUME NEW a \in Nat, NEW b \in Nat, a <= b, NEW S
    PROVE  /\ Cardinality((1..a) \cap S) \in Nat
           /\ Cardinality((1..b) \cap S) = Cardinality((1..a) \cap S) + Cardinality(((a + 1)..b) \cap S)
<1>1. IsFiniteSet(1..a) /\ IsFiniteSet((a + 1)..b)
  BY FS_Interval
<1>2. IsFiniteSet((1..a) \cap S) /\ IsFiniteSet(((a + 1)..b) \cap S)
  BY <1>1, FS_Subset
<1>3. (1..b) \cap S = ((1..a) \cap S) \cup (((a + 1)..b) \cap S)
  OBVIOUS
<1>4. ((1..a) \cap S) \cap (((a + 1)..b) \cap S) = {}
  OBVIOUS
<1>5. /\ Cardinality((1..a) \cap S) \in Nat /\ Cardinality(((a + 1)..b) \cap S) \in Nat
      /\ Cardinality({}) = 0
  BY <1>2, FS_CardinalityType, FS_EmptySet
<1> QED
  BY <1>2, <1>3, <1>4, <1>5, FS_Union

VerdictsInv ==
    /\ Decided!TypeOK
    /\ \A r \in Decided!Rated : answer[r] # Decided!NotYet => answer[r] = Decided!Decide(r, threshold, perClass)
    /\ curve = [th \in Grid |-> Tally(ToNow, th)]
    /\ DOMAIN counts = {"served", "alone", "hits", "named"}
    /\ counts.served = Tally(ToNow, threshold)
    /\ counts.hits = [t \in Decided!Truth |-> Cardinality(ToNow \cap (OfTruth(t) \cap FlaggedAt(threshold)))]
    /\ DOMAIN counts.named = {"rows", "correct"}
    /\ counts.named.correct = Cardinality(ToNow \cap RightAt(threshold))

LEMMA BestIsACause ==
    ASSUME Decided!TypeOK, NEW r \in Decided!Rated, NEW th, NEW per \in PerClass \cup {Decided!Unset}
    PROVE  LET vote == Decided!ClassifierVote(proba[r], th, per) IN
           \/ vote[1] = TRUE /\ \E i \in DOMAIN Causes : vote[2] = Causes[i]
           \/ vote[1] = FALSE /\ vote[2] = Decided!Normal
<1> DEFINE p == proba[r]
           vote == Decided!ClassifierVote(p, th, per)
           exceed == {i \in DOMAIN Causes : p[Causes[i]] >= Decided!Bar(per, Causes[i])}
           points == [c \in Decided!Class |-> p[c] - Decided!Bar(per, c)]
<1>p. /\ \A i \in DOMAIN Causes : /\ Causes[i] \in Decided!Class /\ p[Causes[i]] \in Nat
                                  /\ Decided!Bar(per, Causes[i]) \in Nat
      /\ DOMAIN Causes = 1..Len(Causes) /\ Len(Causes) \in Nat \ {0}
  BY CausesAreNamed, VotesAreInts
<1>q. DOMAIN Causes # {}
  <2>1. 1 \in DOMAIN Causes
    BY CausesAreNamed
  <2> QED BY <2>1
<1>1. ASSUME exceed # {} PROVE \E i \in DOMAIN Causes : Decided!Best(points, exceed) = Causes[i]
  <2> DEFINE row == [i \in DOMAIN Causes |-> IF i \in exceed THEN points[Causes[i]] ELSE -1]
  <2>1. \A i \in exceed : points[Causes[i]] \in Nat
    <3> TAKE i \in exceed
    <3>1. p[Causes[i]] >= Decided!Bar(per, Causes[i]) /\ points[Causes[i]] = p[Causes[i]] - Decided!Bar(per, Causes[i])
      BY <1>p
    <3> HIDE DEF points, exceed, p
    <3> QED BY <1>p, <3>1 DEF exceed
  <2>2. exceed \in SUBSET DOMAIN Causes
    OBVIOUS
  <2> HIDE DEF exceed, points
  <2>3. row \in [DOMAIN Causes -> Int]
    BY <2>1
  <2>4. \A i \in exceed : row[i] = points[Causes[i]]
    BY <2>2
  <2>5. \A i \in exceed : \A j \in DOMAIN Causes \ exceed : row[j] < row[i]
    BY <2>1, <2>2
  <2>6. Decided!ArgMax(row) \in DOMAIN Causes
    BY <1>p, <2>3, ArgMaxIsFirst
  <2> HIDE DEF row
  <2>7. Decided!Best(points, exceed) = Causes[Decided!ArgMax(row)]
    BY <1>1, <2>2, <2>3, <2>4, <2>5, BestIsArgMax
  <2> QED BY <2>6, <2>7
<1>2. \E i \in DOMAIN Causes : Decided!Best(p, DOMAIN Causes) = Causes[i]
  <2> DEFINE row == [i \in DOMAIN Causes |-> p[Causes[i]]]
  <2>1. row \in [DOMAIN Causes -> Int] /\ \A i \in DOMAIN Causes : row[i] = p[Causes[i]]
    BY <1>p
  <2>2. Decided!ArgMax(row) \in DOMAIN Causes
    BY <1>p, <2>1, ArgMaxIsFirst
  <2> HIDE DEF row, p
  <2>3. Decided!Best(p, DOMAIN Causes) = Causes[Decided!ArgMax(row)]
    BY <2>1, <1>q, BestIsArgMax
  <2> QED BY <2>2, <2>3
<1>3. CASE per # Decided!Unset
  <2>1. vote = IF exceed = {} THEN <<FALSE, Decided!Normal>> ELSE <<TRUE, Decided!Best(points, exceed)>>
    BY <1>3 DEF Decided!ClassifierVote
  <2> HIDE DEF exceed, points, p
  <2> QED BY <1>1, <2>1 DEF p
<1>4. CASE per = Decided!Unset
  <2>1. vote = IF p[Decided!Normal] < th THEN <<TRUE, Decided!Best(p, DOMAIN Causes)>> ELSE <<FALSE, Decided!Normal>>
    BY <1>4 DEF Decided!ClassifierVote
  <2> QED BY <1>2, <2>1
<1> QED BY <1>3, <1>4

LEMMA DecideHas ==
    ASSUME NEW r, NEW th, NEW per
    PROVE  LET vote == Decided!ClassifierVote(proba[r], th, per) IN
           /\ Decided!Decide(r, th, per).anomaly = (vote[1] \/ iso[r])
           /\ Decided!Decide(r, th, per).cause
                = IF vote[1] THEN vote[2] ELSE IF iso[r] THEN Decided!NetOnly ELSE "none"
BY DEF Decided!Decide

LEMMA DecideIsTyped ==
    ASSUME Decided!TypeOK, NEW r \in Decided!Rated, NEW th, NEW per \in PerClass \cup {Decided!Unset}
    PROVE  Decided!Decide(r, th, per) \in
             [anomaly : BOOLEAN, cause : Decided!Class \cup {Decided!NetOnly, "none", "unanswered"}]
<1> DEFINE vote == Decided!ClassifierVote(proba[r], th, per)
<1>1. \/ vote[1] = TRUE /\ \E i \in DOMAIN Causes : vote[2] = Causes[i]
      \/ vote[1] = FALSE /\ vote[2] = Decided!Normal
  BY BestIsACause
<1>2. vote[1] \in BOOLEAN /\ vote[2] \in Decided!Class
  <2> HIDE DEF vote
  <2> QED BY <1>1, CausesAreNamed DEF Decided!Class
<1>3. iso[r] \in BOOLEAN
  BY DEF Decided!TypeOK
<1>4. Decided!Decide(r, th, per) = [anomaly |-> vote[1] \/ iso[r],
        cause |-> IF vote[1] THEN vote[2] ELSE IF iso[r] THEN Decided!NetOnly ELSE "none"]
  BY DEF Decided!Decide
<1> HIDE DEF vote
<1> QED BY <1>2, <1>3, <1>4

LEMMA VerdictsStart == Decided!Init => VerdictsInv
<1> SUFFICES ASSUME Decided!Init PROVE VerdictsInv
  OBVIOUS
<1>1. Decided!TypeOK
  <2>1. Machines \in Nat
    BY ConstantsAssumption
  <2> QED BY <2>1 DEF Decided!Init, Decided!TypeOK, Decided!NotYet
<1>2. ToNow = {}
  BY DEF Decided!Init, ToNow
<1>3. /\ DOMAIN Decided!Nothing = {"served", "alone", "hits", "named"}
      /\ Decided!Nothing.served = Tally({}, 0)
      /\ Decided!Nothing.hits = [t \in Decided!Truth |-> Cardinality({} \cap (OfTruth(t) \cap FlaggedAt(0)))]
      /\ DOMAIN Decided!Nothing.named = {"rows", "correct"}
      /\ Decided!Nothing.named.correct = Cardinality({} \cap RightAt(0))
  <2>1. {} \in SUBSET Decided!Rated
    OBVIOUS
  <2> QED BY <1>1, <2>1, AccumulatedIs DEF Decided!Nothing
<1>4. \A S : {} \cap S = {}
  OBVIOUS
<1>5. \A th : Tally({}, th) = Tally({}, 0)
  BY <1>4 DEF Tally
<1>6. curve = [th \in Grid |-> Tally({}, th)]
  BY <1>3, <1>5 DEF Decided!Init
<1>7. counts = Decided!Nothing
  BY DEF Decided!Init
<1>8. counts.hits = [t \in Decided!Truth |-> Cardinality({} \cap (OfTruth(t) \cap FlaggedAt(threshold)))]
  BY <1>3, <1>4, <1>7
<1>9. counts.named.correct = Cardinality({} \cap RightAt(threshold))
  BY <1>3, <1>4, <1>7
<1>10. \A r \in Decided!Rated : answer[r] = Decided!NotYet
  BY DEF Decided!Init
<1> QED
  BY <1>1, <1>2, <1>3, <1>5, <1>6, <1>7, <1>8, <1>9, <1>10 DEF VerdictsInv

LEMMA VerdictsServe ==
    ASSUME VerdictsInv, NEW q \in Decided!Rated, Decided!Serve(q)
    PROVE  VerdictsInv'
<1>1. /\ answer' = [answer EXCEPT ![q] = Decided!Decide(q, threshold, perClass)]
      /\ UNCHANGED <<proba, iso, truth, threshold, perClass, evaluated, curve, counts>>
  BY DEF Decided!Serve
<1>2. Decided!TypeOK
  BY DEF VerdictsInv
<1>3. Decided!Decide(q, threshold, perClass) \in
             [anomaly : BOOLEAN, cause : Decided!Class \cup {Decided!NetOnly, "none", "unanswered"}]
  BY <1>2, DecideIsTyped DEF Decided!TypeOK
<1>4. Decided!TypeOK'
  BY <1>1, <1>2, <1>3 DEF Decided!TypeOK
<1>5. \A r \in Decided!Rated : Decided!Decide(r, threshold, perClass)' = Decided!Decide(r, threshold, perClass)
  BY <1>1 DEF Decided!Decide
<1>6. \A r \in Decided!Rated : (answer[r] # Decided!NotYet => answer[r] = Decided!Decide(r, threshold, perClass))'
  BY <1>1, <1>2, <1>5 DEF VerdictsInv, Decided!TypeOK
<1>7. /\ ToNow' = ToNow /\ Broken' = Broken
      /\ \A th : FlaggedAt(th)' = FlaggedAt(th) /\ RightAt(th)' = RightAt(th)
      /\ \A t : OfTruth(t)' = OfTruth(t)
  BY <1>1 DEF ToNow, Broken, FlaggedAt, RightAt, HitAt, OfTruth
<1>8. \A th, rows : Tally(rows, th)' = Tally(rows, th)
  BY <1>7 DEF Tally
<1> QED
  BY <1>1, <1>4, <1>6, <1>7, <1>8 DEF VerdictsInv

LEMMA RatesAdd ==
    ASSUME NEW a, NEW b, NEW c, NEW d, NEW e, NEW f
    PROVE  Decided!Sum2([tp |-> a, fp |-> b, fn |-> c], [tp |-> d, fp |-> e, fn |-> f])
             = [tp |-> a + d, fp |-> b + e, fn |-> c + f]
BY DEF Decided!Sum2

LEMMA VerdictsChunk ==
    ASSUME VerdictsInv, Decided!EvaluateChunk
    PROVE  VerdictsInv'
<1> DEFINE last == Decided!Min({evaluated + Chunk, Machines})
           rows == (evaluated + 1)..last
           more == Decided!Accumulated(rows, threshold)
<1>n. Machines \in Nat /\ Chunk \in Nat \ {0} /\ evaluated \in 0..Machines
  BY ConstantsAssumption DEF VerdictsInv, Decided!TypeOK
<1>1. last \in Nat /\ evaluated < last /\ last <= Machines
  <2>1. evaluated < Machines
    BY DEF Decided!EvaluateChunk
  <2>2. last = CHOOSE x \in {evaluated + Chunk, Machines} : \A y \in {evaluated + Chunk, Machines} : x <= y
    BY DEF Decided!Min
  <2>3. last \in {evaluated + Chunk, Machines} /\ last <= Machines
    <3>1. CASE evaluated + Chunk <= Machines
      BY <1>n, <2>2, <3>1
    <3>2. CASE ~ (evaluated + Chunk <= Machines)
      BY <1>n, <2>2, <3>2
    <3> QED BY <3>1, <3>2
  <2> QED BY <1>n, <2>1, <2>3
<1>2. /\ evaluated' = last
      /\ curve' = [th \in Grid |-> Decided!Sum2(curve[th], Decided!Accumulated(rows, th).served)]
      /\ counts' = [f \in DOMAIN counts |-> Decided!Sum2(counts[f], more[f])]
      /\ UNCHANGED <<proba, iso, truth, threshold, perClass, answer>>
  BY DEF Decided!EvaluateChunk
<1> HIDE DEF last
<1>3. Decided!TypeOK /\ rows \in SUBSET Decided!Rated
  BY <1>n, <1>1 DEF VerdictsInv, Decided!Rated
<1>4. Decided!TypeOK'
  BY <1>1, <1>2, <1>3 DEF Decided!TypeOK
<1>5. \A r \in Decided!Rated : Decided!Decide(r, threshold, perClass)' = Decided!Decide(r, threshold, perClass)
  BY <1>2 DEF Decided!Decide
<1>6. \A r \in Decided!Rated : (answer[r] # Decided!NotYet => answer[r] = Decided!Decide(r, threshold, perClass))'
  BY <1>2, <1>3, <1>5 DEF VerdictsInv, Decided!TypeOK
<1>7. /\ Broken' = Broken
      /\ \A th : FlaggedAt(th)' = FlaggedAt(th) /\ RightAt(th)' = RightAt(th)
      /\ \A t : OfTruth(t)' = OfTruth(t)
  BY <1>2 DEF Broken, FlaggedAt, RightAt, HitAt, OfTruth
<1>8. \A th, now : Tally(now, th)' = Tally(now, th)
  BY <1>7 DEF Tally
<1>9. ASSUME NEW S
      PROVE  /\ Cardinality(ToNow \cap S) \in Nat
             /\ Cardinality(ToNow' \cap S) = Cardinality(ToNow \cap S) + Cardinality(rows \cap S)
  <2>1. evaluated \in Nat /\ last \in Nat /\ evaluated <= last /\ ToNow' = 1..last /\ ToNow = 1..evaluated
    BY <1>n, <1>1, <1>2 DEF ToNow
  <2>2. /\ Cardinality((1..evaluated) \cap S) \in Nat
        /\ Cardinality((1..last) \cap S) = Cardinality((1..evaluated) \cap S) + Cardinality(((evaluated + 1)..last) \cap S)
    BY <2>1, TallyAdds
  <2> QED BY <2>1, <2>2
<1>10. \A th : Decided!Sum2(Tally(ToNow, th), Tally(rows, th)) = Tally(ToNow', th)
  <2> TAKE th
  <2> DEFINE A == FlaggedAt(th) \cap Broken
             B == FlaggedAt(th) \ Broken
             C == Broken \ FlaggedAt(th)
  <2>1. /\ Tally(ToNow, th) = [tp |-> Cardinality(ToNow \cap A), fp |-> Cardinality(ToNow \cap B), fn |-> Cardinality(ToNow \cap C)]
        /\ Tally(rows, th) = [tp |-> Cardinality(rows \cap A), fp |-> Cardinality(rows \cap B), fn |-> Cardinality(rows \cap C)]
        /\ Tally(ToNow', th) = [tp |-> Cardinality(ToNow' \cap A), fp |-> Cardinality(ToNow' \cap B), fn |-> Cardinality(ToNow' \cap C)]
    BY DEF Tally
  <2>2. /\ Cardinality(ToNow' \cap A) = Cardinality(ToNow \cap A) + Cardinality(rows \cap A)
        /\ Cardinality(ToNow' \cap B) = Cardinality(ToNow \cap B) + Cardinality(rows \cap B)
        /\ Cardinality(ToNow' \cap C) = Cardinality(ToNow \cap C) + Cardinality(rows \cap C)
    BY <1>9
  <2> HIDE DEF A, B, C, rows
  <2>3. Decided!Sum2([tp |-> Cardinality(ToNow \cap A), fp |-> Cardinality(ToNow \cap B), fn |-> Cardinality(ToNow \cap C)],
                     [tp |-> Cardinality(rows \cap A), fp |-> Cardinality(rows \cap B), fn |-> Cardinality(rows \cap C)])
          = [tp |-> Cardinality(ToNow \cap A) + Cardinality(rows \cap A),
             fp |-> Cardinality(ToNow \cap B) + Cardinality(rows \cap B),
             fn |-> Cardinality(ToNow \cap C) + Cardinality(rows \cap C)]
    BY RatesAdd
  <2> QED BY <2>1, <2>2, <2>3
<1>11. /\ DOMAIN more = {"served", "alone", "hits", "named"}
       /\ more.served = Tally(rows, threshold)
       /\ more.hits = [t \in Decided!Truth |-> Cardinality(rows \cap (OfTruth(t) \cap FlaggedAt(threshold)))]
       /\ DOMAIN more.named = {"rows", "correct"}
       /\ more.named.correct = Cardinality(rows \cap RightAt(threshold))
  BY <1>3, AccumulatedIs
<1>12. \A th : Decided!Accumulated(rows, th).served = Tally(rows, th)
  BY <1>3, AccumulatedIs
<1> HIDE DEF rows, more
<1>13. curve' = [th \in Grid |-> Tally(ToNow, th)]'
  BY <1>2, <1>8, <1>10, <1>12 DEF VerdictsInv
<1>14. DOMAIN counts' = {"served", "alone", "hits", "named"} /\ counts'.served = Tally(ToNow, threshold)'
  BY <1>2, <1>8, <1>10, <1>11 DEF VerdictsInv
<1>15. counts'.hits = [t \in Decided!Truth |-> Cardinality(ToNow \cap (OfTruth(t) \cap FlaggedAt(threshold)))]'
  <2>1. counts'.hits = Decided!Sum2(counts.hits, more.hits)
    BY <1>2 DEF VerdictsInv
  <2>2. counts'.hits = [t \in Decided!Truth |-> Cardinality(ToNow \cap (OfTruth(t) \cap FlaggedAt(threshold)))
                                               + Cardinality(rows \cap (OfTruth(t) \cap FlaggedAt(threshold)))]
    BY <2>1, <1>11 DEF VerdictsInv, Decided!Sum2
  <2>3. counts'.hits = [t \in Decided!Truth |-> Cardinality(ToNow' \cap (OfTruth(t) \cap FlaggedAt(threshold)))]
    BY <2>2, <1>9
  <2> QED BY <2>3, <1>2, <1>7
<1>16. DOMAIN counts'.named = {"rows", "correct"} /\ counts'.named.correct = Cardinality(ToNow' \cap RightAt(threshold))
  <2>1. counts'.named = Decided!Sum2(counts.named, more.named)
    BY <1>2 DEF VerdictsInv
  <2>2. DOMAIN counts'.named = {"rows", "correct"} /\ counts'.named.correct = counts.named.correct + more.named.correct
    BY <2>1 DEF VerdictsInv, Decided!Sum2
  <2> QED BY <2>2, <1>9, <1>11 DEF VerdictsInv
<1> QED
  BY <1>2, <1>4, <1>6, <1>7, <1>13, <1>14, <1>15, <1>16 DEF VerdictsInv

LEMMA VerdictsStep ==
    ASSUME VerdictsInv, Decided!Next \/ UNCHANGED decided
    PROVE  VerdictsInv'
<1>1. CASE UNCHANGED decided
  <2>1. UNCHANGED <<proba, iso, truth, threshold, perClass, answer, evaluated, curve, counts>>
    BY <1>1 DEF decided
  <2>2. Decided!TypeOK'
    BY <2>1 DEF VerdictsInv, Decided!TypeOK
  <2>3. \A r \in Decided!Rated : Decided!Decide(r, threshold, perClass)' = Decided!Decide(r, threshold, perClass)
    BY <2>1 DEF Decided!Decide
  <2>4. /\ ToNow' = ToNow /\ Broken' = Broken
        /\ \A th : FlaggedAt(th)' = FlaggedAt(th) /\ RightAt(th)' = RightAt(th)
        /\ \A t : OfTruth(t)' = OfTruth(t)
    BY <2>1 DEF ToNow, Broken, FlaggedAt, RightAt, HitAt, OfTruth
  <2>5. \A th, rows : Tally(rows, th)' = Tally(rows, th)
    BY <2>4 DEF Tally
  <2> QED BY <2>1, <2>2, <2>3, <2>4, <2>5 DEF VerdictsInv
<1>2. CASE Decided!Next
  BY <1>2, VerdictsServe, VerdictsChunk DEF Decided!Next
<1> QED BY <1>1, <1>2

LEMMA VerdictsRowForRow ==
    ASSUME VerdictsInv
    PROVE  Decided!RowForRow
<1> SUFFICES ASSUME NEW r \in Decided!Rated, NEW th \in Grid, NEW per \in PerClass \cup {Decided!Unset}
             PROVE  LET vote == Decided!ClassifierVote(proba[r], th, per)
                        batch == Decided!VoteBatch(Decided!Rated, th, per)
                    IN batch.hit[r] = vote[1] /\ batch.cause[r] = vote[2]
  BY DEF Decided!RowForRow
<1>1. Decided!TypeOK
  BY DEF VerdictsInv
<1> QED BY <1>1, RowsAsBatch

LEMMA VerdictsCounted ==
    ASSUME VerdictsInv
    PROVE  Decided!CountsAreServed
<1> SUFFICES ASSUME perClass = Decided!Unset, evaluated = Machines,
                    \A r \in Decided!Rated : answer[r] # Decided!NotYet
             PROVE  LET flagged == [r \in Decided!Rated |-> answer[r].anomaly] IN
        /\ counts.served = Decided!Confusion(flagged, Decided!Rated)
        /\ curve[threshold] = counts.served
        /\ counts.named.correct = Decided!Cardinality({r \in Decided!Rated : answer[r].cause = truth[r]})
        /\ \A t \in Decided!Truth : counts.hits[t] = Decided!Cardinality({r \in Decided!Rated : truth[r] = t /\ flagged[r]})
  BY DEF Decided!CountsAreServed
<1> DEFINE flagged == [r \in Decided!Rated |-> answer[r].anomaly]
           vote(r) == Decided!ClassifierVote(proba[r], threshold, Decided!Unset)
<1>1. Decided!TypeOK /\ ToNow = Decided!Rated
  BY DEF VerdictsInv, ToNow, Decided!Rated
<1>3. ASSUME NEW r \in Decided!Rated
      PROVE  /\ \/ vote(r)[1] = TRUE /\ \E i \in DOMAIN Causes : vote(r)[2] = Causes[i]
                \/ vote(r)[1] = FALSE /\ vote(r)[2] = Decided!Normal
             /\ vote(r)[1] <=> r \in HitAt(threshold)
  <2>1. Decided!Unset \in PerClass \cup {Decided!Unset}
    OBVIOUS
  <2>2. vote(r) = IF proba[r][Decided!Normal] < threshold
               THEN <<TRUE, Decided!Best(proba[r], DOMAIN Causes)>> ELSE <<FALSE, Decided!Normal>>
    BY DEF Decided!ClassifierVote
  <2>3. vote(r)[1] <=> r \in HitAt(threshold)
    <3> HIDE DEF vote
    <3> QED BY <2>2 DEF HitAt
  <2> QED BY <1>1, <2>1, <2>3, BestIsACause
<1>2. \A r \in Decided!Rated : answer[r] = Decided!Decide(r, threshold, Decided!Unset)
  BY DEF VerdictsInv
<1>12. \A r \in Decided!Rated :
          answer[r].cause = IF vote(r)[1] THEN vote(r)[2] ELSE IF iso[r] THEN Decided!NetOnly ELSE "none"
  BY <1>2, DecideHas
<1>13. \A r \in Decided!Rated : answer[r].anomaly = (vote(r)[1] \/ iso[r])
  BY <1>2, DecideHas
<1> HIDE DEF vote
<1>4. \A r \in Decided!Rated : iso[r] \in BOOLEAN /\ truth[r] \in Decided!Truth
  BY <1>1 DEF Decided!TypeOK
<1>5. \A r \in Decided!Rated : flagged[r] <=> r \in FlaggedAt(threshold)
  BY <1>13, <1>3, <1>4 DEF FlaggedAt, HitAt
<1> HIDE DEF flagged
<1>6. {r \in Decided!Rated : answer[r].cause = truth[r]} = Decided!Rated \cap RightAt(threshold)
  <2>1. ASSUME NEW r \in Decided!Rated, answer[r].cause = truth[r] PROVE r \in RightAt(threshold)
    <3>1. answer[r].cause = IF vote(r)[1] THEN vote(r)[2] ELSE IF iso[r] THEN Decided!NetOnly ELSE "none"
      BY <1>12
    <3>2. Decided!NetOnly \notin Decided!Truth /\ "none" \notin Decided!Truth
      BY VerdictsAssumption DEF Decided!Truth, Decided!Class, Decided!NetOnly, Decided!Normal
    <3>3. vote(r)[1] /\ vote(r)[2] = truth[r]
      BY <2>1, <3>1, <3>2, <1>4
    <3>4. truth[r] \notin {Decided!Normal, "cascade"} /\ r \in HitAt(threshold)
      BY <3>3, <1>3, VerdictsAssumption DEF Decided!Normal
    <3> QED BY <3>3, <3>4 DEF RightAt, vote
  <2>2. ASSUME NEW r \in Decided!Rated, r \in RightAt(threshold) PROVE answer[r].cause = truth[r]
    <3>1. vote(r)[1] /\ vote(r)[2] = truth[r]
      BY <2>2, <1>3 DEF RightAt, vote
    <3> QED BY <3>1, <1>12
  <2> QED BY <2>1, <2>2
<1>7. Decided!Confusion(flagged, Decided!Rated) = Tally(Decided!Rated, threshold)
  <2>1. {r \in Decided!Rated : flagged[r] /\ truth[r] # Decided!Normal} = Decided!Rated \cap (FlaggedAt(threshold) \cap Broken)
    BY <1>5 DEF Broken
  <2>2. {r \in Decided!Rated : flagged[r] /\ truth[r] = Decided!Normal} = Decided!Rated \cap (FlaggedAt(threshold) \ Broken)
    BY <1>5 DEF Broken
  <2>3. {r \in Decided!Rated : ~ flagged[r] /\ truth[r] # Decided!Normal} = Decided!Rated \cap (Broken \ FlaggedAt(threshold))
    BY <1>5 DEF Broken
  <2> QED BY <2>1, <2>2, <2>3, VerdictsSizes DEF Decided!Confusion, Tally
<1>8. \A t \in Decided!Truth :
        {r \in Decided!Rated : truth[r] = t /\ flagged[r]} = Decided!Rated \cap (OfTruth(t) \cap FlaggedAt(threshold))
  BY <1>5 DEF OfTruth
<1>9. counts.served = Decided!Confusion(flagged, Decided!Rated) /\ curve[threshold] = counts.served
  BY <1>1, <1>7 DEF VerdictsInv, Decided!TypeOK
<1>10. counts.named.correct = Decided!Cardinality({r \in Decided!Rated : answer[r].cause = truth[r]})
  BY <1>1, <1>6, VerdictsSizes DEF VerdictsInv
<1>11. \A t \in Decided!Truth : counts.hits[t] = Decided!Cardinality({r \in Decided!Rated : truth[r] = t /\ flagged[r]})
  BY <1>1, <1>8, VerdictsSizes DEF VerdictsInv
<1> QED BY <1>9, <1>10, <1>11 DEF flagged

(***************************************************************************)
(* Features: what a prediction was made of is kept with it, so that it can be *)
(* computed again from the file it was evaluated on.                       *)
(***************************************************************************)

LEMMA ShownMin ==
    ASSUME NEW S, S \subseteq Nat, S # {}
    PROVE  Shown!Min(S) \in S
<1>1. Shown!Min(S) = CHOOSE x \in S : \A y \in S : x <= y
  BY DEF Shown!Min
<1>2. \E x \in S : \A y \in S : x <= y
  BY LeastOne
<1> QED BY <1>1, <1>2

\* What an entry of the log says of the reading it was made of.
EntryTyped(e) ==
    /\ e.machine \in Machine /\ e.row \in DOMAIN values
    /\ e.type \in Shown!Types \cup {Shown!None}
    /\ e.window \in {Shown!None, Shown!ServedWindow(Shown!HourOf(e.row))}
    /\ e.value = values[e.row]
    /\ e.history \in Shown!Histories(e.row)
    /\ e.seen = Shown!Served(e.value, e.history,
                  Shown!ServedStats(Shown!BuildBaselines(train), e.machine, e.window, e.type))

FeaturesInv ==
    /\ Shown!TypeOK
    /\ \E A : log \in Seq(A)
    /\ \A i \in DOMAIN log : EntryTyped(log[i])
    /\ \/ examples = <<>>
       \/ /\ DOMAIN examples \subseteq DOMAIN log
          /\ examples = Shown!FeedbackExamples(DOMAIN examples, candidate)

LEMMA HistoriesAre ==
    ASSUME values \in Telemetry, NEW k \in DOMAIN values, NEW h \in Shown!Histories(k), h # <<>>
    PROVE  /\ k >= RollingWindow /\ h = SubSeq(values, k - RollingWindow + 1, k)
           /\ Len(h) = RollingWindow
           /\ h[Len(h)] = values[k] /\ h[1] = values[k - RollingWindow + 1]
<1>1. values \in Seq(Int) /\ RollingWindow \in Nat \ {0}
  <2>1. values \in Seq(Int)
    BY FeaturesAssumption
  <2>2. RollingWindow \in Nat \ {0}
    BY ConstantsAssumption
  <2> QED BY <2>1, <2>2
<1>2. k \in 1..Len(values) /\ Len(values) \in Nat
  BY <1>1
<1>3. k >= RollingWindow /\ h = SubSeq(values, k - RollingWindow + 1, k)
  BY DEF Shown!Histories
<1>4. /\ k - RollingWindow + 1 \in 1..Len(values)
      /\ Len(h) = RollingWindow
      /\ \A i \in 1..RollingWindow : h[i] = values[k - RollingWindow + i]
  <2> DEFINE a == k - RollingWindow + 1
  <2>0. k \in Nat /\ k <= Len(values) /\ Len(values) \in Nat /\ RollingWindow \in Nat \ {0} /\ RollingWindow <= k
    BY <1>1, <1>2, <1>3
  <2>1. a \in 1..Len(values) /\ a \in Nat /\ a <= k /\ k - a + 1 = RollingWindow
        /\ \A i \in 1..RollingWindow : a + i - 1 = k - RollingWindow + i
    BY <2>0
  <2> HIDE DEF a
  <2>2. h = SubSeq(values, a, k)
    BY <1>3 DEF a
  <2>3. Len(h) = RollingWindow
    BY <1>1, <1>2, <2>1, <2>2
  <2>4. \A i \in 1..RollingWindow : h[i] = values[a + i - 1]
    BY <1>1, <1>2, <2>1, <2>2
  <2> QED BY <2>1, <2>3, <2>4 DEF a
<1>5. h[RollingWindow] = values[k] /\ h[1] = values[k - RollingWindow + 1]
  <2>1. 1 \in 1..RollingWindow /\ RollingWindow \in 1..RollingWindow /\ k - RollingWindow + RollingWindow = k
    BY <1>1, <1>2
  <2> QED BY <1>4, <2>1
<1> QED BY <1>3, <1>4, <1>5

LEMMA FeaturesStart == Shown!Init => FeaturesInv
<1> SUFFICES ASSUME Shown!Init PROVE FeaturesInv
  OBVIOUS
<1>1. log = <<>> /\ examples = <<>> /\ values \in Telemetry /\ train \in TrainingFile /\ candidate = train
  BY DEF Shown!Init
<1>2. log \in Seq({}) /\ DOMAIN log = {} /\ DOMAIN examples = {} /\ Len(log) = 0
  BY <1>1
<1>3. MaxLog \in Nat
  BY ConstantsAssumption
<1> QED BY <1>1, <1>2, <1>3 DEF FeaturesInv, Shown!TypeOK

LEMMA FeaturesPredict ==
    ASSUME FeaturesInv, NEW m \in Machine, NEW k \in DOMAIN values, NEW hint \in Shown!Types \cup {Shown!None},
           NEW timed \in BOOLEAN, NEW h \in Shown!Histories(k), Shown!Predict(m, k, hint, timed, h)
    PROVE  FeaturesInv'
<1> DEFINE b == Shown!BuildBaselines(train)
           window == Shown!ResolveWindow(timed, k)
           type == Shown!ResolveType(hint, m, b)
           e == [machine |-> m, row |-> k, type |-> type, window |-> window,
                 value |-> values[k], history |-> h,
                 seen |-> Shown!Served(values[k], h, Shown!ServedStats(b, m, window, type))]
<1>1. Len(log) < MaxLog /\ log' = Append(log, e) /\ UNCHANGED <<values, train, candidate, examples>>
  BY DEF Shown!Predict
<1>2. type \in Shown!Types \cup {Shown!None}
  BY DEF Shown!ResolveType, Shown!Types
<1>3. window \in {Shown!None, Shown!ServedWindow(Shown!HourOf(k))}
  BY DEF Shown!ResolveWindow
<1> HIDE DEF b, window, type
<1>4. EntryTyped(e)
  BY <1>2, <1>3 DEF EntryTyped, b
<1> HIDE DEF e
<1>5. /\ \E A : log' \in Seq(A)
      /\ Len(log) \in Nat /\ DOMAIN log = 1..Len(log)
      /\ Len(log') = Len(log) + 1 /\ DOMAIN log' = 1..(Len(log) + 1)
      /\ \A i \in 1..Len(log) : log'[i] = log[i]
      /\ log'[Len(log) + 1] = e
  <2>1. \E A : log \in Seq(A)
    BY DEF FeaturesInv
  <2>2. /\ \E A : Append(log, e) \in Seq(A)
        /\ Len(log) \in Nat /\ DOMAIN log = 1..Len(log)
        /\ Len(Append(log, e)) = Len(log) + 1 /\ DOMAIN Append(log, e) = 1..(Len(log) + 1)
        /\ \A i \in 1..Len(log) : Append(log, e)[i] = log[i]
        /\ Append(log, e)[Len(log) + 1] = e
    BY <2>1, Appended
  <2> QED BY <1>1, <2>2
<1>6. \A x : EntryTyped(x)' <=> EntryTyped(x)
  BY <1>1 DEF EntryTyped, Shown!Histories
<1>7. \A i \in DOMAIN log' : EntryTyped(log'[i])
  BY <1>4, <1>5 DEF FeaturesInv
<1>8. \A i \in DOMAIN log' : EntryTyped(log[i])'
  BY <1>6, <1>7
<1>9. MaxLog \in Nat /\ RollingWindow \in Nat \ {0}
  BY ConstantsAssumption
<1>10. Shown!TypeOK'
  <2>1. values \in Telemetry
    BY DEF FeaturesInv, Shown!TypeOK
  <2>2. ASSUME NEW i \in DOMAIN log' PROVE Len(log'[i].history) \in {0, RollingWindow}
    <3>1. log'[i].row \in DOMAIN values /\ log'[i].history \in Shown!Histories(log'[i].row)
      BY <1>7 DEF EntryTyped
    <3>2. CASE log'[i].history = <<>>
      BY <3>2
    <3>3. CASE log'[i].history # <<>>
      BY <2>1, <3>1, <3>3, HistoriesAre
    <3> QED BY <3>2, <3>3
  <2>3. Len(log') <= MaxLog
    BY <1>1, <1>5, <1>9
  <2>4. \A i \in DOMAIN log' : /\ log'[i].machine \in Machine /\ log'[i].row \in DOMAIN values
                               /\ log'[i].type \in Shown!Types \cup {Shown!None}
    BY <1>7 DEF EntryTyped
  <2> QED BY <1>1, <1>5, <2>2, <2>3, <2>4 DEF FeaturesInv, Shown!TypeOK
<1>11. ASSUME examples # <<>>
       PROVE  DOMAIN examples' \subseteq DOMAIN log' /\ examples' = Shown!FeedbackExamples(DOMAIN examples, candidate)'
  <2>1. DOMAIN examples \subseteq DOMAIN log /\ examples = Shown!FeedbackExamples(DOMAIN examples, candidate)
    BY <1>11 DEF FeaturesInv
  <2>2. \A i \in DOMAIN examples : log'[i] = log[i]
    BY <2>1, <1>5
  <2>3. [i \in DOMAIN examples |-> log'[i]] = [i \in DOMAIN examples |-> log[i]]
    BY <2>2
  <2>4. Shown!FeedbackExamples(DOMAIN examples, candidate)' = Shown!FeedbackExamples(DOMAIN examples, candidate)
    BY <1>1, <2>2, <2>3 DEF Shown!FeedbackExamples
  <2> QED BY <1>1, <1>5, <2>1, <2>4
<1> QED BY <1>1, <1>5, <1>8, <1>10, <1>11 DEF FeaturesInv

LEMMA FeaturesRetrain ==
    ASSUME FeaturesInv, NEW rows \in TrainingFile, NEW usable \in SUBSET DOMAIN log, Shown!Retrain(rows, usable)
    PROVE  FeaturesInv'
<1>1. candidate' = rows /\ examples' = Shown!FeedbackExamples(usable, rows) /\ UNCHANGED <<values, train, log>>
  BY DEF Shown!Retrain
<1>2. DOMAIN examples' = usable
  BY <1>1 DEF Shown!FeedbackExamples
<1>3. examples' = Shown!FeedbackExamples(DOMAIN examples, candidate)'
  BY <1>1, <1>2 DEF Shown!FeedbackExamples
<1>4. \A x : EntryTyped(x)' <=> EntryTyped(x)
  BY <1>1 DEF EntryTyped, Shown!Histories
<1>5. Shown!TypeOK'
  BY <1>1, <1>2 DEF FeaturesInv, Shown!TypeOK
<1> QED BY <1>1, <1>2, <1>3, <1>4, <1>5 DEF FeaturesInv

LEMMA FeaturesStep ==
    ASSUME FeaturesInv, Shown!Next \/ UNCHANGED shown
    PROVE  FeaturesInv'
<1>1. CASE UNCHANGED shown
  <2>1. UNCHANGED <<values, train, log, candidate, examples>>
    BY <1>1 DEF shown
  <2>2. \A x : EntryTyped(x)' <=> EntryTyped(x)
    BY <2>1 DEF EntryTyped, Shown!Histories
  <2>3. Shown!TypeOK'
    BY <2>1 DEF FeaturesInv, Shown!TypeOK
  <2>4. Shown!FeedbackExamples(DOMAIN examples, candidate)' = Shown!FeedbackExamples(DOMAIN examples, candidate)
    BY <2>1 DEF Shown!FeedbackExamples
  <2> QED BY <2>1, <2>2, <2>3, <2>4 DEF FeaturesInv
<1>2. CASE Shown!Next
  BY <1>2, FeaturesPredict, FeaturesRetrain DEF Shown!Next
<1> QED BY <1>1, <1>2

\* A machine the training file has, or one whose type is given, has one baseline in a window.
LEMMA OneBaseline ==
    ASSUME NEW b, NEW m, NEW window, NEW t, NEW u, <<m>> \in DOMAIN b \/ t = u
    PROVE  Shown!ServedStats(b, m, window, t) = Shown!GetStats(b, m, window, u)
<1> DEFINE c == << <<m, window>>, <<m>>, <<"__type__", t>>, <<"__global__">> >>
           d == << <<m, window>>, <<m>>, <<"__type__", u>>, <<"__global__">> >>
           First(ch, i) == ch[i] \in DOMAIN b /\ \A j \in 1..(i - 1) : ch[j] \notin DOMAIN b
<1>1. /\ Shown!ServedStats(b, m, window, t) = b[c[CHOOSE i \in DOMAIN c : First(c, i)]]
      /\ Shown!GetStats(b, m, window, u) = b[d[CHOOSE i \in DOMAIN d : First(d, i)]]
  BY DEF Shown!ServedStats, Shown!GetStats, Shown!FirstOf
<1>2. CASE t = u
  BY <1>1, <1>2
<1>3. CASE <<m>> \in DOMAIN b
  <2> DEFINE k == IF <<m, window>> \in DOMAIN b THEN 1 ELSE 2
  <2>1. /\ DOMAIN c = {1, 2, 3, 4} /\ DOMAIN d = {1, 2, 3, 4}
        /\ c[1] = <<m, window>> /\ c[2] = <<m>> /\ d[1] = <<m, window>> /\ d[2] = <<m>>
    OBVIOUS
  <2> HIDE DEF c, d
  <2>2. First(c, k) /\ First(d, k) /\ k \in {1, 2, 3, 4} /\ c[k] = d[k]
    <3>1. CASE <<m, window>> \in DOMAIN b
      BY <2>1, <3>1
    <3>2. CASE <<m, window>> \notin DOMAIN b
      <4>1. k = 2 /\ \A j \in 1..(k - 1) : j = 1
        BY <3>2
      <4> QED BY <2>1, <1>3, <3>2, <4>1
    <3> QED BY <3>1, <3>2
  <2>3. ASSUME NEW i \in {1, 2, 3, 4} PROVE (First(c, i) => i = k) /\ (First(d, i) => i = k)
    <3>1. i < k => ~ First(c, i) /\ ~ First(d, i)
      BY <2>1
    <3>2. k < i => ~ First(c, i) /\ ~ First(d, i)
      <4>1. k < i => k \in 1..(i - 1)
        OBVIOUS
      <4>2. c[k] \in DOMAIN b /\ d[k] \in DOMAIN b
        BY <2>2
      <4> QED BY <4>1, <4>2
    <3>3. k \in {1, 2}
      OBVIOUS
    <3> HIDE DEF k, First
    <3>4. i < k \/ k < i \/ i = k
      BY <3>3
    <3> QED BY <3>1, <3>2, <3>4
  <2> HIDE DEF First, k
  <2>4. (CHOOSE i \in DOMAIN c : First(c, i)) = k /\ (CHOOSE i \in DOMAIN d : First(d, i)) = k
    BY <2>1, <2>2, <2>3
  <2> QED BY <1>1, <2>2, <2>4
<1> QED BY <1>2, <1>3

LEMMA FeaturesServed ==
    ASSUME FeaturesInv
    PROVE  Shown!ServedAsEvaluated
<1> DEFINE b == Shown!BuildBaselines(train)
<1> SUFFICES ASSUME NEW i \in DOMAIN log, log[i].window # Shown!None,
                    Shown!InFile(log[i].machine, train) \/ log[i].type = TypeOf[log[i].machine]
             PROVE  /\ log[i].seen.z = Shown!FleetFeatures(log[i].machine, log[i].row, b).z
                    /\ log[i].seen.model = "v4" =>
                         log[i].seen.rolling = Shown!FleetFeatures(log[i].machine, log[i].row, b).rolling
  BY DEF Shown!ServedAsEvaluated
<1> DEFINE e == log[i]
           m == e.machine
           k == e.row
           frame == [j \in DOMAIN values |-> Shown!FileRow(m, j)]
           group == {j \in DOMAIN frame : frame[j].machine = frame[k].machine /\ frame[j].window = frame[k].window}
<1>1. EntryTyped(e)
  BY DEF FeaturesInv
<1>2. values \in Telemetry /\ values \in Seq(Int) /\ DOMAIN values = 1..Len(values) /\ Len(values) \in Nat
  BY FeaturesAssumption DEF FeaturesInv, Shown!TypeOK
<1>3. k \in DOMAIN values /\ e.value = values[k] /\ e.history \in Shown!Histories(k)
  BY <1>1 DEF EntryTyped
<1>4. e.window = Shown!FileWindow(Shown!HourOf(k))
  <2>1. e.window = Shown!ServedWindow(Shown!HourOf(k))
    BY <1>1 DEF EntryTyped
  <2> QED BY <2>1 DEF Shown!ServedWindow, Shown!FileWindow
<1>5. e.seen = Shown!Served(e.value, e.history, Shown!ServedStats(b, m, e.window, e.type))
  BY <1>1 DEF EntryTyped
<1> HIDE DEF e, m, k, b
<1>6. \A j \in DOMAIN values : /\ frame[j].machine = m /\ frame[j].type = TypeOf[m]
                               /\ frame[j].window = Shown!FileWindow(Shown!HourOf(j)) /\ frame[j].value = values[j]
  BY DEF Shown!FileRow
<1>7. frame[Shown!Min(group)].type = TypeOf[m]
  <2>0. k \in group /\ group \subseteq DOMAIN values
    BY <1>3
  <2>1. group \subseteq Nat /\ group # {} /\ group \subseteq DOMAIN values
    <3> HIDE DEF group
    <3> QED BY <1>2, <2>0
  <2> HIDE DEF group
  <2>2. Shown!Min(group) \in group
    BY <2>1, ShownMin
  <2> QED BY <1>6, <2>1, <2>2
<1>8. Shown!FleetFeatures(m, k, b).z = <<values[k], Shown!GetStats(b, m, e.window, TypeOf[m])>>
  <2>1. Shown!ApplyZscore(frame, b)[k] =
          <<frame[k].value, Shown!GetStats(b, frame[k].machine, frame[k].window, frame[Shown!Min(group)].type)>>
    BY <1>3 DEF Shown!ApplyZscore
  <2>2. Shown!FleetFeatures(m, k, b).z = Shown!ApplyZscore(frame, b)[k]
    BY DEF Shown!FleetFeatures
  <2> HIDE DEF group, frame
  <2> QED BY <2>1, <2>2, <1>3, <1>4, <1>6, <1>7
<1>9. Shown!ServedStats(b, m, e.window, e.type) = Shown!GetStats(b, m, e.window, TypeOf[m])
  <2>1. <<m>> \in DOMAIN b \/ e.type = TypeOf[m]
    BY DEF Shown!InFile, e, m, b
  <2> QED BY <2>1, OneBaseline
<1>10. e.seen.z = <<e.value, Shown!ServedStats(b, m, e.window, e.type)>>
  BY <1>5 DEF Shown!Served
<1>11. ASSUME e.seen.model = "v4" PROVE e.seen.rolling = Shown!FleetFeatures(m, k, b).rolling
  <2>1. e.history # <<>> /\ e.seen.rolling = Shown!FromHistory(e.history)
    BY <1>5, <1>11 DEF Shown!Served
  <2>2. /\ k >= RollingWindow /\ e.history = SubSeq(values, k - RollingWindow + 1, k)
        /\ e.history[Len(e.history)] = values[k] /\ e.history[1] = values[k - RollingWindow + 1]
    BY <1>2, <1>3, <2>1, HistoriesAre
  <2>3. RollingWindow \in Nat \ {0} /\ k \in Nat
    <3>1. k \in 1..Len(values)
      BY <1>2, <1>3
    <3> HIDE DEF frame, group
    <3> QED BY <3>1, <1>2, ConstantsAssumption
  <2>4. Shown!Max({1, k - RollingWindow + 1}) = k - RollingWindow + 1
    BY <2>2, <2>3 DEF Shown!Max
  <2>5. values[k - (RollingWindow - 1)] = values[k - RollingWindow + 1]
    BY <2>3
  <2>6. Shown!FleetFeatures(m, k, b).rolling = Shown!AddRollingFeatures(values, k)
    BY DEF Shown!FleetFeatures
  <2>7. Shown!AddRollingFeatures(values, k) =
          <<Shown!Mean(e.history), Shown!Deviation(e.history), values[k] - values[k - (RollingWindow - 1)]>>
    BY <2>2, <2>4 DEF Shown!AddRollingFeatures
  <2> QED BY <2>1, <2>2, <2>5, <2>6, <2>7 DEF Shown!FromHistory
<1> QED BY <1>3, <1>8, <1>9, <1>10, <1>11 DEF e, m, k, b

LEMMA FeaturesRetrained ==
    ASSUME FeaturesInv
    PROVE  Shown!ExamplesAsServed
<1> SUFFICES ASSUME NEW i \in DOMAIN examples
             PROVE  LET e == log[i]
                        stats == Shown!ServedStats(Shown!BuildBaselines(candidate), e.machine, e.window, e.type)
                    IN /\ examples[i].z = <<e.value, stats>> \/ Shown!TypesDisagree(i)
                       /\ examples[i].rolling = e.seen.rolling
  BY DEF Shown!ExamplesAsServed
<1> DEFINE b == Shown!BuildBaselines(candidate)
           usable == DOMAIN examples
           frame == [j \in usable |-> log[j]]
           group == {j \in DOMAIN frame : frame[j].machine = frame[i].machine /\ frame[j].window = frame[i].window}
           first == Shown!Min(group)
<1>1. usable \subseteq DOMAIN log /\ examples = Shown!FeedbackExamples(usable, candidate)
  BY DEF FeaturesInv
<1>2. DOMAIN log \subseteq Nat
  BY DEF FeaturesInv
<1>3. first \in group
  <2>1. group \subseteq Nat /\ group # {}
    BY <1>1, <1>2
  <2> HIDE DEF group
  <2> QED BY <2>1, ShownMin
<1>4. examples[i] = [z |-> Shown!ApplyZscore(frame, b)[i],
                     rolling |-> IF log[i].history # <<>> THEN Shown!FromHistory(log[i].history) ELSE <<>>]
  <2> HIDE DEF group, first
  <2> QED BY <1>1 DEF Shown!FeedbackExamples
<1>5. Shown!ApplyZscore(frame, b)[i] = <<log[i].value, Shown!GetStats(b, log[i].machine, log[i].window, log[first].type)>>
  BY <1>3 DEF Shown!ApplyZscore
<1>6. first \in usable /\ log[first].machine = log[i].machine /\ log[first].window = log[i].window
  <2> HIDE DEF first
  <2> QED BY <1>3
<1> HIDE DEF first, group, frame, b
<1>7. \/ Shown!TypesDisagree(i)
      \/ Shown!ServedStats(b, log[i].machine, log[i].window, log[i].type)
           = Shown!GetStats(b, log[i].machine, log[i].window, log[first].type)
  <2>1. CASE log[first].type = log[i].type \/ <<log[i].machine>> \in DOMAIN b
    BY <2>1, OneBaseline
  <2>2. CASE log[first].type # log[i].type /\ <<log[i].machine>> \notin DOMAIN b
    BY <1>6, <2>2 DEF Shown!TypesDisagree, Shown!InFile, b
  <2> QED BY <2>1, <2>2
<1>8. examples[i].rolling = log[i].seen.rolling
  <2>1. EntryTyped(log[i])
    BY <1>1 DEF FeaturesInv
  <2>2. log[i].seen.rolling = IF log[i].history # <<>> THEN Shown!FromHistory(log[i].history) ELSE <<>>
    BY <2>1 DEF EntryTyped, Shown!Served
  <2> QED BY <1>4, <2>2
<1> QED BY <1>4, <1>5, <1>7, <1>8 DEF b

(***************************************************************************)
(* FleetView: a router's place among the routers decides what depends on it. *)
(***************************************************************************)

LEMMA ViewSizes == \A S : View!Cardinality(S) = Cardinality(S)
BY DEF Cardinality, View!Cardinality

Before(r) == {q \in IsRouter : View!Place(q) < View!Place(r)}

LEMMA PlacesAreApart ==
    /\ \A m \in View!Member : View!Place(m) \in 1..Len(Fleet) /\ Fleet[View!Place(m)] = m
    /\ \A m, n \in View!Member : View!Place(m) = View!Place(n) => m = n
    /\ Len(Fleet) \in Nat
<1>1. Len(Fleet) \in Nat /\ DOMAIN Fleet = 1..Len(Fleet)
  BY ViewAssumption
<1>2. ASSUME NEW m \in View!Member PROVE View!Place(m) \in 1..Len(Fleet) /\ Fleet[View!Place(m)] = m
  <2>1. \E i \in DOMAIN Fleet : Fleet[i] = m
    BY DEF View!Member
  <2> QED BY <1>1, <2>1 DEF View!Place
<1>3. \A m, n \in View!Member : View!Place(m) = View!Place(n) => m = n
  BY <1>2
<1> QED BY <1>1, <1>2, <1>3

LEMMA RoutersFinite ==
    /\ IsFiniteSet(View!Member) /\ IsFiniteSet(IsRouter) /\ IsRouter \subseteq View!Member
    /\ \A r : IsFiniteSet(Before(r)) /\ Cardinality(Before(r)) \in Nat
<1> DEFINE f == [m \in View!Member |-> View!Place(m)]
<1>1. IsFiniteSet(1..Len(Fleet))
  BY PlacesAreApart, FS_Interval
<1>2. f \in Injection(View!Member, 1..Len(Fleet))
  BY PlacesAreApart DEF Injection, IsInjective
<1>3. IsFiniteSet(View!Member)
  <2> HIDE DEF f
  <2> QED BY <1>1, <1>2, FS_Injection
<1>4. IsRouter \subseteq View!Member
  BY ViewAssumption DEF View!Member
<1>5. IsFiniteSet(IsRouter)
  BY <1>3, <1>4, FS_Subset
<1>6. ASSUME NEW r PROVE IsFiniteSet(Before(r)) /\ Cardinality(Before(r)) \in Nat
  <2>1. Before(r) \in SUBSET IsRouter
    BY DEF Before
  <2> QED BY <1>5, <2>1, FS_Subset, FS_CardinalityType
<1> QED BY <1>3, <1>4, <1>5, <1>6

\* There is a router at each turn.
LEMMA RouterInTurn ==
    ASSUME NEW k \in Nat, k < Cardinality(IsRouter)
    PROVE  View!Router(k) \in IsRouter
<1> DEFINE Late == {r \in IsRouter : Cardinality(Before(r)) >= k}
           At == {View!Place(r) : r \in Late}
<1>0. /\ IsFiniteSet(IsRouter) /\ Cardinality(IsRouter) \in Nat
      /\ \A r \in IsRouter : View!Place(r) \in 1..Len(Fleet)
      /\ \A q, r \in IsRouter : View!Place(q) = View!Place(r) => q = r
      /\ Len(Fleet) \in Nat
  BY RoutersFinite, PlacesAreApart, FS_CardinalityType
<1>max. ASSUME NEW S, S \subseteq IsRouter, S # {}
        PROVE  \E p \in S : \A q \in S : View!Place(q) <= View!Place(p)
  <2> DEFINE T == {View!Place(r) : r \in S}
  <2>1. T \subseteq Int /\ T # {} /\ \A i \in T : i <= Len(Fleet)
    BY <1>0, <1>max
  <2>2. PICK i \in T : \A j \in T : j <= i
    <3>1. Len(Fleet) \in Int
      BY <1>0
    <3> HIDE DEF T
    <3> QED BY <3>1, <2>1, GreatestOne
  <2>3. PICK p \in S : i = View!Place(p)
    BY <2>2
  <2> QED BY <2>2, <2>3
<1>1. Late # {}
  <2>1. IsRouter # {}
    BY FS_EmptySet
  <2>2. PICK r \in IsRouter : \A q \in IsRouter : View!Place(q) <= View!Place(r)
    BY <1>max, <2>1
  <2>3. Before(r) = IsRouter \ {r}
    BY <1>0, <2>2 DEF Before
  <2>4. Cardinality(Before(r)) = Cardinality(IsRouter) - 1
    BY <1>0, <2>3, FS_RemoveElement
  <2> QED BY <1>0, <2>4
<1>2. PICK r \in Late : \A q \in Late : View!Place(r) <= View!Place(q)
  <2>1. At \subseteq Nat /\ At # {}
    BY <1>0, <1>1
  <2>2. PICK i \in At : \A j \in At : i <= j
    <3> HIDE DEF At
    <3> QED BY <2>1, LeastOne
  <2>3. PICK r \in Late : i = View!Place(r)
    BY <2>2
  <2> QED BY <2>2, <2>3
<1>3. Cardinality(Before(r)) = k
  <2> SUFFICES ASSUME Cardinality(Before(r)) > k PROVE FALSE
    BY RoutersFinite
  <2>1. Before(r) # {} /\ Before(r) \subseteq IsRouter
    BY RoutersFinite, FS_EmptySet DEF Before
  <2>2. PICK p \in Before(r) : \A q \in Before(r) : View!Place(q) <= View!Place(p)
    BY <1>max, <2>1
  <2>3. p \in IsRouter /\ r \in IsRouter /\ View!Place(p) < View!Place(r)
    BY <2>2 DEF Before
  <2>4. Before(p) = Before(r) \ {p}
    BY <1>0, <2>2, <2>3 DEF Before
  <2>5. Cardinality(Before(p)) = Cardinality(Before(r)) - 1
    BY <2>2, <2>4, RoutersFinite, FS_RemoveElement
  <2>6. p \in Late
    BY <2>3, <2>5, RoutersFinite
  <2> QED BY <1>0, <1>2, <2>3, <2>6
<1>4. \E q \in IsRouter : View!Cardinality({p \in IsRouter : View!Place(p) < View!Place(q)}) = k
  BY <1>3, ViewSizes DEF Before
<1> QED BY <1>4 DEF View!Router

LEMMA DependsOnARouter ==
    /\ DOMAIN View!DependsOn \subseteq View!Member \ IsRouter
    /\ \A m \in DOMAIN View!DependsOn : View!DependsOn[m] \in IsRouter
<1>1. DOMAIN View!DependsOn = View!Dependent
  BY DEF View!DependsOn
<1>2. ASSUME NEW m \in View!Dependent PROVE View!DependsOn[m] \in IsRouter
  <2>1. IsRouter # {} /\ m \in View!Member
    BY DEF View!Dependent
  <2> DEFINE n == Cardinality(IsRouter)
             k == (View!Place(m) - 1) % n
  <2>2. n \in Nat \ {0}
    BY <2>1, RoutersFinite, FS_CardinalityType, FS_EmptySet
  <2>3. View!Place(m) - 1 \in Nat
    BY <2>1, PlacesAreApart
  <2>4. k \in Nat /\ k < n
    <3> HIDE DEF n
    <3> QED BY <2>2, <2>3
  <2>5. View!DependsOn[m] = View!Router(k)
    BY ViewSizes DEF View!DependsOn
  <2> HIDE DEF k
  <2> QED BY <2>4, <2>5, RouterInTurn
<1> QED BY <1>1, <1>2 DEF View!Dependent

ViewInv ==
    /\ View!TypeOK
    /\ \/ ranked = {}
       \/ \E batch : DOMAIN batch \subseteq View!Member /\ ranked = View!ScoreRootCauses(batch)

LEMMA Shares ==
    /\ \A s \in {SuspectShare, QuietShare, StaleShare} : s[1] \in Nat /\ s[2] \in Nat
    /\ MinGroup \in Nat \ {0} /\ MaxReports \in Nat
BY ViewAssumption, ConstantsAssumption

LEMMA ViewStart == View!Init => ViewInv
BY Shares DEF View!Init, ViewInv, View!TypeOK, View!Idle, View!NoRelay, View!None

LEMMA ViewStep ==
    ASSUME ViewInv, View!Next \/ UNCHANGED view
    PROVE  ViewInv'
<1>0. View!TypeOK /\ MaxReports \in Nat
  BY Shares DEF ViewInv
<1>1. CASE UNCHANGED view
  BY <1>1 DEF view, ViewInv, View!TypeOK
<1>2. ASSUME NEW m \in View!Member, View!Report(m) PROVE ViewInv'
  BY <1>0, <1>2 DEF View!Report, ViewInv, View!TypeOK
<1>3. ASSUME NEW m \in View!Member, View!FallsSilent(m) PROVE ViewInv'
  BY <1>0, <1>3 DEF View!FallsSilent, ViewInv, View!TypeOK
<1>4. CASE View!PageReads
  BY <1>0, <1>4 DEF View!PageReads, View!Idle, ViewInv, View!TypeOK
<1>5. CASE View!PageAges
  BY <1>0, <1>5 DEF View!PageAges, ViewInv, View!TypeOK
<1>6. CASE View!RelayReads
  BY <1>0, <1>6 DEF View!RelayReads, ViewInv, View!TypeOK
<1>7. CASE View!RelayAsks
  <2>1. UNCHANGED <<gauge, score, silent, reports, page>> /\ relay' \in {View!NoRelay, [View!NoRelay EXCEPT !.step = "dead"]}
    BY <1>7 DEF View!RelayAsks
  <2>2. PICK batch : DOMAIN batch = relay.machines /\ ranked' \in {View!ScoreRootCauses(batch), ranked}
    BY <1>7 DEF View!RelayAsks, View!RootCause
  <2>3. DOMAIN batch \subseteq View!Member
    BY <1>0, <2>2 DEF View!TypeOK
  <2>4. \/ ranked' = {}
        \/ \E b : DOMAIN b \subseteq View!Member /\ ranked' = View!ScoreRootCauses(b)
    BY <2>2, <2>3 DEF ViewInv
  <2>5. \A e \in ranked' : e.machine \in View!Member
    BY <2>2, <2>3, <1>0 DEF View!ScoreRootCauses, View!TypeOK
  <2>6. View!TypeOK'
    BY <1>0, <2>1, <2>5 DEF View!TypeOK, View!NoRelay
  <2> QED BY <2>4, <2>6 DEF ViewInv
<1> QED BY <1>1, <1>2, <1>3, <1>4, <1>5, <1>6, <1>7 DEF View!Next

LEMMA Seen ==
    ASSUME NEW v, NEW r \in IsRouter
    PROVE  LET c == View!Counts(v, r)
               seen == {m \in View!DownstreamOf[r] : v.anomalous[m] # View!None}
               up == seen \ v.stale
           IN /\ IsFiniteSet(View!DownstreamOf[r]) /\ View!DownstreamOf[r] \subseteq View!Member
              /\ c.seen = Cardinality(seen) /\ c.seen \in Nat
              /\ c.stale = Cardinality(seen \cap v.stale) /\ c.stale \in Nat
              /\ c.live = Cardinality(up) /\ c.live \in Nat
              /\ c.bad = Cardinality({m \in up : v.anomalous[m] = "yes"}) /\ c.bad \in Nat /\ c.bad <= c.live
              /\ c.hub = (v.anomalous[r] = "yes" /\ r \notin v.stale)
<1> DEFINE c == View!Counts(v, r)
           down == View!DownstreamOf[r]
           seen == {m \in down : v.anomalous[m] # View!None}
           up == seen \ v.stale
           bad == {m \in up : v.anomalous[m] = "yes"}
<1>1. down \subseteq View!Member
  BY DependsOnARouter DEF View!DownstreamOf
<1>2. IsFiniteSet(down)
  BY <1>1, RoutersFinite, FS_Subset
<1> HIDE DEF down
<1>3. IsFiniteSet(seen) /\ IsFiniteSet(seen \cap v.stale) /\ IsFiniteSet(up) /\ IsFiniteSet(bad)
  BY <1>2, FS_Subset
<1>4. Cardinality(bad) <= Cardinality(up)
  BY <1>3, FS_Subset
<1>5. c = [seen |-> Cardinality(seen), stale |-> Cardinality(seen \cap v.stale), live |-> Cardinality(up),
           bad |-> Cardinality(bad), hub |-> v.anomalous[r] = "yes" /\ r \notin v.stale]
  BY ViewSizes DEF View!Counts, down
<1> HIDE DEF c, seen, up, bad
<1>6. /\ c.seen = Cardinality(seen) /\ c.stale = Cardinality(seen \cap v.stale) /\ c.live = Cardinality(up)
      /\ c.bad = Cardinality(bad) /\ c.hub = (v.anomalous[r] = "yes" /\ r \notin v.stale)
  BY <1>5
<1>7. c.seen \in Nat /\ c.stale \in Nat /\ c.live \in Nat /\ c.bad \in Nat
  BY <1>3, <1>6, FS_CardinalityType
<1> QED BY <1>1, <1>2, <1>4, <1>6, <1>7 DEF c, down, seen, up, bad

\* Both forms of the rule give a router one state, whatever the counts are.
LEMMA OneRule ==
    ASSUME NEW seen \in Nat, NEW stale \in Nat, NEW up \in Nat, NEW bad \in Nat, bad <= up, NEW hub \in BOOLEAN
    PROVE  View!Classify(seen, stale, up, bad, hub) = View!ClassifyArrays(seen, stale, up, bad, hub)
<1> DEFINE of == IF up > 0 THEN up ELSE 1
           share(quota) == IF up > 0 THEN View!AtLeast(bad, up, quota) ELSE View!AtLeast(0, 1, quota)
           unreachable == stale >= MinGroup /\ View!AtLeast(stale, seen, StaleShare)
           group == bad >= MinGroup /\ share(SuspectShare)
           quiet == ~ share(QuietShare)
           choices == <<unreachable, group /\ hub, group, hub /\ quiet>>
           names == <<"unreachable", "router_incident", "gray_suspected", "router_only">>
           first == {i \in 1..4 : choices[i] /\ \A j \in 1..(i - 1) : ~ choices[j]}
<1>1. \A quota \in {SuspectShare, QuietShare} : share(quota) <=> View!AtLeast(bad, of, quota)
  <2>1. up = 0 => bad = 0
    OBVIOUS
  <2> QED BY <2>1
<1>2. View!Below(bad, of, QuietShare) <=> quiet
  <2>1. View!Below(bad, of, QuietShare) <=> ~ View!AtLeast(bad, of, QuietShare)
    <3> DEFINE x == bad * QuietShare[2]
               y == QuietShare[1] * of
    <3>1. x \in Int /\ y \in Int
      BY Shares
    <3>2. (View!Below(bad, of, QuietShare) <=> x < y) /\ (View!AtLeast(bad, of, QuietShare) <=> x >= y)
      BY DEF View!Below, View!AtLeast
    <3> HIDE DEF x, y
    <3> QED BY <3>1, <3>2
  <2> QED BY <1>1, <2>1
<1>3. View!Classify(seen, stale, up, bad, hub) =
        IF unreachable THEN "unreachable"
        ELSE IF group THEN IF hub THEN "router_incident" ELSE "gray_suspected"
        ELSE IF hub /\ quiet THEN "router_only" ELSE "ok"
  <2>1. View!Classify(seen, stale, up, bad, hub) =
        IF unreachable THEN "unreachable"
        ELSE IF bad >= MinGroup /\ View!AtLeast(bad, of, SuspectShare) THEN IF hub THEN "router_incident" ELSE "gray_suspected"
        ELSE IF hub /\ View!Below(bad, of, QuietShare) THEN "router_only" ELSE "ok"
    BY DEF View!Classify
  <2> HIDE DEF unreachable, of, share
  <2> QED BY <1>1, <1>2, <2>1
<1>4. View!ClassifyArrays(seen, stale, up, bad, hub) = IF first = {} THEN "ok" ELSE names[CHOOSE i \in first : TRUE]
  BY DEF View!ClassifyArrays
<1> HIDE DEF unreachable, group, quiet, of, share
<1>5. /\ choices[1] <=> unreachable
      /\ choices[2] <=> group /\ hub
      /\ choices[3] <=> group
      /\ choices[4] <=> hub /\ quiet
  OBVIOUS
<1>6. 1..4 = {1, 2, 3, 4} /\ 1..(1 - 1) = {} /\ 1..(2 - 1) = {1} /\ 1..(3 - 1) = {1, 2} /\ 1..(4 - 1) = {1, 2, 3}
  OBVIOUS
<1>7. /\ 1 \in first <=> unreachable
      /\ 2 \in first <=> ~ unreachable /\ group /\ hub
      /\ 3 \in first <=> ~ unreachable /\ group /\ ~ hub
      /\ 4 \in first <=> ~ unreachable /\ ~ group /\ hub /\ quiet
      /\ first \subseteq {1, 2, 3, 4}
  <2> HIDE DEF choices
  <2> QED BY <1>5, <1>6
<1>8. names[1] = "unreachable" /\ names[2] = "router_incident" /\ names[3] = "gray_suspected" /\ names[4] = "router_only"
  OBVIOUS
<1> HIDE DEF choices, first, names
<1>9. CASE unreachable
  <2>1. first = {1}
    BY <1>7, <1>9
  <2> QED BY <1>3, <1>4, <1>8, <1>9, <2>1
<1>10. CASE ~ unreachable /\ group /\ hub
  <2>1. first = {2}
    BY <1>7, <1>10
  <2> QED BY <1>3, <1>4, <1>8, <1>10, <2>1
<1>11. CASE ~ unreachable /\ group /\ ~ hub
  <2>1. first = {3}
    BY <1>7, <1>11
  <2> QED BY <1>3, <1>4, <1>8, <1>11, <2>1
<1>12. CASE ~ unreachable /\ ~ group /\ hub /\ quiet
  <2>1. first = {4}
    BY <1>7, <1>12
  <2> QED BY <1>3, <1>4, <1>8, <1>12, <2>1
<1>13. CASE ~ unreachable /\ ~ group /\ ~ (hub /\ quiet)
  <2>1. first = {}
    BY <1>7, <1>13
  <2> QED BY <1>3, <1>4, <1>13, <2>1
<1> QED BY <1>9, <1>10, <1>11, <1>12, <1>13

LEMMA ViewAgrees ==
    ASSUME ViewInv
    PROVE  View!ArraysAgree
<1> SUFFICES ASSUME NEW r \in IsRouter
             PROVE  LET c == View!Counts(page, r) IN
                    View!RouterStates(page)[r] = View!ClassifyArrays(c.seen, c.stale, c.live, c.bad, c.hub)
  BY DEF View!ArraysAgree
<1> DEFINE c == View!Counts(page, r)
<1>1. View!RouterStates(page)[r] = View!Classify(c.seen, c.stale, c.live, c.bad, c.hub)
  BY DEF View!RouterStates
<1>2. c.seen \in Nat /\ c.stale \in Nat /\ c.live \in Nat /\ c.bad \in Nat /\ c.bad <= c.live /\ c.hub \in BOOLEAN
  BY Seen
<1> HIDE DEF c
<1> QED BY <1>1, <1>2, OneRule DEF c

\* A router with a machine below it in the batch is a likely root cause.
LEMMA RoleOfCause ==
    ASSUME NEW batch, NEW r, View!Downstream(batch, r) # {}
    PROVE  View!Role(batch, r) = "likely_root_cause"
<1>1. r \in IsRouter
  BY DEF View!Downstream
<1>2. r \notin DOMAIN View!DependsOn
  BY <1>1, DependsOnARouter
<1> QED BY <1>2 DEF View!Role

LEMMA ViewEffects ==
    ASSUME ViewInv
    PROVE  View!EffectsHaveACause
<1> SUFFICES ASSUME NEW e \in ranked, e.role = "downstream_effect"
             PROVE  \E c \in ranked : c.machine = View!DependsOn[e.machine] /\ c.role = "likely_root_cause"
  BY DEF View!EffectsHaveACause
<1>1. PICK batch : DOMAIN batch \subseteq View!Member /\ ranked = View!ScoreRootCauses(batch)
  BY DEF ViewInv
<1>2. PICK m \in DOMAIN batch : e.machine = m /\ e.role = View!Role(batch, m)
  BY <1>1 DEF View!ScoreRootCauses
<1>3. m \in DOMAIN View!DependsOn /\ View!DependsOn[m] \in DOMAIN batch
  BY <1>2 DEF View!Role
<1> DEFINE r == View!DependsOn[m]
           cause == [machine |-> r, role |-> View!Role(batch, r),
                     score |-> batch[r] + View!Weight * View!Cardinality(View!Downstream(batch, r))]
<1>4. r \in IsRouter
  BY <1>3, DependsOnARouter
<1>5. m \in View!Downstream(batch, r)
  BY <1>2, <1>3, <1>4 DEF View!Downstream, View!DownstreamOf
<1>6. View!Downstream(batch, r) # {}
  BY <1>5
<1>7. View!Role(batch, r) = "likely_root_cause"
  BY <1>6, RoleOfCause
<1>8. cause \in ranked
  BY <1>1, <1>3 DEF View!ScoreRootCauses
<1>9. cause.machine = r /\ cause.role = View!Role(batch, r)
  OBVIOUS
<1> QED BY <1>2, <1>7, <1>8, <1>9

LEMMA ViewRanked ==
    ASSUME ViewInv
    PROVE  View!IncidentIsRanked
<1> DEFINE now == [anomalous |-> gauge, stale |-> silent]
           batch == [m \in {m \in View!Member : gauge[m] = "yes"} |-> 100]
<1> SUFFICES ASSUME NEW r \in IsRouter, View!RouterStates(now)[r] = "router_incident"
             PROVE  r \in DOMAIN batch /\ View!Role(batch, r) = "likely_root_cause"
  BY DEF View!IncidentIsRanked
<1> DEFINE c == View!Counts(now, r)
           up == {m \in View!DownstreamOf[r] : gauge[m] # View!None} \ silent
           bad == {m \in up : gauge[m] = "yes"}
<1>1. View!RouterStates(now)[r] = View!Classify(c.seen, c.stale, c.live, c.bad, c.hub)
  BY DEF View!RouterStates
<1>2. /\ c.bad = Cardinality(bad) /\ c.bad \in Nat
      /\ c.hub = (gauge[r] = "yes" /\ r \notin silent)
      /\ View!DownstreamOf[r] \subseteq View!Member
  <2>1. now.anomalous = gauge /\ now.stale = silent
    OBVIOUS
  <2> HIDE DEF now
  <2>2. /\ c.bad = Cardinality({m \in {m \in View!DownstreamOf[r] : now.anomalous[m] # View!None} \ now.stale :
                                 now.anomalous[m] = "yes"})
        /\ c.bad \in Nat
        /\ c.hub = (now.anomalous[r] = "yes" /\ r \notin now.stale)
        /\ View!DownstreamOf[r] \subseteq View!Member
    BY Seen
  <2> QED BY <2>1, <2>2
<1> HIDE DEF c
<1>3. c.bad >= MinGroup /\ c.hub
  BY <1>1 DEF View!Classify
<1>4. r \in DOMAIN batch
  BY <1>2, <1>3, RoutersFinite
<1>5. bad # {}
  <2> HIDE DEF bad
  <2> QED BY <1>2, <1>3, Shares, FS_EmptySet
<1>6. PICK m \in View!DownstreamOf[r] : gauge[m] = "yes"
  BY <1>5
<1>7. m \in View!Downstream(batch, r)
  BY <1>2, <1>6 DEF View!Downstream
<1>8. View!Downstream(batch, r) # {}
  BY <1>7
<1>9. View!Role(batch, r) = "likely_root_cause"
  <2> HIDE DEF batch
  <2> QED BY <1>8, RoleOfCause
<1> QED BY <1>4, <1>9

LEMMA ViewSilent ==
    ASSUME ViewInv, View!Next \/ UNCHANGED view, NEW r \in IsRouter,
           page'.step = "shown", page.step = "ages", View!RouterStates(page')[r] = "unreachable"
    PROVE  LET lost == View!Cardinality(silent \cap View!DownstreamOf[r])
               seen == View!Cardinality({m \in View!DownstreamOf[r] : page.anomalous[m] # View!None})
           IN lost >= MinGroup /\ View!AtLeast(lost, seen, StaleShare)
<1> DEFINE c == View!Counts(page', r)
           seen == {m \in View!DownstreamOf[r] : page.anomalous[m] # View!None}
           lost == silent \cap View!DownstreamOf[r]
<1>1. View!PageAges
  <2>1. page' # page
    OBVIOUS
  <2> QED BY <2>1 DEF View!Next, view, View!Report, View!FallsSilent, View!PageReads, View!RelayReads, View!RelayAsks
<1>2. PICK stale \in {silent, {}} :
         page' = [step |-> "shown", anomalous |-> page.anomalous,
                  stale |-> {m \in stale : page.anomalous[m] # View!None /\ gauge[m] # View!None}]
  BY <1>1 DEF View!PageAges
<1>3. View!RouterStates(page')[r] = View!Classify(c.seen, c.stale, c.live, c.bad, c.hub)
  BY DEF View!RouterStates
<1>4. /\ c.seen = Cardinality({m \in View!DownstreamOf[r] : page'.anomalous[m] # View!None}) /\ c.seen \in Nat
      /\ c.stale = Cardinality({m \in View!DownstreamOf[r] : page'.anomalous[m] # View!None} \cap page'.stale) /\ c.stale \in Nat
      /\ IsFiniteSet(View!DownstreamOf[r])
  BY Seen
<1> HIDE DEF c
<1>5. c.stale >= MinGroup /\ View!AtLeast(c.stale, c.seen, StaleShare)
  BY <1>3 DEF View!Classify
<1>6. c.seen = Cardinality(seen) /\ c.stale <= Cardinality(lost) /\ Cardinality(lost) \in Nat
  <2>1. page'.anomalous = page.anomalous /\ page'.stale \subseteq silent
    BY <1>2
  <2>2. seen = {m \in View!DownstreamOf[r] : page'.anomalous[m] # View!None}
    BY <2>1
  <2>3. seen \cap page'.stale \in SUBSET lost
    BY <2>1
  <2>4. IsFiniteSet(lost)
    BY <1>4, FS_Subset
  <2> HIDE DEF seen, lost
  <2> QED BY <1>4, <2>2, <2>3, <2>4, FS_Subset, FS_CardinalityType
<1>7. Cardinality(lost) * StaleShare[2] >= c.stale * StaleShare[2]
  <2> DEFINE n == Cardinality(lost)
             k == StaleShare[2]
  <2>1. n \in Nat /\ k \in Nat /\ c.stale \in Nat /\ c.stale <= n
    BY <1>4, <1>6, Shares
  <2> HIDE DEF n, k
  <2>2. n * k >= c.stale * k
    BY <2>1
  <2> QED BY <2>2 DEF n, k
<1>8. Cardinality(lost) >= MinGroup
  BY <1>4, <1>5, <1>6, Shares
<1>9. View!AtLeast(Cardinality(lost), Cardinality(seen), StaleShare)
  <2> DEFINE x == Cardinality(lost) * StaleShare[2]
             y == c.stale * StaleShare[2]
             z == StaleShare[1] * c.seen
  <2>1. x \in Int /\ y \in Int /\ z \in Int /\ x >= y /\ y >= z
    BY <1>4, <1>5, <1>6, <1>7, Shares DEF View!AtLeast
  <2>2. x >= z
    <3> HIDE DEF x, y, z
    <3> QED BY <2>1
  <2> QED BY <1>6, <2>2 DEF View!AtLeast
<1> QED BY <1>8, <1>9, ViewSizes

(***************************************************************************)
(* DemoBridge: the gauges are of one cycle.                                *)
(***************************************************************************)

\* What the bridge exports while it scores, while it ranks, and otherwise.
BridgeInv ==
    /\ Bridge!TypeOK
    /\ gauges \in [anomaly : SUBSET Machine, score : SUBSET Machine, count : Nat]
    /\ pc = "scored" => gauges.anomaly = {} /\ gauges.score = {}
    /\ pc = "ranking" => gauges.anomaly = {} /\ gauges.score = anomalies
    /\ pc # "scored" => gauges.count = Cardinality(gauges.score) /\ gauges.anomaly \in {{}, gauges.score}

LEMMA BridgeSizes == \A S : Bridge!Cardinality(S) = Cardinality(S)
BY DEF Cardinality, Bridge!Cardinality

LEMMA Tickers ==
    /\ MaxTicks \in Nat /\ WallHour \subseteq 0..23
    /\ Len(Hours) \in Nat \ {0} /\ Bridge!Rows = 1..Len(Hours)
    /\ \A k \in Nat : (k % Len(Hours)) + 1 \in Bridge!Rows
<1>1. Len(Hours) \in Nat \ {0} /\ DOMAIN Hours = 1..Len(Hours)
  BY BridgeAssumption
<1>2. ASSUME NEW k \in Nat PROVE (k % Len(Hours)) + 1 \in 1..Len(Hours)
  <2> DEFINE n == Len(Hours)
  <2>1. n \in Nat \ {0}
    BY <1>1
  <2> HIDE DEF n
  <2>2. (k % n) + 1 \in 1..n
    BY <2>1
  <2> QED BY <2>2 DEF n
<1> QED BY <1>1, <1>2, ConstantsAssumption DEF Bridge!Rows

LEMMA BridgeStart == Bridge!Init => BridgeInv
<1>1. Cardinality({}) = 0
  BY FS_EmptySet
<1> QED BY <1>1, Tickers DEF Bridge!Init, BridgeInv, Bridge!TypeOK, Bridge!None

\* The exporter, the clock and Prometheus leave the bridge alone.
LEMMA BridgeOthers ==
    ASSUME BridgeInv, UNCHANGED <<pc, hour, entries, anomalies, gauges>>,
           wall' \in WallHour, ticks' \in 0..MaxTicks, idx' \in Bridge!Rows \cup {Bridge!None}, todo' \subseteq Machine
    PROVE  BridgeInv'
BY DEF BridgeInv, Bridge!TypeOK

LEMMA BridgeCycle ==
    ASSUME BridgeInv, Bridge!Cycle
    PROVE  BridgeInv'
<1>0. UNCHANGED <<realtime, wall, ticks, idx, todo, exported, scraped>>
  BY DEF Bridge!Cycle, Bridge!clock, Bridge!exporter
<1>1. ASSUME pc' \in {"sleep", "hour", "first", "last", "scoring", "scored", "ranking"}, anomalies' \subseteq Machine,
             gauges' \in [anomaly : SUBSET Machine, score : SUBSET Machine, count : Nat]
      PROVE  Bridge!TypeOK'
  BY <1>0, <1>1 DEF BridgeInv, Bridge!TypeOK
<1>2. CASE pc # "scored" /\ pc # "ranking" /\ pc' # "scored" /\ pc' # "ranking" /\ UNCHANGED <<anomalies, gauges>>
           /\ pc' \in {"sleep", "hour", "first", "last", "scoring", "scored", "ranking"}
  BY <1>1, <1>2 DEF BridgeInv, Bridge!TypeOK
<1>3. CASE Bridge!Wake \/ Bridge!ReadHour \/ Bridge!Collect("first", "last") \/ Bridge!Collect("last", "scoring")
  BY <1>2, <1>3 DEF Bridge!Wake, Bridge!ReadHour, Bridge!Collect, Bridge!Goto
<1>4. CASE Bridge!ScoreAll
  <2>1. pc = "scoring" /\ pc' = "scored" /\ anomalies' \subseteq Machine
    BY <1>4 DEF Bridge!ScoreAll, Bridge!Goto, Bridge!Complete
  <2>2. gauges' = [anomaly |-> {}, score |-> {}, count |-> gauges.count] /\ gauges.count \in Nat
    BY <1>4 DEF Bridge!ScoreAll, BridgeInv
  <2> QED BY <1>1, <2>1, <2>2 DEF BridgeInv
<1>5. CASE Bridge!Export
  <2>1. pc = "scored" /\ anomalies' = anomalies /\ anomalies \subseteq Machine
    BY <1>5 DEF Bridge!Export, Bridge!Goto, BridgeInv, Bridge!TypeOK
  <2> DEFINE n == Cardinality(anomalies)
  <2>2. IsFiniteSet(anomalies) /\ n \in Nat /\ (n = 0 <=> anomalies = {})
    BY <2>1, BridgeAssumption, FS_Subset, FS_CardinalityType, FS_EmptySet
  <2>3. /\ pc' = IF n > 1 THEN "ranking" ELSE "sleep"
        /\ gauges' = [anomaly |-> IF n = 1 THEN anomalies ELSE {}, score |-> anomalies, count |-> n]
    <3>1. gauges.anomaly = {} /\ gauges.score \cup anomalies = anomalies
      BY <2>1 DEF BridgeInv
    <3> QED BY <1>5, <3>1, BridgeSizes DEF Bridge!Export, Bridge!Goto
  <2>4. gauges' \in [anomaly : SUBSET Machine, score : SUBSET Machine, count : Nat]
    BY <2>1, <2>2, <2>3
  <2>5. gauges'.count = Cardinality(gauges'.score) /\ gauges'.anomaly \in {{}, gauges'.score}
    BY <2>3
  <2>6. pc' = "ranking" => gauges'.anomaly = {} /\ gauges'.score = anomalies'
    <3>1. pc' = "ranking" => n # 1
      BY <2>3
    <3> QED BY <2>1, <2>3, <3>1
  <2>7. pc' \in {"sleep", "ranking"}
    BY <2>3
  <2> HIDE DEF n
  <2> QED BY <1>1, <2>1, <2>4, <2>5, <2>6, <2>7 DEF BridgeInv
<1>6. CASE Bridge!Rank
  <2>1. pc = "ranking" /\ pc' = "sleep" /\ anomalies' = anomalies /\ gauges.anomaly = {} /\ gauges.score = anomalies
    BY <1>6 DEF Bridge!Rank, Bridge!Goto, BridgeInv
  <2>2. gauges' = [gauges EXCEPT !.anomaly = @ \cup anomalies]
    BY <1>6 DEF Bridge!Rank
  <2>3. gauges' = [anomaly |-> anomalies, score |-> gauges.score, count |-> gauges.count]
    BY <2>1, <2>2 DEF BridgeInv
  <2>4. gauges \in [anomaly : SUBSET Machine, score : SUBSET Machine, count : Nat] /\ gauges.count = Cardinality(gauges.score)
    BY <2>1 DEF BridgeInv
  <2>5. gauges' \in [anomaly : SUBSET Machine, score : SUBSET Machine, count : Nat]
    BY <2>1, <2>3, <2>4
  <2>6. gauges'.count = Cardinality(gauges'.score) /\ gauges'.anomaly \in {{}, gauges'.score}
    BY <2>1, <2>3, <2>4
  <2>7. anomalies' \subseteq Machine
    BY <2>1 DEF BridgeInv, Bridge!TypeOK
  <2> QED BY <1>1, <2>1, <2>5, <2>6, <2>7 DEF BridgeInv
<1>7. CASE Bridge!Fails
  <2>1. pc' = "sleep" /\ pc # "scored" /\ UNCHANGED <<anomalies, gauges>>
    BY <1>7 DEF Bridge!Fails
  <2> QED BY <1>1, <2>1 DEF BridgeInv, Bridge!TypeOK
<1> QED BY <1>3, <1>4, <1>5, <1>6, <1>7 DEF Bridge!Cycle

LEMMA BridgeStep ==
    ASSUME BridgeInv, Bridge!Next \/ UNCHANGED bridge
    PROVE  BridgeInv'
<1>0. /\ wall \in WallHour /\ ticks \in 0..MaxTicks /\ idx \in Bridge!Rows \cup {Bridge!None} /\ todo \subseteq Machine
      /\ MaxTicks \in Nat
  BY Tickers DEF BridgeInv, Bridge!TypeOK
<1>1. CASE UNCHANGED bridge
  BY <1>0, <1>1, BridgeOthers DEF bridge
<1>2. ASSUME Bridge!Tick PROVE /\ UNCHANGED <<wall, pc, hour, entries, anomalies, gauges>>
                               /\ ticks' \in 0..MaxTicks /\ todo' = Machine
  BY <1>0, <1>2 DEF Bridge!Tick, Bridge!bridge
<1>3. CASE Bridge!TickFastcycle
  <2>1. Bridge!Tick /\ idx' \in Bridge!Rows
    BY <1>0, <1>3, Tickers DEF Bridge!TickFastcycle
  <2> QED BY <1>0, <1>2, <2>1, BridgeOthers
<1>4. CASE Bridge!TickRealtime
  <2>1. Bridge!Tick /\ idx' \in Bridge!Rows
    BY <1>4 DEF Bridge!TickRealtime
  <2> QED BY <1>0, <1>2, <2>1, BridgeOthers
<1>5. ASSUME NEW m \in Machine, Bridge!PublishRow(m) PROVE BridgeInv'
  <2>1. /\ UNCHANGED <<wall, ticks, idx, pc, hour, entries, anomalies, gauges>>
        /\ todo' \subseteq Machine
    BY <1>0, <1>5 DEF Bridge!PublishRow, Bridge!bridge, Bridge!clock
  <2> QED BY <1>0, <2>1, BridgeOthers
<1>6. CASE Bridge!HourPasses
  <2>1. /\ UNCHANGED <<idx, todo, pc, hour, entries, anomalies, gauges>>
        /\ wall' \in WallHour /\ ticks' \in 0..MaxTicks
    BY <1>0, <1>6 DEF Bridge!HourPasses, Bridge!bridge, Bridge!exporter
  <2> QED BY <1>0, <2>1, BridgeOthers
<1>7. CASE Bridge!Scrape
  BY <1>0, <1>7, BridgeOthers DEF Bridge!Scrape, Bridge!bridge, Bridge!exporter, Bridge!clock
<1>8. CASE Bridge!Cycle
  BY <1>8, BridgeCycle
<1> QED BY <1>1, <1>3, <1>4, <1>5, <1>6, <1>7, <1>8 DEF Bridge!Next

LEMMA BridgeExports ==
    ASSUME BridgeInv
    PROVE  Bridge!OneCycleExported
BY BridgeSizes DEF BridgeInv, Bridge!OneCycleExported

(***************************************************************************)
(* FeedbackDataset: the newest file holds what the others hold.            *)
(***************************************************************************)

\* The newest file holds every prediction that the others hold, with the verdict it
\* was last exported with.
Newest(s) ==
    /\ s \in DOMAIN files /\ latest = files[s]
    /\ \A t \in DOMAIN files : t <= s /\ DOMAIN files[t] \subseteq DOMAIN files[s]

DatasetInv ==
    /\ Dataset!TypeOK
    /\ DOMAIN files \subseteq 0..second
    /\ \A t \in DOMAIN files : DOMAIN files[t] \subseteq Dataset!Judged
    /\ (DOMAIN files = {} /\ DOMAIN latest = {}) \/ \E s : Newest(s)

LEMMA DatasetStart == Dataset!Init => DatasetInv
<1> SUFFICES ASSUME Dataset!Init PROVE DatasetInv
  OBVIOUS
<1>1. DOMAIN files = {} /\ DOMAIN latest = {} /\ DOMAIN labels = {}
  BY DEF Dataset!Init
<1>2. second = 0 /\ MaxSecond \in Nat
  BY ConstantsAssumption DEF Dataset!Init
<1>3. verdict \in [Dataset!Prediction -> Dataset!Verdicts \cup {Dataset!None}]
  BY DEF Dataset!Init
<1> QED BY <1>1, <1>2, <1>3 DEF DatasetInv, Dataset!TypeOK

\* The row a retraining takes of a prediction is that of the newest file.
LEMMA LastRowIsLatest ==
    ASSUME DatasetInv, NEW p, \E t \in DOMAIN files : p \in DOMAIN files[t]
    PROVE  p \in DOMAIN latest /\ Dataset!LastRow(p) = latest[p]
<1>1. PICK s : Newest(s)
  BY DEF DatasetInv
<1> DEFINE T == {t \in DOMAIN files : p \in DOMAIN files[t]}
<1>2. s \in T /\ \A t \in T : t <= s
  BY <1>1 DEF Newest
<1>3. T \subseteq Int
  <2>1. second \in Nat /\ DOMAIN files \subseteq 0..second
    BY ConstantsAssumption DEF DatasetInv, Dataset!TypeOK
  <2> QED BY <2>1
<1>4. Dataset!Max(T) = s
  <2>1. Dataset!Max(T) = CHOOSE x \in T : \A y \in T : x >= y
    BY DEF Dataset!Max
  <2> HIDE DEF T
  <2>2. s \in T /\ \A y \in T : s >= y
    BY <1>2, <1>3
  <2>3. Dataset!Max(T) \in T /\ \A y \in T : Dataset!Max(T) >= y
    BY <2>1, <2>2
  <2>4. s \in Int /\ Dataset!Max(T) \in Int /\ Dataset!Max(T) >= s /\ Dataset!Max(T) <= s
    BY <1>2, <1>3, <2>2, <2>3
  <2> QED BY <2>4
<1>5. Dataset!LastRow(p) = files[s][p]
  BY <1>4 DEF Dataset!LastRow
<1> QED BY <1>1, <1>2, <1>5 DEF Newest

LEMMA DatasetExport ==
    ASSUME DatasetInv, Dataset!Export
    PROVE  DatasetInv'
<1> DEFINE table == [p \in Dataset!Judged |-> verdict[p]]
<1>1. /\ UNCHANGED <<verdict, second, labels>> /\ latest' = table
      /\ files' = [s \in DOMAIN files \cup {second} |-> IF s = second THEN table ELSE files[s]]
  BY DEF Dataset!Export
<1>2. second \in Nat /\ second <= MaxSecond /\ MaxSecond \in Nat /\ DOMAIN files \subseteq 0..second
  BY ConstantsAssumption DEF DatasetInv, Dataset!TypeOK
<1>3. DOMAIN files' = DOMAIN files \cup {second} /\ DOMAIN table = Dataset!Judged /\ files'[second] = table
  BY <1>1
<1> HIDE DEF table
<1>4. \A t \in DOMAIN files' : DOMAIN files'[t] \subseteq Dataset!Judged
  BY <1>1, <1>3 DEF DatasetInv
<1>5. Dataset!Judged' = Dataset!Judged
  BY <1>1 DEF Dataset!Judged
<1>6. DOMAIN files' \subseteq 0..second
  BY <1>2, <1>3
<1>7. Newest(second)'
  BY <1>1, <1>2, <1>3, <1>4, <1>6 DEF Newest
<1>8. Dataset!TypeOK'
  BY <1>1, <1>2, <1>6 DEF DatasetInv, Dataset!TypeOK
<1> QED BY <1>1, <1>4, <1>5, <1>6, <1>7, <1>8 DEF DatasetInv

LEMMA DatasetStep ==
    ASSUME DatasetInv, Dataset!Next \/ UNCHANGED dataset
    PROVE  DatasetInv'
<1>0. second \in Nat /\ MaxSecond \in Nat
  BY ConstantsAssumption DEF DatasetInv, Dataset!TypeOK
<1>1. ASSUME UNCHANGED <<files, latest>>, Dataset!TypeOK', second' \in Nat, second <= second', Dataset!Judged \subseteq Dataset!Judged'
      PROVE  DatasetInv'
  <2>1. DOMAIN files' \subseteq 0..second'
    <3>1. DOMAIN files \subseteq 0..second
      BY DEF DatasetInv
    <3> QED BY <1>0, <1>1, <3>1
  <2>2. \A t \in DOMAIN files' : DOMAIN files'[t] \subseteq Dataset!Judged'
    BY <1>1 DEF DatasetInv
  <2>3. (DOMAIN files' = {} /\ DOMAIN latest' = {}) \/ \E s : Newest(s)'
    BY <1>1 DEF DatasetInv, Newest
  <2> QED BY <1>1, <2>1, <2>2, <2>3 DEF DatasetInv
<1>2. CASE UNCHANGED dataset
  BY <1>0, <1>1, <1>2 DEF dataset, DatasetInv, Dataset!TypeOK, Dataset!Judged
<1>3. ASSUME NEW p \in Dataset!Prediction, NEW v \in Dataset!Verdicts, Dataset!Judge(p, v) PROVE DatasetInv'
  <2>1. verdict' = [verdict EXCEPT ![p] = v] /\ UNCHANGED <<second, files, labels, latest>> /\ Dataset!TypeOK
    BY <1>3 DEF Dataset!Judge, DatasetInv
  <2>2. Dataset!TypeOK'
    BY <2>1 DEF Dataset!TypeOK
  <2>3. v # Dataset!None
    BY DEF Dataset!Verdicts, Dataset!None
  <2>4. Dataset!Judged \subseteq Dataset!Judged'
    BY <2>1, <2>3 DEF Dataset!Judged, Dataset!TypeOK
  <2> QED BY <1>0, <1>1, <2>1, <2>2, <2>4
<1>4. CASE Dataset!SecondPasses
  BY <1>0, <1>1, <1>4 DEF Dataset!SecondPasses, DatasetInv, Dataset!TypeOK, Dataset!Judged
<1>5. CASE Dataset!Export
  BY <1>5, DatasetExport
<1>6. CASE Dataset!Train
  <2>1. UNCHANGED <<verdict, second, files, latest>>
    BY <1>6 DEF Dataset!Train
  <2>2. ASSUME NEW p \in DOMAIN labels' PROVE labels'[p] \in Known \cup {"normal"}
    <3>1. labels'[p] = Dataset!Label(p, Dataset!LastRow(p)) /\ labels'[p] # Dataset!None
      BY <1>6 DEF Dataset!Train
    <3> QED BY <3>1 DEF Dataset!Label
  <2>3. Dataset!TypeOK'
    BY <2>1, <2>2 DEF DatasetInv, Dataset!TypeOK
  <2> QED BY <1>0, <1>1, <2>1, <2>3 DEF Dataset!Judged
<1> QED BY <1>2, <1>3, <1>4, <1>5, <1>6 DEF Dataset!Next

\* A retraining, taken or not.
LEMMA DatasetLabels ==
    ASSUME DatasetInv, Dataset!Train, NEW p \in Dataset!Prediction
    PROVE  LET label == IF p \in DOMAIN latest THEN Dataset!Label(p, latest[p]) ELSE Dataset!None IN
           IF label = Dataset!None THEN p \notin DOMAIN labels' ELSE p \in DOMAIN labels' /\ labels'[p] = label
<1> DEFINE rows == UNION {DOMAIN files[s] : s \in DOMAIN files}
           used == {q \in rows : Dataset!Label(q, Dataset!LastRow(q)) # Dataset!None}
<1>1. labels' = [q \in used |-> Dataset!Label(q, Dataset!LastRow(q))]
  BY DEF Dataset!Train
<1>2. CASE p \in DOMAIN latest
  <2>1. PICK s : Newest(s)
    BY <1>2 DEF DatasetInv
  <2>2. s \in DOMAIN files /\ p \in DOMAIN files[s]
    BY <1>2, <2>1 DEF Newest
  <2>3. p \in rows
    BY <2>2
  <2>4. Dataset!LastRow(p) = latest[p]
    BY <2>2, LastRowIsLatest
  <2> HIDE DEF rows
  <2> QED BY <1>1, <1>2, <2>3, <2>4
<1>3. CASE p \notin DOMAIN latest
  <2>1. p \notin rows
    BY <1>3, LastRowIsLatest
  <2> QED BY <1>1, <1>3, <2>1
<1> QED BY <1>2, <1>3

(***************************************************************************)
(* Review: what is remembered of a reading is a row of the file it is from. *)
(***************************************************************************)

LEMMA ReviewSizes == \A S : Judged!Cardinality(S) = Cardinality(S)
BY DEF Cardinality, Judged!Cardinality

\* A sample is a window of one machine's rows; its history is finite by that.
WindowOK(s) ==
    /\ s.of = "operator" /\ s.hist \subseteq DOMAIN stream
    /\ s.cur \in s.hist /\ Cardinality(s.hist) = RunLength
    /\ \A i \in s.hist : i <= s.cur /\ stream[i] # Judged!Short
    /\ \A i \in DOMAIN stream : i <= s.cur /\ stream[i] # Judged!Short /\ (\E j \in s.hist : j <= i) =>
         i \in s.hist /\ stream[i].machine = stream[s.cur].machine

\* A prediction of the log; one that a label can be of.
LoggedOK(e) ==
    /\ e = [origin |-> e.origin, flagged |-> e.flagged, judged |-> e.judged]
    /\ e.judged \in BOOLEAN

OwedOK(o) == o.id \in DOMAIN logged /\ logged[o.id].origin = [of |-> "agent", row |-> o.row]

LabelOK(l) ==
    /\ l.id \in DOMAIN logged /\ logged[l.id].origin # Judged!Typed
    /\ [label |-> l.label, source |-> l.source] = Judged!TruthOf(logged[l.id].origin)

ShownOK(r) ==
    /\ r = [id |-> r.id, judged |-> r.judged, real |-> r.real]
    /\ r.id \in DOMAIN logged
    /\ \A l \in r.real : logged[r.id].origin # Judged!Typed /\ l = Judged!TruthOf(logged[r.id].origin)

TabOK(x) ==
    /\ x = [step |-> x.step, id |-> x.id, sample |-> x.sample, read |-> x.read, shows |-> x.shows]
    /\ x.step \in {"idle", "record", "labels"}
    /\ x.step = "record" => x.id = 0 \/ (x.id \in DOMAIN logged /\ logged[x.id].origin = x.sample /\ x.sample.of = "operator")
    /\ x.step = "labels" => DOMAIN x.read \subseteq DOMAIN logged
    /\ \A r \in x.shows : ShownOK(r)

ReviewInv ==
    /\ stream \in FleetFile /\ written \in BOOLEAN
    /\ \A s \in UNION pool : WindowOK(s)
    /\ (\E A : logged \in Seq(A)) /\ Len(logged) <= MaxLogged
    /\ \A i \in DOMAIN logged : LoggedOK(logged[i])
    /\ \A o \in owed : OwedOK(o)
    /\ (\E A : lines \in Seq(A)) /\ Len(lines) <= MaxLogged
    /\ \A k \in DOMAIN lines : LabelOK(lines[k])
    /\ DOMAIN tab = Tab
    /\ \A t \in Tab : TabOK(tab[t])

LEMMA ReviewTyped == ReviewInv => Judged!TypeOK
BY DEF ReviewInv, Judged!TypeOK, WindowOK, LoggedOK, OwedOK, LabelOK, TabOK

LEMMA ReviewIsTrue == ReviewInv => Judged!SampleIsWindow /\ Judged!RealIsTrue
BY ReviewSizes DEF ReviewInv, WindowOK, TabOK, ShownOK, Judged!SampleIsWindow, Judged!RealIsTrue

LEMMA ReviewStart ==
    ASSUME Judged!Init
    PROVE  ReviewInv
<1>1. logged = <<>> /\ owed = {} /\ lines = <<>> /\ pool = {} /\ stream \in FleetFile /\ written = FALSE
      /\ tab = [t \in Tab |-> Judged!Idle]
  BY DEF Judged!Init
<1>2. \A t \in Tab : TabOK(tab[t])
  BY <1>1 DEF TabOK, Judged!Idle
<1>3. <<>> \in Seq({}) /\ Len(<<>>) = 0 /\ DOMAIN (<<>>) = {}
  OBVIOUS
<1>4. \E A : <<>> \in Seq(A)
  BY <1>3
<1>5. DOMAIN tab = Tab /\ UNION pool = {} /\ DOMAIN logged = {} /\ DOMAIN lines = {} /\ Len(logged) = 0 /\ Len(lines) = 0
  BY <1>1, <1>3
<1>6. (\E A : logged \in Seq(A)) /\ (\E A : lines \in Seq(A))
  BY <1>1, <1>4
<1>7. written \in BOOLEAN /\ stream \in FleetFile
  BY <1>1
<1>8. Len(logged) <= MaxLogged /\ Len(lines) <= MaxLogged
  BY <1>5, ReviewAssumption
<1> QED BY <1>1, <1>2, <1>5, <1>6, <1>7, <1>8 DEF ReviewInv

\* What _read_run finds at a place of the file is of one machine, and leaves out no line
\* of its own that is whole.
LEMMA SampledIsWindow ==
    ASSUME ReviewInv, NEW p \in DOMAIN Judged!Rows,
           Cardinality(Judged!ReadRun(Judged!Rows, p)) >= RunLength
    PROVE  WindowOK(Judged!SampleOf(Judged!ReadRun(Judged!Rows, p)))
<1>1. Judged!Rows = stream /\ p \in DOMAIN stream
  <2>1. DOMAIN (<<>>) = {}
    OBVIOUS
  <2> QED BY <2>1 DEF Judged!Rows
<1>2. stream \in Seq([machine : STRING, label : BOOLEAN]) /\ Len(stream) \in Nat /\ DOMAIN stream = 1..Len(stream)
  BY ReviewAssumption DEF ReviewInv
<1>3. RunLength \in Nat \ {0}
  BY ConstantsAssumption
<1> DEFINE good == {i \in DOMAIN stream : p <= i /\ i <= p + RunLength /\ stream[i] # Judged!Short}
           run == {i \in good : \A j, k \in good : j <= i /\ k <= i => stream[j].machine = stream[k].machine}
           hist == FirstOf(run, RunLength)
           s == Judged!SampleOf(run)
<1>4. Judged!ReadRun(Judged!Rows, p) = run
  BY <1>1 DEF Judged!ReadRun
<1>5. IsFiniteSet(run) /\ run \in SUBSET Nat /\ run \subseteq DOMAIN stream
  <2>1. run \in SUBSET (1..Len(stream)) /\ 1..Len(stream) \subseteq Nat
    BY <1>2
  <2>2. IsFiniteSet(1..Len(stream))
    BY <1>2, FS_Interval
  <2> HIDE DEF run
  <2> QED BY <1>2, <2>1, <2>2, FS_Subset
<1>6. Cardinality(hist) = RunLength
  <2> HIDE DEF run
  <2> QED BY <1>3, <1>4, <1>5, FirstOnes
<1>7. hist \subseteq run /\ IsFiniteSet(hist) /\ hist # {}
  <2>1. hist \in SUBSET run
    BY DEF FirstOf
  <2> HIDE DEF hist
  <2> QED BY <1>3, <1>5, <1>6, <2>1, FS_Subset, FS_EmptySet
<1>8. s = [of |-> "operator", cur |-> CHOOSE i \in hist : \A j \in hist : j <= i, hist |-> hist]
  <2> HIDE DEF run
  <2> QED BY ReviewSizes DEF Judged!SampleOf, FirstOf
<1>9. s.cur \in hist /\ \A j \in hist : j <= s.cur
  <2>1. hist \subseteq Int
    BY <1>5, <1>7
  <2>2. \E i \in hist : \A j \in hist : j <= i
    <3> HIDE DEF hist
    <3> QED BY <1>7, <2>1, FiniteMax
  <2> HIDE DEF hist, s
  <2> QED BY <1>8, <2>2
<1>10. s.of = "operator" /\ s.hist = hist
  BY <1>8
<1> HIDE DEF s
\* A line before the last of the history, and after its first, is in it.
<1>11. ASSUME NEW i \in DOMAIN stream, i <= s.cur, stream[i] # Judged!Short, NEW j \in hist, j <= i
       PROVE  i \in hist /\ stream[i].machine = stream[s.cur].machine
  <2>1. j \in good /\ s.cur \in good /\ s.cur \in run
    BY <1>7, <1>9
  <2>2. i \in Nat /\ j \in Nat /\ s.cur \in Nat /\ p \in Nat
    BY <1>1, <1>2, <2>1
  <2>3. p <= i /\ i <= p + RunLength
    BY <1>3, <1>11, <2>1, <2>2
  <2>4. i \in good
    BY <1>11, <2>3
  <2>5. stream[i].machine = stream[s.cur].machine
    BY <1>11, <2>1, <2>2, <2>4
  <2>6. i \in run
    <3> SUFFICES ASSUME NEW k \in good, NEW m \in good, k <= i, m <= i PROVE stream[k].machine = stream[m].machine
      BY <2>4
    <3>1. k \in Nat /\ m \in Nat /\ k <= s.cur /\ m <= s.cur
      BY <1>2, <1>11, <2>2
    <3> QED BY <2>1, <3>1
  <2>7. Cardinality({k \in run : k <= i}) <= RunLength
    <3> DEFINE upto == {k \in run : k <= i}
               all == {k \in run : k <= s.cur}
    <3>1. upto \in SUBSET all
      BY <1>5, <1>11, <2>2
    <3>2. IsFiniteSet(all)
      <4>1. all \in SUBSET run
        OBVIOUS
      <4> HIDE DEF all
      <4> QED BY <1>5, <4>1, FS_Subset
    <3>3. Cardinality(all) <= RunLength
      BY <1>9 DEF FirstOf
    <3> HIDE DEF upto, all
    <3>4. Cardinality(upto) <= Cardinality(all) /\ Cardinality(upto) \in Nat /\ Cardinality(all) \in Nat
      BY <3>1, <3>2, FS_Subset, FS_CardinalityType
    <3> QED BY <1>3, <3>3, <3>4 DEF upto
  <2> QED BY <2>5, <2>6, <2>7 DEF FirstOf
<1>12. \A i \in hist : i <= s.cur /\ stream[i] # Judged!Short /\ i \in DOMAIN stream
  BY <1>7, <1>9
<1> HIDE DEF hist, run
<1>13. WindowOK(s)
  BY <1>6, <1>9, <1>10, <1>11, <1>12 DEF WindowOK
<1> QED BY <1>4, <1>13 DEF s

LEMMA ReviewLoads ==
    ASSUME ReviewInv, Judged!LoadSamplePool
    PROVE  ReviewInv'
<1>1. PICK found \in Judged!CollectSamples : pool' = {found}
  BY DEF Judged!LoadSamplePool
<1> DEFINE long == {r \in {Judged!ReadRun(Judged!Rows, p) : p \in DOMAIN Judged!Rows} :
                     Judged!Cardinality(r) >= RunLength}
<1>2. PICK some \in SUBSET long : found = {Judged!SampleOf(r) : r \in some}
  BY <1>1 DEF Judged!CollectSamples
<1>3. ASSUME NEW s \in found PROVE WindowOK(s)
  <2>1. PICK r \in long : s = Judged!SampleOf(r)
    BY <1>2
  <2>2. PICK p \in DOMAIN Judged!Rows : r = Judged!ReadRun(Judged!Rows, p)
    OBVIOUS
  <2>3. Cardinality(r) >= RunLength
    BY ReviewSizes
  <2> HIDE DEF long
  <2> QED BY <2>1, <2>2, <2>3, SampledIsWindow
<1>4. UNCHANGED <<stream, written, logged, owed, lines, tab>>
  BY DEF Judged!LoadSamplePool
<1>5. \A s \in UNION pool' : WindowOK(s)'
  BY <1>1, <1>3, <1>4 DEF WindowOK
<1> QED BY <1>4, <1>5 DEF ReviewInv, TabOK, ShownOK, LabelOK, LoggedOK, OwedOK, Judged!TruthOf

\* What is shown and what is recorded stay true while the log only grows, or is judged.
LEMMA LogGrows ==
    ASSUME UNCHANGED stream, DOMAIN logged \subseteq DOMAIN logged',
           \A i \in DOMAIN logged : logged'[i].origin = logged[i].origin
    PROVE  /\ \A l : LabelOK(l) => LabelOK(l)'
           /\ \A r : ShownOK(r) => ShownOK(r)'
           /\ \A x : TabOK(x) => TabOK(x)'
           /\ \A s : WindowOK(s) => WindowOK(s)'
           /\ \A o : OwedOK(o) => OwedOK(o)'
<1>1. \A i \in DOMAIN logged : Judged!TruthOf(logged[i].origin)' = Judged!TruthOf(logged[i].origin)
  BY DEF Judged!TruthOf
<1>2. \A l : LabelOK(l) => LabelOK(l)'
  BY <1>1 DEF LabelOK
<1>3. \A r : ShownOK(r) => ShownOK(r)'
  BY <1>1 DEF ShownOK
<1>4. \A x : TabOK(x) => TabOK(x)'
  BY <1>3 DEF TabOK
<1>5. \A s : WindowOK(s) => WindowOK(s)'
  BY DEF WindowOK
<1>6. \A o : OwedOK(o) => OwedOK(o)'
  BY DEF OwedOK
<1> QED BY <1>2, <1>3, <1>4, <1>5, <1>6

LEMMA ReviewSends ==
    ASSUME ReviewInv, NEW t \in Tab, Judged!Send(t)
    PROVE  ReviewInv'
<1>1. Len(logged) < MaxLogged /\ UNCHANGED <<stream, written, pool, owed, lines>>
  BY DEF Judged!Send
<1>2. PICK s \in Judged!Offered, flagged \in BOOLEAN :
         LET row == [origin |-> s, flagged |-> flagged, judged |-> FALSE] IN
         \/ logged' = Append(logged, row) /\ Judged!Answered(t, s, flagged, Len(logged) + 1)
         \/ flagged /\ Judged!Answered(t, s, flagged, 0) /\ UNCHANGED logged
         \/ flagged /\ logged' = Append(logged, row) /\ UNCHANGED tab
  BY DEF Judged!Send
<1> DEFINE row == [origin |-> s, flagged |-> flagged, judged |-> FALSE]
           n == Len(logged)
<1>3. s = Judged!Typed \/ s.of = "operator"
  <2>1. s = Judged!Typed \/ WindowOK(s)
    BY DEF Judged!Offered, ReviewInv
  <2> QED BY <2>1 DEF WindowOK
<1>4. LoggedOK(row) /\ row.origin = s
  BY DEF LoggedOK
<1> HIDE DEF row
<1>5. \/ logged' = logged
      \/ logged' = Append(logged, row)
  BY <1>2 DEF row
<1>6. /\ \E A : logged' \in Seq(A)
      /\ Len(logged') <= MaxLogged
      /\ DOMAIN logged \subseteq DOMAIN logged' /\ \A i \in DOMAIN logged : logged'[i] = logged[i]
      /\ \A i \in DOMAIN logged' : LoggedOK(logged'[i])
      /\ logged' = Append(logged, row) => n + 1 \in DOMAIN logged' /\ logged'[n + 1] = row
  <2>1. CASE logged' = logged
    <3>1. logged' # Append(logged, row)
      <4>1. Len(Append(logged, row)) = Len(logged) + 1 /\ Len(logged) \in Nat
        BY Appended DEF ReviewInv
      <4> QED BY <2>1, <4>1
    <3> QED BY <2>1, <3>1 DEF ReviewInv
  <2>2. CASE logged' = Append(logged, row)
    <3>1. /\ \E A : Append(logged, row) \in Seq(A)
          /\ Len(logged) \in Nat /\ DOMAIN logged = 1..n
          /\ Len(Append(logged, row)) = n + 1 /\ DOMAIN Append(logged, row) = 1..(n + 1)
          /\ \A i \in 1..n : Append(logged, row)[i] = logged[i]
          /\ Append(logged, row)[n + 1] = row
      BY Appended DEF ReviewInv
    <3> HIDE DEF n
    <3>2. MaxLogged \in Nat /\ n < MaxLogged /\ n \in Nat
      BY <1>1, <3>1, ReviewAssumption DEF n
    <3>3. n + 1 <= MaxLogged /\ 1..(n + 1) = 1..n \cup {n + 1}
      BY <3>2
    <3> QED BY <1>4, <2>2, <3>1, <3>3 DEF ReviewInv
  <2> QED BY <1>5, <2>1, <2>2
<1>7. /\ \A l : LabelOK(l) => LabelOK(l)'
      /\ \A x : TabOK(x) => TabOK(x)'
      /\ \A w : WindowOK(w) => WindowOK(w)'
      /\ \A o : OwedOK(o) => OwedOK(o)'
  BY <1>1, <1>6, LogGrows
<1>8. \A e : LoggedOK(e)' <=> LoggedOK(e)
  BY DEF LoggedOK
<1>9. DOMAIN tab' = Tab /\ \A u \in Tab : TabOK(tab[u])'
  <2>1. CASE tab' = tab
    BY <1>7, <2>1 DEF ReviewInv
  <2>2. CASE tab' # tab
    <3>1. PICK id : /\ tab' = [tab EXCEPT ![t].step = "record", ![t].id = id, ![t].sample = s]
                    /\ s # Judged!Typed
                    /\ id = 0 \/ (logged' = Append(logged, row) /\ id = n + 1)
      BY <1>2, <2>2 DEF Judged!Answered, row
    <3>2. TabOK(tab[t]) /\ DOMAIN tab = Tab
      BY DEF ReviewInv
    <3>3. /\ DOMAIN tab' = Tab /\ \A u \in Tab : u # t => tab'[u] = tab[u]
          /\ tab'[t] = [tab[t] EXCEPT !.step = "record", !.id = id, !.sample = s]
      BY <3>1, <3>2
    <3>4. tab'[t] = [step |-> "record", id |-> id, sample |-> s, read |-> tab[t].read, shows |-> tab[t].shows]
      BY <3>2, <3>3 DEF TabOK
    <3>5. \A r \in tab[t].shows : ShownOK(r)'
      BY <1>7, <3>2 DEF TabOK
    <3>6. id = 0 \/ (id \in DOMAIN logged' /\ logged'[id].origin = s)
      BY <1>4, <1>6, <3>1
    <3>7. /\ tab'[t].step = "record" /\ tab'[t].id = id /\ tab'[t].sample = s /\ tab'[t].shows = tab[t].shows
          /\ tab'[t].read = tab[t].read
      BY <3>4
    <3>8. tab'[t] = [step |-> tab'[t].step, id |-> tab'[t].id, sample |-> tab'[t].sample, read |-> tab'[t].read,
                    shows |-> tab'[t].shows]
      BY <3>4, <3>7
    <3>9. TabOK(tab[t])'
      BY <1>3, <3>1, <3>5, <3>6, <3>7, <3>8 DEF TabOK
    <3> QED BY <1>7, <3>3, <3>9 DEF ReviewInv
  <2> QED BY <2>1, <2>2
<1> QED BY <1>1, <1>6, <1>7, <1>8, <1>9 DEF ReviewInv

LEMMA ReviewRecords ==
    ASSUME ReviewInv, NEW t \in Tab, Judged!Record(t)
    PROVE  ReviewInv'
<1>1. /\ tab[t].step = "record" /\ Len(lines) < MaxLogged /\ UNCHANGED <<stream, written, pool, logged, owed>>
      /\ tab' = [tab EXCEPT ![t] = [Judged!Idle EXCEPT !.shows = tab[t].shows]]
  BY DEF Judged!Record
<1>2. /\ \A l : LabelOK(l) => LabelOK(l)'
      /\ \A r : ShownOK(r) => ShownOK(r)'
      /\ \A x : TabOK(x) => TabOK(x)'
      /\ \A w : WindowOK(w) => WindowOK(w)'
      /\ \A o : OwedOK(o) => OwedOK(o)'
  BY <1>1, LogGrows
<1>3. TabOK(tab[t]) /\ DOMAIN tab = Tab
  BY DEF ReviewInv
<1>4. tab'[t] = [step |-> "idle", id |-> 0, sample |-> Judged!Typed, read |-> <<>>, shows |-> tab[t].shows]
  BY <1>1, <1>3 DEF Judged!Idle
<1>5. TabOK(tab[t])'
  BY <1>2, <1>3, <1>4 DEF TabOK
<1>6. DOMAIN tab' = Tab /\ \A u \in Tab : TabOK(tab[u])'
  <2>1. DOMAIN tab' = Tab /\ \A u \in Tab : u # t => tab'[u] = tab[u]
    BY <1>1, <1>3
  <2> QED BY <1>2, <1>5, <2>1 DEF ReviewInv
<1>7. (\E A : lines' \in Seq(A)) /\ Len(lines') <= MaxLogged /\ \A k \in DOMAIN lines' : LabelOK(lines[k])'
  <2>1. CASE lines' = lines
    BY <1>2, <2>1 DEF ReviewInv
  <2>2. CASE lines' # lines
    <3> DEFINE l == [id |-> tab[t].id, label |-> stream[tab[t].sample.cur].label, source |-> "demo tab"]
               n == Len(lines)
    <3>1. tab[t].id # 0 /\ lines' = Append(lines, l)
      BY <2>2 DEF Judged!Record
    <3>2. LabelOK(l)
      <4>1. /\ tab[t].id \in DOMAIN logged /\ logged[tab[t].id].origin = tab[t].sample
            /\ tab[t].sample.of = "operator"
        BY <1>1, <1>3, <3>1 DEF TabOK
      <4>2. l.id = tab[t].id /\ l.label = stream[tab[t].sample.cur].label /\ l.source = "demo tab"
        OBVIOUS
      <4> HIDE DEF l
      <4>3. [label |-> l.label, source |-> l.source] = Judged!TruthOf(logged[l.id].origin)
        BY <4>1, <4>2 DEF Judged!TruthOf
      <4>4. tab[t].sample # Judged!Typed
        BY <4>1 DEF Judged!Typed
      <4> QED BY <4>1, <4>2, <4>3, <4>4 DEF LabelOK
    <3> HIDE DEF l
    <3>3. /\ \E A : Append(lines, l) \in Seq(A)
          /\ n \in Nat /\ DOMAIN lines = 1..n
          /\ Len(Append(lines, l)) = n + 1 /\ DOMAIN Append(lines, l) = 1..(n + 1)
          /\ \A i \in 1..n : Append(lines, l)[i] = lines[i]
          /\ Append(lines, l)[n + 1] = l
      BY Appended DEF ReviewInv
    <3>4. n < MaxLogged /\ MaxLogged \in Nat
      BY <1>1, ReviewAssumption
    <3> HIDE DEF n
    <3>5. n + 1 <= MaxLogged /\ 1..(n + 1) = 1..n \cup {n + 1}
      BY <3>3, <3>4
    <3> QED BY <1>2, <3>1, <3>2, <3>3, <3>5 DEF ReviewInv
  <2> QED BY <2>1, <2>2
<1> QED BY <1>1, <1>2, <1>6, <1>7 DEF ReviewInv, LoggedOK

\* A step that changes only what a tab does.
LEMMA ReviewTab ==
    ASSUME ReviewInv, NEW t \in Tab, NEW x, TabOK(x), tab' = [tab EXCEPT ![t] = x],
           UNCHANGED <<stream, written, pool, logged, owed, lines>>
    PROVE  ReviewInv'
<1>1. /\ \A l : LabelOK(l) => LabelOK(l)'
      /\ \A y : TabOK(y) => TabOK(y)'
      /\ \A w : WindowOK(w) => WindowOK(w)'
      /\ \A o : OwedOK(o) => OwedOK(o)'
  BY LogGrows
<1>2. DOMAIN tab' = Tab /\ tab'[t] = x /\ \A u \in Tab : u # t => tab'[u] = tab[u]
  BY DEF ReviewInv
<1>3. \A u \in Tab : TabOK(tab[u])'
  BY <1>1, <1>2 DEF ReviewInv
<1> QED BY <1>1, <1>2, <1>3 DEF ReviewInv, LoggedOK

LEMMA ReviewReads ==
    ASSUME ReviewInv, NEW t \in Tab, Judged!ReadRecent(t)
    PROVE  ReviewInv'
<1> DEFINE first == IF Len(logged) > Limit THEN Len(logged) - Limit + 1 ELSE 1
<1>1. PICK include \in BOOLEAN :
         tab' = [tab EXCEPT ![t].step = "labels", ![t].read =
                   [i \in {i \in first..Len(logged) : logged[i].flagged /\ (include \/ ~ logged[i].judged)}
                      |-> logged[i].judged]]
  BY DEF Judged!ReadRecent
<1> DEFINE ids == {i \in first..Len(logged) : logged[i].flagged /\ (include \/ ~ logged[i].judged)}
           read == [i \in ids |-> logged[i].judged]
           x == [step |-> "labels", id |-> tab[t].id, sample |-> tab[t].sample, read |-> read, shows |-> tab[t].shows]
<1>2. first \in 1..(Len(logged) + 1) /\ Len(logged) \in Nat /\ DOMAIN logged = 1..Len(logged)
  <2>1. Len(logged) \in Nat /\ DOMAIN logged = 1..Len(logged)
    BY DEF ReviewInv
  <2>2. Limit \in Nat \ {0}
    BY ConstantsAssumption
  <2> QED BY <2>1, <2>2
<1>3. ids \subseteq DOMAIN logged
  <2> HIDE DEF first
  <2> QED BY <1>2
<1>4. tab' = [tab EXCEPT ![t].step = "labels", ![t].read = read]
  BY <1>1
<1>5. DOMAIN read = ids
  OBVIOUS
<1> HIDE DEF read, ids, first
<1>6. TabOK(tab[t]) /\ DOMAIN tab = Tab
  BY DEF ReviewInv
<1>7. tab' = [tab EXCEPT ![t] = x]
  <2> DEFINE y == [tab[t] EXCEPT !.step = "labels", !.read = read]
  <2>0. y = [tab[t] EXCEPT !.step = "labels", !.read = read]
    OBVIOUS
  <2> HIDE DEF y
  <2>3. y = x
    BY <1>6, <2>0 DEF TabOK
  <2>1. [tab[t] EXCEPT !.step = "labels", !.read = read] = x
    BY <2>3 DEF y
  <2>2. tab' = [tab EXCEPT ![t] = [tab[t] EXCEPT !.step = "labels", !.read = read]]
    BY <1>4, <1>6
  <2> QED BY <2>1, <2>2
<1>8. TabOK(x)
  <2>1. x.step = "labels" /\ x.read = read /\ x.shows = tab[t].shows
    OBVIOUS
  <2>2. x = [step |-> x.step, id |-> x.id, sample |-> x.sample, read |-> x.read, shows |-> x.shows]
    OBVIOUS
  <2> HIDE DEF x
  <2> QED BY <1>3, <1>5, <1>6, <2>1, <2>2 DEF TabOK
<1>9. UNCHANGED <<stream, written, pool, logged, owed, lines>>
  BY DEF Judged!ReadRecent
<1> HIDE DEF x
<1> QED BY <1>7, <1>8, <1>9, ReviewTab

LEMMA ReviewLabels ==
    ASSUME ReviewInv, NEW t \in Tab, Judged!ReadLabels(t)
    PROVE  ReviewInv'
<1> DEFINE row(i) == [id |-> i, judged |-> tab[t].read[i], real |-> Judged!LabelOf(i)]
           rows == {row(i) : i \in DOMAIN tab[t].read}
           x == [Judged!Idle EXCEPT !.shows = rows]
<1>1. tab' = [tab EXCEPT ![t] = x] /\ tab[t].step = "labels" /\ UNCHANGED <<stream, written, pool, logged, owed, lines>>
  BY DEF Judged!ReadLabels
<1>2. TabOK(tab[t])
  BY DEF ReviewInv
<1>3. ASSUME NEW i \in DOMAIN tab[t].read PROVE ShownOK(row(i))
  <2> DEFINE r == row(i)
  <2>1. i \in DOMAIN logged
    BY <1>1, <1>2 DEF TabOK
  <2>2. ASSUME NEW l \in Judged!LabelOf(i)
        PROVE  logged[i].origin # Judged!Typed /\ l = Judged!TruthOf(logged[i].origin)
    <3>1. PICK k \in DOMAIN lines : lines[k].id = i /\ l = [label |-> lines[k].label, source |-> lines[k].source]
      BY DEF Judged!LabelOf
    <3>2. LabelOK(lines[k])
      BY DEF ReviewInv
    <3> QED BY <3>1, <3>2 DEF LabelOK
  <2>3. r.id = i /\ r = [id |-> r.id, judged |-> r.judged, real |-> r.real] /\ r.real = Judged!LabelOf(i)
    OBVIOUS
  <2> HIDE DEF r
  <2>4. ShownOK(r)
    BY <2>1, <2>2, <2>3 DEF ShownOK
  <2> QED BY <2>4 DEF r
<1>4. \A r \in rows : ShownOK(r)
  <2> HIDE DEF row
  <2> QED BY <1>3
<1> HIDE DEF rows
<1>5. TabOK(x)
  <2>1. x = [step |-> "idle", id |-> 0, sample |-> Judged!Typed, read |-> <<>>, shows |-> rows]
    BY DEF Judged!Idle
  <2> HIDE DEF x
  <2> QED BY <1>4, <2>1 DEF TabOK
<1> HIDE DEF x
<1> QED BY <1>1, <1>5, ReviewTab

LEMMA ReviewJudges ==
    ASSUME ReviewInv, NEW t \in Tab, Judged!Judge(t)
    PROVE  ReviewInv'
<1>1. PICK r \in tab[t].shows :
         /\ logged' = [logged EXCEPT ![r.id].judged = TRUE]
         /\ tab' \in {tab, [tab EXCEPT ![t].shows = (@ \ {r}) \cup {[r EXCEPT !.judged = TRUE]}]}
  BY DEF Judged!Judge
<1>2. UNCHANGED <<stream, written, pool, owed, lines>>
  BY DEF Judged!Judge
<1>3. TabOK(tab[t]) /\ DOMAIN tab = Tab /\ ShownOK(r) /\ r.id \in DOMAIN logged
  BY DEF ReviewInv, TabOK, ShownOK
<1> DEFINE e == logged[r.id]
<1>4. /\ DOMAIN logged' = DOMAIN logged /\ \A i \in DOMAIN logged : i # r.id => logged'[i] = logged[i]
      /\ logged'[r.id] = [e EXCEPT !.judged = TRUE]
  BY <1>1, <1>3
<1>5. LoggedOK(e)
  BY <1>3 DEF ReviewInv
<1>6. logged'[r.id] = [origin |-> e.origin, flagged |-> e.flagged, judged |-> TRUE]
  BY <1>4, <1>5 DEF LoggedOK
<1>7. LoggedOK(logged'[r.id]) /\ logged'[r.id].origin = e.origin
  BY <1>5, <1>6 DEF LoggedOK
<1>8. (\E A : logged' \in Seq(A)) /\ Len(logged') = Len(logged)
  <2>1. PICK A : logged \in Seq(A)
    BY DEF ReviewInv
  <2> DEFINE n == Len(logged)
             B == A \cup {logged'[r.id]}
  <2>2. n \in Nat /\ DOMAIN logged = 1..n /\ \A i \in 1..n : logged[i] \in A
    BY <2>1
  <2>3. logged' = [i \in 1..n |-> logged'[i]]
    BY <1>1, <2>2
  <2>4. \A i \in 1..n : logged'[i] \in B
    BY <1>4, <2>2
  <2> HIDE DEF B, n
  <2>5. logged' \in [1..n -> B]
    BY <2>3, <2>4
  <2>6. logged' \in Seq(B)
    BY <2>2, <2>5
  <2>7. Len(logged') = n
    BY <1>4, <2>2, <2>6
  <2> QED BY <2>6, <2>7 DEF n
<1>9. /\ \A l : LabelOK(l) => LabelOK(l)'
      /\ \A q : ShownOK(q) => ShownOK(q)'
      /\ \A x : TabOK(x) => TabOK(x)'
      /\ \A w : WindowOK(w) => WindowOK(w)'
      /\ \A o : OwedOK(o) => OwedOK(o)'
  <2>1. UNCHANGED stream /\ DOMAIN logged \subseteq DOMAIN logged' /\ \A i \in DOMAIN logged : logged'[i].origin = logged[i].origin
    BY <1>2, <1>4, <1>7
  <2> QED BY <2>1, LogGrows
<1>10. DOMAIN tab' = Tab /\ \A u \in Tab : TabOK(tab[u])'
  <2>1. CASE tab' = tab
    BY <1>9, <2>1 DEF ReviewInv
  <2>2. CASE tab' # tab
    <3> DEFINE q == [r EXCEPT !.judged = TRUE]
               rows == (tab[t].shows \ {r}) \cup {q}
    <3>1. tab' = [tab EXCEPT ![t].shows = rows]
      BY <1>1, <2>2
    <3>0. q = [r EXCEPT !.judged = TRUE]
      OBVIOUS
    <3> HIDE DEF q
    <3>2. q = [id |-> r.id, judged |-> TRUE, real |-> r.real]
      BY <1>3, <3>0 DEF ShownOK
    <3>3. ShownOK(q)
      BY <1>3, <3>2 DEF ShownOK
    <3>4. \A y \in rows : ShownOK(y)'
      BY <1>3, <1>9, <3>3 DEF TabOK
    <3> HIDE DEF rows
    <3>5. DOMAIN tab' = Tab /\ (\A u \in Tab : u # t => tab'[u] = tab[u]) /\ tab'[t] = [tab[t] EXCEPT !.shows = rows]
      BY <1>3, <3>1
    <3>6. DOMAIN tab[t] = {"step", "id", "sample", "read", "shows"}
      BY <1>3 DEF TabOK
    <3>7. tab'[t] = [step |-> tab[t].step, id |-> tab[t].id, sample |-> tab[t].sample, read |-> tab[t].read, shows |-> rows]
      BY <3>5, <3>6
    <3>8. TabOK(tab[t])'
      <4>1. /\ tab'[t].step = tab[t].step /\ tab'[t].id = tab[t].id /\ tab'[t].sample = tab[t].sample
            /\ tab'[t].read = tab[t].read /\ tab'[t].shows = rows
            /\ tab'[t] = [step |-> tab'[t].step, id |-> tab'[t].id, sample |-> tab'[t].sample, read |-> tab'[t].read,
                          shows |-> tab'[t].shows]
        BY <3>7
      <4>2. \A i \in DOMAIN logged : i \in DOMAIN logged' /\ logged'[i].origin = logged[i].origin
        BY <1>4, <1>7
      <4> QED BY <1>3, <3>4, <4>1, <4>2 DEF TabOK
    <3> QED BY <1>9, <3>5, <3>8 DEF ReviewInv
  <2> QED BY <2>1, <2>2
<1>11. \A i \in DOMAIN logged' : LoggedOK(logged'[i])
  BY <1>4, <1>7 DEF ReviewInv
<1>12. \A i \in DOMAIN logged' : LoggedOK(logged[i])'
  BY <1>11 DEF LoggedOK
<1> QED BY <1>2, <1>8, <1>9, <1>10, <1>12 DEF ReviewInv

LEMMA ReviewAgentSends ==
    ASSUME ReviewInv, NEW r, Judged!AgentSends(r)
    PROVE  ReviewInv'
<1> DEFINE n == Len(logged)
<1>1. PICK flagged \in BOOLEAN :
         /\ logged' = Append(logged, [origin |-> [of |-> "agent", row |-> r], flagged |-> flagged, judged |-> FALSE])
         /\ owed' = owed \cup {[id |-> n + 1, row |-> r]} \/ UNCHANGED owed
  BY DEF Judged!AgentSends
<1> DEFINE row == [origin |-> [of |-> "agent", row |-> r], flagged |-> flagged, judged |-> FALSE]
<1>2. logged' = Append(logged, row)
  BY <1>1
<1>3. Len(logged) < MaxLogged /\ UNCHANGED <<stream, written, pool, lines, tab>>
  BY DEF Judged!AgentSends
<1>4. LoggedOK(row) /\ row.origin = [of |-> "agent", row |-> r]
  BY DEF LoggedOK
<1> HIDE DEF row
<1>5. /\ \E A : Append(logged, row) \in Seq(A)
      /\ n \in Nat /\ DOMAIN logged = 1..n
      /\ Len(Append(logged, row)) = n + 1 /\ DOMAIN Append(logged, row) = 1..(n + 1)
      /\ \A i \in 1..n : Append(logged, row)[i] = logged[i]
      /\ Append(logged, row)[n + 1] = row
  BY Appended DEF ReviewInv
<1>6. n + 1 <= MaxLogged /\ 1..(n + 1) = 1..n \cup {n + 1} /\ n + 1 \in 1..(n + 1)
  <2>1. MaxLogged \in Nat /\ n < MaxLogged /\ n \in Nat
    BY <1>3, <1>5, ReviewAssumption
  <2> HIDE DEF n
  <2> QED BY <2>1
<1> HIDE DEF n
<1>7. DOMAIN logged \subseteq DOMAIN logged' /\ \A i \in DOMAIN logged : logged'[i] = logged[i]
  BY <1>2, <1>5, <1>6
<1>8. \A i \in DOMAIN logged' : LoggedOK(logged'[i])
  BY <1>2, <1>4, <1>5, <1>6 DEF ReviewInv
<1>9. /\ \A l : LabelOK(l) => LabelOK(l)'
      /\ \A x : TabOK(x) => TabOK(x)'
      /\ \A w : WindowOK(w) => WindowOK(w)'
      /\ \A o : OwedOK(o) => OwedOK(o)'
  BY <1>3, <1>7, LogGrows
<1>10. \A o \in owed' : OwedOK(o)'
  <2>1. n + 1 \in DOMAIN logged' /\ logged'[n + 1] = row
    BY <1>2, <1>5, <1>6
  <2>2. ASSUME NEW o \in owed' PROVE OwedOK(o)'
    <3>1. o \in owed \/ (o.id = n + 1 /\ o.row = r)
      BY <1>1
    <3>2. CASE o \in owed
      BY <1>9, <3>2 DEF ReviewInv
    <3>3. CASE o.id = n + 1 /\ o.row = r
      BY <1>4, <2>1, <3>3 DEF OwedOK
    <3> QED BY <3>1, <3>2, <3>3
  <2> QED BY <2>2
<1>11. \A e : LoggedOK(e)' <=> LoggedOK(e)
  BY DEF LoggedOK
<1>12. (\E A : logged' \in Seq(A)) /\ Len(logged') <= MaxLogged
  BY <1>2, <1>5, <1>6
<1> QED BY <1>3, <1>8, <1>9, <1>10, <1>11, <1>12 DEF ReviewInv

LEMMA ReviewAgentRecords ==
    ASSUME ReviewInv, NEW o \in owed, Judged!AgentRecords(o)
    PROVE  ReviewInv'
<1> DEFINE l == [id |-> o.id, label |-> o.row.label, source |-> "production agent"]
           n == Len(lines)
<1>1. /\ Len(lines) < MaxLogged /\ UNCHANGED <<stream, written, pool, logged, tab>>
      /\ owed' \subseteq owed /\ (lines' = lines \/ lines' = Append(lines, l))
  BY DEF Judged!AgentRecords
<1>2. /\ \A k : LabelOK(k) => LabelOK(k)'
      /\ \A x : TabOK(x) => TabOK(x)'
      /\ \A w : WindowOK(w) => WindowOK(w)'
      /\ \A p : OwedOK(p) => OwedOK(p)'
  BY <1>1, LogGrows
<1>3. LabelOK(l)
  <2>1. o.id \in DOMAIN logged /\ logged[o.id].origin = [of |-> "agent", row |-> o.row]
    BY DEF ReviewInv, OwedOK
  <2>2. l.id = o.id /\ l.label = o.row.label /\ l.source = "production agent"
    OBVIOUS
  <2> HIDE DEF l
  <2>3. logged[o.id].origin.of = "agent" /\ logged[o.id].origin.row = o.row
    BY <2>1
  <2>4. logged[o.id].origin # Judged!Typed
    BY <2>3 DEF Judged!Typed
  <2>5. [label |-> l.label, source |-> l.source] = Judged!TruthOf(logged[l.id].origin)
    BY <2>2, <2>3 DEF Judged!TruthOf
  <2> QED BY <2>1, <2>2, <2>4, <2>5 DEF LabelOK
<1> HIDE DEF l
<1>4. /\ \E A : Append(lines, l) \in Seq(A)
      /\ n \in Nat /\ DOMAIN lines = 1..n
      /\ Len(Append(lines, l)) = n + 1 /\ DOMAIN Append(lines, l) = 1..(n + 1)
      /\ \A i \in 1..n : Append(lines, l)[i] = lines[i]
      /\ Append(lines, l)[n + 1] = l
  BY Appended DEF ReviewInv
<1>5. n < MaxLogged /\ MaxLogged \in Nat /\ n <= MaxLogged
  BY <1>1, ReviewAssumption DEF ReviewInv
<1>6. n + 1 <= MaxLogged /\ 1..(n + 1) = 1..n \cup {n + 1}
  <2> HIDE DEF n
  <2> QED BY <1>4, <1>5
<1>7. (\E A : lines' \in Seq(A)) /\ Len(lines') <= MaxLogged /\ \A k \in DOMAIN lines' : LabelOK(lines[k])'
  <2>1. CASE lines' = lines
    BY <1>2, <2>1 DEF ReviewInv
  <2>2. CASE lines' = Append(lines, l)
    <3> HIDE DEF n
    <3> QED BY <1>2, <1>3, <1>4, <1>6, <2>2 DEF ReviewInv
  <2> QED BY <1>1, <2>1, <2>2
<1> QED BY <1>1, <1>2, <1>7 DEF ReviewInv, LoggedOK

LEMMA ReviewStep ==
    ASSUME ReviewInv, Judged!Next \/ UNCHANGED judged
    PROVE  ReviewInv'
<1>1. ASSUME UNCHANGED <<stream, pool, logged, owed, lines, tab>>, written' \in BOOLEAN PROVE ReviewInv'
  <2>1. /\ \A l : LabelOK(l) => LabelOK(l)'
        /\ \A x : TabOK(x) => TabOK(x)'
        /\ \A w : WindowOK(w) => WindowOK(w)'
        /\ \A o : OwedOK(o) => OwedOK(o)'
    BY <1>1, LogGrows
  <2> QED BY <1>1, <2>1 DEF ReviewInv, LoggedOK
<1>2. CASE UNCHANGED judged
  <2>1. written \in BOOLEAN
    BY DEF ReviewInv
  <2> QED BY <1>1, <1>2, <2>1 DEF judged
<1>3. CASE Judged!Generate
  BY <1>1, <1>3 DEF Judged!Generate
<1>4. CASE Judged!LoadSamplePool
  BY <1>4, ReviewLoads
<1> QED BY <1>2, <1>3, <1>4, ReviewSends, ReviewRecords, ReviewReads, ReviewLabels, ReviewJudges,
  ReviewAgentSends, ReviewAgentRecords DEF Judged!Next

(***************************************************************************)
(* LiveCheck: of the labels it has read, the script has found the prediction, or *)
(* is yet to look for it.                                                  *)
(***************************************************************************)

LEMMA LiveSizes == \A S : Live!Cardinality(S) = Cardinality(S)
BY DEF Cardinality, Live!Cardinality

\* A segment is whole rows of its machine.
SegmentOK(m) ==
    /\ segments[m] \in 0..Len(replay)
    /\ segments[m] # 0 => \A i \in segments[m]..(segments[m] + Segment - 1) :
         i \in DOMAIN replay /\ replay[i] # Live!CutOff /\ replay[i].machine = m

\* A prediction is of a whole row; a label is of its prediction, and not much younger.
PredictedOK(e) ==
    /\ e.row \in DOMAIN replay /\ replay[e.row] # Live!CutOff /\ e.machine = replay[e.row].machine
    /\ e.time \in 1..time

FlagOK(l, e) ==
    /\ l.machine = e.machine /\ l.label = replay[e.row].label /\ e.flagger # Live!None
    /\ l.logged \in 1..LastTime /\ e.time <= l.logged /\ l.logged <= e.time + MaxDelay

AgentOK(m) ==
    /\ agent[m] = [step |-> agent[m].step, row |-> agent[m].row, id |-> agent[m].id]
    /\ \/ agent[m] = Live!Off
       \/ /\ agent[m].step \in {"wait", "mark"} /\ segments[m] # 0
          /\ agent[m].row \in segments[m]..(segments[m] + Segment - 1)
    /\ agent[m].step = "mark" =>
         /\ agent[m].id \in DOMAIN predicted
         /\ predicted[agent[m].id].row = agent[m].row /\ predicted[agent[m].id].machine = m
         /\ predicted[agent[m].id].flagger # Live!None
         /\ time <= predicted[agent[m].id].time + MaxDelay

\* The labels the script has read are found, or their machine, or their time, is to come.
CheckOK(c) ==
    /\ c = [step |-> c.step, labels |-> c.labels, todo |-> c.todo, of |-> c.of, lo |-> c.lo, hi |-> c.hi,
            found |-> c.found, truncated |-> c.truncated]
    /\ c.step \in {"idle", "machine", "walk", "done", "failed"} /\ c.found \subseteq DOMAIN predicted
    /\ c.truncated \in Nat
    /\ \A i \in DOMAIN c.labels : i \in DOMAIN predicted /\ FlagOK(c.labels[i], predicted[i])
    /\ \A m \in c.todo : \E i \in DOMAIN c.labels : c.labels[i].machine = m
    /\ c.step = "walk" => c.lo \in Int /\ c.hi \in Int
    /\ c.step \in {"machine", "walk", "done"} /\ c.truncated = 0 =>
         \A i \in DOMAIN c.labels :
            \/ i \in c.found \/ c.labels[i].machine \in c.todo
            \/ c.step = "walk" /\ c.labels[i].machine = c.of /\ c.lo <= predicted[i].time /\ predicted[i].time <= c.hi
    /\ c.step = "done" => c.todo = {}

LiveInv ==
    /\ replay \in ReplayFile /\ time \in 1..LastTime
    /\ DOMAIN segments = Live!Replayed /\ DOMAIN agent = Live!Replayed
    /\ \A m \in Live!Replayed : SegmentOK(m) /\ AgentOK(m)
    /\ (\E A : predicted \in Seq(A)) /\ Len(predicted) <= MaxSent
    /\ \A i \in DOMAIN predicted : PredictedOK(predicted[i])
    /\ \A i \in DOMAIN marked : i \in DOMAIN predicted /\ FlagOK(marked[i], predicted[i])
    /\ CheckOK(check)

LEMMA LiveNumbers ==
    /\ Segment \in Nat \ {0} /\ Slice \in Nat \ {0} /\ PageSize \in Nat \ {0} /\ LastTime \in Nat \ {0}
    /\ MaxSent \in Nat /\ Pad \in Nat /\ MaxDelay \in Nat /\ MaxDelay <= Pad
    /\ replay \in ReplayFile => Len(replay) \in Nat /\ DOMAIN replay = 1..Len(replay)
<1>1. /\ Segment \in Nat \ {0} /\ Slice \in Nat \ {0} /\ PageSize \in Nat \ {0} /\ LastTime \in Nat \ {0}
      /\ MaxSent \in Nat /\ Pad \in Nat /\ MaxDelay \in 0..Pad
  BY ConstantsAssumption
<1>2. MaxDelay \in Nat /\ MaxDelay <= Pad
  BY <1>1
<1>3. replay \in ReplayFile => Len(replay) \in Nat /\ DOMAIN replay = 1..Len(replay)
  BY ReviewAssumption
<1> QED BY <1>1, <1>2, <1>3

LEMMA LiveTyped == LiveInv => Live!TypeOK
<1> SUFFICES ASSUME LiveInv PROVE Live!TypeOK
  OBVIOUS
<1>1. Len(replay) \in Nat /\ DOMAIN replay = 1..Len(replay) /\ Segment \in Nat \ {0}
  BY LiveNumbers DEF LiveInv
<1>2. ASSUME NEW m \in Live!Replayed
      PROVE  agent[m].step \in {"off", "wait", "mark"} /\ agent[m].row \in 0..Len(replay)
  <2>1. AgentOK(m) /\ SegmentOK(m)
    BY DEF LiveInv
  <2>2. CASE agent[m] = Live!Off
    BY <1>1, <2>2 DEF Live!Off
  <2>3. CASE agent[m] # Live!Off
    <3>1. agent[m].step \in {"wait", "mark"} /\ agent[m].row \in DOMAIN replay
      BY <2>1, <2>3 DEF AgentOK, SegmentOK
    <3> QED BY <1>1, <3>1
  <2> QED BY <2>2, <2>3
<1>3. \A m \in Live!Replayed : segments[m] \in 0..Len(replay)
  BY DEF LiveInv, SegmentOK
<1> QED BY <1>2, <1>3 DEF LiveInv, CheckOK, Live!TypeOK

LEMMA LiveStart ==
    ASSUME Live!Init
    PROVE  LiveInv
<1>1. /\ replay \in ReplayFile /\ time = 1 /\ predicted = <<>> /\ marked = <<>> /\ check = Live!NotRun
      /\ segments = [m \in Live!Replayed |-> 0] /\ agent = [m \in Live!Replayed |-> Live!Off]
  BY DEF Live!Init
<1>2. Len(replay) \in Nat /\ LastTime \in Nat \ {0} /\ MaxSent \in Nat
  BY <1>1, LiveNumbers
<1>3. <<>> \in Seq({}) /\ Len(<<>>) = 0 /\ DOMAIN (<<>>) = {}
  OBVIOUS
<1>4. \E A : <<>> \in Seq(A)
  BY <1>3
<1>5. /\ \E A : predicted \in Seq(A)
      /\ Len(predicted) <= MaxSent /\ DOMAIN predicted = {} /\ DOMAIN marked = {} /\ time \in 1..LastTime
  BY <1>1, <1>2, <1>3, <1>4
<1>6. \A m \in Live!Replayed : SegmentOK(m) /\ AgentOK(m)
  BY <1>1, <1>2 DEF SegmentOK, AgentOK, Live!Off
<1>7. CheckOK(check)
  <2>1. /\ check.step = "idle" /\ check.found = {} /\ check.truncated = 0 /\ check.labels = <<>> /\ check.todo = {}
        /\ check = [step |-> check.step, labels |-> check.labels, todo |-> check.todo, of |-> check.of, lo |-> check.lo,
                    hi |-> check.hi, found |-> check.found, truncated |-> check.truncated]
    BY <1>1 DEF Live!NotRun
  <2> QED BY <1>3, <2>1 DEF CheckOK
<1>8. DOMAIN segments = Live!Replayed /\ DOMAIN agent = Live!Replayed
  BY <1>1
<1> QED BY <1>1, <1>5, <1>6, <1>7, <1>8 DEF LiveInv

LEMMA LiveIsTrue == LiveInv => Live!LabelsOfReadings
BY DEF LiveInv, FlagOK, PredictedOK, Live!LabelsOfReadings

LEMMA LiveCounts ==
    ASSUME LiveInv
    PROVE  Live!CountsAreComplete
<1> SUFFICES ASSUME check.step = "done", Live!Report.truncated = 0
             PROVE  /\ Live!Report.unmatched = 0
                    /\ \A who \in Live!Flagger :
                         /\ Live!Report.flags[who] = Live!Cardinality({i \in DOMAIN check.labels : predicted[i].flagger = who})
                         /\ Live!Report.real[who] = Live!Cardinality({i \in DOMAIN check.labels :
                                        predicted[i].flagger = who /\ replay[predicted[i].row].label})
  BY DEF Live!CountsAreComplete
<1>1. check.truncated = 0
  BY DEF Live!Report
<1>2. \A i \in DOMAIN check.labels : i \in check.found /\ FlagOK(check.labels[i], predicted[i])
  BY <1>1 DEF LiveInv, CheckOK
<1>3. Live!Unmatched = {}
  BY <1>2 DEF Live!Unmatched, FlagOK
<1>4. Live!Report.unmatched = 0
  BY <1>3, LiveSizes, FS_EmptySet DEF Live!Report
<1>5. ASSUME NEW who \in Live!Flagger
      PROVE  /\ Live!Report.flags[who] = Live!Cardinality({i \in DOMAIN check.labels : predicted[i].flagger = who})
             /\ Live!Report.real[who] = Live!Cardinality({i \in DOMAIN check.labels :
                                        predicted[i].flagger = who /\ replay[predicted[i].row].label})
  <2>1. Live!RaisedBy(who) = {i \in DOMAIN check.labels : predicted[i].flagger = who}
    BY <1>2 DEF Live!RaisedBy
  <2>2. {i \in Live!RaisedBy(who) : check.labels[i].label} =
        {i \in DOMAIN check.labels : predicted[i].flagger = who /\ replay[predicted[i].row].label}
    BY <1>2, <2>1 DEF FlagOK
  <2> QED BY <2>1, <2>2 DEF Live!Report
<1> QED BY <1>4, <1>5

\* What is known of the log stays true while it grows and time passes.
LEMMA LiveGrows ==
    ASSUME UNCHANGED replay, DOMAIN predicted \subseteq DOMAIN predicted',
           \A i \in DOMAIN predicted : predicted'[i] = predicted[i],
           time \in Nat, time' \in Nat, time <= time'
    PROVE  /\ \A e : PredictedOK(e) => PredictedOK(e)'
           /\ \A l, e : FlagOK(l, e) <=> FlagOK(l, e)'
           /\ \A c : CheckOK(c) => CheckOK(c)'
<1>1. \A e : PredictedOK(e) => PredictedOK(e)'
  BY DEF PredictedOK
<1>2. \A l, e : FlagOK(l, e) <=> FlagOK(l, e)'
  BY DEF FlagOK
<1>3. ASSUME NEW c, CheckOK(c) PROVE CheckOK(c)'
  <2>1. \A i \in DOMAIN c.labels : i \in DOMAIN predicted /\ FlagOK(c.labels[i], predicted[i])
    BY <1>3 DEF CheckOK
  <2>2. \A i \in DOMAIN c.labels : i \in DOMAIN predicted' /\ FlagOK(c.labels[i], predicted[i])' /\ predicted'[i] = predicted[i]
    BY <1>2, <2>1 DEF FlagOK
  <2> QED BY <1>3, <2>1, <2>2 DEF CheckOK
<1> QED BY <1>1, <1>2, <1>3

\* The rows of a run that is long enough are a segment.
LEMMA RunIsSegment ==
    ASSUME LiveInv, NEW m, NEW from \in DOMAIN replay, replay[from].machine = m,
           Cardinality(Live!ReadConsecutiveRun(from)) = Segment
    PROVE  \A i \in from..(from + Segment - 1) : i \in DOMAIN replay /\ replay[i] # Live!CutOff /\ replay[i].machine = m
<1>1. Len(replay) \in Nat /\ DOMAIN replay = 1..Len(replay) /\ Segment \in Nat \ {0} /\ from \in Nat
  BY LiveNumbers DEF LiveInv
<1> DEFINE all == from..(from + Segment - 1)
           run == Live!ReadConsecutiveRun(from)
<1>2. run \in SUBSET all
  BY <1>1 DEF Live!ReadConsecutiveRun
<1>3. IsFiniteSet(all) /\ Cardinality(all) = Segment
  <2>1. from + Segment - 1 \in Int /\ from <= from + Segment - 1 /\ (from + Segment - 1) - from + 1 = Segment
    BY <1>1
  <2> QED BY <1>1, <2>1, FS_Interval
<1>4. run = all
  <2>1. Cardinality(run) = Cardinality(all)
    BY <1>3
  <2> HIDE DEF run, all
  <2>2. Cardinality(all) = Cardinality(run) => all = run
    BY <1>2, <1>3, FS_Subset
  <2> QED BY <2>1, <2>2
<1>5. \A i \in run : i \in DOMAIN replay /\ replay[i] # Live!CutOff /\ replay[i].machine = m
  BY <1>1 DEF Live!ReadConsecutiveRun
<1> QED BY <1>4, <1>5

LEMMA LiveBuilds ==
    ASSUME LiveInv, Live!BuildSegments
    PROVE  LiveInv'
<1>1. /\ UNCHANGED <<replay, time, predicted, marked, check>>
      /\ segments' \in [Live!Replayed -> 0..Len(replay)]
      /\ \A m \in Live!Replayed : segments'[m] # 0 =>
           replay[segments'[m]].machine = m /\ Live!Cardinality(Live!ReadConsecutiveRun(segments'[m])) = Segment
      /\ agent' = [m \in Live!Replayed |-> IF segments'[m] = 0 THEN Live!Off
                                            ELSE [step |-> "wait", row |-> segments'[m], id |-> 0]]
  BY DEF Live!BuildSegments
<1>2. Len(replay) \in Nat /\ DOMAIN replay = 1..Len(replay) /\ Segment \in Nat \ {0}
  BY LiveNumbers DEF LiveInv
<1>3. Live!Replayed' = Live!Replayed
  BY <1>1 DEF Live!Replayed
<1>4. ASSUME NEW m \in Live!Replayed PROVE SegmentOK(m)'
  <2>1. segments'[m] \in 0..Len(replay)
    BY <1>1
  <2>2. ASSUME segments'[m] # 0
        PROVE  \A i \in segments'[m]..(segments'[m] + Segment - 1) :
                 i \in DOMAIN replay /\ replay[i] # Live!CutOff /\ replay[i].machine = m
    <3>1. segments'[m] \in DOMAIN replay /\ replay[segments'[m]].machine = m
      BY <1>1, <1>2, <2>1, <2>2
    <3>2. Cardinality(Live!ReadConsecutiveRun(segments'[m])) = Segment
      BY <1>1, <2>2, LiveSizes
    <3> QED BY <3>1, <3>2, RunIsSegment
  <2> QED BY <1>1, <2>1, <2>2 DEF SegmentOK
<1>5. ASSUME NEW m \in Live!Replayed PROVE AgentOK(m)'
  <2>1. CASE segments'[m] = 0
    BY <1>1, <2>1 DEF AgentOK, Live!Off
  <2>2. CASE segments'[m] # 0
    <3>1. agent'[m] = [step |-> "wait", row |-> segments'[m], id |-> 0]
      BY <1>1, <2>2
    <3>2. segments'[m] \in segments'[m]..(segments'[m] + Segment - 1)
      BY <1>1, <1>2
    <3> QED BY <2>2, <3>1, <3>2 DEF AgentOK
  <2> QED BY <2>1, <2>2
<1>6. DOMAIN segments' = Live!Replayed' /\ DOMAIN agent' = Live!Replayed'
  BY <1>1, <1>3
<1>7. CheckOK(check)' /\ \A e : PredictedOK(e) => PredictedOK(e)'
  BY <1>1 DEF LiveInv, CheckOK, FlagOK, PredictedOK
<1> QED BY <1>1, <1>3, <1>4, <1>5, <1>6, <1>7 DEF LiveInv, FlagOK

\* A step after which the log, the labels and the script's work are in order.
LEMMA LiveKept ==
    ASSUME LiveInv, UNCHANGED <<replay, segments>>, DOMAIN agent' = Live!Replayed,
           \A m \in Live!Replayed : AgentOK(m)',
           time' \in 1..LastTime, time <= time',
           \E A : predicted' \in Seq(A), Len(predicted') <= MaxSent,
           DOMAIN predicted \subseteq DOMAIN predicted', \A i \in DOMAIN predicted : predicted'[i] = predicted[i],
           \A i \in DOMAIN predicted' : PredictedOK(predicted[i])',
           \A i \in DOMAIN marked' : i \in DOMAIN predicted' /\ FlagOK(marked[i], predicted[i])',
           CheckOK(check)'
    PROVE  LiveInv'
<1>1. Live!Replayed' = Live!Replayed
  BY DEF Live!Replayed
<1>2. \A m \in Live!Replayed : SegmentOK(m)'
  BY DEF LiveInv, SegmentOK
<1> QED BY <1>1, <1>2 DEF LiveInv

\* The next row of a segment is a row of it.
LEMMA AfterStays ==
    ASSUME LiveInv, NEW m \in Live!Replayed, agent[m] # Live!Off
    PROVE  /\ Live!After(m) \in segments[m]..(segments[m] + Segment - 1) /\ segments[m] # 0
           /\ agent[m].row \in DOMAIN replay /\ replay[agent[m].row] # Live!CutOff /\ replay[agent[m].row].machine = m
<1>1. AgentOK(m) /\ SegmentOK(m) /\ Segment \in Nat \ {0}
  BY LiveNumbers DEF LiveInv
<1>2. segments[m] \in Nat /\ segments[m] # 0 /\ agent[m].row \in segments[m]..(segments[m] + Segment - 1)
  BY <1>1, LiveNumbers DEF AgentOK, SegmentOK, LiveInv
<1>3. Live!After(m) \in segments[m]..(segments[m] + Segment - 1)
  <2> DEFINE f == segments[m]
             r == agent[m].row
  <2>1. f \in Nat /\ r \in f..(f + Segment - 1)
    BY <1>2
  <2>2. Live!After(m) = IF r = f + Segment - 1 THEN f ELSE r + 1
    BY DEF Live!After
  <2> HIDE DEF f, r
  <2>3. (IF r = f + Segment - 1 THEN f ELSE r + 1) \in f..(f + Segment - 1)
    BY <1>1, <2>1
  <2> QED BY <2>2, <2>3 DEF f
<1> QED BY <1>1, <1>2, <1>3 DEF SegmentOK

LEMMA LiveSends ==
    ASSUME LiveInv, NEW m \in Live!Replayed, Live!Send(m)
    PROVE  LiveInv'
<1>1. agent[m].step = "wait" /\ UNCHANGED <<replay, segments, time, marked, check>>
  BY DEF Live!Send
<1>2. agent[m] # Live!Off /\ AgentOK(m) /\ DOMAIN agent = Live!Replayed
  BY <1>1 DEF Live!Off, LiveInv
<1> DEFINE a == agent[m]
           n == Len(predicted)
           next == [step |-> "wait", row |-> Live!After(m), id |-> a.id]
<1>3. /\ Live!After(m) \in segments[m]..(segments[m] + Segment - 1) /\ segments[m] # 0
      /\ a.row \in DOMAIN replay /\ replay[a.row] # Live!CutOff /\ replay[a.row].machine = m
  BY <1>2, AfterStays
<1>4. time \in 1..LastTime /\ time \in Nat /\ MaxDelay \in Nat /\ MaxSent \in Nat
  BY LiveNumbers DEF LiveInv
<1>5. CASE agent' = [agent EXCEPT ![m].row = Live!After(m)] /\ UNCHANGED predicted
  <2>1. DOMAIN agent' = Live!Replayed /\ \A u \in Live!Replayed : u # m => agent'[u] = agent[u]
    BY <1>2, <1>5
  <2>2. agent'[m] = [a EXCEPT !.row = Live!After(m)]
    BY <1>2, <1>5
  <2>3. agent'[m] = next
    BY <1>1, <1>2, <2>2 DEF AgentOK
  <2>4. AgentOK(m)'
    <3>1. agent'[m].step = "wait" /\ agent'[m].row = Live!After(m)
          /\ agent'[m] = [step |-> agent'[m].step, row |-> agent'[m].row, id |-> agent'[m].id]
      BY <2>3
    <3> QED BY <1>1, <1>3, <3>1 DEF AgentOK
  <2>5. \A u \in Live!Replayed : AgentOK(u)'
    BY <1>1, <1>5, <2>1, <2>4 DEF LiveInv, AgentOK
  <2>6. /\ \A e : PredictedOK(e) => PredictedOK(e)'
        /\ \A l, e : FlagOK(l, e) <=> FlagOK(l, e)'
        /\ \A c : CheckOK(c) => CheckOK(c)'
    BY <1>1, <1>4, <1>5, LiveGrows
  <2>7. /\ \A i \in DOMAIN predicted' : PredictedOK(predicted[i])'
        /\ \A i \in DOMAIN marked' : i \in DOMAIN predicted' /\ FlagOK(marked[i], predicted[i])'
        /\ CheckOK(check)' /\ (\E A : predicted' \in Seq(A)) /\ Len(predicted') <= MaxSent
    BY <1>1, <1>5, <2>6 DEF LiveInv, PredictedOK, FlagOK
  <2> QED BY <1>1, <1>4, <1>5, <2>1, <2>5, <2>7, LiveKept
<1>6. ASSUME NEW flagger \in Live!Flagger \cup {Live!None}, n < MaxSent,
             predicted' = Append(predicted, Live!Request(a.row, flagger)),
             agent' = [agent EXCEPT ![m] = IF flagger # Live!None THEN [@ EXCEPT !.step = "mark", !.id = Len(predicted')]
                                           ELSE [@ EXCEPT !.row = Live!After(m)]]
      PROVE  LiveInv'
  <2> DEFINE e == Live!Request(a.row, flagger)
             mark == [step |-> "mark", row |-> a.row, id |-> n + 1]
  <2>1. e.machine = m /\ e.row = a.row /\ e.time = time /\ e.flagger = flagger
    BY <1>3 DEF Live!Request
  <2> HIDE DEF e
  <2>2. /\ \E A : predicted' \in Seq(A)
        /\ n \in Nat /\ DOMAIN predicted = 1..n /\ DOMAIN predicted' = 1..(n + 1) /\ Len(predicted') = n + 1
        /\ \A i \in 1..n : predicted'[i] = predicted[i]
        /\ predicted'[n + 1] = e
    <3>1. predicted' = Append(predicted, e)
      BY <1>6 DEF e
    <3>2. \E A : predicted \in Seq(A)
      BY DEF LiveInv
    <3>3. /\ \E A : Append(predicted, e) \in Seq(A)
          /\ Len(predicted) \in Nat /\ DOMAIN predicted = 1..Len(predicted)
          /\ Len(Append(predicted, e)) = Len(predicted) + 1 /\ DOMAIN Append(predicted, e) = 1..(Len(predicted) + 1)
          /\ \A i \in 1..Len(predicted) : Append(predicted, e)[i] = predicted[i]
          /\ Append(predicted, e)[Len(predicted) + 1] = e
      BY <3>2, Appended
    <3> QED BY <3>1, <3>3
  <2> HIDE DEF n
  <2>3. n + 1 <= MaxSent /\ 1..(n + 1) = 1..n \cup {n + 1}
    BY <1>4, <1>6, <2>2
  <2>4. /\ \A f : PredictedOK(f) => PredictedOK(f)'
        /\ \A l, f : FlagOK(l, f) <=> FlagOK(l, f)'
        /\ \A c : CheckOK(c) => CheckOK(c)'
    BY <1>1, <1>4, <2>2, <2>3, LiveGrows
  <2>5. \A i \in DOMAIN predicted' : PredictedOK(predicted'[i])
    BY <1>3, <1>4, <2>1, <2>2, <2>3 DEF LiveInv, PredictedOK
  <2>6. \A i \in DOMAIN predicted' : PredictedOK(predicted[i])'
    BY <1>1, <2>5 DEF PredictedOK
  <2>7. \A i \in DOMAIN marked' : i \in DOMAIN predicted' /\ FlagOK(marked[i], predicted[i])'
    BY <1>1, <2>2, <2>3 DEF LiveInv, FlagOK
  <2>8. CheckOK(check)'
    BY <1>1, <2>4 DEF LiveInv
  <2>9. DOMAIN agent' = Live!Replayed /\ \A u \in Live!Replayed : u # m => agent'[u] = agent[u]
    BY <1>2, <1>6
  <2>10. ASSUME NEW u \in Live!Replayed, u # m PROVE AgentOK(u)'
    <3>1. AgentOK(u)
      BY DEF LiveInv
    <3>2. agent'[u].step = "mark" => agent'[u].id \in DOMAIN predicted' /\ predicted'[agent'[u].id] = predicted[agent'[u].id]
      BY <2>2, <2>3, <2>9, <2>10, <3>1 DEF AgentOK
    <3> QED BY <1>1, <2>9, <2>10, <3>1, <3>2 DEF AgentOK
  <2>11. CASE flagger # Live!None
    <3>1. agent'[m] = [a EXCEPT !.step = "mark", !.id = n + 1]
      BY <1>2, <1>6, <2>2, <2>11
    <3>2. agent'[m] = mark
      BY <1>2, <3>1 DEF AgentOK
    <3>3. /\ agent'[m].step = "mark" /\ agent'[m].row = a.row /\ agent'[m].id = n + 1
          /\ agent'[m] = [step |-> agent'[m].step, row |-> agent'[m].row, id |-> agent'[m].id]
      BY <3>2
    <3>4. a.row \in segments[m]..(segments[m] + Segment - 1)
      BY <1>2 DEF AgentOK
    <3>5. time <= time + MaxDelay
      BY <1>4
    <3>6. AgentOK(m)'
      BY <1>1, <1>3, <2>1, <2>2, <2>3, <2>11, <3>3, <3>4, <3>5 DEF AgentOK
    <3> QED BY <1>1, <1>4, <2>2, <2>3, <2>6, <2>7, <2>8, <2>9, <2>10, <3>6, LiveKept
  <2>12. CASE flagger = Live!None
    <3>1. agent'[m] = [a EXCEPT !.row = Live!After(m)]
      BY <1>2, <1>6, <2>12
    <3>2. agent'[m] = next
      BY <1>1, <1>2, <3>1 DEF AgentOK
    <3>3. agent'[m].step = "wait" /\ agent'[m].row = Live!After(m)
          /\ agent'[m] = [step |-> agent'[m].step, row |-> agent'[m].row, id |-> agent'[m].id]
      BY <3>2
    <3>4. AgentOK(m)'
      BY <1>1, <1>3, <3>3 DEF AgentOK
    <3> QED BY <1>1, <1>4, <2>2, <2>3, <2>6, <2>7, <2>8, <2>9, <2>10, <3>4, LiveKept
  <2> QED BY <2>11, <2>12
<1> QED BY <1>5, <1>6 DEF Live!Send

LEMMA LiveRemembers ==
    ASSUME LiveInv, NEW m \in Live!Replayed, Live!RememberLabel(m)
    PROVE  LiveInv'
<1> DEFINE a == agent[m]
           l == [machine |-> m, label |-> replay[a.row].label, logged |-> time]
<1>1. /\ a.step = "mark" /\ UNCHANGED <<replay, segments, time, predicted, check>>
      /\ marked' \in {marked, [i \in DOMAIN marked \cup {a.id} |-> IF i = a.id THEN l ELSE marked[i]]}
      /\ agent' = [agent EXCEPT ![m] = [step |-> "wait", row |-> Live!After(m), id |-> 0]]
  BY DEF Live!RememberLabel
<1>2. AgentOK(m) /\ DOMAIN agent = Live!Replayed /\ a # Live!Off
  BY <1>1 DEF Live!Off, LiveInv
<1>3. Live!After(m) \in segments[m]..(segments[m] + Segment - 1) /\ segments[m] # 0
  BY <1>2, AfterStays
<1>4. /\ a.id \in DOMAIN predicted /\ predicted[a.id].row = a.row /\ predicted[a.id].machine = m
      /\ predicted[a.id].flagger # Live!None /\ time <= predicted[a.id].time + MaxDelay
      /\ predicted[a.id].time <= time
  <2>1. a.id \in DOMAIN predicted => PredictedOK(predicted[a.id])
    BY DEF LiveInv
  <2>2. time \in 1..LastTime
    BY DEF LiveInv
  <2> QED BY <1>1, <1>2, <2>1, <2>2 DEF AgentOK, PredictedOK
<1>5. FlagOK(l, predicted[a.id])
  <2>1. l.machine = m /\ l.label = replay[a.row].label /\ l.logged = time
    OBVIOUS
  <2>2. time \in 1..LastTime
    BY DEF LiveInv
  <2> HIDE DEF l, a
  <2> QED BY <1>4, <2>1, <2>2 DEF FlagOK
<1> HIDE DEF l
<1>6. \A i \in DOMAIN marked' : i \in DOMAIN predicted /\ FlagOK(marked'[i], predicted[i])
  <2>1. CASE marked' = marked
    BY <2>1 DEF LiveInv
  <2>2. CASE marked' # marked
    <3>1. DOMAIN marked' = DOMAIN marked \cup {a.id} /\ marked'[a.id] = l /\ \A i \in DOMAIN marked : i # a.id => marked'[i] = marked[i]
      BY <1>1, <2>2
    <3> QED BY <1>4, <1>5, <3>1 DEF LiveInv
  <2> QED BY <2>1, <2>2
<1>7. \A i \in DOMAIN marked' : i \in DOMAIN predicted' /\ FlagOK(marked[i], predicted[i])'
  BY <1>1, <1>6 DEF FlagOK
<1>8. DOMAIN agent' = Live!Replayed /\ (\A u \in Live!Replayed : u # m => agent'[u] = agent[u])
      /\ agent'[m] = [step |-> "wait", row |-> Live!After(m), id |-> 0]
  BY <1>1, <1>2
<1>9. \A u \in Live!Replayed : AgentOK(u)'
  <2>1. agent'[m].step = "wait" /\ agent'[m].row = Live!After(m)
        /\ agent'[m] = [step |-> agent'[m].step, row |-> agent'[m].row, id |-> agent'[m].id]
    BY <1>8
  <2>2. AgentOK(m)'
    BY <1>1, <1>3, <2>1 DEF AgentOK
  <2> QED BY <1>1, <1>8, <2>2 DEF LiveInv, AgentOK
<1>10. time \in 1..LastTime /\ time \in Nat /\ time <= time
  BY LiveNumbers DEF LiveInv
<1>11. CheckOK(check)' /\ \A i \in DOMAIN predicted' : PredictedOK(predicted[i])'
  BY <1>1 DEF LiveInv, CheckOK, FlagOK, PredictedOK
<1>12. (\E A : predicted' \in Seq(A)) /\ Len(predicted') <= MaxSent /\ DOMAIN predicted \subseteq DOMAIN predicted'
       /\ \A i \in DOMAIN predicted : predicted'[i] = predicted[i]
  BY <1>1 DEF LiveInv
<1> QED BY <1>1, <1>7, <1>8, <1>9, <1>10, <1>11, <1>12, LiveKept

\* The script's own steps.
LEMMA LiveChecks ==
    ASSUME LiveInv, UNCHANGED <<replay, segments, agent, time, predicted, marked>>, CheckOK(check')
    PROVE  LiveInv'
<1>1. CheckOK(check)'
  BY DEF CheckOK, FlagOK
<1>2. Live!Replayed' = Live!Replayed
  BY DEF Live!Replayed
<1> QED BY <1>1, <1>2 DEF LiveInv, SegmentOK, AgentOK, PredictedOK, FlagOK

LEMMA LiveReadsMarks ==
    ASSUME LiveInv, Live!ReadMarks
    PROVE  LiveInv'
<1>1. /\ check = Live!NotRun
      /\ check' = [check EXCEPT !.step = "machine", !.labels = marked,
                              !.todo = {marked[i].machine : i \in DOMAIN marked}]
      /\ UNCHANGED <<replay, segments, agent, time, predicted, marked>>
  BY DEF Live!ReadMarks
<1>2. check' = [step |-> "machine", labels |-> marked, todo |-> {marked[i].machine : i \in DOMAIN marked},
                of |-> Live!None, lo |-> 0, hi |-> 0, found |-> {}, truncated |-> 0]
  BY <1>1 DEF Live!NotRun
<1>3. /\ check'.step = "machine" /\ check'.labels = marked /\ check'.todo = {marked[i].machine : i \in DOMAIN marked}
      /\ check'.found = {} /\ check'.truncated = 0
      /\ check' = [step |-> check'.step, labels |-> check'.labels, todo |-> check'.todo, of |-> check'.of, lo |-> check'.lo,
                   hi |-> check'.hi, found |-> check'.found, truncated |-> check'.truncated]
  BY <1>2
<1>4. CheckOK(check')
  BY <1>3 DEF LiveInv, CheckOK
<1> QED BY <1>1, <1>4, LiveChecks

\* The minute around a machine's labels has their predictions in it.
LEMMA LiveWindows ==
    ASSUME LiveInv, Live!WindowOf
    PROVE  LiveInv'
<1>1. PICK m \in check.todo :
         LET times == {check.labels[i].logged : i \in {k \in DOMAIN check.labels : check.labels[k].machine = m}} IN
         check' = [check EXCEPT !.step = "walk", !.todo = @ \ {m}, !.of = m,
                                !.lo = Live!LeastOf(times) - Pad, !.hi = Live!MostOf(times) + Pad]
  BY DEF Live!WindowOf
<1>2. check.step = "machine" /\ UNCHANGED <<replay, segments, agent, time, predicted, marked>> /\ CheckOK(check)
  BY DEF Live!WindowOf, LiveInv
<1> DEFINE times == {check.labels[i].logged : i \in {k \in DOMAIN check.labels : check.labels[k].machine = m}}
           lo == Live!LeastOf(times) - Pad
           hi == Live!MostOf(times) + Pad
<1>3. check' = [check EXCEPT !.step = "walk", !.todo = @ \ {m}, !.of = m, !.lo = lo, !.hi = hi]
  BY <1>1
<1>4. check' = [step |-> "walk", labels |-> check.labels, todo |-> check.todo \ {m}, of |-> m, lo |-> lo, hi |-> hi,
                found |-> check.found, truncated |-> check.truncated]
  <2> HIDE DEF lo, hi
  <2> QED BY <1>2, <1>3 DEF CheckOK
<1>5. times # {} /\ times \subseteq Nat /\ \A t \in times : t <= LastTime
  <2>1. \E i \in DOMAIN check.labels : check.labels[i].machine = m
    BY <1>2 DEF CheckOK
  <2>2. \A i \in DOMAIN check.labels : check.labels[i].logged \in 1..LastTime
    BY <1>2 DEF CheckOK, FlagOK
  <2>3. LastTime \in Nat
    BY LiveNumbers
  <2> QED BY <2>1, <2>2, <2>3
<1>6. /\ Live!LeastOf(times) \in Nat /\ \A t \in times : Live!LeastOf(times) <= t
      /\ Live!MostOf(times) \in Nat /\ \A t \in times : t <= Live!MostOf(times)
  <2> HIDE DEF times
  <2>1. \E t \in times : \A y \in times : t <= y
    BY <1>5, LeastOne
  <2>2. LastTime \in Int /\ times \subseteq Int
    BY <1>5, LiveNumbers
  <2>3. \E t \in times : \A y \in times : y <= t
    BY <1>5, <2>2, GreatestOne
  <2>4. Live!LeastOf(times) \in times /\ \A t \in times : Live!LeastOf(times) <= t
    BY <2>1 DEF Live!LeastOf
  <2>5. Live!MostOf(times) \in times /\ \A t \in times : t <= Live!MostOf(times)
    BY <2>3 DEF Live!MostOf
  <2> QED BY <1>5, <2>4, <2>5
<1>7. lo \in Int /\ hi \in Int /\ \A t \in times : lo + Pad <= t /\ t + Pad <= hi
  <2> DEFINE x == Live!LeastOf(times)
             y == Live!MostOf(times)
  <2>1. x \in Nat /\ y \in Nat /\ Pad \in Nat /\ times \subseteq Nat /\ \A t \in times : x <= t /\ t <= y
    BY <1>5, <1>6, LiveNumbers
  <2> HIDE DEF x, y, times
  <2>2. x - Pad \in Int /\ y + Pad \in Int /\ (x - Pad) + Pad = x
    BY <2>1
  <2>3. ASSUME NEW t \in times PROVE x <= t /\ t + Pad <= y + Pad
    <3>1. t \in Nat /\ x <= t /\ t <= y
      BY <2>1
    <3> QED BY <2>1, <3>1
  <2> QED BY <2>2, <2>3 DEF x, y
<1>8. ASSUME NEW i \in DOMAIN check.labels, check.labels[i].machine = m
      PROVE  lo <= predicted[i].time /\ predicted[i].time <= hi
  <2> DEFINE t == check.labels[i].logged
             p == predicted[i].time
  <2>1. t \in times
    BY <1>8
  <2>2. i \in DOMAIN predicted /\ FlagOK(check.labels[i], predicted[i])
    BY <1>2, <1>8 DEF CheckOK
  <2>3. p <= t /\ t <= p + MaxDelay /\ p \in Nat /\ t \in Nat
    BY <1>5, <2>1, <2>2, LiveNumbers DEF LiveInv, FlagOK, PredictedOK
  <2> HIDE DEF lo, hi, times, t, p
  <2>4. lo + Pad <= t /\ t + Pad <= hi /\ lo \in Int /\ hi \in Int
    BY <1>7, <2>1
  <2>5. lo <= p /\ p <= hi
    BY <2>3, <2>4, LiveNumbers
  <2> QED BY <2>5 DEF p
<1> HIDE DEF times, lo, hi
<1>9. /\ check'.step = "walk" /\ check'.labels = check.labels /\ check'.todo = check.todo \ {m} /\ check'.of = m
      /\ check'.lo = lo /\ check'.hi = hi /\ check'.found = check.found /\ check'.truncated = check.truncated
      /\ check' = [step |-> check'.step, labels |-> check'.labels, todo |-> check'.todo, of |-> check'.of, lo |-> check'.lo,
                   hi |-> check'.hi, found |-> check'.found, truncated |-> check'.truncated]
  BY <1>4
<1>10. ASSUME check'.truncated = 0, NEW i \in DOMAIN check'.labels
       PROVE  \/ i \in check'.found \/ check'.labels[i].machine \in check'.todo
              \/ check'.labels[i].machine = check'.of /\ check'.lo <= predicted[i].time /\ predicted[i].time <= check'.hi
  <2>1. i \in check.found \/ check.labels[i].machine \in check.todo
    BY <1>2, <1>9, <1>10 DEF CheckOK
  <2> QED BY <1>8, <1>9, <1>10, <2>1
<1>11. CheckOK(check')
  BY <1>2, <1>7, <1>9, <1>10 DEF CheckOK
<1> QED BY <1>2, <1>11, LiveChecks

\* A query that is not cut off returns what there is.
LEMMA PageIsAll ==
    ASSUME LiveInv, NEW m, NEW start, NEW end, ~ Live!Truncated(m, start, end)
    PROVE  \A i \in DOMAIN predicted : predicted[i].machine = m /\ start <= predicted[i].time /\ predicted[i].time <= end
             => i \in Live!LoggedPredictions(m, start, end)
<1> DEFINE all == {i \in DOMAIN predicted :
                     predicted[i].machine = m /\ start <= predicted[i].time /\ predicted[i].time <= end}
<1>1. DOMAIN predicted = 1..Len(predicted) /\ Len(predicted) \in Nat
  BY DEF LiveInv
<1>2. IsFiniteSet(all)
  <2>1. all \in SUBSET (1..Len(predicted)) /\ IsFiniteSet(1..Len(predicted))
    BY <1>1, FS_Interval
  <2> HIDE DEF all
  <2> QED BY <2>1, FS_Subset
<1>3. Cardinality(all) \in Nat /\ Cardinality(all) <= PageSize
  <2>1. ~ (Cardinality(all) > PageSize)
    BY LiveSizes DEF Live!Truncated
  <2>2. Cardinality(all) \in Nat
    <3> HIDE DEF all
    <3> QED BY <1>2, FS_CardinalityType
  <2> QED BY <2>1, <2>2, LiveNumbers
<1>4. ASSUME NEW i \in all PROVE Cardinality({j \in all : j <= i}) <= PageSize
  <2> DEFINE S == {j \in all : j <= i}
  <2>1. S \in SUBSET all
    OBVIOUS
  <2> HIDE DEF S, all
  <2>2. Cardinality(S) <= Cardinality(all) /\ Cardinality(S) \in Nat
    BY <1>2, <2>1, FS_Subset, FS_CardinalityType
  <2>3. Cardinality(S) <= PageSize
    BY <1>3, <2>2, LiveNumbers
  <2> QED BY <2>3 DEF S
<1>5. Live!LoggedPredictions(m, start, end) = {i \in all : Cardinality({j \in all : j <= i}) <= PageSize}
  BY LiveSizes DEF Live!LoggedPredictions
<1>6. \A i \in all : i \in Live!LoggedPredictions(m, start, end)
  <2> HIDE DEF all
  <2> QED BY <1>4, <1>5
<1> QED BY <1>6

LEMMA LiveWalks ==
    ASSUME LiveInv, Live!Walk
    PROVE  LiveInv'
<1> DEFINE end == IF check.hi < check.lo + Slice THEN check.hi ELSE check.lo + Slice
           cut == Live!Truncated(check.of, check.lo, end)
           more == check.lo + Slice < check.hi
           fails == [check EXCEPT !.step = "failed"]
           goes == [check EXCEPT !.found = @ \cup Live!LoggedPredictions(check.of, check.lo, end),
                                 !.truncated = IF cut THEN @ + 1 ELSE @,
                                 !.lo = @ + Slice,
                                 !.step = IF more THEN "walk" ELSE "machine"]
<1>1. check.step = "walk" /\ UNCHANGED <<replay, segments, agent, time, predicted, marked>>
  BY DEF Live!Walk
<1>2. check' = fails \/ check' = goes
  BY DEF Live!Walk
<1>3. CheckOK(check) /\ check.lo \in Int /\ check.hi \in Int /\ Slice \in Nat \ {0}
  BY <1>1, LiveNumbers DEF LiveInv, CheckOK
<1>4. CASE check' = fails
  <2>1. check' = [step |-> "failed", labels |-> check.labels, todo |-> check.todo, of |-> check.of, lo |-> check.lo,
                  hi |-> check.hi, found |-> check.found, truncated |-> check.truncated]
    BY <1>3, <1>4 DEF CheckOK
  <2>2. /\ check'.step = "failed" /\ check'.labels = check.labels /\ check'.todo = check.todo
        /\ check'.found = check.found /\ check'.truncated = check.truncated
        /\ check' = [step |-> check'.step, labels |-> check'.labels, todo |-> check'.todo, of |-> check'.of, lo |-> check'.lo,
                     hi |-> check'.hi, found |-> check'.found, truncated |-> check'.truncated]
    BY <2>1
  <2>3. CheckOK(check')
    BY <1>3, <2>2 DEF CheckOK
  <2> QED BY <1>1, <2>3, LiveChecks
<1>5. CASE check' = goes
  <2> DEFINE found == check.found \cup Live!LoggedPredictions(check.of, check.lo, end)
             n == IF cut THEN check.truncated + 1 ELSE check.truncated
             step == IF more THEN "walk" ELSE "machine"
             lo == check.lo + Slice
  <2>1. check' = [check EXCEPT !.found = found, !.truncated = n, !.lo = lo, !.step = step]
    BY <1>5
  <2>2. check' = [step |-> step, labels |-> check.labels, todo |-> check.todo, of |-> check.of, lo |-> lo,
                  hi |-> check.hi, found |-> found, truncated |-> n]
    <3> HIDE DEF found, n, step, lo
    <3> QED BY <1>3, <2>1 DEF CheckOK
  <2>3. found \subseteq DOMAIN predicted
    <3>1. Live!LoggedPredictions(check.of, check.lo, end) \subseteq DOMAIN predicted
      BY DEF Live!LoggedPredictions
    <3> QED BY <1>3, <3>1 DEF CheckOK
  <2>4. n \in Nat /\ (n = 0 => ~ cut /\ check.truncated = 0)
    <3>1. check.truncated \in Nat
      BY <1>3 DEF CheckOK
    <3> HIDE DEF cut
    <3> QED BY <3>1
  <2>5. lo \in Int
    BY <1>3
  <2>6. ASSUME n = 0, NEW i \in DOMAIN check.labels
        PROVE  \/ i \in found \/ check.labels[i].machine \in check.todo
               \/ step = "walk" /\ check.labels[i].machine = check.of /\ lo <= predicted[i].time /\ predicted[i].time <= check.hi
    <3>1. i \in DOMAIN predicted /\ FlagOK(check.labels[i], predicted[i])
      BY <1>3 DEF CheckOK
    <3>2. predicted[i].machine = check.labels[i].machine /\ predicted[i].time \in Nat
      BY <3>1 DEF FlagOK, PredictedOK, LiveInv
    <3>3. \/ i \in check.found \/ check.labels[i].machine \in check.todo
          \/ check.labels[i].machine = check.of /\ check.lo <= predicted[i].time /\ predicted[i].time <= check.hi
      BY <1>1, <1>3, <2>4, <2>6 DEF CheckOK
    <3>4. CASE i \in check.found \/ check.labels[i].machine \in check.todo
      BY <3>4
    <3>5. CASE check.labels[i].machine = check.of /\ check.lo <= predicted[i].time /\ predicted[i].time <= check.hi
      <4>1. CASE predicted[i].time <= end
        <5>1. i \in Live!LoggedPredictions(check.of, check.lo, end)
          <6> HIDE DEF end
          <6> QED BY <2>4, <2>6, <3>1, <3>2, <3>5, <4>1, PageIsAll DEF cut
        <5> QED BY <5>1
      <4>2. CASE ~ (predicted[i].time <= end)
        <5>1. more /\ lo <= predicted[i].time
          BY <1>3, <3>2, <3>5, <4>2
        <5> QED BY <3>5, <5>1
      <4> QED BY <4>1, <4>2
    <3> QED BY <3>3, <3>4, <3>5
  <2>7. step \in {"walk", "machine"}
    OBVIOUS
  <2> HIDE DEF found, n, step, lo
  <2>8. /\ check'.step = step /\ check'.labels = check.labels /\ check'.todo = check.todo /\ check'.of = check.of
        /\ check'.lo = lo /\ check'.hi = check.hi /\ check'.found = found /\ check'.truncated = n
        /\ check' = [step |-> check'.step, labels |-> check'.labels, todo |-> check'.todo, of |-> check'.of, lo |-> check'.lo,
                     hi |-> check'.hi, found |-> check'.found, truncated |-> check'.truncated]
    BY <2>2
  <2>9. CheckOK(check')
    BY <1>3, <2>3, <2>4, <2>5, <2>6, <2>7, <2>8 DEF CheckOK
  <2> QED BY <1>1, <2>9, LiveChecks
<1> QED BY <1>2, <1>4, <1>5

LEMMA LiveStep ==
    ASSUME LiveInv, Live!Next \/ UNCHANGED live
    PROVE  LiveInv'
<1>0. time \in 1..LastTime /\ time \in Nat /\ LastTime \in Nat /\ DOMAIN agent = Live!Replayed
  BY LiveNumbers DEF LiveInv
<1>2. CASE Live!BuildSegments
  BY <1>2, LiveBuilds
<1>3. ASSUME UNCHANGED <<replay, segments, predicted, marked, check>>, time' \in 1..LastTime, time <= time',
             DOMAIN agent' = Live!Replayed, \A m \in Live!Replayed : AgentOK(m)'
      PROVE  LiveInv'
  <2>1. time' \in Nat
    BY <1>0, <1>3
  <2>2. /\ \A e : PredictedOK(e) => PredictedOK(e)'
        /\ \A l, e : FlagOK(l, e) <=> FlagOK(l, e)'
        /\ \A c : CheckOK(c) => CheckOK(c)'
    BY <1>0, <1>3, <2>1, LiveGrows
  <2>3. \A i \in DOMAIN predicted' : PredictedOK(predicted[i])'
    <3>1. ASSUME NEW i \in DOMAIN predicted PROVE PredictedOK(predicted[i])'
      <4>1. PredictedOK(predicted[i])
        BY DEF LiveInv
      <4> QED BY <1>0, <1>3, <2>1, <4>1 DEF PredictedOK
    <3> QED BY <1>3, <3>1
  <2>4. \A i \in DOMAIN marked' : i \in DOMAIN predicted' /\ FlagOK(marked[i], predicted[i])'
    BY <1>3 DEF LiveInv, FlagOK
  <2>5. CheckOK(check)'
    BY <1>3, <2>2 DEF LiveInv
  <2>6. (\E A : predicted' \in Seq(A)) /\ Len(predicted') <= MaxSent /\ DOMAIN predicted \subseteq DOMAIN predicted'
       /\ \A i \in DOMAIN predicted : predicted'[i] = predicted[i]
    BY <1>3 DEF LiveInv
  <2> QED BY <1>3, <2>3, <2>4, <2>5, <2>6, LiveKept
<1>1. CASE UNCHANGED live
  <2>1. UNCHANGED <<replay, segments, agent, time, predicted, marked, check>>
    BY <1>1 DEF live
  <2>2. ASSUME NEW m \in Live!Replayed PROVE AgentOK(m)'
    <3>1. AgentOK(m)
      BY DEF LiveInv
    <3> QED BY <2>1, <3>1 DEF AgentOK
  <2>3. time' \in 1..LastTime /\ time <= time' /\ DOMAIN agent' = Live!Replayed
    BY <1>0, <2>1
  <2> QED BY <1>3, <2>1, <2>2, <2>3
<1>4. CASE Live!Interrupted
  <2>1. agent' = [m \in Live!Replayed |-> Live!Off] /\ UNCHANGED <<replay, segments, time, predicted, marked, check>>
    BY <1>4 DEF Live!Interrupted
  <2>2. \A m \in Live!Replayed : AgentOK(m)'
    BY <2>1 DEF AgentOK, Live!Off
  <2> QED BY <1>0, <1>3, <2>1, <2>2
<1>5. CASE Live!Tick
  <2>1. /\ time' = time + 1 /\ time < LastTime /\ UNCHANGED <<replay, segments, agent, predicted, marked, check>>
        /\ \A m \in Live!Replayed : agent[m].step = "mark" => time < predicted[agent[m].id].time + MaxDelay
    BY <1>5 DEF Live!Tick
  <2>2. ASSUME NEW m \in Live!Replayed PROVE AgentOK(m)'
    <3>1. AgentOK(m)
      BY DEF LiveInv
    <3>2. agent[m].step = "mark" => time' <= predicted[agent[m].id].time + MaxDelay
      <4> SUFFICES ASSUME agent[m].step = "mark" PROVE time + 1 <= predicted[agent[m].id].time + MaxDelay
        BY <2>1
      <4>1. agent[m].id \in DOMAIN predicted
        BY <3>1 DEF AgentOK
      <4>2. predicted[agent[m].id].time \in Nat
        BY <1>0, <4>1 DEF LiveInv, PredictedOK
      <4> QED BY <1>0, <2>1, <4>2, LiveNumbers
    <3> QED BY <2>1, <3>1, <3>2 DEF AgentOK
  <2>3. time' \in 1..LastTime /\ time <= time'
    BY <1>0, <2>1
  <2> QED BY <1>0, <1>3, <2>1, <2>2, <2>3
<1>6. CASE Live!ReadMarks
  BY <1>6, LiveReadsMarks
<1>7. CASE Live!WindowOf
  BY <1>7, LiveWindows
<1>8. CASE Live!Walk
  BY <1>8, LiveWalks
<1>9. CASE Live!Finish
  <2>1. check.step = "machine" /\ check.todo = {} /\ check' = [check EXCEPT !.step = "done"]
        /\ UNCHANGED <<replay, segments, agent, time, predicted, marked>>
    BY <1>9 DEF Live!Finish
  <2>2. CheckOK(check)
    BY DEF LiveInv
  <2>3. check' = [step |-> "done", labels |-> check.labels, todo |-> check.todo, of |-> check.of, lo |-> check.lo,
                  hi |-> check.hi, found |-> check.found, truncated |-> check.truncated]
    BY <2>1, <2>2 DEF CheckOK
  <2>4. /\ check'.step = "done" /\ check'.labels = check.labels /\ check'.todo = check.todo
        /\ check'.found = check.found /\ check'.truncated = check.truncated
        /\ check' = [step |-> check'.step, labels |-> check'.labels, todo |-> check'.todo, of |-> check'.of, lo |-> check'.lo,
                     hi |-> check'.hi, found |-> check'.found, truncated |-> check'.truncated]
    BY <2>3
  <2>5. CheckOK(check')
    BY <2>1, <2>2, <2>4 DEF CheckOK
  <2> QED BY <2>1, <2>5, LiveChecks
<1> QED BY <1>1, <1>2, <1>4, <1>5, <1>6, <1>7, <1>8, <1>9, LiveSends, LiveRemembers DEF Live!Next

(***************************************************************************)
(* Episodes: numbers that are a step apart, the loop over the samples as a *)
(* recursion, what an episode is, and what was answered.                   *)
(***************************************************************************)

LEMMA PastSizes == \A S : Past!Cardinality(S) = Cardinality(S)
BY DEF Cardinality, Past!Cardinality

\* Numbers a multiple of s apart.
LEMMA Multiples ==
    ASSUME NEW s \in Nat \ {0}, NEW x \in Int, NEW y \in Int, x % s = 0, y % s = 0
    PROVE  /\ (x - y) % s = 0 /\ (x + y) % s = 0
           /\ y < x => s <= x - y
           /\ y < x /\ ~ (2 * (x - y) > 3 * s) => x - y = s
           /\ 2 * (x - y) > 3 * s => 2 * s <= x - y
<1> DEFINE i == x \div s
           j == y \div s
           k == i - j
<1>1. i \in Int /\ j \in Int /\ x = i * s /\ y = j * s
  OBVIOUS
<1> HIDE DEF i, j
<1>2. k \in Int /\ x - y = k * s /\ x + y = (i + j) * s
  BY <1>1
<1>3. (k * s) % s = 0 /\ ((i + j) * s) % s = 0
  BY <1>1, <1>2
<1> HIDE DEF k
<1>4. k <= 0 => k * s <= 0
  BY <1>2
<1>5. k >= 1 => k * s >= s
  BY <1>2
<1>6. k >= 2 => k * s >= 2 * s
  BY <1>2
<1>7. y < x => k >= 1
  BY <1>2, <1>4
<1>8. 2 * (x - y) > 3 * s => k >= 2
  <2>1. k = 1 => k * s = s
    BY <1>2
  <2> QED BY <1>2, <1>4, <2>1
<1>9. ~ (2 * (x - y) > 3 * s) => k <= 1
  BY <1>2, <1>6
<1>10. k = 1 => k * s = s
  BY <1>2
<1> QED BY <1>2, <1>3, <1>5, <1>6, <1>7, <1>8, <1>9, <1>10

LEMMA Progression ==
    ASSUME NEW a \in Int, NEW s \in Nat \ {0}
    PROVE  \A n \in Nat : IsFiniteSet(Past!Samples(a, a + n * s, s)) /\ Cardinality(Past!Samples(a, a + n * s, s)) = n + 1
<1> DEFINE P(n) == Past!Samples(a, a + n * s, s)
           Done == {n \in Nat : IsFiniteSet(P(n)) /\ Cardinality(P(n)) = n + 1}
<1>1. 0 \in Done
  <2>0. a + 0 * s = a /\ a..a = {a} /\ (a - a) % s = 0
    OBVIOUS
  <2>1. P(0) = {a}
    BY <2>0 DEF Past!Samples
  <2>2. IsFiniteSet({a}) /\ Cardinality({a}) = 1
    BY FS_Singleton
  <2> HIDE DEF P
  <2> QED BY <2>1, <2>2
<1>2. ASSUME NEW n \in Nat, n \in Done PROVE n + 1 \in Done
  <2> DEFINE b == a + n * s
             c == a + (n + 1) * s
  <2>1. b \in Int /\ c \in Int /\ c = b + s /\ a <= b
    <3>1. n * s \in Nat
      OBVIOUS
    <3>2. (n + 1) * s = n * s + s
      OBVIOUS
    <3> QED BY <3>1, <3>2
  <2>2. (b - a) % s = 0 /\ (c - a) % s = 0
    <3>1. b - a = n * s /\ c - a = (n + 1) * s
      OBVIOUS
    <3>2. (n * s) % s = 0 /\ ((n + 1) * s) % s = 0
      OBVIOUS
    <3> QED BY <3>1, <3>2
  <2>3. P(n) = {t \in a..b : (t - a) % s = 0} /\ P(n + 1) = {t \in a..c : (t - a) % s = 0}
    BY DEF Past!Samples
  <2> HIDE DEF P, b, c
  <2>4. ASSUME NEW t \in P(n + 1) PROVE t \in P(n) \/ t = c
    <3>1. t \in Int /\ a <= t /\ t <= c /\ (t - a) % s = 0
      BY <2>1, <2>3
    <3>2. CASE t <= b
      BY <2>1, <2>3, <3>1, <3>2
    <3>3. CASE b < t
      <4>1. b - a < t - a /\ t - a \in Int /\ b - a \in Int
        BY <2>1, <3>1, <3>3
      <4>2. s <= (t - a) - (b - a)
        BY <2>2, <3>1, <4>1, Multiples
      <4> QED BY <2>1, <3>1, <4>2
    <3> QED BY <2>1, <3>1, <3>2, <3>3
  <2>5. c \in P(n + 1) /\ c \notin P(n) /\ P(n) \subseteq P(n + 1)
    BY <2>1, <2>2, <2>3
  <2>6. P(n + 1) = P(n) \cup {c}
    BY <2>4, <2>5
  <2>7. IsFiniteSet(P(n + 1)) /\ Cardinality(P(n + 1)) = n + 1 + 1
    BY <1>2, <2>5, <2>6, FS_AddElement
  <2> QED BY <2>7
<1>3. Nat \subseteq Done
  <2> HIDE DEF Done
  <2> QED BY <1>1, <1>2, Induction
<1> QED BY <1>3

\* The samples from one to another.
LEMMA SamplesCounted ==
    ASSUME NEW a \in Int, NEW b \in Int, NEW s \in Nat \ {0}, a <= b, (b - a) % s = 0
    PROVE  /\ IsFiniteSet(Past!Samples(a, b, s))
           /\ s * Cardinality(Past!Samples(a, b, s)) = b - a + s
<1> DEFINE n == (b - a) \div s
<1>1. n \in Int /\ b - a = n * s
  OBVIOUS
<1> HIDE DEF n
<1>2. n \in Nat
  <2>1. n < 0 => n * s < 0
    BY <1>1
  <2> QED BY <1>1, <2>1
<1>3. a + n * s = b
  BY <1>1
<1>4. IsFiniteSet(Past!Samples(a, b, s)) /\ Cardinality(Past!Samples(a, b, s)) = n + 1
  BY <1>2, <1>3, Progression
<1>5. s * (n + 1) = n * s + s
  BY <1>2
<1> QED BY <1>1, <1>4, <1>5

\* Numbers between two others, a multiple of s apart, are few.
LEMMA FewSamples ==
    ASSUME NEW S, S \subseteq Int, NEW a \in Int, NEW b \in Int, a < b, NEW s \in Nat \ {0},
           \A t \in S : a <= t /\ t < b, \A t, u \in S : (t - u) % s = 0
    PROVE  IsFiniteSet(S) /\ s * Cardinality(S) < b - a + s
<1>1. CASE S = {}
  <2>1. IsFiniteSet(S) /\ Cardinality(S) = 0
    BY <1>1, FS_EmptySet
  <2>2. s * 0 = 0 /\ 0 < b - a + s
    OBVIOUS
  <2> QED BY <2>1, <2>2
<1>2. CASE S # {}
  <2>0. \A t \in S : t <= b
    OBVIOUS
  <2>1. PICK hi \in S : \A t \in S : t <= hi
    BY <1>2, <2>0, GreatestOne
  <2> DEFINE T == {t - a : t \in S}
  <2>2. T \subseteq Nat /\ T # {}
    BY <1>2
  <2>3. PICK x \in T : \A y \in T : x <= y
    <3> HIDE DEF T
    <3> QED BY <2>2, LeastOne
  <2>4. PICK lo \in S : x = lo - a
    BY <2>3
  <2>5. \A t \in S : lo <= t
    <3> SUFFICES ASSUME NEW t \in S PROVE lo <= t
      OBVIOUS
    <3>1. lo - a <= t - a
      BY <2>3, <2>4
    <3> QED BY <3>1
  <2>6. lo \in Int /\ hi \in Int /\ lo <= hi /\ (hi - lo) % s = 0
    BY <2>1, <2>5
  <2> DEFINE All == Past!Samples(lo, hi, s)
  <2>7. IsFiniteSet(All) /\ s * Cardinality(All) = hi - lo + s
    BY <2>6, SamplesCounted
  <2>8. S \in SUBSET All
    BY <2>1, <2>5 DEF Past!Samples
  <2> HIDE DEF All
  <2>9. IsFiniteSet(S) /\ Cardinality(S) <= Cardinality(All) /\ Cardinality(S) \in Nat /\ Cardinality(All) \in Nat
    BY <2>7, <2>8, FS_Subset, FS_CardinalityType
  <2>10. s * Cardinality(S) <= s * Cardinality(All)
    <3> DEFINE m == Cardinality(S)
               n == Cardinality(All)
    <3> HIDE DEF m, n
    <3>1. m \in Nat /\ n \in Nat /\ m <= n => s * m <= s * n
      OBVIOUS
    <3> QED BY <2>9, <3>1 DEF m, n
  <2>11. hi - lo < b - a
    BY <2>6
  <2> QED BY <2>6, <2>7, <2>9, <2>10, <2>11
<1> QED BY <1>1, <1>2

\* A step is at least one scrape.
LEMMA CeilIs ==
    ASSUME NEW n \in Nat, NEW d \in Nat \ {0}
    PROVE  Past!Ceil(n, d) \in Nat /\ (n # 0 => Past!Ceil(n, d) # 0)
<1> DEFINE x == n + d - 1
           q == x \div d
<1>1. x \in Nat /\ q \in Int /\ x = q * d + (x % d) /\ (x % d) \in 0..(d - 1)
  OBVIOUS
<1>2. Past!Ceil(n, d) = q
  BY DEF Past!Ceil
<1>3. q \in Nat
  <2>1. q < 0 => q * d <= - d
    <3> HIDE DEF q
    <3> QED BY <1>1
  <2> QED BY <1>1, <2>1
<1>4. q = 0 => n = 0
  <2>1. q = 0 => x <= d - 1
    BY <1>1
  <2> QED BY <2>1
<1> QED BY <1>2, <1>3, <1>4

\* A function of the numbers that is given by its first value and by each next one.
Recursive(f, R, a, G) == f \in [Nat -> R] /\ f[0] = a /\ \A n \in Nat : f[n + 1] = G[<<n, f[n]>>]

LEMMA Recursion ==
    ASSUME NEW R, NEW a \in R, NEW G \in [Nat \X R -> R]
    PROVE  \E f : Recursive(f, R, a, G)
<1> DEFINE Good(n) == {g \in [0..n -> R] : g[0] = a /\ \A k \in 0..(n - 1) : g[k + 1] = G[<<k, g[k]>>]}
           Done == {n \in Nat : Good(n) # {}}
<1>1. 0 \in Done
  <2> DEFINE g == [k \in 0..0 |-> a]
  <2>1. g \in [0..0 -> R] /\ g[0] = a /\ 0..(0 - 1) = {}
    OBVIOUS
  <2> HIDE DEF g
  <2>2. g \in Good(0)
    BY <2>1
  <2> QED BY <2>2
<1>2. ASSUME NEW n \in Nat, n \in Done PROVE n + 1 \in Done
  <2>1. PICK g \in Good(n) : TRUE
    BY <1>2
  <2>2. g \in [0..n -> R] /\ g[0] = a /\ \A k \in 0..(n - 1) : g[k + 1] = G[<<k, g[k]>>]
    BY <2>1
  <2> DEFINE h == [k \in 0..(n + 1) |-> IF k = n + 1 THEN G[<<n, g[n]>>] ELSE g[k]]
  <2>3. g[n] \in R /\ <<n, g[n]>> \in Nat \X R /\ G[<<n, g[n]>>] \in R
    BY <2>2
  <2>4. h \in [0..(n + 1) -> R]
    BY <2>2, <2>3
  <2>5. h[0] = a
    BY <2>2
  <2>6. ASSUME NEW k \in 0..((n + 1) - 1) PROVE h[k + 1] = G[<<k, h[k]>>]
    <3>1. k \in 0..n /\ k # n + 1 /\ h[k] = g[k]
      OBVIOUS
    <3>2. CASE k = n
      <4>1. h[k + 1] = G[<<n, g[n]>>]
        BY <3>2
      <4> QED BY <3>1, <3>2, <4>1
    <3>3. CASE k # n
      <4>1. k \in 0..(n - 1) /\ k + 1 # n + 1 /\ k + 1 \in 0..(n + 1)
        BY <3>1, <3>3
      <4>2. h[k + 1] = g[k + 1]
        BY <4>1
      <4> HIDE DEF h
      <4> QED BY <2>2, <3>1, <4>1, <4>2
    <3> QED BY <3>2, <3>3
  <2> HIDE DEF h
  <2>7. h \in Good(n + 1)
    BY <2>4, <2>5, <2>6
  <2> HIDE DEF Good
  <2> QED BY <2>7
<1>3. \A n \in Nat : Good(n) # {}
  <2>1. Nat \subseteq Done
    <3> HIDE DEF Done
    <3> QED BY <1>1, <1>2, Induction
  <2> QED BY <2>1
<1>4. ASSUME NEW n \in Nat, NEW m \in Nat, NEW g \in Good(n), NEW h \in Good(m)
      PROVE  \A k \in Nat : k <= n /\ k <= m => g[k] = h[k]
  <2>1. g[0] = a /\ h[0] = a
    OBVIOUS
  <2>2. /\ \A k \in 0..(n - 1) : g[k + 1] = G[<<k, g[k]>>]
        /\ \A k \in 0..(m - 1) : h[k + 1] = G[<<k, h[k]>>]
    OBVIOUS
  <2> HIDE DEF Good
  <2> DEFINE Same == {k \in Nat : k <= n /\ k <= m => g[k] = h[k]}
  <2>3. 0 \in Same
    BY <2>1
  <2>4. ASSUME NEW k \in Nat, k \in Same PROVE k + 1 \in Same
    <3> SUFFICES ASSUME k + 1 <= n, k + 1 <= m PROVE g[k + 1] = h[k + 1]
      OBVIOUS
    <3>1. k \in 0..(n - 1) /\ k \in 0..(m - 1) /\ g[k] = h[k]
      BY <2>4
    <3> QED BY <2>2, <3>1
  <2>5. Nat \subseteq Same
    <3> HIDE DEF Same
    <3> QED BY <2>3, <2>4, Induction
  <2> QED BY <2>5
<1> DEFINE upTo(n) == CHOOSE g \in Good(n) : TRUE
           f == [n \in Nat |-> upTo(n)[n]]
<1>5. \A n \in Nat : upTo(n) \in Good(n)
  <2> HIDE DEF Good
  <2> QED BY <1>3
<1>6. \A n \in Nat : upTo(n) \in [0..n -> R] /\ upTo(n)[0] = a
                      /\ \A k \in 0..(n - 1) : upTo(n)[k + 1] = G[<<k, upTo(n)[k]>>]
  <2> SUFFICES ASSUME NEW n \in Nat
               PROVE  upTo(n) \in [0..n -> R] /\ upTo(n)[0] = a
                      /\ \A k \in 0..(n - 1) : upTo(n)[k + 1] = G[<<k, upTo(n)[k]>>]
    OBVIOUS
  <2>1. upTo(n) \in Good(n)
    <3> HIDE DEF Good, upTo
    <3> QED BY <1>5
  <2> HIDE DEF upTo
  <2> QED BY <2>1
<1> HIDE DEF Good, upTo
<1>7. f \in [Nat -> R]
  BY <1>6
<1>8. f[0] = a
  BY <1>6
<1>9. ASSUME NEW n \in Nat PROVE f[n + 1] = G[<<n, f[n]>>]
  <2>1. upTo(n + 1)[n] = upTo(n)[n]
    <3>1. upTo(n + 1) \in Good(n + 1) /\ upTo(n) \in Good(n) /\ n + 1 \in Nat /\ n <= n + 1 /\ n <= n
      BY <1>5
    <3> QED BY <1>4, <3>1
  <2>2. n \in 0..((n + 1) - 1) /\ n + 1 \in Nat
    OBVIOUS
  <2>3. upTo(n + 1)[n + 1] = G[<<n, upTo(n + 1)[n]>>]
    BY <1>6, <2>2
  <2>4. f[n + 1] = upTo(n + 1)[n + 1] /\ f[n] = upTo(n)[n]
    OBVIOUS
  <2> QED BY <2>1, <2>3, <2>4
<1> HIDE DEF f
<1>10. Recursive(f, R, a, G)
  BY <1>7, <1>8, <1>9 DEF Recursive
<1> QED BY <1>10

\* What the loop over the samples has after one of them more.
Begun == [out |-> {}, first |-> 0, prev |-> 0]
OneMore(times, step, t, r) ==
    LET ends == r.prev # 0 /\ Past!Parted(t, r.prev, step)
    IN IF t \notin times THEN r
       ELSE [out |-> IF ends THEN r.out \cup {<<r.first, r.prev>>} ELSE r.out,
             first |-> IF ends \/ r.prev = 0 THEN t ELSE r.first,
             prev |-> t]

LEMMA LoopIs ==
    ASSUME NEW times, NEW step \in Nat
    PROVE  /\ Past!Loop(times, step)[0] = Begun
           /\ \A t \in Nat : Past!Loop(times, step)[t + 1] = OneMore(times, step, t + 1, Past!Loop(times, step)[t])
<1> DEFINE R == [out : SUBSET (Nat \X Nat), first : Nat, prev : Nat]
           G == [x \in Nat \X R |-> OneMore(times, step, x[1] + 1, x[2])]
           Is(f) == f = [t \in Nat |-> IF t = 0 THEN Begun ELSE OneMore(times, step, t, f[t - 1])]
<1>1. ASSUME NEW t \in Nat, NEW r \in R PROVE OneMore(times, step, t, r) \in R
  <2>1. <<r.first, r.prev>> \in Nat \X Nat /\ r.out \in SUBSET (Nat \X Nat)
    OBVIOUS
  <2>2. r.out \cup {<<r.first, r.prev>>} \in SUBSET (Nat \X Nat)
    BY <2>1
  <2> DEFINE ends == r.prev # 0 /\ Past!Parted(t, r.prev, step)
             o == IF ends THEN r.out \cup {<<r.first, r.prev>>} ELSE r.out
             b == IF ends \/ r.prev = 0 THEN t ELSE r.first
  <2>3. o \in SUBSET (Nat \X Nat) /\ b \in Nat
    BY <2>1, <2>2
  <2>4. OneMore(times, step, t, r) = IF t \notin times THEN r ELSE [out |-> o, first |-> b, prev |-> t]
    BY DEF OneMore
  <2> HIDE DEF o, b
  <2> QED BY <2>3, <2>4
<1>2. G \in [Nat \X R -> R]
  <2> HIDE DEF R
  <2>1. \A x \in Nat \X R : x[1] + 1 \in Nat /\ x[2] \in R
    OBVIOUS
  <2>2. \A x \in Nat \X R : OneMore(times, step, x[1] + 1, x[2]) \in R
    BY <1>1, <2>1
  <2> QED BY <2>2
<1>3. Begun \in R
  BY DEF Begun
<1>4. PICK f \in [Nat -> R] : f[0] = Begun /\ \A n \in Nat : f[n + 1] = G[<<n, f[n]>>]
  <2> HIDE DEF R, G
  <2>1. PICK f : Recursive(f, R, Begun, G)
    BY <1>2, <1>3, Recursion
  <2> QED BY <2>1 DEF Recursive
<1>5. Is(f)
  <2>1. ASSUME NEW t \in Nat PROVE f[t] = IF t = 0 THEN Begun ELSE OneMore(times, step, t, f[t - 1])
    <3>1. CASE t = 0
      BY <1>4, <3>1
    <3>2. CASE t # 0
      <4>1. t - 1 \in Nat /\ (t - 1) + 1 = t
        BY <3>2
      <4>2. <<t - 1, f[t - 1]>> \in Nat \X R
        <5> HIDE DEF R
        <5> QED BY <1>4, <4>1
      <4>3. f[t] = G[<<t - 1, f[t - 1]>>]
        <5> HIDE DEF G, R
        <5> QED BY <1>4, <4>1
      <4>4. G[<<t - 1, f[t - 1]>>] = OneMore(times, step, t, f[t - 1])
        <5> HIDE DEF R
        <5> QED BY <4>1, <4>2
      <4> QED BY <3>2, <4>3, <4>4
    <3> QED BY <3>1, <3>2
  <2> HIDE DEF R
  <2> QED BY <1>4, <2>1
<1>6. Past!Loop(times, step) = CHOOSE loop : Is(loop)
  BY DEF Past!Loop, OneMore, Begun
<1>7. Is(Past!Loop(times, step))
  <2> HIDE DEF Is
  <2> QED BY <1>5, <1>6
<1>8. Past!Loop(times, step) =
        [t \in Nat |-> IF t = 0 THEN Begun ELSE OneMore(times, step, t, Past!Loop(times, step)[t - 1])]
  BY <1>7
<1>9. ASSUME NEW t \in Nat
      PROVE  Past!Loop(times, step)[t + 1] = OneMore(times, step, t + 1, Past!Loop(times, step)[t])
  <2>1. t + 1 \in Nat /\ t + 1 # 0 /\ (t + 1) - 1 = t
    OBVIOUS
  <2> QED BY <1>8, <2>1
<1>10. Past!Loop(times, step)[0] = Begun
  BY <1>8
<1> QED BY <1>9, <1>10

\* From one sample to another, without a gap, and none before.
Run(p, times, step) ==
    /\ p = <<p[1], p[2]>> /\ p[1] \in times /\ p[2] \in times /\ p[1] <= p[2]
    /\ \A u \in Past!Samples(p[1], p[2], step) : u \in times
    /\ (p[1] - step) \notin times

Beyond(p, q, step) == p[2] + step < q[1]

\* The loop: its runs have ended, each before the next, and together with the one that
\* goes on they have the samples so far.
LoopOK(times, step, t, r) ==
    /\ r = [out |-> r.out, first |-> r.first, prev |-> r.prev]
    /\ r.prev = 0 => r.out = {} /\ \A u \in times : t < u
    /\ r.prev # 0 => /\ Run(<<r.first, r.prev>>, times, step) /\ r.prev <= t
                     /\ \A u \in times : u <= t => u <= r.prev
    /\ \A p \in r.out : Run(p, times, step) /\ (p[2] + step) \notin times /\ p[2] + step < r.first
    /\ \A p, q \in r.out : p = q \/ Beyond(p, q, step) \/ Beyond(q, p, step)
    /\ \A u \in times : u <= t => r.first <= u \/ \E p \in r.out : p[1] <= u /\ u <= p[2]

LEMMA SamplesApart ==
    ASSUME NEW from \in Nat \ {0}, NEW step \in Nat \ {0}, NEW times, times \subseteq Past!Samples(from, Now, step),
           NEW u \in times, NEW v \in times
    PROVE  /\ u \in Nat \ {0} /\ v \in Nat \ {0} /\ u <= Now /\ (u - v) % step = 0
           /\ v < u => v + step <= u
           /\ v < u /\ ~ Past!Parted(u, v, step) => u = v + step
           /\ Past!Parted(u, v, step) => v + 2 * step <= u
<1> DEFINE x == u - from
           y == v - from
<1>1. /\ u \in Nat \ {0} /\ v \in Nat \ {0} /\ u <= Now /\ x % step = 0 /\ y % step = 0
  BY EpisodesAssumption DEF Past!Samples
<1>2. x \in Int /\ y \in Int /\ x - y = u - v /\ (y < x <=> v < u)
  BY <1>1
<1> HIDE DEF x, y
<1>3. /\ (x - y) % step = 0
      /\ y < x => step <= x - y
      /\ y < x /\ ~ (2 * (x - y) > 3 * step) => x - y = step
      /\ 2 * (x - y) > 3 * step => 2 * step <= x - y
  BY <1>1, <1>2, Multiples
<1> QED BY <1>1, <1>2, <1>3 DEF Past!Parted

LEMMA LoopStarts ==
    ASSUME NEW from \in Nat \ {0}, NEW step \in Nat \ {0}, NEW times, times \subseteq Past!Samples(from, Now, step)
    PROVE  LoopOK(times, step, 0, Begun)
<1>1. \A u \in times : u \in Nat \ {0}
  BY SamplesApart
<1>2. \A u \in times : 0 < u /\ ~ (u <= 0)
  BY <1>1
<1>3. Begun.out = {} /\ Begun.prev = 0 /\ Begun = [out |-> Begun.out, first |-> Begun.first, prev |-> Begun.prev]
  BY DEF Begun
<1> QED BY <1>2, <1>3 DEF LoopOK

LEMMA LoopGoesOn ==
    ASSUME NEW from \in Nat \ {0}, NEW step \in Nat \ {0}, NEW times, times \subseteq Past!Samples(from, Now, step),
           NEW n \in Nat, NEW r, LoopOK(times, step, n, r)
    PROVE  LoopOK(times, step, n + 1, OneMore(times, step, n + 1, r))
<1> SUFFICES ASSUME NEW t, t = n + 1 PROVE LoopOK(times, step, t, OneMore(times, step, t, r))
  OBVIOUS
<1>0. \A u \in times : u \in Nat \ {0} /\ (u <= t <=> u <= n \/ u = t)
  <2>1. \A u \in times : u \in Nat \ {0}
    BY SamplesApart
  <2> QED BY <2>1
<1>5. ASSUME NEW u \in times, NEW v \in times
      PROVE  /\ (u - v) % step = 0
             /\ v < u /\ ~ Past!Parted(u, v, step) => u = v + step
             /\ Past!Parted(u, v, step) => v + 2 * step <= u
  BY SamplesApart
<1>1. CASE t \notin times
  <2>1. OneMore(times, step, t, r) = r
    BY <1>1 DEF OneMore
  <2>2. \A u \in times : (u <= t <=> u <= n) /\ (n < u => t < u)
    BY <1>0, <1>1
  <2>3. r.prev # 0 => r.prev <= t
    BY <1>0 DEF LoopOK, Run
  <2> QED BY <2>1, <2>2, <2>3 DEF LoopOK
<1>2. CASE t \in times /\ r.prev = 0
  <2> DEFINE s == [out |-> {}, first |-> t, prev |-> t]
  <2>1. OneMore(times, step, t, r) = s
    BY <1>2 DEF OneMore, LoopOK
  <2>2. \A u \in times : n < u
    BY <1>2 DEF LoopOK
  <2>3. s.out = {} /\ s.first = t /\ s.prev = t /\ t # 0 /\ t <= t /\ s = [out |-> s.out, first |-> s.first, prev |-> s.prev]
    OBVIOUS
  <2>4. (t - step) \notin times
    <3>1. ~ (n < t - step)
      OBVIOUS
    <3> QED BY <2>2, <3>1
  <2>5. Past!Samples(t, t, step) = {t}
    <3>1. t..t = {t} /\ (t - t) % step = 0
      OBVIOUS
    <3> QED BY <3>1 DEF Past!Samples
  <2>6. Run(<<t, t>>, times, step)
    BY <1>2, <2>4, <2>5 DEF Run
  <2>7. \A u \in times : u <= t => u <= s.prev /\ s.first <= u
    <3>1. \A u \in times : u <= t => u = t
      BY <1>0, <2>2
    <3> QED BY <2>3, <3>1
  <2> HIDE DEF s
  <2> QED BY <2>1, <2>3, <2>6, <2>7 DEF LoopOK
<1>3. CASE t \in times /\ r.prev # 0
  <2>1. /\ r.first \in times /\ r.prev \in times /\ r.first <= r.prev /\ r.prev <= n
        /\ \A u \in Past!Samples(r.first, r.prev, step) : u \in times
        /\ (r.first - step) \notin times
        /\ \A u \in times : u <= n => u <= r.prev
    BY <1>3 DEF LoopOK, Run
  <2>2. /\ r.prev \in Nat \ {0} /\ r.first \in Nat \ {0} /\ r.prev < t
        /\ (t - r.first) % step = 0 /\ (r.prev - r.first) % step = 0
    <3>1. r.prev \in Nat \ {0} /\ r.first \in Nat \ {0}
      BY <1>0, <2>1
    <3>2. (t - r.first) % step = 0 /\ (r.prev - r.first) % step = 0
      <4> QED BY <1>3, <1>5, <2>1
    <3> QED BY <2>1, <3>1, <3>2
  <2>3. /\ ~ Past!Parted(t, r.prev, step) => t = r.prev + step
        /\ Past!Parted(t, r.prev, step) => r.prev + 2 * step <= t
    <3>1. t \in times /\ r.prev \in times /\ r.prev < t
      BY <1>3, <2>1, <2>2
    <3> QED BY <1>5, <3>1
  <2>4. /\ \A p \in r.out : Run(p, times, step) /\ (p[2] + step) \notin times /\ p[2] + step < r.first
        /\ \A p, q \in r.out : p = q \/ Beyond(p, q, step) \/ Beyond(q, p, step)
        /\ \A u \in times : u <= n => r.first <= u \/ \E p \in r.out : p[1] <= u /\ u <= p[2]
    BY DEF LoopOK
  <2>5. CASE ~ Past!Parted(t, r.prev, step)
    <3> DEFINE s == [out |-> r.out, first |-> r.first, prev |-> t]
    <3>1. OneMore(times, step, t, r) = s
      BY <1>3, <2>5 DEF OneMore
    <3>2. s.out = r.out /\ s.first = r.first /\ s.prev = t /\ s = [out |-> s.out, first |-> s.first, prev |-> s.prev]
      OBVIOUS
    <3>3. ASSUME NEW u \in Past!Samples(r.first, t, step) PROVE u \in times
      <4>1. u \in Int /\ r.first <= u /\ u <= t /\ (u - r.first) % step = 0
        BY <2>2 DEF Past!Samples
      <4>2. CASE u <= r.prev
        BY <2>1, <2>2, <4>1, <4>2 DEF Past!Samples
      <4>3. CASE ~ (u <= r.prev)
        <5> DEFINE x == u - r.first
                   y == r.prev - r.first
        <5>0. x % step = 0 /\ y % step = 0
          BY <2>2, <4>1
        <5>1. x \in Int /\ y \in Int /\ y < x /\ x - y = u - r.prev
          <6>1. u \in Int /\ r.prev \in Int /\ r.first \in Int /\ r.prev < u
            BY <2>2, <4>1, <4>3
          <6> QED BY <6>1
        <5> HIDE DEF x, y
        <5>2. step <= x - y
          BY <5>0, <5>1, Multiples
        <5>3. u = t
          BY <2>2, <2>3, <2>5, <4>1, <5>1, <5>2
        <5> QED BY <1>3, <5>3
      <4> QED BY <4>2, <4>3
    <3>4. Run(<<r.first, t>>, times, step)
      <4>1. r.first <= t
        BY <2>1, <2>2
      <4> QED BY <1>3, <2>1, <3>3, <4>1 DEF Run
    <3>5. t # 0 /\ t <= t /\ \A u \in times : u <= t => u <= s.prev
      BY <3>2
    <3>6. ASSUME NEW u \in times, u <= t PROVE r.first <= u \/ \E p \in r.out : p[1] <= u /\ u <= p[2]
      <4>1. CASE u <= n
        BY <2>4, <4>1
      <4>2. CASE u = t
        BY <2>1, <2>2, <4>2
      <4> QED BY <1>0, <3>6, <4>1, <4>2
    <3> HIDE DEF s
    <3> QED BY <2>4, <3>1, <3>2, <3>4, <3>5, <3>6 DEF LoopOK
  <2>6. CASE Past!Parted(t, r.prev, step)
    <3> DEFINE now == <<r.first, r.prev>>
               out == r.out \cup {now}
               s == [out |-> out, first |-> t, prev |-> t]
    <3>1. OneMore(times, step, t, r) = s
      BY <1>3, <2>6 DEF OneMore
    <3>2. s.out = out /\ s.first = t /\ s.prev = t /\ s = [out |-> s.out, first |-> s.first, prev |-> s.prev]
      OBVIOUS
    <3>3. (t - step) \notin times /\ (r.prev + step) \notin times
      <4>1. SUFFICES ASSUME NEW u \in times, u = t - step \/ u = r.prev + step PROVE FALSE
        OBVIOUS
      <4>2. u <= n /\ ~ (u <= r.prev)
        BY <2>2, <2>3, <2>6, <4>1
      <4> QED BY <2>1, <4>2
    <3>4. Past!Samples(t, t, step) = {t}
      <4>1. t..t = {t} /\ (t - t) % step = 0
        OBVIOUS
      <4> QED BY <4>1 DEF Past!Samples
    <3>5. Run(<<t, t>>, times, step)
      BY <1>3, <3>3, <3>4 DEF Run
    <3>6. Run(now, times, step) /\ now[1] = r.first /\ now[2] = r.prev
      BY <1>3 DEF LoopOK
    <3>7. ASSUME NEW p \in out PROVE Run(p, times, step) /\ (p[2] + step) \notin times /\ p[2] + step < t
      <4>1. CASE p = now
        <5>1. r.prev + step < t
          BY <2>2, <2>3, <2>6
        <5> HIDE DEF now
        <5> QED BY <3>3, <3>6, <4>1, <5>1
      <4>2. CASE p \in r.out
        <5>1. p[2] + step < r.first /\ p[2] \in times
          BY <2>4, <4>2 DEF Run
        <5>2. p[2] \in Nat
          BY <1>0, <5>1
        <5>3. p[2] + step < t
          BY <2>1, <2>2, <5>1, <5>2
        <5> QED BY <2>4, <4>2, <5>3
      <4> QED BY <4>1, <4>2
    <3>8. ASSUME NEW p \in out, NEW q \in out PROVE p = q \/ Beyond(p, q, step) \/ Beyond(q, p, step)
      <4>1. \A e \in r.out : Beyond(e, now, step)
        <5> HIDE DEF now
        <5> QED BY <2>4, <3>6 DEF Beyond
      <4> HIDE DEF now
      <4> QED BY <2>4, <4>1
    <3>9. ASSUME NEW u \in times, u <= t PROVE t <= u \/ \E p \in out : p[1] <= u /\ u <= p[2]
      <4>1. CASE u = t
        BY <4>1
      <4>2. CASE u <= n /\ r.first <= u
        <5>1. r.first <= u /\ u <= r.prev
          BY <2>1, <4>2
        <5> HIDE DEF now
        <5> QED BY <3>6, <5>1
      <4>3. CASE u <= n /\ ~ (r.first <= u)
        BY <2>4, <4>3
      <4> QED BY <1>0, <3>9, <4>1, <4>2, <4>3
    <3>10. t # 0 /\ t <= t /\ \A u \in times : u <= t => u <= s.prev
      BY <3>2
    <3> HIDE DEF out, s
    <3> QED BY <3>1, <3>2, <3>5, <3>7, <3>8, <3>9, <3>10 DEF LoopOK
  <2> QED BY <2>5, <2>6
<1> QED BY <1>1, <1>2, <1>3

LEMMA LoopRuns ==
    ASSUME NEW from \in Nat \ {0}, NEW step \in Nat \ {0}, NEW times, times \subseteq Past!Samples(from, Now, step)
    PROVE  \A n \in Nat : LoopOK(times, step, n, Past!Loop(times, step)[n])
<1> DEFINE Done == {n \in Nat : LoopOK(times, step, n, Past!Loop(times, step)[n])}
<1>1. 0 \in Done
  BY LoopIs, LoopStarts
<1>2. ASSUME NEW n \in Nat, n \in Done PROVE n + 1 \in Done
  <2>1. Past!Loop(times, step)[n + 1] = OneMore(times, step, n + 1, Past!Loop(times, step)[n])
    BY LoopIs
  <2>2. LoopOK(times, step, n + 1, OneMore(times, step, n + 1, Past!Loop(times, step)[n]))
    BY <1>2, LoopGoesOn
  <2> QED BY <2>1, <2>2
<1> HIDE DEF Done
<1>3. Nat \subseteq Done
  BY <1>1, <1>2, Induction
<1> QED BY <1>3 DEF Done

\* An episode of a machine, and the samples it has.
EpisodeOK(e, m, times, step) ==
    /\ e.machine = m /\ e.start \in times /\ (e.end - step) \in times /\ e.start <= e.end - step
    /\ e.end \in Nat /\ e.duration = e.end - e.start
    /\ \A u \in Past!Samples(e.start, e.end - step, step) : u \in times
    /\ (e.start - step) \notin times /\ e.end \notin times

LEMMA EpisodesAre ==
    ASSUME NEW from \in Nat \ {0}, NEW step \in Nat \ {0}, NEW times, times \subseteq Past!Samples(from, Now, step), NEW m
    PROVE  /\ \A e \in Past!EpisodesOf(m, times, step, Now) : EpisodeOK(e, m, times, step)
           /\ \A e, f \in Past!EpisodesOf(m, times, step, Now) : e = f \/ e.end < f.start \/ f.end < e.start
           /\ \A u \in times : \E e \in Past!EpisodesOf(m, times, step, Now) : e.start <= u /\ u < e.end
<1> DEFINE last == Past!Loop(times, step)[Now]
           now == <<last.first, last.prev>>
           pairs == IF last.prev = 0 THEN last.out ELSE last.out \cup {now}
           of(p) == [machine |-> m, start |-> p[1], end |-> p[2] + step, duration |-> p[2] - p[1] + step,
                     ongoing |-> 2 * (Now - p[2]) <= 3 * step]
           all == Past!EpisodesOf(m, times, step, Now)
<1>1. all = {of(p) : p \in pairs}
  BY DEF Past!EpisodesOf
<1>2. Now \in Nat /\ LoopOK(times, step, Now, last)
  BY EpisodesAssumption, LoopRuns
<1>3. \A u \in times : u \in Nat \ {0} /\ u <= Now
  BY SamplesApart
<1>4. ASSUME NEW p \in pairs PROVE Run(p, times, step) /\ (p[2] + step) \notin times
  <2>1. CASE p \in last.out
    <3> HIDE DEF last
    <3> QED BY <1>2, <2>1 DEF LoopOK
  <2>2. CASE p = now /\ last.prev # 0
    <3>1. Run(now, times, step) /\ \A u \in times : u <= Now => u <= last.prev
      <4> HIDE DEF last
      <4> QED BY <1>2, <2>2 DEF LoopOK
    <3>2. last.prev \in Nat
      <4> HIDE DEF last
      <4> QED BY <1>3, <3>1 DEF Run
    <3>3. (last.prev + step) \notin times
      <4> HIDE DEF last
      <4>1. SUFFICES ASSUME last.prev + step \in times PROVE FALSE
        OBVIOUS
      <4>2. last.prev + step <= last.prev
        BY <1>3, <3>1, <4>1
      <4> QED BY <3>2, <4>2
    <3> HIDE DEF last
    <3> QED BY <2>2, <3>1, <3>3
  <2> HIDE DEF last, now
  <2> QED BY <2>1, <2>2
<1>5. ASSUME NEW p \in pairs, NEW q \in pairs PROVE p = q \/ Beyond(p, q, step) \/ Beyond(q, p, step)
  <2>1. \A r \in last.out : Beyond(r, now, step)
    <3> HIDE DEF last
    <3> QED BY <1>2 DEF LoopOK, Beyond
  <2>2. \A r, s \in last.out : r = s \/ Beyond(r, s, step) \/ Beyond(s, r, step)
    <3> HIDE DEF last
    <3> QED BY <1>2 DEF LoopOK
  <2> HIDE DEF last, now
  <2> QED BY <2>1, <2>2
<1>6. ASSUME NEW u \in times PROVE \E p \in pairs : p[1] <= u /\ u <= p[2]
  <2>0. u <= Now
    BY <1>3
  <2>1. last.prev # 0
    <3>1. u \in Nat /\ ~ (Now < u)
      BY <1>2, <1>3
    <3> HIDE DEF last
    <3> QED BY <1>2, <3>1 DEF LoopOK
  <2>2. CASE last.first <= u
    <3>1. u <= last.prev
      <4> HIDE DEF last
      <4> QED BY <1>2, <2>0, <2>1 DEF LoopOK
    <3>2. now \in pairs /\ now[1] = last.first /\ now[2] = last.prev
      <4> HIDE DEF last
      <4> QED BY <2>1
    <3> HIDE DEF last, pairs, now
    <3> QED BY <2>2, <3>1, <3>2
  <2>3. CASE \E p \in last.out : p[1] <= u /\ u <= p[2]
    <3> HIDE DEF last
    <3> QED BY <2>3
  <2>4. last.first <= u \/ \E p \in last.out : p[1] <= u /\ u <= p[2]
    <3> HIDE DEF last
    <3> QED BY <1>2, <2>0 DEF LoopOK
  <2> QED BY <2>2, <2>3, <2>4
<1> HIDE DEF last, pairs
<1>7. ASSUME NEW p \in pairs
      PROVE  /\ p[1] \in times /\ p[2] \in times /\ p[1] \in Nat /\ p[2] \in Nat /\ p[1] <= p[2] /\ (p[2] + step) - step = p[2]
             /\ of(p).machine = m /\ of(p).start = p[1] /\ of(p).end = p[2] + step /\ of(p).duration = p[2] - p[1] + step
  BY <1>3, <1>4 DEF Run
<1>8. ASSUME NEW p \in pairs PROVE EpisodeOK(of(p), m, times, step)
  <2> DEFINE e == of(p)
  <2>1. /\ e.machine = m /\ e.start = p[1] /\ e.end = p[2] + step /\ e.end - step = p[2] /\ e.duration = p[2] - p[1] + step
        /\ p[1] \in times /\ p[2] \in times /\ p[1] \in Nat /\ p[2] \in Nat /\ p[1] <= p[2]
    BY <1>7
  <2> HIDE DEF e
  <2>2. e.duration = e.end - e.start /\ e.end \in Nat
    BY <2>1
  <2>3. EpisodeOK(e, m, times, step)
    BY <1>4, <2>1, <2>2 DEF EpisodeOK, Run
  <2> QED BY <2>3 DEF e
<1>9. ASSUME NEW p \in pairs, NEW q \in pairs PROVE of(p) = of(q) \/ of(p).end < of(q).start \/ of(q).end < of(p).start
  BY <1>5, <1>7 DEF Beyond
<1>10. ASSUME NEW u \in times PROVE \E p \in pairs : of(p).start <= u /\ u < of(p).end
  <2>1. PICK p \in pairs : p[1] <= u /\ u <= p[2]
    BY <1>6
  <2>2. u \in Nat /\ p[2] \in Nat /\ of(p).start = p[1] /\ of(p).end = p[2] + step
    BY <1>3, <1>7
  <2> HIDE DEF of
  <2> QED BY <2>1, <2>2
<1> HIDE DEF of, all
<1> QED BY <1>1, <1>8, <1>9, <1>10 DEF all

\* The episodes of a machine are as many as there are starts of theirs.
LEMMA EpisodesFinite ==
    ASSUME NEW from \in Nat \ {0}, NEW step \in Nat \ {0}, NEW times, times \subseteq Past!Samples(from, Now, step), NEW m
    PROVE  /\ IsFiniteSet(times)
           /\ IsFiniteSet(Past!EpisodesOf(m, times, step, Now))
<1> DEFINE all == Past!EpisodesOf(m, times, step, Now)
           f == [e \in all |-> e.start]
<1>1. /\ \A e \in all : EpisodeOK(e, m, times, step)
      /\ \A d, e \in all : d = e \/ d.end < e.start \/ e.end < d.start
  BY EpisodesAre
<1>2. \A u \in times : u \in Nat \ {0} /\ u <= Now
  BY SamplesApart
<1> HIDE DEF all
<1>3. IsFiniteSet(times)
  <2>1. times \in SUBSET Nat /\ \A u \in times : u <= Now
    BY <1>2
  <2> QED BY <2>1, EpisodesAssumption, FS_BoundedSetOfNaturals
<1>4. \A e \in all : e.start \in times /\ e.start \in Nat /\ e.end \in Nat /\ e.start < e.end
  <2>1. ASSUME NEW e \in all PROVE e.start \in times /\ e.start \in Nat /\ e.end \in Nat /\ e.start < e.end
    <3>1. e.start \in times /\ e.end \in Nat /\ e.start <= e.end - step
      BY <1>1 DEF EpisodeOK
    <3> QED BY <1>2, <3>1
  <2> QED BY <2>1
<1>5. ASSUME NEW d \in all, NEW e \in all, d.start = e.start PROVE d = e
  BY <1>1, <1>4, <1>5
<1>6. f \in Injection(all, times)
  BY <1>4, <1>5 DEF Injection, IsInjective
<1>7. IsFiniteSet(all)
  <2> HIDE DEF f
  <2> QED BY <1>3, <1>6, FS_Injection
<1> QED BY <1>3, <1>7 DEF all

\* What the durations of a machine's episodes add up to.
LEMMA DurationsAdd ==
    ASSUME NEW from \in Nat \ {0}, NEW step \in Nat \ {0}, NEW times, times \subseteq Past!Samples(from, Now, step), NEW m
    PROVE  Past!MapThenSumSet(Past!Duration, Past!EpisodesOf(m, times, step, Now)) = step * Cardinality(times)
<1> DEFINE all == Past!EpisodesOf(m, times, step, Now)
           Has(s) == {u \in times : \E e \in s : e.start <= u /\ u < e.end}
           F == [s \in SUBSET all |-> step * Cardinality(Has(s))]
           Is(f) == f = [s \in SUBSET all |->
                           IF s = {} THEN 0 ELSE LET x == CHOOSE x \in s : TRUE IN x.duration + f[s \ {x}]]
<1>1. /\ \A e \in all : EpisodeOK(e, m, times, step)
      /\ \A d, e \in all : d = e \/ d.end < e.start \/ e.end < d.start
      /\ \A u \in times : \E e \in all : e.start <= u /\ u < e.end
  BY EpisodesAre
<1>2. IsFiniteSet(times) /\ IsFiniteSet(all) /\ \A u \in times : u \in Nat \ {0}
  BY EpisodesFinite, SamplesApart
<1>3. Past!MapThenSumSet(Past!Duration, all) = (CHOOSE f : Is(f))[all]
  <2> HIDE DEF all
  <2> QED BY DEF Past!MapThenSumSet, Past!MapThenFoldSet, Past!Duration
<1> HIDE DEF all
<1>4. \A s \in SUBSET all : IsFiniteSet(Has(s)) /\ Cardinality(Has(s)) \in Nat
  <2> SUFFICES ASSUME NEW s \in SUBSET all PROVE IsFiniteSet(Has(s)) /\ Cardinality(Has(s)) \in Nat
    OBVIOUS
  <2>1. Has(s) \in SUBSET times
    OBVIOUS
  <2> HIDE DEF Has
  <2> QED BY <1>2, <2>1, FS_Subset, FS_CardinalityType
<1>5. ASSUME NEW e \in all PROVE step * Cardinality(Has({e})) = e.duration /\ e.duration \in Nat
  <2>1. /\ e.start \in times /\ (e.end - step) \in times /\ e.start <= e.end - step
        /\ e.end \in Nat /\ e.duration = e.end - e.start
        /\ \A u \in Past!Samples(e.start, e.end - step, step) : u \in times
    BY <1>1 DEF EpisodeOK
  <2> DEFINE b == e.end - step
  <2>2. b \in Int /\ e.start \in Nat /\ (b - e.start) % step = 0 /\ b - e.start + step = e.duration
    <3>1. b \in Int /\ e.start \in Nat /\ b - e.start + step = e.duration
      BY <1>2, <2>1
    <3>2. (b - e.start) % step = 0
      <4>1. b \in times /\ e.start \in times
        BY <2>1
      <4> HIDE DEF b
      <4> QED BY <4>1, SamplesApart
    <3> QED BY <3>1, <3>2
  <2>3. Has({e}) = Past!Samples(e.start, b, step)
    <3>1. ASSUME NEW u \in Has({e}) PROVE u \in Past!Samples(e.start, b, step)
      <4>1. u \in times /\ e.start <= u /\ u < e.end
        OBVIOUS
      <4>2. u \in Nat /\ (u - e.start) % step = 0
        <5>1. u \in Nat
          BY <1>2, <4>1
        <5>2. (u - e.start) % step = 0
          BY <2>1, <4>1, SamplesApart
        <5> QED BY <5>1, <5>2
      <4>3. u <= b
        <5>1. b \in times /\ u \in times
          BY <2>1, <4>1
        <5>2. b < u => b + step <= u
          <6> HIDE DEF b
          <6> QED BY <5>1, SamplesApart
        <5> QED BY <2>1, <2>2, <4>1, <4>2, <5>2
      <4> HIDE DEF b
      <4> QED BY <2>2, <4>1, <4>2, <4>3 DEF Past!Samples
    <3>2. ASSUME NEW u \in Past!Samples(e.start, b, step) PROVE u \in Has({e})
      <4>1. u \in times /\ u \in Int /\ e.start <= u /\ u <= b
        BY <2>1 DEF Past!Samples
      <4>2. u < e.end
        BY <2>1, <4>1
      <4> QED BY <4>1, <4>2
    <3> QED BY <3>1, <3>2
  <2>4. step * Cardinality(Past!Samples(e.start, b, step)) = b - e.start + step
    <3>1. e.start \in Int /\ e.start <= b
      BY <2>1, <2>2
    <3> HIDE DEF b
    <3> QED BY <2>2, <3>1, SamplesCounted
  <2>5. e.duration \in Nat
    <3>1. e.start < e.end
      BY <2>1, <2>2
    <3> QED BY <2>1, <2>2, <3>1
  <2> QED BY <2>2, <2>3, <2>4, <2>5
<1>6. ASSUME NEW s \in SUBSET all, NEW e \in s PROVE F[s] = e.duration + F[s \ {e}]
  <2> DEFINE r == s \ {e}
  <2>1. Has(s) = Has(r) \cup Has({e})
    OBVIOUS
  <2>2. Has(r) \cap Has({e}) = {}
    <3>1. SUFFICES ASSUME NEW u \in times, NEW d \in r, d.start <= u, u < d.end, e.start <= u, u < e.end PROVE FALSE
      OBVIOUS
    <3>2. d \in all /\ e \in all /\ d # e
      OBVIOUS
    <3>3. d.end < e.start \/ e.end < d.start
      BY <1>1, <3>2
    <3>4. u \in Nat /\ d.end \in Nat /\ e.end \in Nat /\ d.start \in Nat /\ e.start \in Nat
      BY <1>1, <1>2, <3>2 DEF EpisodeOK
    <3> QED BY <3>1, <3>3, <3>4
  <2>3. s \in SUBSET all /\ r \in SUBSET all /\ {e} \in SUBSET all /\ e \in all
    OBVIOUS
  <2>4. /\ Cardinality(Has(s)) = Cardinality(Has(r)) + Cardinality(Has({e}))
        /\ Cardinality(Has(r)) \in Nat /\ Cardinality(Has({e})) \in Nat
    <3> HIDE DEF Has, r
    <3>1. IsFiniteSet(Has(r)) /\ IsFiniteSet(Has({e})) /\ Cardinality(Has(r)) \in Nat /\ Cardinality(Has({e})) \in Nat
      BY <1>4, <2>3
    <3>2. Cardinality(Has(r) \cup Has({e})) = Cardinality(Has(r)) + Cardinality(Has({e})) - Cardinality({})
      BY <2>2, <3>1, FS_Union
    <3> QED BY <2>1, <3>1, <3>2, FS_EmptySet
  <2>5. step * Cardinality(Has({e})) = e.duration /\ e.duration \in Nat
    <3> HIDE DEF Has
    <3> QED BY <1>5, <2>3
  <2> DEFINE x == Cardinality(Has(s))
             y == Cardinality(Has(r))
             z == Cardinality(Has({e}))
  <2>6. x = y + z /\ y \in Nat /\ z \in Nat /\ step * z = e.duration
    BY <2>4, <2>5
  <2>7. F[s] = step * x /\ F[r] = step * y
    <3> HIDE DEF Has, r
    <3> QED BY <2>3
  <2> HIDE DEF Has, x, y, z, F
  <2>8. step * x = step * y + step * z
    BY <2>6
  <2>9. step * y \in Nat
    BY <2>6
  <2> QED BY <2>5, <2>6, <2>7, <2>8, <2>9
<1>7. F[{}] = 0
  <2>1. Has({}) = {} /\ {} \in SUBSET all
    OBVIOUS
  <2>2. F[{}] = step * Cardinality({})
    BY <2>1
  <2>3. step * 0 = 0
    OBVIOUS
  <2> HIDE DEF F
  <2> QED BY <2>2, <2>3, FS_EmptySet
<1>8. F = [s \in SUBSET all |-> F[s]]
  OBVIOUS
<1>9. F[all] = step * Cardinality(times)
  <2>1. Has(all) = times
    BY <1>1
  <2> QED BY <2>1
<1> HIDE DEF F
<1>10. Is(F)
  <2>1. ASSUME NEW s \in SUBSET all
        PROVE  F[s] = IF s = {} THEN 0 ELSE LET x == CHOOSE x \in s : TRUE IN x.duration + F[s \ {x}]
    <3>1. CASE s = {}
      BY <1>7, <3>1
    <3>2. CASE s # {}
      <4>1. (CHOOSE x \in s : TRUE) \in s
        BY <3>2
      <4> QED BY <1>6, <3>2, <4>1
    <3> QED BY <3>1, <3>2
  <2>2. F = [s \in SUBSET all |-> IF s = {} THEN 0 ELSE LET x == CHOOSE x \in s : TRUE IN x.duration + F[s \ {x}]]
    BY <1>8, <2>1
  <2> QED BY <2>2
<1> DEFINE f == CHOOSE f : Is(f)
<1>11. Is(f)
  <2> HIDE DEF Is
  <2> QED BY <1>10
<1> HIDE DEF f
<1>12. /\ f[{}] = 0
       /\ \A s \in SUBSET all : s # {} => f[s] = LET x == CHOOSE x \in s : TRUE IN x.duration + f[s \ {x}]
  <2>1. \A s \in SUBSET all : f[s] = IF s = {} THEN 0 ELSE LET x == CHOOSE x \in s : TRUE IN x.duration + f[s \ {x}]
    BY <1>11
  <2>2. {} \in SUBSET all
    OBVIOUS
  <2> QED BY <2>1, <2>2
<1> HIDE DEF Is
<1> DEFINE Done == {n \in Nat : \A s \in SUBSET all : IsFiniteSet(s) /\ Cardinality(s) = n => f[s] = F[s]}
<1>13. 0 \in Done
  <2>1. \A s \in SUBSET all : IsFiniteSet(s) /\ Cardinality(s) = 0 => s = {}
    BY FS_EmptySet
  <2> QED BY <1>7, <1>12, <2>1
<1>14. ASSUME NEW n \in Nat, n \in Done PROVE n + 1 \in Done
  <2> SUFFICES ASSUME NEW s \in SUBSET all, IsFiniteSet(s), Cardinality(s) = n + 1 PROVE f[s] = F[s]
    OBVIOUS
  <2>1. s # {}
    BY FS_EmptySet
  <2> DEFINE x == CHOOSE x \in s : TRUE
  <2>2. x \in s
    BY <2>1
  <2>3. f[s] = x.duration + f[s \ {x}]
    BY <1>12, <2>1
  <2> HIDE DEF x
  <2>4. IsFiniteSet(s \ {x}) /\ Cardinality(s \ {x}) = n /\ s \ {x} \in SUBSET all
    BY <2>2, FS_RemoveElement
  <2>5. f[s \ {x}] = F[s \ {x}]
    BY <1>14, <2>4
  <2>6. F[s] = x.duration + F[s \ {x}]
    BY <1>6, <2>2
  <2> QED BY <2>3, <2>5, <2>6
<1>15. Nat \subseteq Done
  <2> HIDE DEF Done
  <2> QED BY <1>13, <1>14, Induction
<1>16. f[all] = F[all]
  <2>1. Cardinality(all) \in Nat
    BY <1>2, FS_CardinalityType
  <2>2. Cardinality(all) \in Done /\ all \in SUBSET all
    <3> HIDE DEF Done
    <3> QED BY <1>15, <2>1
  <2> QED BY <1>2, <2>2
<1> QED BY <1>3, <1>9, <1>16 DEF f, all

\* The newest of some episodes are no more than the limit.
LEMMA NewestFew ==
    ASSUME NEW S, IsFiniteSet(S), \A e \in S : e.start \in Nat /\ e.machine \in Nat,
           \A d, e \in S : d.start = e.start /\ d.machine = e.machine => d = e
    PROVE  IsFiniteSet(Past!Newest(S)) /\ Cardinality(Past!Newest(S)) <= MaxEpisodes
<1> DEFINE N == Past!Newest(S)
           before(e) == {x \in S : Past!Newer(x, e)}
           rank == [e \in N |-> Cardinality(before(e))]
<1>1. MaxEpisodes \in Nat \ {0}
  BY ConstantsAssumption
<1>2. N \subseteq S /\ \A e \in N : Cardinality(before(e)) < MaxEpisodes
  BY PastSizes DEF Past!Newest
<1>3. \A e \in S : IsFiniteSet(before(e)) /\ Cardinality(before(e)) \in Nat
  <2> SUFFICES ASSUME NEW e \in S PROVE IsFiniteSet(before(e)) /\ Cardinality(before(e)) \in Nat
    OBVIOUS
  <2>1. before(e) \in SUBSET S
    OBVIOUS
  <2> HIDE DEF before
  <2> QED BY <2>1, FS_Subset, FS_CardinalityType
<1>4. ASSUME NEW d \in S, NEW e \in S, Past!Newer(d, e) PROVE Cardinality(before(d)) < Cardinality(before(e))
  <2>1. before(d) \subseteq before(e)
    BY <1>4 DEF Past!Newer
  <2>2. d \in before(e) /\ d \notin before(d)
    BY <1>4 DEF Past!Newer
  <2> HIDE DEF before
  <2>3. before(d) \cup {d} \in SUBSET before(e)
    BY <2>1, <2>2
  <2>4. Cardinality(before(d) \cup {d}) = Cardinality(before(d)) + 1
    BY <1>3, <2>2, FS_AddElement
  <2>5. Cardinality(before(d) \cup {d}) <= Cardinality(before(e))
    BY <1>3, <2>3, FS_Subset
  <2> QED BY <1>3, <2>4, <2>5
<1>5. \A d, e \in S : d = e \/ Past!Newer(d, e) \/ Past!Newer(e, d)
  BY DEF Past!Newer
<1> HIDE DEF before, N
<1>6. rank \in Injection(N, 0..(MaxEpisodes - 1))
  <2>1. \A e \in N : rank[e] \in 0..(MaxEpisodes - 1)
    BY <1>1, <1>2, <1>3
  <2>2. ASSUME NEW d \in N, NEW e \in N, rank[d] = rank[e] PROVE d = e
    <3>1. d \in S /\ e \in S /\ Cardinality(before(d)) = Cardinality(before(e))
      BY <1>2, <2>2
    <3>2. ~ (Cardinality(before(d)) < Cardinality(before(e))) /\ ~ (Cardinality(before(e)) < Cardinality(before(d)))
      BY <1>3, <3>1
    <3> QED BY <1>4, <1>5, <3>1, <3>2
  <2> QED BY <2>1, <2>2 DEF Injection, IsInjective
<1>7. IsFiniteSet(0..(MaxEpisodes - 1)) /\ Cardinality(0..(MaxEpisodes - 1)) = MaxEpisodes
  <2>1. 0 \in Int /\ MaxEpisodes - 1 \in Int /\ ~ (0 > MaxEpisodes - 1) /\ (MaxEpisodes - 1) - 0 + 1 = MaxEpisodes
    BY <1>1
  <2> QED BY <2>1, FS_Interval
<1>8. IsFiniteSet(N) /\ Cardinality(N) <= MaxEpisodes
  <2> HIDE DEF rank
  <2> QED BY <1>6, <1>7, FS_Injection
<1> QED BY <1>8 DEF N

\* What a request for the history samples, and the episodes it finds.
From(hours) == Now - hours * Hour
Flags(hours, m) == Past!Anomalous(m, Past!Samples(From(hours), Now, Past!HistoryStep(hours)))
Found(hours, m) == Past!EpisodesOf(m, Flags(hours, m), Past!HistoryStep(hours), Now)
All(hours) == UNION {Found(hours, m) : m \in Watched}
History(hours) ==
    [step |-> Past!HistoryStep(hours), from |-> From(hours), shown |-> Past!Newest(All(hours)),
     machines |-> Past!ByMachine(All(hours)), truncated |-> Past!Greatest(0, Past!Cardinality(All(hours)) - MaxEpisodes)]

LEMMA RequestIs ==
    ASSUME NEW hours \in 1..MaxHours
    PROVE  /\ From(hours) \in Nat \ {0} /\ Past!HistoryStep(hours) \in Nat \ {0} /\ From(hours) <= Now
           /\ \A m : Flags(hours, m) \subseteq Past!Samples(From(hours), Now, Past!HistoryStep(hours))
<1>1. /\ Hour \in Nat \ {0} /\ MaxPoints \in Nat \ {0} /\ MaxHours \in Nat /\ Now \in Nat
      /\ MaxHours * Hour + 1 <= Now /\ hours \in Nat \ {0} /\ hours <= MaxHours
  BY ConstantsAssumption, EpisodesAssumption
<1>2. hours * Hour \in Nat \ {0} /\ hours * Hour <= MaxHours * Hour /\ MaxHours * Hour \in Nat
  <2>1. hours * Hour > 0
    BY <1>1
  <2>2. \E k \in Nat : MaxHours = hours + k
    <3>1. MaxHours - hours \in Nat /\ MaxHours = hours + (MaxHours - hours)
      BY <1>1
    <3> QED BY <3>1
  <2>3. PICK k \in Nat : MaxHours = hours + k
    BY <2>2
  <2>4. MaxHours * Hour = hours * Hour + k * Hour
    BY <1>1, <2>3
  <2>5. k * Hour >= 0 /\ k * Hour \in Int /\ hours * Hour \in Int
    BY <1>1, <2>3
  <2> QED BY <2>1, <2>4, <2>5
<1>3. From(hours) \in Nat \ {0} /\ From(hours) <= Now
  BY <1>1, <1>2 DEF From
<1>4. Past!HistoryStep(hours) \in Nat \ {0}
  <2> DEFINE n == hours * Hour
  <2>1. n \in Nat /\ n # 0
    BY <1>2
  <2>2. Past!HistoryStep(hours) = Past!Ceil(n, MaxPoints)
    BY DEF Past!HistoryStep
  <2> HIDE DEF n
  <2>3. Past!Ceil(n, MaxPoints) \in Nat \ {0}
    BY <1>1, <2>1, CeilIs
  <2> QED BY <2>2, <2>3
<1>5. \A m : Flags(hours, m) \subseteq Past!Samples(From(hours), Now, Past!HistoryStep(hours))
  BY DEF Flags, Past!Anomalous
<1> QED BY <1>3, <1>4, <1>5

LEMMA AllAre ==
    ASSUME NEW hours \in 1..MaxHours
    PROVE  /\ IsFiniteSet(All(hours))
           /\ \A e \in All(hours) : /\ e.machine \in Watched /\ e.start \in Nat
                                    /\ EpisodeOK(e, e.machine, Flags(hours, e.machine), Past!HistoryStep(hours))
           /\ \A d, e \in All(hours) : d.start = e.start /\ d.machine = e.machine => d = e
           /\ \A m \in Watched : {e \in All(hours) : e.machine = m} = Found(hours, m)
<1> DEFINE step == Past!HistoryStep(hours)
<1>1. /\ From(hours) \in Nat \ {0} /\ step \in Nat \ {0}
      /\ \A m : Flags(hours, m) \subseteq Past!Samples(From(hours), Now, step)
  BY RequestIs
<1> HIDE DEF step
<1>2. ASSUME NEW m \in Watched
      PROVE  /\ \A e \in Found(hours, m) : EpisodeOK(e, m, Flags(hours, m), step)
             /\ \A e, f \in Found(hours, m) : e = f \/ e.end < f.start \/ f.end < e.start
             /\ IsFiniteSet(Found(hours, m)) /\ \A u \in Flags(hours, m) : u \in Nat
  <2>1. Flags(hours, m) \subseteq Past!Samples(From(hours), Now, step)
    BY <1>1
  <2>2. Found(hours, m) = Past!EpisodesOf(m, Flags(hours, m), step, Now)
    BY DEF Found, step
  <2> DEFINE times == Flags(hours, m)
  <2> HIDE DEF times
  <2>3. times \subseteq Past!Samples(From(hours), Now, step) /\ Found(hours, m) = Past!EpisodesOf(m, times, step, Now)
    BY <2>1, <2>2 DEF times
  <2>4. /\ \A e \in Found(hours, m) : EpisodeOK(e, m, times, step)
        /\ \A e, f \in Found(hours, m) : e = f \/ e.end < f.start \/ f.end < e.start
    BY <1>1, <2>3, EpisodesAre
  <2>5. IsFiniteSet(Found(hours, m))
    BY <1>1, <2>3, EpisodesFinite
  <2>6. \A u \in times : u \in Nat
    BY <1>1, <2>3, SamplesApart
  <2> QED BY <2>4, <2>5, <2>6 DEF times
<1>3. \A m \in Watched : \A e \in Found(hours, m) : e.machine = m /\ e.start \in Nat /\ e.end \in Nat /\ e.start < e.end
  <2> SUFFICES ASSUME NEW m \in Watched, NEW e \in Found(hours, m)
               PROVE  e.machine = m /\ e.start \in Nat /\ e.end \in Nat /\ e.start < e.end
    OBVIOUS
  <2>1. e.machine = m /\ e.start \in Nat /\ e.end \in Nat /\ e.start <= e.end - step
    BY <1>2 DEF EpisodeOK
  <2> QED BY <1>1, <2>1
<1>4. ASSUME NEW m \in Watched PROVE {e \in All(hours) : e.machine = m} = Found(hours, m)
  BY <1>3 DEF All
<1>5. ASSUME NEW e \in All(hours)
      PROVE  e.machine \in Watched /\ e.start \in Nat /\ EpisodeOK(e, e.machine, Flags(hours, e.machine), step)
  BY <1>2, <1>3 DEF All
<1>6. ASSUME NEW d \in All(hours), NEW e \in All(hours), d.start = e.start, d.machine = e.machine PROVE d = e
  <2>1. PICK m \in Watched : d \in Found(hours, m)
    BY DEF All
  <2>2. PICK n \in Watched : e \in Found(hours, n)
    BY DEF All
  <2>3. m = n
    BY <1>3, <1>6, <2>1, <2>2
  <2>4. d = e \/ d.end < e.start \/ e.end < d.start
    BY <1>2, <2>1, <2>2, <2>3
  <2> QED BY <1>3, <1>6, <2>1, <2>2, <2>4
<1>7. IsFiniteSet(All(hours))
  <2> DEFINE of == [m \in Watched |-> Found(hours, m)]
             sets == {Found(hours, m) : m \in Watched}
  <2>1. of \in Surjection(Watched, sets)
    BY DEF Surjection
  <2>2. IsFiniteSet(sets)
    <3> HIDE DEF of, sets
    <3> QED BY <2>1, EpisodesAssumption, FS_Surjection
  <2>3. \A T \in sets : IsFiniteSet(T)
    BY <1>2
  <2>4. IsFiniteSet(UNION sets)
    <3> HIDE DEF sets
    <3> QED BY <2>2, <2>3, FS_UNION
  <2> QED BY <2>4 DEF All
<1> QED BY <1>4, <1>5, <1>6, <1>7 DEF step

\* What an episode is looked at with, and what is answered.
ChartFrom(e) == IF e.start > ChartPad THEN e.start - ChartPad ELSE 1
ChartTo(e) == Past!Least(e.end + ChartPad, Now)
DetailOf(d, e, hours) ==
    /\ d.step \in Nat \ {0} /\ d.of = <<e, Past!HistoryStep(hours), From(hours)>>
    /\ d.caused = d.step * Past!Cardinality({t \in Past!Anomalous(e.machine, Past!Samples(ChartFrom(e), ChartTo(e), d.step)) :
                                              Past!During(t, e)})
    /\ d.readings = Past!Readings(e) /\ d.predictions \subseteq 0..Now

\* The History tab: what was answered is what the trace says of the hours that were asked for.
PastInv ==
    /\ trace \in [1..Now -> SUBSET Watched]
    /\ history = Past!None \/ \E hours \in 1..MaxHours : history = History(hours)
    /\ detail = Past!NoDetail \/ \E hours \in 1..MaxHours : \E e \in Past!Newest(All(hours)) : DetailOf(detail, e, hours)

LEMMA ShownAre ==
    ASSUME NEW hours \in 1..MaxHours, NEW e \in Past!Newest(All(hours))
    PROVE  /\ e \in All(hours) /\ e.machine \in Watched /\ e.start \in Nat \ {0} /\ e.end \in Nat /\ e.start < e.end
           /\ e.start <= Now /\ e.end - Past!HistoryStep(hours) <= Now /\ e.duration = e.end - e.start
           /\ EpisodeOK(e, e.machine, Flags(hours, e.machine), Past!HistoryStep(hours))
<1> DEFINE step == Past!HistoryStep(hours)
           times == Flags(hours, e.machine)
<1>1. e \in All(hours)
  BY DEF Past!Newest
<1>2. e.machine \in Watched /\ EpisodeOK(e, e.machine, times, step)
  BY <1>1, AllAre
<1>3. From(hours) \in Nat \ {0} /\ step \in Nat \ {0} /\ times \subseteq Past!Samples(From(hours), Now, step)
  BY RequestIs
<1> HIDE DEF step, times
<1>4. \A u \in times : u \in Nat \ {0} /\ u <= Now
  BY <1>3, SamplesApart
<1>5. e.start \in times /\ e.end - step \in times /\ e.start <= e.end - step /\ e.end \in Nat /\ e.duration = e.end - e.start
  BY <1>2 DEF EpisodeOK
<1>6. e.start \in Nat \ {0} /\ e.start <= Now /\ e.end - step <= Now /\ e.start < e.end
  BY <1>3, <1>4, <1>5
<1> QED BY <1>1, <1>2, <1>5, <1>6 DEF step, times

LEMMA PastIsRuns ==
    ASSUME PastInv
    PROVE  Past!EpisodesAreRuns
<1> SUFFICES ASSUME NEW e \in history.shown
             PROVE  LET samples == Past!Anomalous(e.machine, Past!Samples(history.from, Now, history.step))
                    IN /\ \A t \in Past!Samples(e.start, e.end - history.step, history.step) : t \in samples
                       /\ e.end \notin samples /\ (e.start - history.step) \notin samples
  BY DEF Past!EpisodesAreRuns
<1>1. PICK hours \in 1..MaxHours : history = History(hours)
  BY DEF PastInv, Past!None
<1>2. /\ history.step = Past!HistoryStep(hours) /\ history.from = From(hours) /\ e \in Past!Newest(All(hours))
  BY <1>1 DEF History
<1>3. EpisodeOK(e, e.machine, Flags(hours, e.machine), history.step)
  BY <1>2, ShownAre
<1>4. Flags(hours, e.machine) = Past!Anomalous(e.machine, Past!Samples(history.from, Now, history.step))
  BY <1>2 DEF Flags
<1> QED BY <1>3, <1>4 DEF EpisodeOK

LEMMA PastIsTotal ==
    ASSUME PastInv
    PROVE  Past!TotalsAreComplete
<1> SUFFICES ASSUME NEW m \in Watched, history.step # 0,
                    Past!Anomalous(m, Past!Samples(history.from, Now, history.step)) # {}
             PROVE  /\ m \in DOMAIN history.machines
                    /\ history.machines[m].anomalous = history.step *
                         Past!Cardinality(Past!Anomalous(m, Past!Samples(history.from, Now, history.step)))
  BY DEF Past!TotalsAreComplete
<1>1. PICK hours \in 1..MaxHours : history = History(hours)
  BY DEF PastInv, Past!None
<1> DEFINE step == Past!HistoryStep(hours)
           times == Flags(hours, m)
<1>2. history.step = step /\ history.from = From(hours) /\ history.machines = Past!ByMachine(All(hours))
  BY <1>1 DEF History
<1>3. times = Past!Anomalous(m, Past!Samples(history.from, Now, history.step))
  BY <1>2 DEF Flags
<1>4. From(hours) \in Nat \ {0} /\ step \in Nat \ {0} /\ times \subseteq Past!Samples(From(hours), Now, step)
  BY RequestIs
<1>5. Found(hours, m) = Past!EpisodesOf(m, times, step, Now)
  BY DEF Found
<1> HIDE DEF step, times
<1>6. {e \in All(hours) : e.machine = m} = Found(hours, m)
  BY AllAre
<1>7. m \in {e.machine : e \in All(hours)}
  <2>1. PICK u \in times : TRUE
    BY <1>3
  <2>2. PICK e \in Past!EpisodesOf(m, times, step, Now) : TRUE
    BY <1>4, <2>1, EpisodesAre
  <2>3. e \in All(hours) /\ e.machine = m
    BY <1>5, <1>6, <2>2
  <2> QED BY <2>3
<1>8. Past!MapThenSumSet(Past!Duration, Found(hours, m)) = step * Cardinality(times)
  BY <1>4, <1>5, DurationsAdd
<1>9. /\ m \in DOMAIN history.machines
      /\ history.machines[m].anomalous = Past!MapThenSumSet(Past!Duration, {e \in All(hours) : e.machine = m})
  BY <1>2, <1>7 DEF Past!ByMachine
<1> QED BY <1>2, <1>3, <1>6, <1>8, <1>9, PastSizes

LEMMA PastFits ==
    ASSUME PastInv
    PROVE  Past!CausesFit
<1> SUFFICES ASSUME detail.step # 0
             PROVE  /\ detail.caused < detail.of[1].duration + detail.step
                    /\ detail.step = 1 /\ detail.of[2] = 1 => detail.caused = detail.of[1].duration
  BY DEF Past!CausesFit
<1>0. PICK hours \in 1..MaxHours : \E e \in Past!Newest(All(hours)) : DetailOf(detail, e, hours)
  BY DEF PastInv, Past!NoDetail
<1>1. PICK e \in Past!Newest(All(hours)) : DetailOf(detail, e, hours)
  BY <1>0
<1> DEFINE s == detail.step
           from == ChartFrom(e)
           to == ChartTo(e)
           S == {t \in Past!Anomalous(e.machine, Past!Samples(from, to, s)) : Past!During(t, e)}
<1>2. /\ e.start \in Nat \ {0} /\ e.end \in Nat /\ e.start < e.end /\ e.start <= Now
      /\ e.end - Past!HistoryStep(hours) <= Now /\ e.duration = e.end - e.start
      /\ EpisodeOK(e, e.machine, Flags(hours, e.machine), Past!HistoryStep(hours))
  BY ShownAre
<1>3. /\ s \in Nat \ {0} /\ detail.of[1] = e /\ detail.of[2] = Past!HistoryStep(hours)
      /\ detail.caused = s * Cardinality(S)
  BY <1>1, PastSizes DEF DetailOf
<1>4. ChartPad \in Nat /\ Now \in Nat
  BY EpisodesAssumption
<1>5. from \in Int /\ from <= e.start /\ to \in Int /\ (e.end - 1 <= Now => e.end - 1 <= to)
  BY <1>2, <1>4 DEF ChartFrom, ChartTo, Past!Least
<1> HIDE DEF s, from, to
<1>6. \A t \in S : t \in Int /\ e.start <= t /\ t < e.end /\ (t - from) % s = 0
  BY <1>5 DEF Past!Anomalous, Past!Samples, Past!During
<1>7. ASSUME NEW t \in S, NEW u \in S PROVE (t - u) % s = 0
  <2> DEFINE x == t - from
             y == u - from
  <2>1. x \in Int /\ y \in Int /\ x - y = t - u /\ x % s = 0 /\ y % s = 0
    <3>1. t \in Int /\ u \in Int /\ from \in Int
      BY <1>5, <1>6
    <3>2. x % s = 0 /\ y % s = 0
      BY <1>6
    <3>3. x \in Int /\ y \in Int /\ x - y = t - u
      BY <3>1
    <3> QED BY <3>2, <3>3
  <2> HIDE DEF x, y
  <2>2. (x - y) % s = 0
    BY <1>3, <2>1, Multiples
  <2> QED BY <2>1, <2>2
<1>8. IsFiniteSet(S) /\ s * Cardinality(S) < e.end - e.start + s
  <2>1. S \subseteq Int /\ e.start \in Int /\ e.end \in Int /\ e.start < e.end /\ \A t \in S : e.start <= t /\ t < e.end
    BY <1>2, <1>6
  <2> HIDE DEF S
  <2> QED BY <1>3, <1>7, <2>1, FewSamples
<1>9. ASSUME s = 1, Past!HistoryStep(hours) = 1 PROVE s * Cardinality(S) = e.duration
  <2>1. S = e.start..(e.end - 1)
    <3>1. ASSUME NEW t \in e.start..(e.end - 1) PROVE t \in S
      <4>1. t \in Int /\ e.start <= t /\ t <= e.end - 1 /\ t < e.end
        BY <1>2
      <4>2. (t - e.start) % 1 = 0 /\ (t - from) % 1 = 0
        BY <1>2, <1>5, <4>1
      <4>3. t \in Past!Samples(e.start, e.end - 1, 1)
        BY <1>2, <4>1, <4>2 DEF Past!Samples
      <4>4. t \in Flags(hours, e.machine)
        BY <1>2, <1>9, <4>3 DEF EpisodeOK
      <4>5. e.machine \in trace[t]
        BY <4>4 DEF Flags, Past!Anomalous
      <4>6. from <= t /\ t <= to
        BY <1>2, <1>5, <1>9, <4>1
      <4>7. t \in Past!Samples(from, to, s)
        BY <1>5, <1>9, <4>1, <4>2, <4>6 DEF Past!Samples
      <4> QED BY <4>1, <4>5, <4>7 DEF Past!Anomalous, Past!During
    <3>2. ASSUME NEW t \in S PROVE t \in e.start..(e.end - 1)
      BY <1>2, <1>6
    <3> QED BY <3>1, <3>2
  <2>2. Cardinality(e.start..(e.end - 1)) = e.end - e.start
    <3>1. e.start \in Int /\ e.end - 1 \in Int /\ ~ (e.start > e.end - 1) /\ (e.end - 1) - e.start + 1 = e.end - e.start
      BY <1>2
    <3> QED BY <3>1, FS_Interval
  <2> HIDE DEF S
  <2>3. s * Cardinality(S) = e.end - e.start
    BY <1>2, <1>9, <2>1, <2>2
  <2> QED BY <1>2, <2>3
<1> HIDE DEF S
<1> QED BY <1>2, <1>3, <1>8, <1>9 DEF s

LEMMA PastIsRead ==
    ASSUME PastInv
    PROVE  Past!ReadingsComplete
<1> SUFFICES ASSUME detail.step # 0, detail.of[2] <= ReadPad,
                    NEW t \in detail.of[3]..detail.of[1].start, t > 0,
                    \A u \in t..detail.of[1].start : detail.of[1].machine \in trace[u], t + detail.of[2] > detail.of[1].start
             PROVE  (t - 1) \in detail.readings
  BY DEF Past!ReadingsComplete
<1>0. PICK hours \in 1..MaxHours : \E e \in Past!Newest(All(hours)) : DetailOf(detail, e, hours)
  BY DEF PastInv, Past!NoDetail
<1>1. PICK e \in Past!Newest(All(hours)) : DetailOf(detail, e, hours)
  BY <1>0
<1>2. e.start \in Nat \ {0} /\ e.end \in Nat /\ e.start < e.end /\ e.start <= Now
  BY ShownAre
<1>3. /\ detail.of[1] = e /\ detail.of[2] = Past!HistoryStep(hours) /\ detail.of[3] = From(hours)
      /\ detail.readings = Past!Readings(e)
  BY <1>1 DEF DetailOf
<1>4. From(hours) \in Nat \ {0} /\ Past!HistoryStep(hours) \in Nat \ {0} /\ Now \in Nat /\ ReadPad \in Nat
  BY RequestIs, EpisodesAssumption
<1>5. t \in Int /\ t <= e.start /\ 0 < t /\ t \in t..e.start /\ t \in 1..Now
  <2>1. t \in Int /\ t <= e.start
    BY <1>2, <1>3, <1>4
  <2> QED BY <1>2, <1>4, <2>1
<1>6. t \in Past!Anomalous(e.machine, 1..Now)
  BY <1>3, <1>5 DEF Past!Anomalous
<1>7. (t - 1) \in Past!Flagged(e.machine)
  BY <1>6 DEF Past!Flagged
<1>8. e.start <= (t - 1) + ReadPad /\ t - 1 <= e.end + 1
  BY <1>2, <1>3, <1>4, <1>5
<1> QED BY <1>3, <1>7, <1>8 DEF Past!Readings

LEMMA PastTyped ==
    ASSUME PastInv
    PROVE  Past!TypeOK
<1>0. MaxEpisodes \in Nat \ {0} /\ Now \in Nat
  BY ConstantsAssumption, EpisodesAssumption
<1>1. Past!Cardinality(history.shown) <= MaxEpisodes /\ history.truncated \in Nat /\ DOMAIN history.machines \subseteq Watched
  <2>1. CASE history = Past!None
    <3>1. history.shown = {} /\ history.truncated = 0 /\ DOMAIN history.machines = {}
      BY <2>1 DEF Past!None
    <3> QED BY <1>0, <3>1, PastSizes, FS_EmptySet
  <2>2. ASSUME NEW hours \in 1..MaxHours, history = History(hours)
        PROVE  Past!Cardinality(history.shown) <= MaxEpisodes /\ history.truncated \in Nat
               /\ DOMAIN history.machines \subseteq Watched
    <3>1. /\ IsFiniteSet(All(hours)) /\ \A e \in All(hours) : e.machine \in Watched /\ e.machine \in Nat /\ e.start \in Nat
          /\ \A d, e \in All(hours) : d.start = e.start /\ d.machine = e.machine => d = e
      BY AllAre, EpisodesAssumption
    <3>2. /\ history.shown = Past!Newest(All(hours)) /\ history.machines = Past!ByMachine(All(hours))
          /\ history.truncated = Past!Greatest(0, Past!Cardinality(All(hours)) - MaxEpisodes)
      BY <2>2 DEF History
    <3>3. Past!Cardinality(history.shown) <= MaxEpisodes
      BY <3>1, <3>2, NewestFew, PastSizes
    <3>4. history.truncated \in Nat
      <4>1. Past!Cardinality(All(hours)) \in Nat
        BY <3>1, PastSizes, FS_CardinalityType
      <4> QED BY <1>0, <3>2, <4>1 DEF Past!Greatest
    <3>5. DOMAIN history.machines \subseteq Watched
      BY <3>1, <3>2 DEF Past!ByMachine
    <3> QED BY <3>3, <3>4, <3>5
  <2> QED BY <2>1, <2>2 DEF PastInv
<1>2. detail.readings \cup detail.predictions \subseteq 0..Now
  <2>1. CASE detail = Past!NoDetail
    BY <2>1 DEF Past!NoDetail
  <2>2. ASSUME NEW hours \in 1..MaxHours, NEW e \in Past!Newest(All(hours)), DetailOf(detail, e, hours)
        PROVE  detail.readings \cup detail.predictions \subseteq 0..Now
    <3>1. detail.readings = Past!Readings(e) /\ detail.predictions \subseteq 0..Now
      BY <2>2 DEF DetailOf
    <3>2. Past!Readings(e) \subseteq Past!Flagged(e.machine)
      BY DEF Past!Readings
    <3>3. Past!Flagged(e.machine) \subseteq 0..Now
      BY <1>0 DEF Past!Flagged, Past!Anomalous
    <3> QED BY <3>1, <3>2, <3>3
  <2> QED BY <2>1, <2>2 DEF PastInv
<1> QED BY <1>1, <1>2 DEF PastInv, Past!TypeOK

LEMMA PastStart ==
    ASSUME Past!Init
    PROVE  PastInv
BY DEF Past!Init, PastInv

LEMMA PastStep ==
    ASSUME PastInv, Past!Next \/ UNCHANGED past
    PROVE  PastInv'
<1>1. UNCHANGED trace
  BY DEF Past!Next, Past!UiHistory, Past!UiHistoryEpisode, past
<1>2. \A hours : History(hours)' = History(hours) /\ All(hours)' = All(hours)
  BY <1>1 DEF History, All, Found, Flags, Past!Anomalous
<1>3. \A d, e, hours : DetailOf(d, e, hours) => DetailOf(d, e, hours)'
  BY <1>1 DEF DetailOf, Past!Readings, Past!Flagged, Past!Anomalous
<1>4. CASE UNCHANGED past
  BY <1>1, <1>2, <1>3, <1>4 DEF PastInv, past
<1>5. CASE Past!UiHistory
  <2>1. PICK hours \in 1..MaxHours : history' = History(hours)
    BY <1>5 DEF Past!UiHistory, History, All, Found, Flags, From
  <2>2. UNCHANGED detail
    BY <1>5 DEF Past!UiHistory
  <2> QED BY <1>1, <1>2, <1>3, <2>1, <2>2 DEF PastInv
<1>6. CASE Past!UiHistoryEpisode
  <2>1. PICK e \in history.shown :
          LET from == ChartFrom(e)
              to == ChartTo(e)
              step == Past!Greatest(1, Past!Ceil(to - from, Points))
              wanted == {t \in 0..Now : e.start <= t + ReadPad /\ t <= Past!Least(e.end + ReadPad, Now)}
          IN \E predictions \in {wanted, {}} :
               detail' = [step |-> step, of |-> <<e, history.step, history.from>>,
                          caused |-> step * Past!Cardinality({t \in Past!Anomalous(e.machine, Past!Samples(from, to, step)) :
                                                               Past!During(t, e)}),
                          readings |-> Past!Readings(e), predictions |-> predictions]
    BY <1>6 DEF Past!UiHistoryEpisode, ChartFrom, ChartTo
  <2>2. PICK hours \in 1..MaxHours : history = History(hours)
    BY DEF PastInv, Past!None
  <2>3. history.step = Past!HistoryStep(hours) /\ history.from = From(hours) /\ e \in Past!Newest(All(hours))
    BY <2>2 DEF History
  <2> DEFINE from == ChartFrom(e)
             to == ChartTo(e)
             step == Past!Greatest(1, Past!Ceil(to - from, Points))
  <2>4. step \in Nat \ {0}
    <3>1. e.start \in Nat \ {0} /\ e.end \in Nat /\ e.start < e.end /\ e.start <= Now
      BY <2>3, ShownAre
    <3>2. ChartPad \in Nat /\ Now \in Nat /\ Points \in Nat \ {0}
      BY ConstantsAssumption, EpisodesAssumption
    <3>3. to - from \in Nat
      BY <3>1, <3>2 DEF ChartFrom, ChartTo, Past!Least
    <3> HIDE DEF from, to
    <3>4. Past!Ceil(to - from, Points) \in Nat
      BY <3>2, <3>3, CeilIs
    <3> QED BY <3>4 DEF Past!Greatest
  <2> HIDE DEF step
  <2>5. /\ detail'.step = step /\ detail'.of = <<e, Past!HistoryStep(hours), From(hours)>>
        /\ detail'.caused = step * Past!Cardinality({t \in Past!Anomalous(e.machine, Past!Samples(from, to, step)) :
                                                      Past!During(t, e)})
        /\ detail'.readings = Past!Readings(e) /\ detail'.predictions \subseteq 0..Now
    BY <2>1, <2>3 DEF step
  <2>6. DetailOf(detail', e, hours)
    BY <2>4, <2>5 DEF DetailOf
  <2>7. DetailOf(detail, e, hours)'
    BY <1>1, <2>6 DEF DetailOf, Past!Readings, Past!Flagged, Past!Anomalous
  <2>8. e \in Past!Newest(All(hours))'
    BY <1>2, <2>3 DEF Past!Newest
  <2>9. UNCHANGED history
    BY <1>6 DEF Past!UiHistoryEpisode
  <2> QED BY <1>1, <1>2, <2>7, <2>8, <2>9 DEF PastInv
<1> QED BY <1>4, <1>5, <1>6 DEF Past!Next

(***************************************************************************)
(* All of it.                                                              *)
(***************************************************************************)

\* What each part keeps true.
ScoringInv ==
    /\ VerdictsInv /\ FeaturesInv /\ ViewInv /\ BridgeInv
    /\ DatasetInv /\ ReviewInv /\ LiveInv /\ PastInv

LEMMA PartsStep ==
    ASSUME [Next]_vars
    PROVE  /\ Decided!Next \/ UNCHANGED decided
           /\ Shown!Next \/ UNCHANGED shown
           /\ View!Next \/ UNCHANGED view
           /\ Bridge!Next \/ UNCHANGED bridge
           /\ Dataset!Next \/ UNCHANGED dataset
           /\ Judged!Next \/ UNCHANGED judged
           /\ Live!Next \/ UNCHANGED live
           /\ Past!Next \/ UNCHANGED past
<1>1. CASE Next
  BY <1>1 DEF Next
<1>2. CASE UNCHANGED vars
  BY <1>2 DEF vars
<1> QED BY <1>1, <1>2

LEMMA ScoringStarts == Init => ScoringInv
BY VerdictsStart, FeaturesStart, ViewStart, BridgeStart, DatasetStart, ReviewStart, LiveStart, PastStart
   DEF Init, ScoringInv

LEMMA ScoringSteps == ScoringInv /\ [Next]_vars => ScoringInv'
<1> SUFFICES ASSUME ScoringInv, [Next]_vars PROVE ScoringInv'
  OBVIOUS
<1>1. VerdictsInv' /\ FeaturesInv' /\ ViewInv' /\ BridgeInv'
  BY PartsStep, VerdictsStep, FeaturesStep, ViewStep, BridgeStep DEF ScoringInv
<1>2. DatasetInv' /\ ReviewInv' /\ LiveInv' /\ PastInv'
  BY PartsStep, DatasetStep, ReviewStep, LiveStep, PastStep DEF ScoringInv
<1> QED BY <1>1, <1>2 DEF ScoringInv

LEMMA ScoringIsKept == Spec => []ScoringInv
BY ScoringStarts, ScoringSteps, PTL DEF Spec

\* Every part keeps its types, whatever the files, the fleet, the causes and the limits
\* are; the History tab never lists more episodes than its limit.
THEOREM TypeCorrect == Spec => []TypeOK
<1>1. ScoringInv => TypeOK
  BY ReviewTyped, LiveTyped, PastTyped
     DEF ScoringInv, VerdictsInv, FeaturesInv, ViewInv, BridgeInv, DatasetInv, TypeOK
<1> QED BY <1>1, ScoringIsKept, PTL

\* For every telemetry, file and request the API serves a model with the features it was
\* evaluated on and logs what a retraining computes again, and for every causes, thresholds,
\* probabilities and chunk the vote on one row is the vote on many, each row counted once
\* (app.py, preprocess.py, decision.py, train_production.py).
THEOREM ServedAsJudged == Spec => []AsEvaluated
<1>1. ScoringInv => AsEvaluated
  BY FeaturesServed, FeaturesRetrained, VerdictsRowForRow, VerdictsCounted DEF ScoringInv, AsEvaluated
<1> QED BY <1>1, ScoringIsKept, PTL

\* For every history of verdicts, period and limit, a past episode is a run of anomalous
\* samples that cannot be longer, its causes and readings fit it, and the totals count the
\* episodes that are not listed (ui_history, ui_history_episode).
THEOREM PastIsWhole == Spec => []EpisodesAreWhole
<1>1. ScoringInv => EpisodesAreWhole
  BY PastIsRuns, PastIsTotal, PastFits, PastIsRead DEF ScoringInv, EpisodesAreWhole
<1> QED BY <1>1, ScoringIsKept, PTL

\* For every fleet and every share, the Fleet tab and the evaluated rule agree, an effect has
\* a cause and an incident is ranked, the bridge exports one cycle, and a router is shown as
\* unreachable only for machines that were silent (fleet_rules.py, root_cause.py,
\* anomaly_bridge.py, ui_fleet).
THEOREM FleetIsSeen == Spec => ViewsAgree
<1>1. ScoringInv => View!ArraysAgree /\ View!EffectsHaveACause /\ View!IncidentIsRanked /\ Bridge!OneCycleExported
  BY ViewAgrees, ViewEffects, ViewRanked, BridgeExports DEF ScoringInv
<1>2. ScoringInv /\ [Next]_vars =>
        [\A r \in IsRouter :
            page'.step = "shown" /\ page.step = "ages" /\ View!RouterStates(page')[r] = "unreachable" =>
                LET lost == View!Cardinality(silent \cap View!DownstreamOf[r])
                    seen == View!Cardinality({m \in View!DownstreamOf[r] : page.anomalous[m] # View!None})
                IN lost >= MinGroup /\ View!AtLeast(lost, seen, StaleShare)]_(View!vars)
  <2> SUFFICES ASSUME ScoringInv, [Next]_vars, NEW r \in IsRouter,
                      page'.step = "shown", page.step = "ages", View!RouterStates(page')[r] = "unreachable"
               PROVE  LET lost == View!Cardinality(silent \cap View!DownstreamOf[r])
                          seen == View!Cardinality({m \in View!DownstreamOf[r] : page.anomalous[m] # View!None})
                      IN lost >= MinGroup /\ View!AtLeast(lost, seen, StaleShare)
    OBVIOUS
  <2>1. ViewInv /\ (View!Next \/ UNCHANGED view)
    BY PartsStep DEF ScoringInv
  <2> QED BY <2>1, ViewSilent
<1>3. Spec => View!UnreachableIsSilent
  BY <1>2, ScoringIsKept, PTL DEF Spec, View!UnreachableIsSilent
<1> QED BY <1>1, <1>3, ScoringIsKept, PTL DEF ViewsAgree

\* For every file, stream and verdict, a sample's history is its own, a review shows the
\* label of the reading a prediction was made of, a panel's or an agent's, the check of the
\* alerts counts each label where it belongs, and a retraining takes the last exported
\* verdict (app.py, production_agent.py, feedback_examples, safety_net_live.py).
THEOREM LabelsMeanIt == Spec => LabelsAreTrue
<1>1. ScoringInv => /\ Judged!SampleIsWindow /\ Judged!RealIsTrue
                    /\ Live!LabelsOfReadings /\ Live!CountsAreComplete
  BY ReviewIsTrue, LiveIsTrue, LiveCounts DEF ScoringInv
<1>2. ScoringInv /\ [Next]_vars =>
        [Dataset!Train => \A p \in Dataset!Prediction :
            LET label == IF p \in DOMAIN latest THEN Dataset!Label(p, latest[p]) ELSE Dataset!None IN
            IF label = Dataset!None THEN p \notin DOMAIN labels' ELSE p \in DOMAIN labels' /\ labels'[p] = label]_(Dataset!vars)
  <2> SUFFICES ASSUME ScoringInv, Dataset!Train, NEW p \in Dataset!Prediction
               PROVE  LET label == IF p \in DOMAIN latest THEN Dataset!Label(p, latest[p]) ELSE Dataset!None IN
                      IF label = Dataset!None THEN p \notin DOMAIN labels' ELSE p \in DOMAIN labels' /\ labels'[p] = label
    OBVIOUS
  <2> QED BY DatasetLabels DEF ScoringInv
<1>3. Spec => Dataset!LastVerdictCounts
  BY <1>2, ScoringIsKept, PTL DEF Spec, Dataset!LastVerdictCounts
<1> QED BY <1>1, <1>3, ScoringIsKept, PTL DEF LabelsAreTrue

(***************************************************************************)
(* The agent of a machine.                                                 *)
(***************************************************************************)

LEMMA AgentNumbers == Rows \in Nat \ {0} /\ Window \in Nat \ {0}
BY AgentAssumption

\* s is the longest run of reachable rows that ends at row "end", up to Window.
RunTo(s, end) ==
    /\ s \in Seq(Row) /\ Len(s) <= Window
    /\ \A k \in 1..Len(s) : s[k] = end - Len(s) + k /\ s[k] \in reachable
    /\ Len(s) < Window => end - Len(s) = -1 \/ end - Len(s) \notin reachable

AgentRun ==
    /\ thread = "loop" => RunTo(Kept, at - 1)
    /\ thread = "sending" => /\ RunTo(recent, at) /\ at \in reachable
                             /\ carried = IF Len(recent) = Window THEN recent ELSE <<>>
    /\ thread # "sending" => carried = <<>>

AgentInv == AgentTypeOK /\ AgentRun

\* A run that ends before a reachable row, pushed, ends at that row.
LEMMA PushRun ==
    ASSUME NEW s, NEW r \in reachable, reachable \subseteq Row, RunTo(s, r - 1)
    PROVE  RunTo(Push(s, r), r)
<1>. DEFINE p == Push(s, r)
<1>. USE AgentNumbers DEF Row, RunTo
<1>1. s \in Seq(Row) /\ r \in Row /\ Len(s) \in Nat
  OBVIOUS
<1>2. CASE Len(s) = Window
  <2>1. Len(Tail(s)) = Window - 1 /\ Tail(s) \in Seq(Row) /\ \A k \in 1..(Window - 1) : Tail(s)[k] = s[k + 1]
    BY <1>1, <1>2
  <2>2. p = Append(Tail(s), r)
    BY <1>2 DEF Push
  <2>3. p \in Seq(Row) /\ Len(p) = Window /\ p[Window] = r
        /\ \A k \in 1..(Window - 1) : p[k] = s[k + 1]
    BY <1>1, <2>1, <2>2
  <2>4. ASSUME NEW k \in 1..Window PROVE p[k] = r - Window + k /\ p[k] \in reachable
    <3>1. CASE k = Window
      BY <3>1, <2>3, <1>1
    <3>2. CASE k # Window
      BY <3>2, <2>3, <1>1, <1>2
    <3>. QED BY <3>1, <3>2
  <2>. QED BY <2>3, <2>4
<1>3. CASE Len(s) # Window
  <2>1. p = Append(s, r)
    BY <1>3 DEF Push
  <2>2. p \in Seq(Row) /\ Len(p) = Len(s) + 1 /\ p[Len(s) + 1] = r
        /\ \A k \in 1..Len(s) : p[k] = s[k]
    BY <1>1, <2>1
  <2>3. ASSUME NEW k \in 1..Len(p) PROVE p[k] = r - Len(p) + k /\ p[k] \in reachable
    <3>1. CASE k = Len(s) + 1
      BY <3>1, <2>2, <1>1
    <3>2. CASE k # Len(s) + 1
      <4>1. k \in 1..Len(s) /\ p[k] = s[k] /\ r - Len(p) + k = (r - 1) - Len(s) + k
        BY <3>2, <2>2, <1>1
      <4>. QED BY <4>1
    <3>. QED BY <3>1, <3>2
  <2>4. Len(p) < Window => r - Len(p) = -1 \/ r - Len(p) \notin reachable
    BY <1>1, <1>3, <2>2
  <2>. QED BY <1>1, <1>3, <2>2, <2>3, <2>4
<1>. QED BY <1>2, <1>3

\* Nothing is kept: the run to an unreachable row, or to the row before the first.
LEMMA EmptyRun ==
    ASSUME NEW end \in Int, end = -1 \/ end \notin reachable
    PROVE  RunTo(<<>>, end)
BY AgentNumbers DEF RunTo, Row

LEMMA AgentStarts == AgentInit => AgentInv
<1>. DEFINE none == <<>>
<1>1. none \in Seq(Row) /\ Len(none) = 0 /\ Len(none) <= Window /\ 0 \in Row
  BY AgentNumbers DEF Row
<1>. HIDE DEF none
<1>3. AgentInit => AgentTypeOK
  <2>. SUFFICES ASSUME AgentInit PROVE AgentTypeOK
    OBVIOUS
  <2>1. recent = none /\ carried = none /\ at = 0
    BY DEF AgentInit, none
  <2>2. /\ at \in Row
        /\ recent \in Seq(Row) /\ Len(recent) <= Window
        /\ carried \in Seq(Row) /\ Len(carried) \in {0, Window}
    BY <1>1, <2>1
  <2>3. reachable \subseteq Row /\ begun \in BOOLEAN /\ thread \in {"loop", "sending", "dead"}
    BY DEF AgentInit
  <2>. QED BY <2>2, <2>3 DEF AgentTypeOK
<1>2. AgentInit => AgentRun
  BY EmptyRun DEF AgentInit, AgentRun, Kept
<1>. QED BY <1>2, <1>3 DEF AgentInv

\* The row after the one just done, and what is kept there.
LEMMA AdvanceRun ==
    ASSUME AgentTypeOK, Advance, reachable' = reachable, RunTo(recent', at)
    PROVE  at' \in Row /\ RunTo(Kept, at - 1)'
<1>1. at' \in Row
  BY AgentNumbers DEF AgentTypeOK, Advance, Row
<1>2. CASE at = Rows - 1
  <2>1. at' = 0 /\ Kept' = <<>>
    BY <1>2, AgentNumbers DEF Advance, Kept, AgentTypeOK, Row
  <2>2. RunTo(<<>>, -1)
    BY EmptyRun
  <2>. QED BY <1>1, <2>1, <2>2 DEF RunTo
<1>3. CASE at # Rows - 1
  <2>0. at \in Nat /\ at + 1 < Rows /\ Rows \in Nat
    BY <1>3, AgentNumbers DEF AgentTypeOK, Row
  <2>1. at' = at + 1 /\ at' # 0 /\ at' - 1 = at
    BY <2>0 DEF Advance
  <2>2. Kept' = recent'
    BY <2>1 DEF Kept
  <2>. QED BY <1>1, <2>1, <2>2 DEF RunTo
<1>. QED BY <1>2, <1>3

LEMMA AgentSteps == AgentInv /\ [AgentNext]_agentVars => AgentInv'
<1>. SUFFICES ASSUME AgentInv, [AgentNext]_agentVars PROVE AgentInv'
  OBVIOUS
<1>. USE DEF AgentInv
<1>1. CASE Skip
  <2>1. RunTo(<<>>, at)
    BY <1>1, EmptyRun DEF Skip, AgentTypeOK, Row
  <2>2. at' \in Row /\ RunTo(Kept, at - 1)'
    BY <1>1, <2>1, AdvanceRun DEF Skip
  <2>3. AgentTypeOK'
    BY <1>1, <2>2, AgentNumbers DEF Skip, Advance, AgentTypeOK
  <2>. QED BY <1>1, <2>2, <2>3 DEF Skip, AgentRun
<1>2. CASE Send
  <2>1. RunTo(Push(Kept, at), at)
    BY <1>2, PushRun DEF Send, AgentRun, AgentTypeOK
  <2>2. RunTo(recent, at)'
    BY <1>2, <2>1 DEF Send, RunTo
  <2>3. AgentTypeOK'
    BY <1>2, <2>2, AgentNumbers DEF Send, AgentTypeOK, RunTo
  <2>. QED BY <1>2, <2>2, <2>3 DEF Send, AgentRun
<1>3. CASE Returns
  <2>1. at' \in Row /\ RunTo(Kept, at - 1)'
    BY <1>3, AdvanceRun DEF Returns, AgentRun
  <2>2. AgentTypeOK'
    BY <1>3, <2>1, AgentNumbers DEF Returns, Advance, AgentTypeOK
  <2>. QED BY <1>3, <2>1, <2>2 DEF Returns, AgentRun
<1>4. CASE Raises
  BY <1>4 DEF Raises, AgentTypeOK, AgentRun
<1>5. CASE UNCHANGED agentVars
  BY <1>5 DEF agentVars, AgentTypeOK, AgentRun, RunTo, Kept
<1>. QED BY <1>1, <1>2, <1>3, <1>4, <1>5 DEF AgentNext

LEMMA AgentKeeps == AgentInv => GenuineHistory /\ HistoryGiven
<1>. SUFFICES ASSUME AgentInv PROVE GenuineHistory /\ HistoryGiven
  OBVIOUS
<1>. USE AgentNumbers DEF AgentInv, AgentRun, RunTo, AgentTypeOK, Row
<1>1. GenuineHistory
  BY DEF GenuineHistory
<1>2. HistoryGiven
  <2>. SUFFICES ASSUME thread = "sending", carried = <<>>, ~(at + 1 < Window)
                PROVE  \E r \in Row : r > at - Window /\ r < at /\ r \notin reachable
    BY DEF HistoryGiven
  <2>1. Len(recent) < Window /\ Len(recent) \in Nat
    OBVIOUS
  <2>2. at - Len(recent) # -1
    BY <2>1
  <2>3. at - Len(recent) \notin reachable
    BY <2>1, <2>2
  <2>. QED BY <2>1, <2>2, <2>3
<1>. QED BY <1>1, <1>2

\* Every state has values of the right types.
THEOREM AgentTyped == AgentSpec => []AgentTypeOK
<1>1. AgentInv => AgentTypeOK
  BY DEF AgentInv
<1>. QED BY AgentStarts, AgentSteps, <1>1, PTL DEF AgentSpec

\* The history of a request is the machine's own last readings, without a gap
\* (machine_agent), for any window, any rows and any outages.
THEOREM HistoryIsGenuine == AgentSpec => []GenuineHistory
BY AgentStarts, AgentSteps, AgentKeeps, PTL DEF AgentSpec

\* A history that exists is sent: the API serves the rolling-features model as
\* soon and as long as the machine has enough readings (machine_agent).
THEOREM HistoryIsGiven == AgentSpec => []HistoryGiven
BY AgentStarts, AgentSteps, AgentKeeps, PTL DEF AgentSpec
=============================================================================
