------------------------ MODULE CameraSensor_proofs ------------------------
(***************************************************************************)
(* What CameraSensor promises, for every set of readings and every setting *)
(* of the voting.  The voting is about lists of any length, and its sum is *)
(* a recursive function: facts about both are proved by taking a smallest  *)
(* counterexample (LeastNat) instead of by induction.                      *)
(***************************************************************************)
EXTENDS CameraSensor, SequenceTheorems, FiniteSetTheorems, TLAPS

(* A set of natural numbers that is not empty has a least one. *)
LEMMA LeastNat ==
  ASSUME NEW T \in SUBSET Nat, T # {}
  PROVE  \E x \in T : \A y \in T : x <= y
<1> DEFINE R == OpToRel(<, Nat)
<1>1. PICK x \in T : \A y \in T : ~(<<y, x>> \in R)
  BY NatLessThanWellFounded, WFMin
<1>2. \A y \in Nat : y < x => <<y, x>> \in R
  BY DEF OpToRel
<1> HIDE DEF R
<1>3. ASSUME NEW y \in T PROVE x <= y
  <2>1. ~(y < x)
    BY <1>1, <1>2
  <2>. QED
    BY <2>1
<1>. QED
  BY <1>3

(* f has the sums of w's first 0, 1, ..., top numbers. *)
PrefixSums(f, w, top) ==
  \A n \in 0 .. top : f[n] = IF n = 0 THEN 0 ELSE f[n - 1] + w[n]

(* Every list of small numbers has prefix sums, and they are small too: so *)
(* the recursion in TotalConfidence defines a function.                    *)
LEMMA PrefixSumsExist ==
  ASSUME NEW top \in Nat, NEW bound \in Nat, NEW w \in [1 .. top -> 0 .. bound]
  PROVE  \E f \in [0 .. top -> Nat] :
           PrefixSums(f, w, top) /\ f[top] <= bound * top
<1> DEFINE Has(m) == \E f \in [0 .. m -> Nat] : PrefixSums(f, w, m) /\ f[m] <= bound * m
           Bad == {m \in 0 .. top : ~Has(m)}
<1>1. SUFFICES ASSUME top \in Bad PROVE FALSE
  OBVIOUS
<1>2. PICK m \in Bad : \A k \in Bad : m <= k
  <2> HIDE DEF Has
  <2>1. Bad \in SUBSET Nat /\ Bad # {}
    BY <1>1
  <2> HIDE DEF Bad
  <2>. QED
    BY <2>1, LeastNat
<1>3. Has(0)
  <2> DEFINE z == [n \in 0 .. 0 |-> 0]
  <2>1. z \in [0 .. 0 -> Nat] /\ z[0] = 0 /\ bound * 0 = 0
    OBVIOUS
  <2>2. PrefixSums(z, w, 0)
    BY DEF PrefixSums
  <2>. QED
    BY <2>1, <2>2
<1>4. m \in 0 .. top /\ ~Has(m)
  OBVIOUS
<1>5. m \in 1 .. top /\ m - 1 \in 0 .. top
  <2>1. m # 0
    BY <1>3, <1>4
  <2>. QED
    BY <1>4, <2>1
<1>6. Has(m - 1)
  <2> HIDE DEF Has
  <2>1. m - 1 \notin Bad
    <3> HIDE DEF Bad
    <3>. QED
      BY <1>2, <1>5
  <2>. QED
    BY <1>5, <2>1
<1>7. PICK f \in [0 .. m - 1 -> Nat] :
        PrefixSums(f, w, m - 1) /\ f[m - 1] <= bound * (m - 1)
  BY <1>6
<1> DEFINE g == [n \in 0 .. m |-> IF n = m THEN f[m - 1] + w[m] ELSE f[n]]
<1>8. w[m] \in 0 .. bound /\ f[m - 1] \in Nat
  BY <1>5
<1>9. g \in [0 .. m -> Nat]
  BY <1>5, <1>8
<1>10. PrefixSums(g, w, m)
  <2>1. ASSUME NEW n \in 0 .. m
        PROVE  g[n] = IF n = 0 THEN 0 ELSE g[n - 1] + w[n]
    <3>1. CASE n = m
      BY <1>5, <3>1
    <3>2. CASE n # m
      <4>1. n \in 0 .. m - 1 /\ g[n] = f[n] /\ (n # 0 => g[n - 1] = f[n - 1])
        BY <1>5, <3>2
      <4>2. f[n] = IF n = 0 THEN 0 ELSE f[n - 1] + w[n]
        BY <1>7, <4>1 DEF PrefixSums
      <4>. QED
        BY <4>1, <4>2
    <3>. QED
      BY <3>1, <3>2
  <2> HIDE DEF g
  <2>. QED
    BY <2>1 DEF PrefixSums
<1>11. g[m] <= bound * m
  <2>1. bound * (m - 1) + bound = bound * m
    BY <1>5
  <2>2. bound * (m - 1) \in Int /\ bound * m \in Int
    BY <1>5
  <2>3. g[m] = f[m - 1] + w[m]
    BY <1>5
  <2>. QED
    BY <1>7, <1>8, <2>1, <2>2, <2>3
<1>12. Has(m)
  <2> HIDE DEF g
  <2>. QED
    BY <1>9, <1>10, <1>11
<1>. QED
  BY <1>4, <1>12

(* A list has only one list of prefix sums. *)
LEMMA PrefixSumsAgree ==
  ASSUME NEW top \in Nat, NEW w, NEW f, NEW g,
         PrefixSums(f, w, top), PrefixSums(g, w, top)
  PROVE  f[top] = g[top]
<1> DEFINE Bad == {m \in 0 .. top : f[m] # g[m]}
<1>1. SUFFICES ASSUME top \in Bad PROVE FALSE
  OBVIOUS
<1>2. PICK m \in Bad : \A k \in Bad : m <= k
  <2>1. Bad \in SUBSET Nat /\ Bad # {}
    BY <1>1
  <2> HIDE DEF Bad
  <2>. QED
    BY <2>1, LeastNat
<1>3. /\ f[m] = IF m = 0 THEN 0 ELSE f[m - 1] + w[m]
      /\ g[m] = IF m = 0 THEN 0 ELSE g[m - 1] + w[m]
  BY DEF PrefixSums
<1>4. m # 0 => f[m - 1] = g[m - 1]
  BY <1>2
<1>. QED
  BY <1>3, <1>4

(* The confidences of some of n observations add up to at most n times the *)
(* greatest one: what makes Votes a lexicographic order.                   *)
LEMMA TotalBounds ==
  ASSUME NEW S, NEW bound \in Nat, NEW I,
         NEW obs \in Seq([plate : S, confidence : 0 .. bound])
  PROVE  TotalConfidence(I, obs) \in 0 .. bound * Len(obs)
<1> DEFINE top    == Len(obs)
           w      == [n \in 1 .. top |-> IF n \in I THEN obs[n].confidence ELSE 0]
           Def(h) == h = [n \in 0 .. top |->
                            IF n = 0 THEN 0
                            ELSE h[n - 1] + (IF n \in I THEN obs[n].confidence ELSE 0)]
           sum    == CHOOSE h : Def(h)
<1>1. top \in Nat
  OBVIOUS
<1>2. w \in [1 .. top -> 0 .. bound]
  <2>1. \A n \in 1 .. top : obs[n] \in [plate : S, confidence : 0 .. bound]
    BY ElementOfSeq
  <2>. QED
    BY <2>1
<1>3. PICK f \in [0 .. top -> Nat] : PrefixSums(f, w, top) /\ f[top] <= bound * top
  <2> HIDE DEF w, top
  <2>. QED
    BY <1>1, <1>2, PrefixSumsExist
<1>4. \A n \in 1 .. top : w[n] = IF n \in I THEN obs[n].confidence ELSE 0
  OBVIOUS
<1> HIDE DEF w, top
<1>5. Def(f)
  <2>1. ASSUME NEW n \in 0 .. top
        PROVE  f[n] = IF n = 0 THEN 0
                      ELSE f[n - 1] + (IF n \in I THEN obs[n].confidence ELSE 0)
    <3>1. f[n] = IF n = 0 THEN 0 ELSE f[n - 1] + w[n]
      BY <1>3 DEF PrefixSums
    <3>2. n # 0 => n \in 1 .. top
      BY <1>1
    <3>. QED
      BY <1>4, <3>1, <3>2
  <2>. QED
    BY <2>1
<1>6. Def(sum)
  BY <1>5
<1>7. PrefixSums(sum, w, top)
  <2> HIDE DEF sum
  <2>1. ASSUME NEW n \in 0 .. top
        PROVE  sum[n] = IF n = 0 THEN 0 ELSE sum[n - 1] + w[n]
    <3>1. sum[n] = IF n = 0 THEN 0
                   ELSE sum[n - 1] + (IF n \in I THEN obs[n].confidence ELSE 0)
      BY <1>6
    <3>2. n # 0 => n \in 1 .. top
      BY <1>1
    <3>. QED
      BY <1>4, <3>1, <3>2
  <2>. QED
    BY <2>1 DEF PrefixSums
<1>8. sum[top] = f[top]
  <2> HIDE DEF sum
  <2>. QED
    BY <1>1, <1>3, <1>7, PrefixSumsAgree
<1>9. TotalConfidence(I, obs) = sum[top]
  BY DEF TotalConfidence, top
<1>10. f[top] \in 0 .. bound * top
  <2>1. bound * top \in Nat /\ f[top] \in Nat
    BY <1>1
  <2>. QED
    BY <1>3, <2>1
<1>. QED
  BY <1>8, <1>9, <1>10 DEF top

--------------------------------------------------------------------------------
(* The position that FirstBest takes. *)
IsFirstBest(rank, I, i) ==
  \A j \in I : rank[i] >= rank[j] /\ (rank[i] = rank[j] => i <= j)

(* Among finitely many positions there is one that max takes, and it is    *)
(* ranked as high as any.                                                  *)
LEMMA FirstBestIsBest ==
  ASSUME NEW top \in Nat, NEW I \in SUBSET (1 .. top), I # {}, NEW rank \in [I -> Int]
  PROVE  FirstBest(rank) \in I /\ \A j \in I : rank[FirstBest(rank)] >= rank[j]
<1> DEFINE Has(J) == \E i \in J : IsFirstBest(rank, J, i)
           Bad == {m \in 0 .. top : ~(I \cap (1 .. m) # {} => Has(I \cap (1 .. m)))}
<1>1. Bad = {}
  <2>1. SUFFICES ASSUME Bad # {} PROVE FALSE
    OBVIOUS
  <2>2. PICK m \in Bad : \A k \in Bad : m <= k
    <3> HIDE DEF Has
    <3>1. Bad \in SUBSET Nat
      OBVIOUS
    <3> HIDE DEF Bad
    <3>. QED
      BY <2>1, <3>1, LeastNat
  <2> DEFINE J == I \cap (1 .. m)
             K == I \cap (1 .. m - 1)
  <2>3. m \in 0 .. top /\ J # {} /\ ~Has(J)
    OBVIOUS
  <2>4. m \in 1 .. top /\ m - 1 \in 0 .. top
    BY <2>3
  <2>5. K # {} => Has(K)
    <3> HIDE DEF Has
    <3>1. m - 1 \notin Bad
      <4> HIDE DEF Bad
      <4>. QED
        BY <2>2, <2>4
    <3>. QED
      BY <2>4, <3>1
  <2>6. J = IF m \in I THEN K \cup {m} ELSE K
    BY <2>4
  <2>7. m \in I
    <3> HIDE DEF Has, J, K
    <3>. QED
      BY <2>3, <2>5, <2>6
  <2>8. \A j \in K : j \in I /\ j < m /\ j \in Nat /\ rank[j] \in Int
    BY <2>4
  <2>9. rank[m] \in Int
    BY <2>7
  <2>10. CASE K = {}
    <3>1. J = {m}
      BY <2>6, <2>7, <2>10
    <3>2. IsFirstBest(rank, J, m)
      BY <2>4, <2>9, <3>1 DEF IsFirstBest
    <3>. QED
      BY <2>3, <3>1, <3>2
  <2>11. CASE K # {}
    <3>1. PICK i \in K : IsFirstBest(rank, K, i)
      BY <2>5, <2>11
    <3> HIDE DEF K
    <3>2. J = K \cup {m}
      BY <2>6, <2>7
    <3> HIDE DEF J
    <3>3. CASE rank[m] > rank[i]
      <4>1. IsFirstBest(rank, J, m)
        BY <2>4, <2>8, <2>9, <3>1, <3>2, <3>3 DEF IsFirstBest
      <4>. QED
        BY <2>3, <3>2, <4>1
    <3>4. CASE ~(rank[m] > rank[i])
      <4>1. IsFirstBest(rank, J, i)
        BY <2>4, <2>8, <2>9, <3>1, <3>2, <3>4 DEF IsFirstBest
      <4>. QED
        BY <2>3, <3>2, <4>1
    <3>. QED
      BY <3>3, <3>4
  <2>. QED
    BY <2>10, <2>11
<1>2. I \cap (1 .. top) = I
  OBVIOUS
<1>3. Has(I)
  <2> HIDE DEF Has
  <2>1. top \notin Bad
    BY <1>1
  <2>. QED
    BY <1>2, <2>1
<1>4. DOMAIN rank = I
  OBVIOUS
<1>. QED
  BY <1>3, <1>4 DEF FirstBest, IsFirstBest

(* A list has as many positions as it is long. *)
LEMMA ObservedFinite ==
  ASSUME NEW S, NEW obs \in Seq(S), NEW I \in SUBSET DOMAIN obs
  PROVE  /\ IsFiniteSet(DOMAIN obs) /\ Cardinality(DOMAIN obs) = Len(obs)
         /\ IsFiniteSet(I) /\ Cardinality(I) \in Nat
<1>1. DOMAIN obs = 1 .. Len(obs) /\ Len(obs) \in Nat
  OBVIOUS
<1>2. IsFiniteSet(1 .. Len(obs)) /\ Cardinality(1 .. Len(obs)) = Len(obs)
  <2>1. ASSUME NEW n \in Nat PROVE IsFiniteSet(1 .. n) /\ Cardinality(1 .. n) = n
    <3>1. 1 \in Int /\ n \in Int
      OBVIOUS
    <3>2. IsFiniteSet(1 .. n) /\ Cardinality(1 .. n) = IF 1 > n THEN 0 ELSE n - 1 + 1
      BY <3>1, FS_Interval, Zenon
    <3>. QED
      BY <3>2
  <2>. QED
    BY <1>1, <2>1
<1>. QED
  BY <1>1, <1>2, FS_Subset, FS_CardinalityType

(* The shape of a plate never counts against it. *)
LEMMA ShapeScoreNat ==
  ASSUME NEW plate
  PROVE  ShapeScore(plate) \in Nat
  BY DEF ShapeScore

--------------------------------------------------------------------------------
(* What OcrAssumption says of a reading. *)
Observation == [plate : Seq(Letters \cup Digits), confidence : 0 .. 100]

(* t is a sum of confidences, c a number of readings, l the length of both *)
(* plates, s the points that each reading of either gets for its shape.    *)
LEMMA ScoreArithmetic ==
  ASSUME NEW t1 \in Nat, NEW t2 \in Nat, NEW c1 \in Nat, NEW c2 \in Nat,
         NEW l \in Nat, NEW s \in Nat, s > 0,
         t1 * l + c1 * s >= t2 * l + c2 * s, t1 <= t2
  PROVE  c1 >= c2
<1>1. SUFFICES ASSUME c1 < c2 PROVE FALSE
  OBVIOUS
<1>2. t1 * l <= t2 * l
  OBVIOUS
<1>3. c1 * s < c2 * s
  BY <1>1
<1>4. t1 * l \in Nat /\ t2 * l \in Nat /\ c1 * s \in Nat /\ c2 * s \in Nat
  OBVIOUS
<1>. QED
  BY <1>2, <1>3, <1>4

(* The score of the plate that is read is the highest. *)
LEMMA UnbeatenChoice ==
  ASSUME NEW obs \in Seq(Observation), obs # <<>>
  PROVE  ChosenIsUnbeaten(obs)
<1> DEFINE rank   == [i \in DOMAIN obs |-> AggregateScore(obs[i].plate, obs)]
           first  == FirstBest(rank)
           chosen == obs[first].plate
           mine   == Observed(chosen, obs)
<1>1. Len(obs) \in Nat /\ DOMAIN obs = 1 .. Len(obs) /\ DOMAIN obs # {}
  OBVIOUS
<1>2. \A i \in DOMAIN obs : /\ obs[i] \in Observation
                            /\ Len(obs[i].plate) \in Nat
  <2>1. \A i \in DOMAIN obs : obs[i] \in Observation
    BY <1>1, ElementOfSeq
  <2>. QED
    BY <2>1 DEF Observation
<1>3. ASSUME NEW I PROVE TotalConfidence(I, obs) \in Nat
  <2>1. TotalConfidence(I, obs) \in 0 .. 100 * Len(obs)
    BY TotalBounds, 100 \in Nat DEF Observation
  <2>. QED
    BY <1>1, <2>1
<1>4. ASSUME NEW plate
      PROVE  /\ Observed(plate, obs) \subseteq DOMAIN obs
             /\ Cardinality(Observed(plate, obs)) \in Nat
  <2>1. Observed(plate, obs) \in SUBSET DOMAIN obs
    BY DEF Observed
  <2>. QED
    BY <2>1, ObservedFinite
<1>5. ASSUME NEW i \in DOMAIN obs PROVE AggregateScore(obs[i].plate, obs) \in Int
  <2>1. Len(obs[i].plate) \in Nat
    BY <1>2
  <2> DEFINE p == obs[i].plate
             t == TotalConfidence(Observed(p, obs), obs)
             c == Cardinality(Observed(p, obs))
             s == ShapeScore(p)
  <2>2. t \in Nat /\ c \in Nat /\ s \in Nat
    BY <1>3, <1>4, ShapeScoreNat
  <2>3. AggregateScore(p, obs) = t * Len(p) + c * (s + 200)
    BY DEF AggregateScore
  <2> HIDE DEF t, c, s
  <2>. QED
    BY <2>1, <2>2, <2>3
<1>6. rank \in [DOMAIN obs -> Int]
  BY <1>5
<1>7. first \in DOMAIN obs /\ \A j \in DOMAIN obs : rank[first] >= rank[j]
  <2> HIDE DEF rank
  <2>. QED
    BY <1>1, <1>6, FirstBestIsBest
<1>8. \A j \in DOMAIN obs : AggregateScore(chosen, obs) >= AggregateScore(obs[j].plate, obs)
  <2>1. \A j \in DOMAIN obs : rank[j] = AggregateScore(obs[j].plate, obs)
    OBVIOUS
  <2> HIDE DEF rank
  <2>. QED
    BY <1>7, <2>1
<1>9. BestObservedPlate(obs) = chosen
  BY DEF BestObservedPlate
<1> HIDE DEF rank, first
<1>10. mine # {}
  BY <1>7 DEF Observed
<1>11. ASSUME NEW j \in DOMAIN obs,
              Len(obs[j].plate) = Len(chosen),
              ShapeScore(obs[j].plate) = ShapeScore(chosen),
              ~(TotalConfidence(mine, obs) > TotalConfidence(Observed(obs[j].plate, obs), obs))
       PROVE  Cardinality(mine) >= Cardinality(Observed(obs[j].plate, obs))
  <2> DEFINE t1 == TotalConfidence(mine, obs)
             c1 == Cardinality(mine)
             t2 == TotalConfidence(Observed(obs[j].plate, obs), obs)
             c2 == Cardinality(Observed(obs[j].plate, obs))
             l  == Len(chosen)
             s  == ShapeScore(chosen) + 200
  <2>1. t1 \in Nat /\ t2 \in Nat /\ c1 \in Nat /\ c2 \in Nat
    BY <1>3, <1>4
  <2>2. l \in Nat
    BY <1>2, <1>7
  <2>3. s \in Nat /\ s > 0
    BY ShapeScoreNat
  <2>4. t1 * l + c1 * s >= t2 * l + c2 * s
    BY <1>8, <1>11 DEF AggregateScore
  <2>5. t1 <= t2
    <3>1. ~(t1 > t2)
      BY <1>11
    <3> HIDE DEF t1, t2
    <3>. QED
      BY <2>1, <3>1
  <2> HIDE DEF t1, t2, c1, c2, l, s
  <2>6. c1 >= c2
    BY <2>1, <2>2, <2>3, <2>4, <2>5, ScoreArithmetic
  <2>. QED
    BY <2>6 DEF c1, c2
<1> HIDE DEF chosen, mine
<1>12. mine = Observed(BestObservedPlate(obs), obs)
  BY <1>9 DEF mine
<1>. QED
  BY <1>9, <1>10, <1>11, <1>12 DEF ChosenIsUnbeaten

--------------------------------------------------------------------------------
(* The last MaxObservations of a list. *)
LEMMA RecentAreObservations ==
  ASSUME NEW S, NEW obs \in Seq(S)
  PROVE  RecentObservations(obs) \in Seq(S)
<1>1. CASE MaxObservations < 1 \/ Len(obs) <= MaxObservations
  BY <1>1 DEF RecentObservations
<1>2. CASE ~(MaxObservations < 1 \/ Len(obs) <= MaxObservations)
  <2> DEFINE m == Len(obs) - MaxObservations + 1
             n == Len(obs)
  <2>1. MaxObservations \in Nat /\ Len(obs) \in Nat
    BY VotingAssumption
  <2>2. m \in Int /\ n \in Int /\ m \in 1 .. n
    BY <1>2, <2>1
  <2>3. \A i \in m .. n : obs[i] \in S
    BY <2>1, <2>2, ElementOfSeq
  <2> HIDE DEF m, n
  <2>4. SubSeq(obs, m, n) \in Seq(S)
    BY <2>2, <2>3, SubSeqProperties
  <2>. QED
    BY <1>2, <2>4 DEF RecentObservations, m, n
<1>. QED
  BY <1>1, <1>2

(* Two majorities of the observations have one in common. *)
LEMMA MajoritiesMeet ==
  ASSUME NEW S, NEW obs \in Seq(S), NEW I \in SUBSET DOMAIN obs, NEW J \in SUBSET DOMAIN obs,
         2 * Cardinality(I) > Len(obs), 2 * Cardinality(J) > Len(obs)
  PROVE  I \cap J # {}
<1>1. /\ IsFiniteSet(DOMAIN obs) /\ Cardinality(DOMAIN obs) = Len(obs)
      /\ Cardinality(I) \in Nat /\ Cardinality(J) \in Nat /\ Len(obs) \in Nat
  BY ObservedFinite
<1>2. Cardinality(I) + Cardinality(J) > Cardinality(DOMAIN obs)
  BY <1>1
<1>. QED
  BY <1>1, <1>2, FS_MajoritiesIntersect

(* Votes compares the numbers first. *)
LEMMA MoreVotesAreMore ==
  ASSUME NEW c1 \in Nat, NEW c2 \in Nat, NEW n \in Nat,
         NEW t1 \in 0 .. 100 * n, NEW t2 \in 0 .. 100 * n,
         c1 * (100 * n + 1) + t1 >= c2 * (100 * n + 1) + t2
  PROVE  c1 >= c2
<1>1. SUFFICES ASSUME c1 + 1 <= c2 PROVE FALSE
  OBVIOUS
<1> DEFINE w == 100 * n + 1
<1>2. w \in Nat /\ t1 < w /\ t1 \in Nat /\ t2 \in Nat /\ w > 0
  OBVIOUS
<1>3. c1 * w + t1 >= c2 * w + t2
  OBVIOUS
<1> HIDE DEF w
<1>4. (c1 + 1) * w <= c2 * w
  BY <1>1, <1>2
<1>5. (c1 + 1) * w = c1 * w + w
  BY <1>2
<1>6. c1 * w \in Nat /\ c2 * w \in Nat
  BY <1>2
<1>. QED
  BY <1>2, <1>3, <1>4, <1>5, <1>6

(* Who has the most votes has most supporters. *)
LEMMA BestHasMostSupporters ==
  ASSUME NEW obs \in Seq(Observation),
         NEW I \in SUBSET DOMAIN obs, I # {},
         NEW group \in [I -> SUBSET DOMAIN obs]
  PROVE  LET best == FirstBest([i \in I |-> Votes(group[i], obs)])
         IN  /\ best \in I
             /\ \A i \in I : Cardinality(group[best]) >= Cardinality(group[i])
<1> DEFINE rank == [i \in I |-> Votes(group[i], obs)]
           best == FirstBest(rank)
           n    == Len(obs)
<1>1. n \in Nat /\ DOMAIN obs = 1 .. n
  OBVIOUS
<1>2. ASSUME NEW i \in I
      PROVE  /\ Cardinality(group[i]) \in Nat
             /\ TotalConfidence(group[i], obs) \in 0 .. 100 * n
             /\ rank[i] = Cardinality(group[i]) * (100 * n + 1) + TotalConfidence(group[i], obs)
             /\ rank[i] \in Int
  <2> DEFINE c == Cardinality(group[i])
             t == TotalConfidence(group[i], obs)
  <2>1. c \in Nat
    BY ObservedFinite
  <2>2. t \in 0 .. 100 * n
    BY TotalBounds, 100 \in Nat DEF Observation
  <2>3. rank[i] = c * (100 * n + 1) + t
    BY DEF Votes
  <2> HIDE DEF c, t, rank, n
  <2>4. rank[i] \in Int
    BY <1>1, <2>1, <2>2, <2>3
  <2>. QED
    BY <2>1, <2>2, <2>3, <2>4 DEF c, t
<1>3. rank \in [I -> Int]
  BY <1>2
<1>4. best \in I /\ \A j \in I : rank[best] >= rank[j]
  <2> HIDE DEF rank, n
  <2>. QED
    BY <1>1, <1>3, FirstBestIsBest
<1>5. ASSUME NEW i \in I PROVE Cardinality(group[best]) >= Cardinality(group[i])
  <2> HIDE DEF rank, best, n
  <2> DEFINE c1 == Cardinality(group[best])
             c2 == Cardinality(group[i])
             t1 == TotalConfidence(group[best], obs)
             t2 == TotalConfidence(group[i], obs)
  <2>1. /\ c1 \in Nat /\ t1 \in 0 .. 100 * n /\ c2 \in Nat /\ t2 \in 0 .. 100 * n
        /\ rank[best] = c1 * (100 * n + 1) + t1 /\ rank[i] = c2 * (100 * n + 1) + t2
    BY <1>2, <1>4
  <2>2. rank[best] >= rank[i]
    BY <1>4
  <2> HIDE DEF c1, c2, t1, t2
  <2>3. c1 >= c2
    BY <1>1, <2>1, <2>2, MoreVotesAreMore
  <2>. QED
    BY <2>3 DEF c1, c2
<1>. QED
  BY <1>4, <1>5

(* The greatest cluster has a majority's plate in it, so its center is     *)
(* within one character of that plate and all of the majority is in it.    *)
LEMMA MajorityCluster ==
  ASSUME NEW obs \in Seq(Observation), NEW i \in DOMAIN obs,
         2 * Cardinality(Observed(obs[i].plate, obs)) > Len(obs)
  PROVE  /\ BestCluster(obs) \subseteq {j \in DOMAIN obs : Len(obs[j].plate) = Len(obs[i].plate)}
         /\ Observed(obs[i].plate, obs) \subseteq BestCluster(obs)
<1> DEFINE group  == [j \in DOMAIN obs |-> Cluster(obs[j].plate, obs)]
           center == FirstBest([j \in DOMAIN obs |-> Votes(group[j], obs)])
           same   == Observed(obs[i].plate, obs)
<1>1. Len(obs) \in Nat /\ DOMAIN obs = 1 .. Len(obs) /\ obs # <<>>
  OBVIOUS
<1>2. \A j \in DOMAIN obs : obs[j].plate \in Seq(Letters \cup Digits)
  <2>1. \A j \in DOMAIN obs : obs[j] \in Observation
    BY <1>1, ElementOfSeq
  <2>. QED
    BY <2>1 DEF Observation
<1>3. group \in [DOMAIN obs -> SUBSET DOMAIN obs]
  BY DEF Cluster
<1>4. center \in DOMAIN obs /\ \A j \in DOMAIN obs : Cardinality(group[center]) >= Cardinality(group[j])
  <2>1. DOMAIN obs \in SUBSET DOMAIN obs /\ DOMAIN obs # {}
    OBVIOUS
  <2> HIDE DEF group
  <2>. QED
    BY <1>3, <2>1, BestHasMostSupporters
<1>5. BestCluster(obs) = group[center]
  <2> DEFINE rank == [j \in DOMAIN obs |-> Votes(Cluster(obs[j].plate, obs), obs)]
  <2>1. rank = [j \in DOMAIN obs |-> Votes(group[j], obs)]
    OBVIOUS
  <2>2. BestCluster(obs) = Cluster(obs[FirstBest(rank)].plate, obs)
    BY <1>1 DEF BestCluster
  <2>3. FirstBest(rank) = center
    BY <2>1
  <2> HIDE DEF rank, center
  <2>. QED
    BY <1>4, <2>2, <2>3
<1> HIDE DEF center
<1>6. same \in SUBSET DOMAIN obs /\ same \subseteq group[i]
  <2>1. \A j \in same : PlatesCompatible(obs[i].plate, obs[j].plate)
    <3> DEFINE p == obs[i].plate
    <3>1. {k \in DOMAIN p : p[k] # p[k]} = {}
      OBVIOUS
    <3>2. PlatesCompatible(p, p)
      <4> HIDE DEF p
      <4>1. Cardinality({k \in DOMAIN p : p[k] # p[k]}) = 0
        BY <3>1, FS_EmptySet
      <4>. QED
        BY <4>1 DEF PlatesCompatible
    <3>. QED
      BY <3>2 DEF Observed
  <2>. QED
    BY <2>1 DEF Observed, Cluster
<1>7. Cardinality(group[i]) >= Cardinality(same)
  <2>1. IsFiniteSet(group[i])
    BY <1>3, ObservedFinite
  <2>. QED
    BY <1>6, <2>1, FS_Subset
<1>8. 2 * Cardinality(group[center]) > Len(obs)
  <2> DEFINE c1 == Cardinality(group[center])
             c2 == Cardinality(group[i])
             c3 == Cardinality(same)
  <2>1. c1 \in Nat /\ c2 \in Nat /\ c3 \in Nat
    BY <1>3, <1>4, <1>6, ObservedFinite
  <2>2. c1 >= c2 /\ c2 >= c3 /\ 2 * c3 > Len(obs)
    BY <1>4, <1>7
  <2> HIDE DEF c1, c2, c3
  <2>3. 2 * c1 > Len(obs)
    BY <1>1, <2>1, <2>2
  <2>. QED
    BY <2>3 DEF c1
<1>9. PICK j \in same : j \in group[center]
  <2> DEFINE I == group[center]
  <2>1. I \in SUBSET DOMAIN obs /\ 2 * Cardinality(I) > Len(obs)
    BY <1>3, <1>4, <1>8
  <2> HIDE DEF I
  <2>2. same \cap I # {}
    BY <1>6, <2>1, MajoritiesMeet
  <2>. QED
    BY <2>2 DEF I
<1>10. obs[j].plate = obs[i].plate
  BY DEF Observed
<1>11. PlatesCompatible(obs[center].plate, obs[i].plate)
  BY <1>4, <1>9, <1>10 DEF Cluster
<1>12. same \subseteq group[center]
  BY <1>4, <1>11 DEF Observed, Cluster
<1>13. group[center] \subseteq {k \in DOMAIN obs : Len(obs[k].plate) = Len(obs[i].plate)}
  BY <1>4, <1>11 DEF Cluster, PlatesCompatible
<1>. QED
  BY <1>5, <1>12, <1>13

(* In each position the character of the majority is elected. *)
LEMMA MajorityIsMerged ==
  ASSUME NEW obs \in Seq(Observation), NEW i \in DOMAIN obs,
         2 * Cardinality(Observed(obs[i].plate, obs)) > Len(obs)
  PROVE  MergePlateCluster(BestCluster(obs), obs) = obs[i].plate
<1> DEFINE p    == obs[i].plate
           same == Observed(p, obs)
           I    == BestCluster(obs)
<1>1. Len(obs) \in Nat /\ DOMAIN obs = 1 .. Len(obs) /\ obs[i] \in Observation
  BY ElementOfSeq
<1>2. p \in Seq(Letters \cup Digits)
  BY <1>1 DEF Observation
<1>3. /\ I \in SUBSET DOMAIN obs /\ same \subseteq I
      /\ \A j \in I : Len(obs[j].plate) = Len(p)
  BY MajorityCluster
<1>4. same \in SUBSET DOMAIN obs /\ i \in same /\ 2 * Cardinality(same) > Len(obs)
  BY DEF Observed
<1>5. I # {}
  BY <1>3, <1>4
<1> HIDE DEF I
<1>6. Min(I) \in I
  <2>1. I \in SUBSET Nat
    BY <1>1, <1>3
  <2>2. \E x \in I : \A y \in I : x <= y
    BY <1>5, <2>1, LeastNat
  <2>. QED
    BY <2>2 DEF Min
<1>7. DOMAIN obs[Min(I)].plate = DOMAIN p
  <2>1. obs[Min(I)] \in Observation /\ Len(obs[Min(I)].plate) = Len(p)
    BY <1>1, <1>3, <1>6, ElementOfSeq
  <2>. QED
    BY <1>2, <2>1 DEF Observation
<1> DEFINE supporters(j, k) == {h \in I : obs[h].plate[k] = obs[j].plate[k]}
           elected(k)       == FirstBest([j \in I |-> Votes(supporters(j, k), obs)])
<1>8. ASSUME NEW k \in DOMAIN p PROVE obs[elected(k)].plate[k] = p[k]
  <2> DEFINE group == [j \in I |-> supporters(j, k)]
             best  == FirstBest([j \in I |-> Votes(group[j], obs)])
  <2>1. group \in [I -> SUBSET DOMAIN obs]
    BY <1>3
  <2>2. best \in I /\ \A j \in I : Cardinality(group[best]) >= Cardinality(group[j])
    <3> HIDE DEF group
    <3>. QED
      BY <1>3, <1>5, <2>1, BestHasMostSupporters
  <2>3. elected(k) = best
    <3>1. [j \in I |-> Votes(supporters(j, k), obs)] = [j \in I |-> Votes(group[j], obs)]
      OBVIOUS
    <3>. QED
      BY <3>1
  <2> HIDE DEF best
  <2>4. i \in I /\ same \subseteq group[i]
    BY <1>3, <1>4 DEF Observed
  <2>5. 2 * Cardinality(group[best]) > Len(obs)
    <3> DEFINE c1 == Cardinality(group[best])
               c2 == Cardinality(group[i])
               c3 == Cardinality(same)
    <3>1. IsFiniteSet(group[i]) /\ c1 \in Nat /\ c2 \in Nat /\ c3 \in Nat
      BY <1>4, <2>1, <2>2, <2>4, ObservedFinite
    <3>2. c2 >= c3
      BY <2>4, <3>1, FS_Subset
    <3>3. c1 >= c2 /\ 2 * c3 > Len(obs)
      BY <1>4, <2>2, <2>4
    <3> HIDE DEF c1, c2, c3
    <3>4. 2 * c1 > Len(obs)
      BY <1>1, <3>1, <3>2, <3>3
    <3>. QED
      BY <3>4 DEF c1
  <2>6. PICK j \in same : j \in group[best]
    <3> DEFINE J == group[best]
    <3>1. J \in SUBSET DOMAIN obs /\ 2 * Cardinality(J) > Len(obs)
      BY <2>1, <2>2, <2>5
    <3> HIDE DEF J
    <3>2. same \cap J # {}
      BY <1>4, <3>1, MajoritiesMeet
    <3>. QED
      BY <3>2 DEF J
  <2>7. obs[j].plate[k] = obs[best].plate[k]
    BY <2>2, <2>6
  <2>8. obs[j].plate = p
    BY DEF Observed
  <2>. QED
    BY <2>3, <2>7, <2>8
<1>9. MergePlateCluster(I, obs) = [k \in DOMAIN p |-> obs[elected(k)].plate[k]]
  BY <1>7 DEF MergePlateCluster
<1> HIDE DEF elected
<1>10. MergePlateCluster(I, obs) = [k \in DOMAIN p |-> p[k]]
  BY <1>8, <1>9
<1>11. p = [k \in DOMAIN p |-> p[k]]
  BY <1>2
<1>. QED
  BY <1>10, <1>11 DEF I

(* The merged plate is then repeated as often as the majority votes. *)
LEMMA MajorityConfirmed ==
  ASSUME NEW observations \in Seq(Observation)
  PROVE  MajorityIsConfirmed(observations)
<1> DEFINE obs == RecentObservations(observations)
<1>1. obs \in Seq(Observation)
  BY RecentAreObservations
<1>2. ASSUME NEW i \in DOMAIN obs,
             2 * Cardinality(Observed(obs[i].plate, obs)) > Len(obs),
             Cardinality(Observed(obs[i].plate, obs)) >= RequiredConfirmations,
             Cardinality(Observed(obs[i].plate, obs)) >= RequiredRepeats,
             ~(RequiredConfirmations <= 1)
      PROVE  ConfirmedLicensePlate(observations) = obs[i].plate
  <2> DEFINE p    == obs[i].plate
             same == Observed(p, obs)
             I    == BestCluster(obs)
  <2> HIDE DEF obs
  <2>1. MergePlateCluster(I, obs) = p
    BY <1>1, <1>2, MajorityIsMerged
  <2>2. same \subseteq I /\ I \in SUBSET DOMAIN obs
    BY <1>1, <1>2, MajorityCluster
  <2>3. I \cap same = same
    BY <2>2
  <2>4. Cardinality(I) >= Cardinality(same) /\ Cardinality(I) \in Nat /\ Cardinality(same) \in Nat
    <3> HIDE DEF I, same
    <3>1. IsFiniteSet(I) /\ Cardinality(I) \in Nat
      BY <1>1, <2>2, ObservedFinite
    <3>2. Cardinality(same) \in Nat
      BY <1>1, <2>2, ObservedFinite
    <3>. QED
      BY <2>2, <3>1, <3>2, FS_Subset
  <2>5. Cardinality(I) >= RequiredConfirmations
    BY <1>2, <2>4, VotingAssumption
  <2>6. Cardinality(I \cap same) >= RequiredRepeats
    BY <1>2, <2>3
  <2>. QED
    BY <1>2, <2>1, <2>5, <2>6 DEF ConfirmedLicensePlate, obs
<1>. QED
  BY <1>2 DEF MajorityIsConfirmed

--------------------------------------------------------------------------------
(* In the countdown the newest frame is last_frame; after it, it is        *)
(* captured_frame or, as long as there is none of these, still last_frame. *)
FrameInv ==
  /\ frames \in Nat
  /\ pc \in {"load", "construct", "open", "configure", "countdown"} =>
       captured_frame = 0 /\ last_frame = frames
  /\ pc = "capture" => captured_frame = 0 /\ last_frame = frames /\ frames > 0
  /\ pc = "choose" =>
       /\ frames > 0
       /\ \/ captured_frame = frames
          \/ captured_frame = 0 /\ last_frame = frames

(* The camera is open only between OpenCamera and the end of the capture;  *)
(* the frame is the newest.  Of the readings it suffices that they are     *)
(* readings: what voting makes of them is proved for every list.           *)
CaptureInv ==
  /\ pc \in {"idle", "load", "construct", "open", "configure", "countdown", "capture",
             "choose", "preprocess", "ocr"}
  /\ candidates \in Seq(Observation)
  /\ pc \in {"idle", "load", "construct", "open"} => "current" \notin cameras
  /\ pc # "idle" => outcome # "plate"
  /\ FrameInv /\ NewestFrameIsRead

(* It holds before the first capture. *)
LEMMA CaptureInvInit == Init => CaptureInv
  BY DEF Init, CaptureInv, FrameInv, NewestFrameIsRead

(* Each step of a capture preserves it, whatever fails. *)
LEMMA CaptureInvNext == CaptureInv /\ [Next]_vars => CaptureInv'
<1> SUFFICES ASSUME CaptureInv, [Next]_vars PROVE CaptureInv'
  OBVIOUS
<1> USE DEF CaptureInv, FrameInv, NewestFrameIsRead
<1>1. CASE Begin
  BY <1>1 DEF Begin
<1>2. CASE DropException
  BY <1>2 DEF DropException, readerVars, frameVars, ocrVars
<1>3. ASSUME CaptureStep PROVE CaptureInv'
  <2>1. CASE Load
    BY <2>1 DEF Load, Fail, End, readerVars, frameVars, ocrVars
  <2>2. CASE Construct
    BY <2>2 DEF Construct, Fail, Escape, End, readerVars, frameVars, ocrVars
  <2>3. CASE OpenCamera
    BY <2>3 DEF OpenCamera, Fail, Escape, End, readerVars, frameVars, ocrVars
  <2>4. CASE ConfigureCamera
    BY <2>4 DEF ConfigureCamera, Escape, End, readerVars, frameVars, ocrVars
  <2>5. CASE RunCountdown
    BY <2>5 DEF RunCountdown, GotFrame, NoFrame, Fail, End, readerVars, frameVars, ocrVars
  <2>6. CASE CountdownOver
    BY <2>6 DEF CountdownOver, Fail, End, readerVars, frameVars, ocrVars
  <2>7. CASE CaptureNextAvailableFrame
    BY <2>7 DEF CaptureNextAvailableFrame, GotFrame, NoFrame, Fail, End, readerVars, frameVars,
                ocrVars
  <2>8. CASE ChooseFrame
    BY <2>8 DEF ChooseFrame, readerVars, ocrVars
  <2>9. CASE PreprocessFrames
    BY <2>9 DEF PreprocessFrames, Fail, End, readerVars, frameVars, ocrVars
  <2>10. CASE ReadImage
    <3>1. ASSUME NEW n \in 0 .. MaxReadings - Len(candidates),
                 NEW pairs \in [1 .. n -> {r \in OcrReadings : Usable(r)}],
                 candidates' = candidates \o pairs
          PROVE  candidates' \in Seq(Observation)
      <4>1. pairs \in Seq(Observation)
        <5>1. n \in Nat /\ OcrReadings \subseteq Observation
          BY CameraAssumption, OcrAssumption DEF Observation
        <5>. QED
          BY <5>1
      <4>. QED
        BY <3>1, <4>1
    <3>2. candidates' \in Seq(Observation)
      BY <2>10, <3>1 DEF ReadImage, SeqOf, Fail, ocrVars
    <3>. QED
      BY <2>10, <3>2 DEF ReadImage, Fail, End, readerVars, frameVars, ocrVars
  <2>11. CASE Recognize
    BY <2>11 DEF Recognize, End, readerVars, frameVars, ocrVars
  <2>. QED
    BY <1>3, <2>1, <2>2, <2>3, <2>4, <2>5, <2>6, <2>7, <2>8, <2>9, <2>10, <2>11
       DEF CaptureStep
<1>4. CASE UNCHANGED vars
  BY <1>4 DEF vars
<1>. QED
  BY <1>1, <1>2, <1>3, <1>4 DEF Next

(* So it always holds. *)
LEMMA CaptureInvAlways == Spec => []CaptureInv
  BY CaptureInvInit, CaptureInvNext, PTL DEF Spec

(* Whatever a capture raises, the camera is released before the next one   *)
(* may open it (the finally of read_license_plate).                        *)
THEOREM CameraIsReleased == Spec => []CameraReleased
<1>1. CaptureInv => CameraReleased
  BY DEF CaptureInv, CameraReleased
<1>. QED
  BY <1>1, CaptureInvAlways, PTL

(* OCR is given the last frame that the camera delivered. *)
THEOREM FrameIsNewest == Spec => []NewestFrameIsRead
<1>1. CaptureInv => NewestFrameIsRead
  BY DEF CaptureInv, NewestFrameIsRead
<1>. QED
  BY <1>1, CaptureInvAlways, PTL

(* No plate of the same length and shape was read more often and at least  *)
(* as surely as the one that _best_observed_plate takes.                   *)
THEOREM NoPlateBeatsTheChosen == Spec => []PlateIsUnbeaten
<1>1. ASSUME candidates = <<>> PROVE ChosenIsUnbeaten(candidates)
  BY <1>1 DEF ChosenIsUnbeaten
<1>2. CaptureInv => PlateIsUnbeaten
  BY <1>1, UnbeatenChoice DEF CaptureInv, PlateIsUnbeaten
<1>. QED
  BY <1>2, CaptureInvAlways, PTL

(* _confirmed_license_plate confirms what most recent readings say, if     *)
(* there are enough of them for its two limits.                            *)
THEOREM MajorityIsHeard == Spec => []MajorityWins
<1>1. CaptureInv => MajorityWins
  BY MajorityConfirmed DEF CaptureInv, MajorityWins
<1>. QED
  BY <1>1, CaptureInvAlways, PTL

================================================================================
