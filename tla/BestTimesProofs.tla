------------------------------ MODULE BestTimesProofs ------------------------------
(***************************************************************************)
(* Proofs about BestTimes: for any hours, days, rates and thresholds the   *)
(* hours that are recommended are the ones that have earned it.            *)
(*                                                                         *)
(* The report adds up with SumFunction, a fold over a set.  That the fold  *)
(* is a sum at all (SumUnfolds) is an induction over the number of the     *)
(* elements; it is done by the least number for which the claim is false,  *)
(* since a set of numbers that is not empty has a least one.               *)
(***************************************************************************)
EXTENDS BestTimes, TLAPS, FiniteSetTheorems, NaturalsInduction, WellFoundedInduction

\* A set of numbers that is not empty has a least element.
LEMMA LeastNumber ==
  ASSUME NEW S \in SUBSET Nat, S # {}
  PROVE  \E n \in S : \A m \in S : n <= m
<1> DEFINE Less == {ss \in Nat \X Nat : ss[1] < ss[2]}
<1>1. IsWellFoundedOn(Less, Nat)
  BY NatLessThanWellFounded DEF OpToRel
<1>2. PICK n \in S : \A x \in S : <<x, n>> \notin Less
  <2> HIDE DEF Less
  <2> QED
    BY <1>1, WFMin
<1>3. ASSUME NEW x \in S PROVE n <= x
  <2>1. n \in Nat /\ x \in Nat /\ <<x, n>> \notin Less
    BY <1>2
  <2>2. ~(x < n)
    BY <2>1
  <2> QED
    BY <2>1, <2>2
<1> QED
  BY <1>3

-------------------------------------------------------------------------------
(* Sums *)

\* The element a fold takes next.
First(s) == CHOOSE x \in s : TRUE

\* One step of a fold over s that knows the sums of smaller sets.
Unfolded(F, sum, s) == IF s = {} THEN 0 ELSE F[First(s)] + sum[s \ {First(s)}]

\* The sums of the subsets of a finite set exist.
LEMMA SumsExist ==
  ASSUME NEW F, NEW D, IsFiniteSet(D)
  PROVE  \E sum : sum = [s \in SUBSET D |-> Unfolded(F, sum, s)]
<1> DEFINE Small(n) == {s \in SUBSET D : Cardinality(s) <= n}
           Sums(n)  == \E sum : sum = [s \in Small(n) |-> Unfolded(F, sum, s)]
           Bad      == {n \in Nat : ~Sums(n)}
<1>1. \A s \in SUBSET D : IsFiniteSet(s) /\ Cardinality(s) \in Nat
  BY FS_Subset, FS_CardinalityType
<1>2. ASSUME NEW n \in Nat, n = 0 \/ Sums(n - 1) PROVE Sums(n)
  <2>1. PICK g : n = 0 \/ g = [s \in Small(n - 1) |-> Unfolded(F, g, s)]
    BY <1>2
  <2> DEFINE sum == [s \in Small(n) |-> Unfolded(F, g, s)]
  <2>2. ASSUME NEW s \in Small(n) PROVE sum[s] = Unfolded(F, sum, s)
    <3>1. CASE s = {}
      BY <3>1 DEF Unfolded
    <3>2. CASE s # {}
      <4>1. First(s) \in s
        BY <3>2 DEF First
      <4>2. s \ {First(s)} \in SUBSET D /\ Cardinality(s \ {First(s)}) = Cardinality(s) - 1
        BY <1>1, <4>1, FS_RemoveElement
      <4>3. n # 0
        BY <1>1, <3>2, FS_EmptySet
      <4>4. s \ {First(s)} \in Small(n - 1) /\ s \ {First(s)} \in Small(n)
        BY <1>1, <4>2
      <4>5. sum[s \ {First(s)}] = g[s \ {First(s)}]
        <5>1. sum[s \ {First(s)}] = Unfolded(F, g, s \ {First(s)})
          BY <4>4
        <5>2. g[s \ {First(s)}] = Unfolded(F, g, s \ {First(s)})
          BY <2>1, <4>3, <4>4
        <5> QED
          BY <5>1, <5>2
      <4>6. sum[s] = Unfolded(F, g, s)
        OBVIOUS
      <4> HIDE DEF sum
      <4> QED
        BY <3>2, <4>5, <4>6 DEF Unfolded
    <3> QED
      BY <3>1, <3>2
  <2>3. sum = [s \in Small(n) |-> Unfolded(F, sum, s)]
    <3>1. sum = [s \in Small(n) |-> sum[s]]
      OBVIOUS
    <3> HIDE DEF sum
    <3> QED
      BY <2>2, <3>1
  <2> HIDE DEF sum
  <2> QED
    BY <2>3
<1>3. Bad = {}
  <2> SUFFICES ASSUME Bad # {} PROVE FALSE
    OBVIOUS
  <2>1. PICK n \in Bad : \A m \in Bad : n <= m
    BY LeastNumber
  <2>2. n \in Nat /\ ~Sums(n)
    OBVIOUS
  <2>3. n = 0 \/ (n - 1 \in Nat /\ n - 1 \notin Bad)
    <3> HIDE DEF Bad
    <3> QED
      BY <2>1, <2>2
  <2>4. n = 0 \/ Sums(n - 1)
    BY <2>3
  <2> QED
    BY <1>2, <2>2, <2>4
<1>4. Cardinality(D) \in Nat /\ Small(Cardinality(D)) = SUBSET D
  BY FS_CardinalityType, FS_Subset
<1>5. Sums(Cardinality(D))
  <2> HIDE DEF Sums
  <2> QED
    BY <1>3, <1>4
<1> QED
  BY <1>4, <1>5

\* SumFunction adds up one element after the other.
LEMMA SumUnfolds ==
  ASSUME NEW F, IsFiniteSet(DOMAIN F)
  PROVE  \E sum : /\ SumFunction(F) = sum[DOMAIN F]
                  /\ \A s \in SUBSET DOMAIN F : sum[s] = Unfolded(F, sum, s)
<1> DEFINE Sums(sum) == sum = [s \in SUBSET DOMAIN F |-> Unfolded(F, sum, s)]
<1>1. SumFunction(F) = (CHOOSE sum : Sums(sum))[DOMAIN F]
  BY DEF SumFunction, SumFunctionOnSet, FoldFunctionOnSet, MapThenFoldSet, Unfolded, First
<1>2. \E sum : Sums(sum)
  BY SumsExist
<1>3. Sums(CHOOSE sum : Sums(sum))
  <2> HIDE DEF Sums
  <2> QED
    BY <1>2
<1>4. PICK sum : sum = (CHOOSE x : Sums(x))
  OBVIOUS
<1>5. Sums(sum)
  BY <1>3, <1>4
<1>6. \A s \in SUBSET DOMAIN F : sum[s] = Unfolded(F, sum, s)
  BY <1>5
<1> HIDE DEF Sums
<1> QED
  BY <1>1, <1>4, <1>6

\* What holds of a set if it holds of the set without an element chosen from it,
\* holds of all subsets: the induction the next lemmas share.
LEMMA NoLeastFailure ==
  ASSUME NEW D, IsFiniteSet(D), NEW Failing \in SUBSET (SUBSET D),
         \A s \in Failing : s # {} /\ s \ {First(s)} \in Failing
  PROVE  Failing = {}
<1> SUFFICES ASSUME Failing # {} PROVE FALSE
  OBVIOUS
<1> DEFINE Sizes == {n \in Nat : \E s \in Failing : Cardinality(s) = n}
<1>1. \A s \in Failing : IsFiniteSet(s) /\ Cardinality(s) \in Nat
  BY FS_Subset, FS_CardinalityType
<1>2. Sizes # {}
  BY <1>1
<1>3. PICK n \in Sizes : \A m \in Sizes : n <= m
  BY <1>2, LeastNumber
<1>4. PICK s \in Failing : Cardinality(s) = n
  OBVIOUS
<1>5. First(s) \in s
  BY DEF First
<1>6. /\ Cardinality(s \ {First(s)}) = n - 1
      /\ s \ {First(s)} \in Failing
  BY <1>1, <1>4, <1>5, FS_RemoveElement
<1>7. n - 1 \in Sizes
  BY <1>1, <1>6
<1> QED
  BY <1>3, <1>7

\* A sum of natural numbers is one.
LEMMA SumIsNat ==
  ASSUME NEW F, IsFiniteSet(DOMAIN F), \A x \in DOMAIN F : F[x] \in Nat
  PROVE  SumFunction(F) \in Nat
<1>1. PICK sum : /\ SumFunction(F) = sum[DOMAIN F]
                 /\ \A s \in SUBSET DOMAIN F : sum[s] = Unfolded(F, sum, s)
  BY SumUnfolds
<1> DEFINE Failing == {s \in SUBSET DOMAIN F : sum[s] \notin Nat}
<1>2. ASSUME NEW s \in Failing PROVE s # {} /\ s \ {First(s)} \in Failing
  <2>1. s # {}
    BY <1>1 DEF Unfolded
  <2>2. First(s) \in s
    BY <2>1 DEF First
  <2>3. sum[s] = F[First(s)] + sum[s \ {First(s)}] /\ F[First(s)] \in Nat
    BY <1>1, <2>1, <2>2 DEF Unfolded
  <2> QED
    BY <2>1, <2>2, <2>3
<1>3. Failing = {}
  <2>1. Failing \in SUBSET (SUBSET DOMAIN F)
    OBVIOUS
  <2> HIDE DEF Failing
  <2> QED
    BY <1>2, <2>1, NoLeastFailure
<1> QED
  BY <1>1, <1>3

\* Counting by place counts everything once.
LEMMA SumCounts ==
  ASSUME NEW D, IsFiniteSet(D), NEW S, IsFiniteSet(S), NEW place \in [S -> D]
  PROVE  SumFunction([d \in D |-> Cardinality({p \in S : place[p] = d})]) = Cardinality(S)
<1> DEFINE At(d)   == {p \in S : place[p] = d}
           In(s)   == {p \in S : place[p] \in s}
           F       == [d \in D |-> Cardinality(At(d))]
<1>1. PICK sum : /\ SumFunction(F) = sum[D]
                 /\ \A s \in SUBSET D : sum[s] = Unfolded(F, sum, s)
  <2>1. DOMAIN F = D
    OBVIOUS
  <2> HIDE DEF F
  <2> QED
    BY <2>1, SumUnfolds
<1>f. \A T \in SUBSET S : IsFiniteSet(T) /\ Cardinality(T) \in Nat
  BY FS_Subset, FS_CardinalityType
<1> DEFINE Failing == {s \in SUBSET D : sum[s] # Cardinality(In(s))}
<1>2. ASSUME NEW s \in Failing PROVE s # {} /\ s \ {First(s)} \in Failing
  <2>1. s # {}
    <3>1. In({}) = {} /\ Cardinality({}) = 0
      BY FS_EmptySet
    <3>2. sum[{}] = 0
      BY <1>1 DEF Unfolded
    <3> QED
      BY <3>1, <3>2
  <2> DEFINE x == First(s)
             r == s \ {First(s)}
  <2>2. x \in s /\ x \in D /\ r \in SUBSET D
    BY <2>1 DEF First
  <2>3. sum[s] = Cardinality(At(x)) + sum[r]
    BY <1>1, <2>1, <2>2 DEF Unfolded
  <2>4. In(s) = At(x) \cup In(r) /\ At(x) \cap In(r) = {}
    BY <2>2
  <2>5. At(x) \in SUBSET S /\ In(r) \in SUBSET S
    OBVIOUS
  <2> HIDE DEF At, In, x
  <2>6. Cardinality(In(s)) = Cardinality(At(x)) + Cardinality(In(r))
    <3>1. Cardinality(At(x) \cup In(r))
            = Cardinality(At(x)) + Cardinality(In(r)) - Cardinality(At(x) \cap In(r))
      BY <1>f, <2>5, FS_Union
    <3>2. Cardinality(At(x)) \in Nat /\ Cardinality(In(r)) \in Nat
      BY <1>f, <2>5
    <3>3. Cardinality(At(x) \cap In(r)) = 0
      BY <2>4, FS_EmptySet
    <3>4. Cardinality(In(s)) = Cardinality(At(x) \cup In(r))
      BY <2>4
    <3> HIDE DEF r
    <3> QED
      BY <3>1, <3>2, <3>3, <3>4
  <2>7. sum[r] # Cardinality(In(r))
    BY <2>3, <2>6
  <2> QED
    BY <2>1, <2>2, <2>7
<1>3. Failing = {}
  <2>1. Failing \in SUBSET (SUBSET D)
    OBVIOUS
  <2> HIDE DEF Failing
  <2> QED
    BY <1>2, <2>1, NoLeastFailure
<1>4. sum[D] = Cardinality(In(D)) /\ In(D) = S
  BY <1>3
<1> QED
  BY <1>1, <1>4

-------------------------------------------------------------------------------
(* The tables *)

\* The rows of a post, by day.
Rows == UNION {[D -> Rates \cup {Unusable}] : D \in SUBSET Days}

\* d is the day of the latest of the rows.
IsLatest(rows, d) == d \in DOMAIN rows /\ \A e \in DOMAIN rows : e <= d

\* Every post that was measured has a latest row.
Measured ==
  /\ hour \in Seq(Hours)
  /\ metrics \in Seq(Rows)
  /\ Len(metrics) = Len(hour)
  /\ \A p \in 1 .. Len(hour) : DOMAIN metrics[p] # {} => \E d \in Days : IsLatest(metrics[p], d)

\* The tables keep this form.
LEMMA StaysMeasured == Measured /\ [Gather]_reportVars => Measured'
<1> SUFFICES ASSUME Measured, [Gather]_reportVars PROVE Measured'
  OBVIOUS
<1>t. /\ hour \in Seq(Hours) /\ metrics \in Seq(Rows) /\ Len(metrics) = Len(hour)
      /\ Len(hour) \in Nat /\ DOMAIN hour = 1 .. Len(hour)
  BY DEF Measured
<1>1. ASSUME NEW h \in Hours, GoOut(h) PROVE Measured'
  <2> DEFINE none == [d \in {} |-> Unusable]
  <2>1. none \in Rows /\ DOMAIN none = {}
    BY DEF Rows
  <2>2. hour' = Append(hour, h) /\ metrics' = Append(metrics, none)
    BY <1>1 DEF GoOut
  <2> HIDE DEF none
  <2>3. /\ hour' \in Seq(Hours) /\ metrics' \in Seq(Rows)
        /\ Len(hour') = Len(hour) + 1 /\ Len(metrics') = Len(hour) + 1
    BY <1>t, <2>1, <2>2
  <2>4. \A p \in 1 .. Len(hour') : IF p = Len(hour) + 1 THEN metrics'[p] = none ELSE metrics'[p] = metrics[p]
    BY <1>t, <2>1, <2>2, <2>3
  <2>5. ASSUME NEW p \in 1 .. Len(hour'), DOMAIN metrics'[p] # {}
        PROVE  \E d \in Days : IsLatest(metrics'[p], d)
    <3>1. p \in 1 .. Len(hour) /\ metrics'[p] = metrics[p]
      BY <1>t, <2>1, <2>3, <2>4, <2>5
    <3> QED
      BY <2>5, <3>1 DEF Measured
  <2> QED
    BY <2>3, <2>5 DEF Measured
<1>2. ASSUME NEW p \in DOMAIN hour, NEW d \in Days, NEW rate \in Rates \cup {Unusable}, Measure(p, d, rate)
      PROVE  Measured'
  <2> DEFINE old == metrics[p]
             new == [e \in DOMAIN old \cup {d} |-> IF e = d THEN rate ELSE old[e]]
  <2>1. p \in 1 .. Len(hour) /\ old \in Rows
    BY <1>t
  <2>2. PICK D \in SUBSET Days : old \in [D -> Rates \cup {Unusable}]
    BY <2>1 DEF Rows
  <2>3. DOMAIN old = D /\ DOMAIN new = D \cup {d}
    BY <2>2
  <2>4. new \in Rows
    <3>1. new \in [D \cup {d} -> Rates \cup {Unusable}] /\ D \cup {d} \in SUBSET Days
      BY <2>2, <2>3
    <3> HIDE DEF new
    <3> QED
      BY <3>1 DEF Rows
  <2>5. metrics' = [metrics EXCEPT ![p] = new] /\ hour' = hour
    BY <1>2 DEF Measure
  <2>6. \E e \in Days : IsLatest(new, e)
    <3> SUFFICES \E e \in D \cup {d} : \A x \in D \cup {d} : x <= e
      BY <2>3 DEF IsLatest
    <3>1. D \cup {d} \subseteq Nat
      BY BestTimesAssumption
    <3>2. CASE D = {}
      BY <3>1, <3>2
    <3>3. CASE D # {}
      <4>1. PICK m \in D : \A x \in D : x <= m
        BY <1>t, <2>1, <2>3, <3>3 DEF Measured, IsLatest
      <4>2. CASE d <= m
        BY <4>1, <4>2
      <4>3. CASE ~(d <= m)
        BY <3>1, <4>1, <4>3
      <4> QED
        BY <4>2, <4>3
    <3> QED
      BY <3>2, <3>3
  <2> HIDE DEF new
  <2>7. /\ metrics' \in Seq(Rows) /\ Len(metrics') = Len(hour)
        /\ \A q \in 1 .. Len(hour) : metrics'[q] = IF q = p THEN new ELSE metrics[q]
    BY <1>t, <2>1, <2>4, <2>5
  <2>8. ASSUME NEW q \in 1 .. Len(hour), DOMAIN metrics'[q] # {}
        PROVE  \E e \in Days : IsLatest(metrics'[q], e)
    <3>1. CASE q = p
      BY <2>6, <2>7, <3>1
    <3>2. CASE q # p
      <4>1. metrics'[q] = metrics[q]
        BY <2>7, <3>2
      <4> QED
        BY <2>8, <4>1 DEF Measured
    <3> QED
      BY <3>1, <3>2
  <2> QED
    BY <1>t, <2>5, <2>7, <2>8 DEF Measured
<1>3. CASE UNCHANGED reportVars
  BY <1>3 DEF reportVars, Measured
<1> QED
  BY <1>1, <1>2, <1>3 DEF Gather

-------------------------------------------------------------------------------
(* The report *)

\* The latest row is the one of the latest day, as the property says it and as the
\* report does.
LEMMA LatestRowIs ==
  ASSUME NEW rows, NEW d, DOMAIN rows \subseteq Nat, IsLatest(rows, d)
  PROVE  /\ LatestRow(rows) = rows[d]
         /\ (CHOOSE row \in {<<e, rows[e]>> : e \in DOMAIN rows} :
               \A e \in DOMAIN rows : e <= row[1])[2] = rows[d]
<1>1. d \in DOMAIN rows /\ \A e \in DOMAIN rows : e <= d
  BY DEF IsLatest
<1>2. Max(DOMAIN rows) = d
  <2>1. Max(DOMAIN rows) \in DOMAIN rows /\ \A e \in DOMAIN rows : Max(DOMAIN rows) >= e
    BY <1>1 DEF Max
  <2> QED
    BY <1>1, <2>1
<1> DEFINE pairs == {<<e, rows[e]>> : e \in DOMAIN rows}
           last(row) == \A e \in DOMAIN rows : e <= row[1]
           row == CHOOSE x \in pairs : last(x)
<1>3. <<d, rows[d]>> \in pairs /\ last(<<d, rows[d]>>)
  BY <1>1
<1>4. row \in pairs /\ last(row)
  <2> HIDE DEF pairs, last
  <2> QED
    BY <1>3
<1>5. row[1] = d /\ row[2] = rows[d]
  <2>1. PICK e \in DOMAIN rows : row = <<e, rows[e]>>
    BY <1>4
  <2>2. e = d
    <3>1. row[1] = e
      <4> HIDE DEF row
      <4> QED
        BY <2>1
    <3>2. d <= row[1]
      BY <1>1, <1>4
    <3> QED
      BY <1>1, <3>1, <3>2
  <2> HIDE DEF row
  <2> QED
    BY <2>1, <2>2
<1> QED
  BY <1>2, <1>5 DEF LatestRow

\* The samples are the posts that speak, and their sums the same.
LEMMA SamplesSpeak ==
  ASSUME Measured
  PROVE  \A h : /\ SamplesAt(h) = Speaking(h)
                /\ Total(h) = Sum(h)
                /\ \A p \in SamplesAt(h) : LatestRow(metrics[p]) \in Rates
<1>t. /\ hour \in Seq(Hours) /\ metrics \in Seq(Rows) /\ Len(metrics) = Len(hour)
      /\ Len(hour) \in Nat /\ DOMAIN hour = 1 .. Len(hour)
  BY DEF Measured
<1>1. ASSUME NEW p \in DOMAIN hour
      PROVE  DOMAIN metrics[p] \subseteq Nat /\ \A d \in DOMAIN metrics[p] : metrics[p][d] \in Rates \cup {Unusable}
  <2>1. PICK D \in SUBSET Days : metrics[p] \in [D -> Rates \cup {Unusable}]
    BY <1>t DEF Rows
  <2> QED
    BY <2>1, BestTimesAssumption
<1>2. ASSUME NEW p \in DOMAIN hour, DOMAIN metrics[p] # {}
      PROVE  \E d \in DOMAIN metrics[p] :
               /\ IsLatest(metrics[p], d)
               /\ LatestRow(metrics[p]) = metrics[p][d]
               /\ (CHOOSE row \in {<<e, metrics[p][e]>> : e \in DOMAIN metrics[p]} :
                     \A e \in DOMAIN metrics[p] : e <= row[1])[2] = metrics[p][d]
  <2>1. PICK d : IsLatest(metrics[p], d)
    BY <1>t, <1>2 DEF Measured
  <2>2. d \in DOMAIN metrics[p]
    BY <2>1 DEF IsLatest
  <2> QED
    BY <1>1, <2>1, <2>2, LatestRowIs
<1> SUFFICES ASSUME NEW h
             PROVE  /\ SamplesAt(h) = Speaking(h)
                    /\ Total(h) = Sum(h)
                    /\ \A p \in SamplesAt(h) : LatestRow(metrics[p]) \in Rates
  OBVIOUS
<1>3. ASSUME NEW p \in DOMAIN hour, hour[p] = h
      PROVE  p \in SamplesAt(h) <=> p \in Speaking(h)
  <2>1. CASE DOMAIN metrics[p] = {}
    BY <2>1 DEF SamplesAt, Sampled, Speaking
  <2>2. CASE DOMAIN metrics[p] # {}
    <3>1. PICK d \in DOMAIN metrics[p] : IsLatest(metrics[p], d) /\ LatestRow(metrics[p]) = metrics[p][d]
      BY <1>2, <2>2
    <3>2. \A e \in DOMAIN metrics[p] : (\A x \in DOMAIN metrics[p] : x <= e) => e = d
      BY <1>1, <3>1 DEF IsLatest
    <3>3. p \in SamplesAt(h) <=> metrics[p][d] # Unusable
      BY <1>3, <2>2, <3>1 DEF SamplesAt, Sampled
    <3>4. p \in Speaking(h) <=> metrics[p][d] # Unusable
      BY <1>3, <3>1, <3>2 DEF Speaking, IsLatest
    <3> QED
      BY <3>3, <3>4
  <2> QED
    BY <2>1, <2>2
<1>4. SamplesAt(h) = Speaking(h)
  <2>1. \A p \in SamplesAt(h) : p \in DOMAIN hour /\ hour[p] = h
    BY DEF SamplesAt, Sampled
  <2>2. \A p \in Speaking(h) : p \in DOMAIN hour /\ hour[p] = h
    BY DEF Speaking
  <2> QED
    BY <1>3, <2>1, <2>2
<1>5. ASSUME NEW p \in SamplesAt(h)
      PROVE  /\ LatestRow(metrics[p]) \in Rates
             /\ LatestRow(metrics[p]) =
                  (CHOOSE row \in {<<d, metrics[p][d]>> : d \in DOMAIN metrics[p]} :
                     \A d \in DOMAIN metrics[p] : d <= row[1])[2]
  <2>1. p \in DOMAIN hour /\ DOMAIN metrics[p] # {} /\ LatestRow(metrics[p]) # Unusable
    BY DEF SamplesAt, Sampled
  <2> QED
    BY <1>1, <1>2, <2>1
<1>6. Total(h) = Sum(h)
  <2>1. [p \in SamplesAt(h) |-> LatestRow(metrics[p])] =
          [p \in Speaking(h) |->
             (CHOOSE row \in {<<d, metrics[p][d]>> : d \in DOMAIN metrics[p]} :
                \A d \in DOMAIN metrics[p] : d <= row[1])[2]]
    BY <1>4, <1>5
  <2> QED
    BY <2>1 DEF Total, Sum
<1> QED
  BY <1>4, <1>5, <1>6

\* The report against what it should say.
LEMMA MeasuredIsEarned == Measured => RecommendationEarned
<1> SUFFICES ASSUME Measured PROVE RecommendationEarned
  OBVIOUS
<1>t. /\ hour \in Seq(Hours) /\ DOMAIN hour = 1 .. Len(hour) /\ Len(hour) \in Nat
      /\ IsFiniteSet(DOMAIN hour)
  BY FS_Interval DEF Measured
<1>f. \A S \in SUBSET DOMAIN hour : IsFiniteSet(S) /\ Cardinality(S) \in Nat
  BY <1>t, FS_Subset, FS_CardinalityType
<1>1. Sampled \in SUBSET DOMAIN hour /\ \A h : SamplesAt(h) \in SUBSET DOMAIN hour
  BY DEF Sampled, SamplesAt
<1> DEFINE all    == SumFunction([h \in Hours |-> Cardinality(Speaking(h))])
           enough == {h \in Hours : Cardinality(Speaking(h)) >= MinPerHour}
\* Every sample is counted in one hour.
<1>2. all = Cardinality(Sampled)
  <2> DEFINE place == [p \in Sampled |-> hour[p]]
  <2>1. place \in [Sampled -> Hours]
    BY <1>t, <1>1
  <2>2. \A h \in Hours : Speaking(h) = {p \in Sampled : place[p] = h}
    BY SamplesSpeak DEF SamplesAt
  <2>3. IsFiniteSet(Sampled) /\ IsFiniteSet(Hours)
    BY <1>f, <1>1, BestTimesAssumption
  <2>4. [h \in Hours |-> Cardinality(Speaking(h))]
          = [h \in Hours |-> Cardinality({p \in Sampled : place[p] = h})]
    BY <2>2
  <2> HIDE DEF place
  <2>5. SumFunction([h \in Hours |-> Cardinality({p \in Sampled : place[p] = h})]) = Cardinality(Sampled)
    BY <2>1, <2>3, SumCounts
  <2> QED
    BY <2>4, <2>5
\* What is compared are numbers.
<1>3. ASSUME NEW h
      PROVE  Total(h) \in Nat /\ Cardinality(SamplesAt(h)) \in Nat
  <2> DEFINE F == [p \in SamplesAt(h) |-> LatestRow(metrics[p])]
  <2>1. DOMAIN F = SamplesAt(h) /\ IsFiniteSet(SamplesAt(h))
    BY <1>f, <1>1
  <2>2. \A p \in DOMAIN F : F[p] \in Nat
    BY SamplesSpeak, BestTimesAssumption
  <2> HIDE DEF F
  <2>3. SumFunction(F) \in Nat
    BY <2>1, <2>2, SumIsNat
  <2> QED
    BY <1>f, <1>1, <2>3 DEF Total, F
<1>4. \A h : SamplesAt(h) = Speaking(h) /\ Total(h) = Sum(h)
  BY SamplesSpeak
<1> SUFFICES ASSUME NEW h \in Hours
             PROVE  h \in BestHours <=>
                      /\ all >= MinTotal
                      /\ h \in enough
                      /\ \A g \in enough :
                           Sum(g) * Cardinality(Speaking(h)) <= Sum(h) * Cardinality(Speaking(g))
  BY DEF RecommendationEarned
<1>5. CASE ~(all >= MinTotal)
  <2>1. Cardinality(Sampled) < MinTotal
    BY <1>f, <1>1, <1>2, <1>5, BestTimesAssumption
  <2> HIDE DEF all
  <2> QED
    BY <1>5, <2>1 DEF BestHours, RankedHours
<1>6. CASE all >= MinTotal
  <2>1. ~(Cardinality(Sampled) < MinTotal)
    BY <1>f, <1>1, <1>2, <1>6, BestTimesAssumption
  <2>2. RankedHours = enough
    BY <1>4, <2>1 DEF RankedHours
  <2>3. ASSUME NEW g \in enough
        PROVE  ~Above(g, h) <=>
                 Sum(g) * Cardinality(Speaking(h)) <= Sum(h) * Cardinality(Speaking(g))
    <3>1. ~Above(g, h) <=>
            ~(Sum(g) * Cardinality(Speaking(h)) > Sum(h) * Cardinality(Speaking(g)))
      BY <1>4 DEF Above
    <3>2. /\ Sum(g) * Cardinality(Speaking(h)) \in Nat
          /\ Sum(h) * Cardinality(Speaking(g)) \in Nat
      <4>1. /\ Sum(g) \in Nat /\ Cardinality(Speaking(h)) \in Nat
            /\ Sum(h) \in Nat /\ Cardinality(Speaking(g)) \in Nat
        BY <1>3, <1>4
      <4> QED
        BY <4>1
    <3> QED
      BY <3>1, <3>2
  <2> HIDE DEF all, enough
  <2> QED
    BY <1>6, <2>2, <2>3 DEF BestHours
<1> QED
  BY <1>5, <1>6

\* However often and in whatever order the posts are measured, for any hours, rates and
\* thresholds, exactly the hours with enough posts and the highest mean of their newest
\* rows are recommended (best_time_engine.py, analytics_service.py).
THEOREM RecommendationIsEarned == ReportSpec => []RecommendationEarned
<1>1. NothingPublished => Measured
  BY DEF NothingPublished, Measured
<1> QED
  BY <1>1, StaysMeasured, MeasuredIsEarned, PTL DEF ReportSpec
=============================================================================
