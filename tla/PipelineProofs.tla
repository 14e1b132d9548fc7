---------------------------- MODULE PipelineProofs ----------------------------
(***************************************************************************)
(* Proofs about Pipeline, for any products, scores, limits, days, retries  *)
(* and kills.  In both deployments types hold, no day is published beyond  *)
(* its maximum and no product has two active rows of a type.  In the       *)
(* scheduled job, where dashboard and worker never overlap, a product and  *)
(* its rows agree, no day is overbooked, no insert meets a unique index,   *)
(* what is final stays so, and all of it together implements ProductLife;  *)
(* with two processes none of these five holds: what one has read is stale *)
(* when it writes.                                                         *)
(***************************************************************************)
EXTENDS Pipeline, TLAPS, FiniteSetTheorems, NaturalsInduction, WellFoundedInduction

\* A nonempty set of numbers has a least element.
LEMMA LeastNumber ==
  ASSUME NEW S \in SUBSET Nat, S # {}
  PROVE  \E n \in S : \A x \in S : n <= x
<1> DEFINE Less == {ss \in Nat \X Nat : ss[1] < ss[2]}
<1>1. IsWellFoundedOn(Less, Nat)
  BY NatLessThanWellFounded DEF OpToRel
<1>2. PICK n \in S : \A x \in S : <<x, n>> \notin Less
  <2> HIDE DEF Less
  <2> QED
    BY <1>1, WFMin
<1>3. ASSUME NEW x \in S PROVE n <= x
  <2>1. n \in Nat /\ x \in Nat /\ ~(x < n)
    BY <1>2
  <2> QED
    BY <2>1
<1> QED
  BY <1>3

\* There are finitely many rows.
LEMMA FiniteKeys == IsFiniteSet(Keys)
<1>1. IsFiniteSet(Days)
  BY PipelineAssumption, FS_Interval DEF Days
<1>2. IsFiniteSet(Types)
  <2>1. Types = {"POST"} \cup {"REEL"}
    BY DEF Types
  <2> QED
    BY <2>1, FS_Singleton, FS_Union
<1>3. IsFiniteSet(Types \X Days)
  BY <1>1, <1>2, FS_Product
<1> DEFINE f == [q \in Products \X (Types \X Days) |-> <<q[1], q[2][1], q[2][2]>>]
<1>4. IsFiniteSet(Products \X (Types \X Days))
  BY <1>3, PipelineAssumption, FS_Product
<1>5. f \in Surjection(Products \X (Types \X Days), Keys)
  <2>1. f \in [Products \X (Types \X Days) -> Keys]
    BY DEF Keys
  <2>2. ASSUME NEW k \in Keys PROVE \E q \in Products \X (Types \X Days) : f[q] = k
    <3>1. PICK r \in Products, t \in Types, d \in Days : k = <<r, t, d>>
      BY DEF Keys
    <3>2. <<r, <<t, d>>>> \in Products \X (Types \X Days) /\ f[<<r, <<t, d>>>>] = k
      BY <3>1
    <3> QED
      BY <3>2
  <2> QED
    BY <2>1, <2>2 DEF Surjection
<1> QED
  BY <1>4, <1>5, FS_Surjection

\* The parts of a row's key.
LEMMA KeyParts ==
  ASSUME NEW k \in Keys
  PROVE  k[1] \in Products /\ k[2] \in Types /\ k[3] \in Days /\ k = <<k[1], k[2], k[3]>>
  BY DEF Keys

\* The foremost product of a set is one of it: with the fewest before it there
\* is none before it.
LEMMA ForemostIsOne ==
  ASSUME NEW S \in SUBSET Products, S # {}
  PROVE  Foremost(S) \in S
<1> DEFINE Before(s, r) == Score[s] > Score[r] \/ (Score[s] = Score[r] /\ s < r)
           Better(r) == {s \in S : Before(s, r)}
           N == {Cardinality(Better(r)) : r \in S}
<1>n. \A r \in S : r \in Nat /\ Score[r] \in Nat
  BY PipelineAssumption
<1>f. \A r \in S : IsFiniteSet(Better(r)) /\ Cardinality(Better(r)) \in Nat
  <2>1. IsFiniteSet(S)
    BY PipelineAssumption, FS_Subset
  <2>2. \A r \in S : Better(r) \in SUBSET S
    OBVIOUS
  <2> HIDE DEF Better
  <2> QED
    BY <2>1, <2>2, FS_Subset, FS_CardinalityType
<1>1. PICK n \in N : \A m \in N : n <= m
  <2>1. N \in SUBSET Nat /\ N # {}
    BY <1>f
  <2> HIDE DEF N
  <2> QED
    BY <2>1, LeastNumber
<1>2. PICK r \in S : \A s \in S : Cardinality(Better(r)) <= Cardinality(Better(s))
  <2>1. PICK r \in S : n = Cardinality(Better(r))
    BY <1>1
  <2>2. \A s \in S : Cardinality(Better(s)) \in N
    OBVIOUS
  <2> HIDE DEF N, Better
  <2> QED
    BY <1>1, <2>1, <2>2
<1>3. ASSUME NEW s \in Better(r) PROVE FALSE
  <2>1. s \in S /\ Before(s, r)
    OBVIOUS
  <2>2. Better(s) \in SUBSET Better(r)
    <3>1. ASSUME NEW u \in Better(s) PROVE u \in Better(r)
      <4>1. u \in S /\ Before(u, s)
        OBVIOUS
      <4>2. Before(u, r)
        BY <1>n, <2>1, <4>1
      <4> QED
        BY <4>1, <4>2
    <3> QED
      BY <3>1
  <2>3. s \notin Better(s)
    BY <1>n, <2>1
  <2> HIDE DEF Better
  <2>4. Cardinality(Better(s)) <= Cardinality(Better(r)) /\ Cardinality(Better(s)) # Cardinality(Better(r))
    BY <1>f, <2>2, <2>3, FS_Subset
  <2> QED
    BY <1>2, <1>f, <2>1, <2>4
<1>4. \A s \in S : Score[s] < Score[r] \/ (Score[s] = Score[r] /\ r <= s)
  BY <1>n, <1>3
<1> QED
  BY <1>4 DEF Foremost

-------------------------------------------------------------------------------
(* Types *)

\* Results of the capacity queries that are no longer negative, and where.
Counted ==
  /\ at = "capacity" => run.reads <= 3 /\ (run.reads >= 2 => run.slack["POST"] \in Nat)
  /\ at = "insert" => run.slack \in [Types -> Nat]

Typed == TypeOK /\ Counted

\* What the dashboard holds, by the kind of its operation.
LEMMA DeskFields ==
  ASSUME desk \in DeskType
  PROVE  /\ desk.kind \in {"limit", "count", "insert", "publish"} =>
              desk \in [kind : {"limit", "count", "insert", "publish"}, product : Products,
                        now : BOOLEAN, day : Days, slack : Int]
         /\ desk.kind \in {"skip_select", "skip_write"} =>
              desk \in [kind : {"skip_select", "skip_write"}, product : Products, rows : SUBSET Keys]
         /\ desk.kind = "retry" =>
              desk \in [kind : {"retry"}, product : Products, status : ProductStatus]
         /\ desk.kind \in {"free", "limit", "count", "insert", "publish", "skip_select",
                           "skip_write", "retry"}
         /\ desk.kind = "free" <=> desk = Free
  BY DEF DeskType, Free

\* The two queries of remaining_capacity return numbers.
LEMMA Capacity ==
  ASSUME TypeOK, NEW t \in Types, NEW d \in Days
  PROVE  /\ maxAllowed[<<t, d>>] \in Int /\ published[<<t, d>>] \in Nat
         /\ peak[<<t, d>>] \in Nat /\ revived[<<t, d>>] \in Nat
         /\ maxAllowed[<<t, d>>] # NoLimit => maxAllowed[<<t, d>>] \in Nat
         /\ Slack(t, d) \in Int
         /\ IsFiniteSet(Active(t, d)) /\ Cardinality(Active(t, d)) \in Nat
         /\ \A n \in Int : Room(n, t, d) \in Nat
<1>1. \A n \in Limits \cup {NoLimit} : n \in Int /\ (n # NoLimit => n \in Nat)
  BY PipelineAssumption DEF NoLimit
<1>2. <<t, d>> \in Types \X Days
  OBVIOUS
<1>3. /\ maxAllowed[<<t, d>>] \in Limits \cup {NoLimit} /\ published[<<t, d>>] \in Nat
      /\ peak[<<t, d>>] \in Limits \cup {0} /\ revived[<<t, d>>] \in Nat
  BY <1>2 DEF TypeOK
<1>4. peak[<<t, d>>] \in Nat
  BY <1>3, PipelineAssumption
<1>5. IsFiniteSet(Active(t, d)) /\ Cardinality(Active(t, d)) \in Nat
  <2>1. Active(t, d) \in SUBSET Keys
    BY DEF Active, RowsOn
  <2> QED
    BY <2>1, FiniteKeys, FS_Subset, FS_CardinalityType
<1>6. \A n \in Int : Room(n, t, d) \in Nat
  BY <1>5 DEF Room
<1> QED
  BY <1>1, <1>3, <1>4, <1>5, <1>6 DEF Slack

\* The next row to insert is a row of a selected product, of a type with room.
LEMMA NextIsSelected ==
  ASSUME TypeOK, Selected # {}
  PROVE  /\ NextKey \in Keys /\ NextKey[1] \in run.batch /\ NextKey[1] \in Products
         /\ NextKey[2] \in Types /\ NextKey[3] = run.day /\ run.day \in Days
         /\ run.slack[NextKey[2]] > 0
<1>1. run.batch \in SUBSET Products /\ run.day \in Days
  BY DEF TypeOK, RunType
<1>2. Foremost(Selected) \in Selected
  <2>1. Selected \in SUBSET Products
    BY <1>1 DEF Selected
  <2> QED
    BY <2>1, ForemostIsOne
<1>3. \A r \in Products : Choice(r) \in Types
  BY DEF Choice, Types
<1> DEFINE r == Foremost(Selected)
<1>4. r \in run.batch /\ run.slack[Choice(r)] > 0
  BY <1>2 DEF Selected
<1>5. NextKey = <<r, Choice(r), run.day>>
  BY DEF NextKey
<1> HIDE DEF r
<1>6. r \in Products /\ Choice(r) \in Types
  BY <1>1, <1>3, <1>4
<1>7. NextKey \in Keys
  BY <1>1, <1>5, <1>6 DEF Keys
<1> QED
  BY <1>1, <1>4, <1>5, <1>6, <1>7

\* Every product starts ELIGIBLE, without a row and without a limit.
LEMMA InitTyped == Init => Typed
<1> SUFFICES ASSUME Init PROVE Typed
  OBVIOUS
<1>1. 1 \in Days /\ DefaultLimit \in Limits
  BY PipelineAssumption DEF Days
<1>2. Fresh \in RunType
  BY <1>1 DEF Fresh, RunType
<1>3. TypeOK
  BY <1>1, <1>2, PipelineAssumption
     DEF Init, TypeOK, ProductStatus, RowStatus, Places, DeskType
<1> QED
  BY <1>3 DEF Init, Typed, Counted

\* The worker's stages keep the types.
LEMMA CycleTyped ==
  ASSUME Typed, Cycle
  PROVE  Typed'
<1> USE DEF tables, past, vars
<1>0. TypeOK /\ Counted
  BY DEF Typed
<1>f. Fresh \in RunType /\ Fresh.slack \in [Types -> Int] /\ 1 \in Days
  BY PipelineAssumption DEF Fresh, RunType, Days
<1>t. today \in Days
  BY <1>0 DEF TypeOK
\* A step to a place where no capacity is known.
<1>1. ASSUME run' \in RunType, at' \in Places, at' \notin {"insert", "capacity"},
             UNCHANGED <<product, row, published, maxAllowed, today, desk, past>>
      PROVE  Typed'
  BY <1>0, <1>1 DEF TypeOK, Typed, Counted
<1>2. CASE StartCycle
  <2> DEFINE gone == {t \in Types : maxAllowed[<<t, today>>] = NoLimit}
             q == [Fresh EXCEPT !.day = today, !.missing = gone]
  <2>1. q \in RunType
    BY <1>f, <1>t DEF RunType
  <2> HIDE DEF q
  <2> QED
    BY <1>1, <1>2, <2>1 DEF StartCycle, Goto, Places, q
<1>3. CASE EnsureLimits
  <2>1. /\ UNCHANGED <<product, row, published, today, desk, revived, spent>>
        /\ at' \in {"eligible", "idle"} /\ run' = Fresh
    BY <1>3 DEF EnsureLimits, Goto, Abort
  <2>2. /\ maxAllowed' \in [Types \X Days -> Limits \cup {NoLimit}]
        /\ peak' \in [Types \X Days -> Limits \cup {0}]
    <3> DEFINE added == {<<t, run.day>> : t \in run.missing}
    <3>1. \/ /\ maxAllowed' = [b \in Types \X Days |-> IF b \in added THEN DefaultLimit ELSE maxAllowed[b]]
             /\ peak' = [b \in Types \X Days |-> IF b \in added THEN DefaultLimit ELSE peak[b]]
          \/ UNCHANGED <<maxAllowed, peak>>
      BY <1>3 DEF EnsureLimits
    <3> HIDE DEF added
    <3> QED
      BY <1>0, <3>1, PipelineAssumption DEF TypeOK
  <2> QED
    BY <1>0, <1>f, <2>1, <2>2 DEF TypeOK, Typed, Counted, Places
<1>4. CASE ReadEligible
  <2> DEFINE read == {r \in Products : product[r] = "ELIGIBLE"}
  <2>1. [run EXCEPT !.loaded = read] \in RunType
    BY <1>0 DEF TypeOK, RunType
  <2> QED
    BY <1>1, <1>4, <2>1 DEF ReadEligible, Goto, Places
<1>5. CASE Enqueue
  <2>1. product' \in [Products -> ProductStatus]
    BY <1>0, <1>5 DEF Enqueue, TypeOK, ProductStatus
  <2> QED
    BY <1>0, <1>f, <1>5, <2>1 DEF Enqueue, Goto, TypeOK, Typed, Counted, Places
<1>6. CASE SelectQueued
  <2> DEFINE read == {r \in Products : Selectable(r)}
             q == [Fresh EXCEPT !.day = today, !.batch = read]
  <2>1. q \in RunType /\ q.reads = 0
    BY <1>f, <1>t DEF RunType, Fresh
  <2>2. run' = q /\ at' = "capacity" /\ UNCHANGED <<tables, today, desk, past>>
    BY <1>6 DEF SelectQueued, Goto
  <2> HIDE DEF q
  <2> QED
    BY <1>0, <2>1, <2>2 DEF TypeOK, Typed, Counted, Places
<1>7. CASE ReadCapacity
  <2> DEFINE t == IF run.reads < 2 THEN "POST" ELSE "REEL"
             n == IF run.reads \in {0, 2} THEN Slack(t, run.day) ELSE Room(run.slack[t], t, run.day)
             q == [run EXCEPT !.slack[t] = n, !.reads = @ + 1]
  <2>1. /\ at = "capacity" /\ run' = q /\ at' = (IF run.reads < 3 THEN "capacity" ELSE "insert")
        /\ UNCHANGED <<tables, today, desk, past>>
    BY <1>7 DEF ReadCapacity
  <2>2. /\ run \in RunType /\ run.reads \in 0 .. 3 /\ run.slack \in [Types -> Int] /\ run.day \in Days
        /\ run.reads >= 2 => run.slack["POST"] \in Nat
    BY <1>0, <2>1 DEF TypeOK, RunType, Counted
  <2>3. t \in Types /\ (run.reads >= 2 => t = "REEL") /\ (run.reads < 2 => t = "POST")
    BY <2>2 DEF Types
  <2> HIDE DEF t
  <2>4. n \in Int /\ (run.reads \in {1, 3} => n \in Nat)
    <3>1. Slack(t, run.day) \in Int /\ run.slack[t] \in Int
      BY <1>0, <2>2, <2>3, Capacity
    <3>2. Room(run.slack[t], t, run.day) \in Nat
      BY <1>0, <2>2, <2>3, <3>1, Capacity
    <3> QED
      BY <3>1, <3>2
  <2> HIDE DEF n
  <2>5. /\ q \in RunType /\ q.reads = run.reads + 1 /\ q.reads \in 1 .. 4
        /\ q.slack = [run.slack EXCEPT ![t] = n]
    <3> DEFINE new == [run.slack EXCEPT ![t] = n]
    <3>1. q = [run EXCEPT !.slack = new, !.reads = run.reads + 1]
      BY <2>2 DEF RunType
    <3>2. new \in [Types -> Int] /\ run.reads + 1 \in 1 .. 4 /\ run.reads + 1 \in 0 .. 4
      BY <2>2, <2>3, <2>4
    <3> HIDE DEF new, q
    <3>3. q \in RunType /\ q.reads = run.reads + 1 /\ q.slack = new
      BY <2>2, <3>1, <3>2 DEF RunType
    <3> QED
      BY <3>2, <3>3 DEF new
  <2> HIDE DEF q
  <2>6. /\ run.reads < 3 => q.reads <= 3 /\ (q.reads >= 2 => q.slack["POST"] \in Nat)
        /\ ~(run.reads < 3) => q.slack \in [Types -> Nat]
    <3>1. CASE run.reads = 0
      BY <2>5, <3>1
    <3>2. CASE run.reads = 1
      BY <2>2, <2>3, <2>4, <2>5, <3>2 DEF Types
    <3>3. CASE run.reads = 2
      BY <2>2, <2>3, <2>4, <2>5, <3>3 DEF Types
    <3>4. CASE run.reads = 3
      BY <2>2, <2>3, <2>4, <2>5, <3>4 DEF Types
    <3> QED
      BY <2>2, <3>1, <3>2, <3>3, <3>4
  <2> QED
    BY <1>0, <2>1, <2>5, <2>6 DEF TypeOK, Typed, Counted, Places
<1>8. CASE InsertNext
  <2> DEFINE k == NextKey
             q == [run EXCEPT !.batch = @ \ {k[1]}, !.slack[k[2]] = @ - 1]
  <2>1. /\ at = "insert" /\ Selected # {}
        /\ UNCHANGED <<published, maxAllowed, today, desk, past>>
        /\ \/ ScheduleRow(k) /\ run' = q /\ at' = at
           \/ at' = "idle" /\ run' = Fresh /\ UNCHANGED <<product, row>>
    BY <1>8 DEF InsertNext, Abort
  <2>2. k \in Keys /\ k[1] \in Products /\ k[2] \in Types /\ run.slack[k[2]] > 0
    BY <1>0, <2>1, NextIsSelected
  <2>3. run.slack \in [Types -> Nat] /\ run \in RunType
    BY <1>0, <2>1 DEF TypeOK, Counted
  <2> HIDE DEF k
  <2>4. q \in RunType /\ q.slack \in [Types -> Nat]
    <3>1. run.slack[k[2]] - 1 \in Nat
      BY <2>2, <2>3
    <3> DEFINE new == [run.slack EXCEPT ![k[2]] = run.slack[k[2]] - 1]
               left == run.batch \ {k[1]}
    <3>2. q = [run EXCEPT !.batch = left, !.slack = new]
      BY <2>3 DEF RunType
    <3>3. new \in [Types -> Nat] /\ left \in SUBSET Products
      BY <2>2, <2>3, <3>1 DEF RunType
    <3> HIDE DEF new, left, q
    <3>4. \A h \in [Types -> Nat] : h \in [Types -> Int]
      OBVIOUS
    <3> QED
      BY <2>3, <3>2, <3>3, <3>4 DEF RunType
  <2> HIDE DEF q
  <2>5. product' \in [Products -> ProductStatus] /\ row' \in [Keys -> RowStatus]
    BY <1>0, <2>1, <2>2 DEF TypeOK, ScheduleRow, ProductStatus, RowStatus
  <2> QED
    BY <1>0, <1>f, <2>1, <2>4, <2>5 DEF TypeOK, Typed, Counted, Places
<1>9. CASE EndInsert \/ EndCycle \/ StageFails
  BY <1>1, <1>9, <1>f DEF EndInsert, EndCycle, StageFails, Abort, Goto, Places
<1> QED
  BY <1>2, <1>3, <1>4, <1>5, <1>6, <1>7, <1>8, <1>9 DEF Cycle

\* A row that is being published is one of a product, and of a counted day.
LEMMA AttemptTyped ==
  ASSUME Typed, NEW k \in Keys, Succeed(k) \/ Fail(k) \/ KilledPublishing(k)
  PROVE  Typed'
<1> USE DEF tables, past, vars
<1>0. TypeOK /\ Counted /\ k[1] \in Products /\ <<k[2], k[3]>> \in Types \X Days
  BY KeyParts DEF Typed
<1>f. Fresh \in RunType /\ Free \in DeskType
  BY PipelineAssumption DEF Fresh, RunType, Days, DeskType
<1>1. /\ product' \in [Products -> ProductStatus] /\ row' \in [Keys -> RowStatus]
  BY <1>0 DEF Succeed, Fail, KilledPublishing, TypeOK, ProductStatus, RowStatus
<1>2. published' \in [Types \X Days -> Nat]
  <2>1. \/ published' = published
        \/ published' = [published EXCEPT ![<<k[2], k[3]>>] = @ + 1]
    BY DEF Succeed, Fail, KilledPublishing
  <2>2. published[<<k[2], k[3]>>] + 1 \in Nat /\ published \in [Types \X Days -> Nat]
    BY <1>0 DEF TypeOK
  <2> QED
    BY <2>1, <2>2
<1>3. desk' \in DeskType
  BY <1>0, <1>f DEF Succeed, Fail, KilledPublishing, DeskDone, Die, TypeOK
<1>4. CASE Succeed(k) \/ Fail(k)
  BY <1>0, <1>1, <1>2, <1>3, <1>4 DEF Succeed, Fail, TypeOK, Typed, Counted
<1>5. CASE KilledPublishing(k)
  <2>1. spent' \in [kills : 0 .. MaxKills, changes : 0 .. MaxChanges]
    BY <1>0, <1>5, PipelineAssumption DEF KilledPublishing, TypeOK
  <2>2. /\ \/ at' = "idle" /\ run' = Fresh
           \/ at' = at /\ run' = run
        /\ UNCHANGED <<maxAllowed, today, peak, revived>>
    BY <1>5 DEF KilledPublishing, Die
  <2> QED
    BY <1>0, <1>1, <1>2, <1>3, <1>f, <2>1, <2>2 DEF TypeOK, Typed, Counted, Places
<1> QED
  BY <1>4, <1>5

\* The dashboard keeps the types.
LEMMA OperateTyped ==
  ASSUME Typed, Operate
  PROVE  Typed'
<1> USE DEF tables, past, vars
<1>0. TypeOK /\ Counted /\ desk \in DeskType /\ today \in Days
  BY DEF Typed, TypeOK
<1>f. Free \in DeskType
  BY DEF DeskType
<1>1. ASSUME desk' \in DeskType, UNCHANGED <<published, maxAllowed, today, at, run, peak, spent>>,
             product' \in [Products -> ProductStatus], row' \in [Keys -> RowStatus],
             revived' \in [Types \X Days -> Nat]
      PROVE  Typed'
  BY <1>0, <1>1 DEF TypeOK, Typed, Counted
<1>2. ASSUME desk' \in DeskType, UNCHANGED <<tables, today, at, run, past>> PROVE Typed'
  BY <1>0, <1>2 DEF TypeOK, Typed, Counted
<1>3. ASSUME NEW r \in Products, NEW now \in BOOLEAN, BeginSchedule(r, now) PROVE Typed'
  BY <1>0, <1>2, <1>3 DEF BeginSchedule, DeskType
<1>4. CASE DeskLimit
  <2> DEFINE n == Slack(DefaultType, desk.day)
             q == [desk EXCEPT !.kind = "count", !.slack = n]
  <2>1. desk \in [kind : {"limit", "count", "insert", "publish"}, product : Products,
                  now : BOOLEAN, day : Days, slack : Int]
    BY <1>0, <1>4, DeskFields DEF DeskLimit
  <2>2. n \in Int
    BY <1>0, <2>1, Capacity, PipelineAssumption
  <2> HIDE DEF n
  <2>3. q \in DeskType
    BY <2>1, <2>2 DEF DeskType
  <2> QED
    BY <1>2, <1>4, <1>f, <2>3 DEF DeskLimit, n
<1>5. CASE DeskCount
  <2>1. desk \in [kind : {"limit", "count", "insert", "publish"}, product : Products,
                  now : BOOLEAN, day : Days, slack : Int]
    BY <1>0, <1>5, DeskFields DEF DeskCount
  <2>2. [desk EXCEPT !.kind = "insert"] \in DeskType
    BY <2>1 DEF DeskType
  <2> QED
    BY <1>2, <1>5, <1>f, <2>2 DEF DeskCount
<1>6. CASE DeskInsert
  <2> DEFINE k == <<desk.product, DefaultType, desk.day>>
  <2>1. desk \in [kind : {"limit", "count", "insert", "publish"}, product : Products,
                  now : BOOLEAN, day : Days, slack : Int]
    BY <1>0, <1>6, DeskFields DEF DeskInsert
  <2>2. [desk EXCEPT !.kind = "publish"] \in DeskType
    BY <2>1 DEF DeskType
  <2>3. k \in Keys /\ k[1] \in Products
    BY <2>1, PipelineAssumption DEF Keys
  <2>4. (ScheduleRow(k) \/ UNCHANGED <<product, row>>)
        /\ desk' \in {Free, [desk EXCEPT !.kind = "publish"]}
        /\ UNCHANGED <<published, maxAllowed, today, at, run, past>>
    BY <1>6 DEF DeskInsert
  <2> HIDE DEF k
  <2>5. product' \in [Products -> ProductStatus] /\ row' \in [Keys -> RowStatus]
    BY <1>0, <2>3, <2>4 DEF ScheduleRow, TypeOK, ProductStatus, RowStatus
  <2> QED
    BY <1>0, <1>1, <1>f, <2>2, <2>4, <2>5 DEF TypeOK
<1>7. CASE DeskGivesUp
  BY <1>2, <1>7, <1>f DEF DeskGivesUp
<1>8. ASSUME NEW r \in Products, BeginSkip(r) PROVE Typed'
  BY <1>2, <1>8 DEF BeginSkip, DeskType
<1>9. CASE SkipSelect
  <2>1. desk \in [kind : {"skip_select", "skip_write"}, product : Products, rows : SUBSET Keys]
    BY <1>0, <1>9, DeskFields DEF SkipSelect
  <2>2. ActiveRows(desk.product) \in SUBSET Keys
    BY DEF ActiveRows, RowsOf
  <2>3. [desk EXCEPT !.kind = "skip_write", !.rows = ActiveRows(desk.product)] \in DeskType
    BY <2>1, <2>2 DEF DeskType
  <2> QED
    BY <1>2, <1>9, <2>3 DEF SkipSelect
<1>10. CASE SkipWrite
  <2>1. product' \in [Products -> ProductStatus] /\ row' \in [Keys -> RowStatus]
    BY <1>0, <1>10 DEF SkipWrite, Cancel, TypeOK, ProductStatus, RowStatus
  <2> QED
    BY <1>0, <1>1, <1>10, <1>f, <2>1 DEF SkipWrite, TypeOK
<1>11. ASSUME NEW r \in Products, BeginRetry(r) PROVE Typed'
  <2>1. product[r] \in ProductStatus
    BY <1>0 DEF TypeOK
  <2> QED
    BY <1>2, <1>11, <2>1 DEF BeginRetry, DeskType
<1>12. CASE Retry
  <2> DEFINE r == desk.product
             failed == {k \in RowsOf(r) : row[k] = "FAILED"}
  <2>1. desk' = Free /\ UNCHANGED <<published, maxAllowed, today, at, run, peak, spent>>
    BY <1>12 DEF Retry
  <2>2. /\ product' \in [Products -> ProductStatus] /\ row' \in [Keys -> RowStatus]
        /\ revived' \in [Types \X Days -> Nat]
    <3>1. CASE failed = {}
      <4>1. /\ UNCHANGED <<row, revived>>
            /\ product' = [product EXCEPT ![r] = IF desk.status = "FAILED" THEN "ELIGIBLE" ELSE @]
        BY <1>12, <3>1 DEF Retry
      <4> QED
        BY <1>0, <4>1 DEF TypeOK, ProductStatus
    <3>2. CASE failed # {}
      <4>1. PICK k \in failed :
              \/ /\ row' = [row EXCEPT ![k] = "SCHEDULED"]
                 /\ product' = [product EXCEPT ![r] = IF desk.status = "SCHEDULED" THEN @ ELSE "SCHEDULED"]
                 /\ revived' = [revived EXCEPT ![<<k[2], k[3]>>] = @ + 1]
              \/ UNCHANGED <<row, product, revived>>
        BY <1>12, <3>2 DEF Retry
      <4>2. k \in Keys /\ <<k[2], k[3]>> \in Types \X Days
        BY KeyParts DEF RowsOf
      <4>3. revived \in [Types \X Days -> Nat] /\ revived[<<k[2], k[3]>>] + 1 \in Nat
        BY <1>0, <4>2 DEF TypeOK
      <4>4. row' \in [Keys -> RowStatus] /\ revived' \in [Types \X Days -> Nat]
        BY <1>0, <4>1, <4>2, <4>3 DEF TypeOK, RowStatus
      <4>5. product' \in [Products -> ProductStatus]
        BY <1>0, <4>1 DEF TypeOK, ProductStatus
      <4> QED
        BY <4>4, <4>5
    <3> QED
      BY <3>1, <3>2
  <2> QED
    BY <1>1, <1>f, <2>1, <2>2
<1>13. ASSUME NEW t \in Types, NEW n \in Limits, SetLimit(t, n) PROVE Typed'
  <2>1. /\ maxAllowed' \in [Types \X Days -> Limits \cup {NoLimit}]
        /\ peak' \in [Types \X Days -> Limits \cup {0}]
    BY <1>0, <1>13 DEF SetLimit, TypeOK
  <2>2. spent' \in [kills : 0 .. MaxKills, changes : 0 .. MaxChanges]
    BY <1>0, <1>13, PipelineAssumption DEF SetLimit, TypeOK
  <2> QED
    BY <1>0, <1>13, <2>1, <2>2 DEF SetLimit, TypeOK, Typed, Counted
<1> QED
  BY <1>3, <1>4, <1>5, <1>6, <1>7, <1>8, <1>9, <1>10, <1>11, <1>12, <1>13
     DEF Operate, FinishOperation

\* No step of anybody leaves the types.
LEMMA TypedStep == Typed /\ [Next]_vars => Typed'
<1> SUFFICES ASSUME Typed, [Next]_vars PROVE Typed'
  OBVIOUS
<1> USE DEF tables, past, vars
<1>0. TypeOK /\ Counted
  BY DEF Typed
<1>f. Fresh \in RunType /\ Free \in DeskType
  BY PipelineAssumption DEF Fresh, RunType, Days, DeskType
<1>1. CASE Cycle
  BY <1>1, CycleTyped
<1>2. CASE Attempt \/ \E k \in Keys : KilledPublishing(k)
  BY <1>2, AttemptTyped DEF Attempt
<1>3. CASE Operate
  BY <1>3, OperateTyped
<1>4. CASE Killed
  <2>1. spent' \in [kills : 0 .. MaxKills, changes : 0 .. MaxChanges]
    BY <1>0, <1>4, PipelineAssumption DEF Killed, TypeOK
  <2>2. /\ \/ at' = "idle" /\ run' = Fresh
           \/ at' = at /\ run' = run
        /\ desk' \in {desk, Free} /\ UNCHANGED <<tables, today, peak, revived>>
    BY <1>4 DEF Killed, Die, Deaths
  <2> QED
    BY <1>0, <1>f, <2>1, <2>2 DEF TypeOK, Typed, Counted, Places
<1>5. CASE DayPasses
  <2>1. today' \in Days
    BY <1>0, <1>5, PipelineAssumption DEF DayPasses, TypeOK, Days
  <2> QED
    BY <1>0, <1>5, <2>1 DEF DayPasses, TypeOK, Typed, Counted
<1>6. CASE UNCHANGED vars
  BY <1>0, <1>6 DEF TypeOK, Typed, Counted
<1> QED
  BY <1>1, <1>2, <1>3, <1>4, <1>5, <1>6 DEF Next

\* Every variable keeps its type in both deployments, and the room for a type is
\* not negative when rows are inserted (remaining_capacity).
THEOREM PipelineTypeOK == Spec => []TypeOK
<1>1. Typed => TypeOK
  BY DEF Typed
<1> QED
  BY <1>1, InitTyped, TypedStep, PTL DEF Spec

-------------------------------------------------------------------------------
(* The scheduled job: a product and its rows agree *)

\* Worker and dashboard are not at work at the same time.
Alone == at = "idle" \/ desk = Free

\* A product has at most one row, none before it is scheduled; the row is active
\* while the product is SCHEDULED, and only then; a failed product has a failed
\* row, which a product can only leave behind when it is skipped.
Agree ==
  /\ \A j, k \in Keys : j[1] = k[1] /\ row[j] # "ABSENT" /\ row[k] # "ABSENT" => j = k
  /\ \A k \in Keys : row[k] # "ABSENT" => product[k[1]] \notin Schedulable
  /\ \A k \in Keys : row[k] \in ActiveStatus => product[k[1]] = "SCHEDULED"
  /\ \A k \in Keys : row[k] = "FAILED" => product[k[1]] \in {"FAILED", "SKIPPED"}
  /\ \A r \in Products : product[r] = "SCHEDULED" =>
       \E k \in Keys : k[1] = r /\ row[k] \in ActiveStatus
  /\ \A r \in Products : product[r] = "FAILED" => \E k \in Keys : k[1] = r /\ row[k] = "FAILED"

\* What worker and dashboard have read still holds when they write.
WorkerHolds ==
  /\ at = "enqueue" => \A r \in run.loaded : product[r] = "ELIGIBLE"
  /\ at \in {"capacity", "insert"} => \A r \in run.batch : product[r] = "QUEUED"

DeskHolds ==
  /\ desk.kind \in {"limit", "count", "insert"} => product[desk.product] \in Schedulable
  /\ desk.kind \in {"skip_select", "skip_write"} =>
       product[desk.product] \notin {"PUBLISHED", "SKIPPED"}
  /\ desk.kind = "skip_write" => desk.rows = ActiveRows(desk.product)
  /\ desk.kind = "retry" => desk.status = product[desk.product]

JobInv == Typed /\ Alone /\ Agree /\ WorkerHolds /\ DeskHolds

\* One row and its product go from one pair of matching states to another.
LEMMA RowMoved ==
  ASSUME Typed, Agree, NEW k \in Keys, NEW s \in RowStatus, NEW t \in ProductStatus,
         row' = [row EXCEPT ![k] = s], product' = [product EXCEPT ![k[1]] = t],
         row[k] # "ABSENT" \/ product[k[1]] \in Schedulable,
         s # "ABSENT", t \notin Schedulable,
         s \in ActiveStatus <=> t = "SCHEDULED", s = "FAILED" <=> t = "FAILED"
  PROVE  Agree'
<1>1. /\ \A j \in Keys : row'[j] = IF j = k THEN s ELSE row[j]
      /\ \A r \in Products : product'[r] = IF r = k[1] THEN t ELSE product[r]
  BY DEF Typed, TypeOK
<1>2. \A j \in Keys : j[1] \in Products
  BY KeyParts
<1>3. \A j \in Keys : j[1] = k[1] /\ row[j] # "ABSENT" => j = k
  BY DEF Agree
<1>4. \A j \in Keys : j[1] = k[1] /\ row'[j] # "ABSENT" => j = k
  BY <1>1, <1>3
<1>5. \A i, j \in Keys : i[1] = j[1] /\ row'[i] # "ABSENT" /\ row'[j] # "ABSENT" => i = j
  BY <1>1, <1>4 DEF Agree
<1>6. \A j \in Keys : row'[j] # "ABSENT" => product'[j[1]] \notin Schedulable
  BY <1>1, <1>2 DEF Agree
<1>7. \A j \in Keys : row'[j] \in ActiveStatus => product'[j[1]] = "SCHEDULED"
  BY <1>1, <1>2, <1>4 DEF Agree, ActiveStatus
<1>8. \A j \in Keys : row'[j] = "FAILED" => product'[j[1]] \in {"FAILED", "SKIPPED"}
  BY <1>1, <1>2, <1>4 DEF Agree
<1>9. \A r \in Products : product'[r] = "SCHEDULED" =>
        \E j \in Keys : j[1] = r /\ row'[j] \in ActiveStatus
  BY <1>1 DEF Agree
<1>10. \A r \in Products : product'[r] = "FAILED" => \E j \in Keys : j[1] = r /\ row'[j] = "FAILED"
  BY <1>1 DEF Agree
<1> QED
  BY <1>5, <1>6, <1>7, <1>8, <1>9, <1>10 DEF Agree

\* A product that may be scheduled has no row that a unique index could mind.
LEMMA NewRow ==
  ASSUME Typed, Agree, NEW k \in Keys, product[k[1]] \in Schedulable
  PROVE  Insertable(k)
<1>1. \A j \in Keys : j[1] = k[1] => row[j] = "ABSENT"
  BY DEF Agree
<1> QED
  BY <1>1 DEF Insertable, ActiveRows, RowsOf, ActiveStatus

\* Without rows there is nothing to disagree.
LEMMA JobInit == Init => JobInv
<1> SUFFICES ASSUME Init PROVE JobInv
  OBVIOUS
<1>1. Agree
  BY DEF Init, Agree, ActiveStatus
<1> QED
  BY <1>1, InitTyped DEF JobInv, Alone, WorkerHolds, DeskHolds, Init, Free

\* What the scheduler selected long before is still free when it inserts.
LEMMA JobNoConflict == JobInv => NoConflict
<1> SUFFICES ASSUME JobInv, at = "insert", Selected # {} PROVE Insertable(NextKey)
  BY DEF NoConflict
<1>1. NextKey \in Keys /\ NextKey[1] \in run.batch
  BY NextIsSelected DEF JobInv, Typed
<1>2. product[NextKey[1]] \in Schedulable
  BY <1>1 DEF JobInv, WorkerHolds, Schedulable
<1> QED
  BY <1>1, <1>2, NewRow DEF JobInv

\* The worker's stages.
LEMMA JobCycle ==
  ASSUME JobInv, ~Concurrent, Cycle
  PROVE  JobInv' /\ desk = Free
<1> USE DEF tables, past, vars
<1>0. Typed /\ TypeOK /\ Alone /\ Agree /\ WorkerHolds /\ Typed'
  BY CycleTyped DEF JobInv, Typed
<1>d. desk = Free /\ desk' = Free
  BY <1>0 DEF Cycle, StartCycle, WorkerMay, EnsureLimits, ReadEligible, Enqueue, SelectQueued,
              ReadCapacity, InsertNext, EndInsert, EndCycle, StageFails, Alone
<1>1. Alone' /\ DeskHolds'
  BY <1>d DEF Alone, DeskHolds, Free
<1> SUFFICES Agree' /\ WorkerHolds'
  BY <1>0, <1>1, <1>d DEF JobInv
<1>2. ASSUME UNCHANGED <<product, row>> PROVE Agree'
  BY <1>2, <1>0 DEF Agree
<1>3. CASE StartCycle \/ EnsureLimits \/ EndInsert \/ EndCycle \/ StageFails
  <2>1. UNCHANGED <<product, row>> /\ at' \in {"limits", "eligible", "publish", "idle"}
    BY <1>3 DEF StartCycle, EnsureLimits, EndInsert, EndCycle, StageFails, Goto, Abort
  <2> QED
    BY <1>2, <2>1 DEF WorkerHolds
<1>4. CASE ReadEligible
  <2> DEFINE read == {r \in Products : product[r] = "ELIGIBLE"}
  <2>1. UNCHANGED <<product, row>> /\ at' = "enqueue" /\ run'.loaded = read
    BY <1>0, <1>4 DEF ReadEligible, Goto, TypeOK, RunType
  <2> QED
    BY <1>2, <2>1 DEF WorkerHolds
<1>5. CASE Enqueue
  <2>1. /\ row' = row /\ at' = "select"
        /\ product' = [r \in Products |-> IF r \in run.loaded THEN "QUEUED" ELSE product[r]]
        /\ \A r \in run.loaded : product[r] = "ELIGIBLE"
    BY <1>0, <1>5 DEF Enqueue, Goto, WorkerHolds
  <2>2. \A r \in Products : \/ product'[r] = product[r]
                            \/ product[r] = "ELIGIBLE" /\ product'[r] = "QUEUED"
    BY <2>1
  <2>3. \A k \in Keys : k[1] \in Products
    BY KeyParts
  <2>4. Agree'
    BY <1>0, <2>1, <2>2, <2>3 DEF Agree, Schedulable
  <2> QED
    BY <2>1, <2>4 DEF WorkerHolds
<1>6. CASE SelectQueued
  <2> DEFINE read == {r \in Products : Selectable(r)}
             q == [Fresh EXCEPT !.day = today, !.batch = read]
  <2>1. UNCHANGED <<product, row>> /\ at' = "capacity" /\ run' = q
    BY <1>6 DEF SelectQueued, Goto
  <2>2. run'.batch = read
    BY <2>1 DEF Fresh
  <2> QED
    BY <1>2, <2>1, <2>2 DEF WorkerHolds, Selectable
<1>7. CASE ReadCapacity
  <2> DEFINE t == IF run.reads < 2 THEN "POST" ELSE "REEL"
             n == IF run.reads \in {0, 2} THEN Slack(t, run.day) ELSE Room(run.slack[t], t, run.day)
  <2>1. /\ UNCHANGED <<product, row>> /\ at = "capacity" /\ at' \in {"capacity", "insert"}
        /\ run' = [run EXCEPT !.slack[t] = n, !.reads = @ + 1]
    BY <1>7 DEF ReadCapacity
  <2> HIDE DEF n, t
  <2>2. run'.batch = run.batch
    BY <1>0, <2>1 DEF TypeOK, RunType
  <2> QED
    BY <1>0, <1>2, <2>1, <2>2 DEF WorkerHolds
<1>8. CASE InsertNext
  <2> DEFINE k == NextKey
             q == [run EXCEPT !.batch = @ \ {k[1]}, !.slack[k[2]] = @ - 1]
  <2>1. /\ at = "insert" /\ Selected # {}
        /\ \/ ScheduleRow(k) /\ run' = q /\ at' = at
           \/ at' = "idle" /\ UNCHANGED <<product, row>>
    BY <1>8 DEF InsertNext, Abort
  <2>2. k \in Keys /\ k[1] \in run.batch /\ k[1] \in Products
    BY <1>0, <2>1, NextIsSelected
  <2>3. product[k[1]] \in Schedulable
    BY <1>0, <2>1, <2>2 DEF WorkerHolds, Schedulable
  <2> HIDE DEF k
  <2>4. ASSUME ScheduleRow(k) PROVE Agree'
    BY <1>0, <2>2, <2>3, <2>4, RowMoved
       DEF ScheduleRow, RowStatus, ProductStatus, Schedulable, ActiveStatus
  <2>5. Agree'
    BY <1>2, <2>1, <2>4
  <2>6. ASSUME ScheduleRow(k), run' = q
        PROVE  \A r \in run'.batch : product'[r] = "QUEUED"
    <3> DEFINE left == run.batch \ {k[1]}
               new == [run.slack EXCEPT ![k[2]] = @ - 1]
    <3>1. q = [run EXCEPT !.batch = left, !.slack = new]
      BY <1>0 DEF TypeOK, RunType
    <3> HIDE DEF new
    <3>2. q.batch = left
      BY <1>0, <3>1 DEF TypeOK, RunType
    <3> HIDE DEF q
    <3>3. run.batch \subseteq Products /\ product \in [Products -> ProductStatus]
      BY <1>0 DEF TypeOK, RunType
    <3> QED
      BY <1>0, <2>1, <2>6, <3>2, <3>3 DEF ScheduleRow, WorkerHolds
  <2>7. WorkerHolds'
    BY <2>1, <2>6 DEF WorkerHolds
  <2> QED
    BY <2>5, <2>7
<1> QED
  BY <1>3, <1>4, <1>5, <1>6, <1>7, <1>8 DEF Cycle

\* Publishing a row, in the worker's stage or from the button.
LEMMA JobAttempt ==
  ASSUME JobInv, NEW k \in Keys, Succeed(k) \/ Fail(k) \/ KilledPublishing(k)
  PROVE  JobInv'
<1> USE DEF tables, past, vars
<1>0. /\ Typed /\ TypeOK /\ Alone /\ Agree /\ Typed' /\ k[1] \in Products
      /\ row[k] = "SCHEDULED" /\ product[k[1]] = "SCHEDULED"
      /\ at = "publish" \/ desk.kind = "publish"
  BY AttemptTyped, KeyParts
     DEF JobInv, Typed, Succeed, Fail, KilledPublishing, Publishing, Agree, ActiveStatus
<1>1. Agree'
  <2>1. CASE Succeed(k)
    <3>1. /\ row' = [row EXCEPT ![k] = "PUBLISHED"] /\ product' = [product EXCEPT ![k[1]] = "PUBLISHED"]
          /\ "PUBLISHED" \in RowStatus /\ "PUBLISHED" \in ProductStatus
      BY <2>1 DEF Succeed, RowStatus, ProductStatus
    <3> QED
      BY <1>0, <3>1, RowMoved DEF Schedulable, ActiveStatus
  <2>2. CASE Fail(k)
    <3>1. /\ row' = [row EXCEPT ![k] = "FAILED"] /\ product' = [product EXCEPT ![k[1]] = "FAILED"]
          /\ "FAILED" \in RowStatus /\ "FAILED" \in ProductStatus
      BY <2>2 DEF Fail, RowStatus, ProductStatus
    <3> QED
      BY <1>0, <3>1, RowMoved DEF Schedulable, ActiveStatus
  <2>3. CASE KilledPublishing(k)
    <3>1. /\ row' = [row EXCEPT ![k] = "PROCESSING"] /\ product' = product
          /\ "PROCESSING" \in RowStatus /\ "SCHEDULED" \in ProductStatus
      BY <2>3 DEF KilledPublishing, RowStatus, ProductStatus
    <3>2. product' = [product EXCEPT ![k[1]] = "SCHEDULED"]
      BY <1>0, <3>1 DEF TypeOK
    <3> QED
      BY <1>0, <3>1, <3>2, RowMoved DEF Schedulable, ActiveStatus
  <2> QED
    BY <2>1, <2>2, <2>3
<1>2. at' \in {at, "idle"} /\ desk' \in {desk, Free}
  BY DEF Succeed, Fail, KilledPublishing, DeskDone, Die
<1>3. at \in {"publish", "idle"} /\ desk.kind \in {"publish", "free"}
  BY <1>0 DEF Alone, Free
<1>4. WorkerHolds' /\ DeskHolds' /\ Alone'
  BY <1>0, <1>2, <1>3 DEF WorkerHolds, DeskHolds, Alone, Free
<1> QED
  BY <1>0, <1>1, <1>4 DEF JobInv

\* The dashboard.
LEMMA JobOperate ==
  ASSUME JobInv, ~Concurrent, Operate
  PROVE  JobInv' /\ at = "idle" /\ at' = "idle"
<1> USE DEF tables, past, vars
<1>0. /\ Typed /\ TypeOK /\ Alone /\ Agree /\ DeskHolds /\ Typed' /\ desk \in DeskType
      /\ product \in [Products -> ProductStatus] /\ row \in [Keys -> RowStatus]
  BY OperateTyped DEF JobInv, Typed, TypeOK
<1>i. at = "idle" /\ at' = "idle"
  <2>1. CASE FinishOperation
    <3>1. desk.kind # "free" /\ at' = at
      BY <2>1 DEF FinishOperation, DeskLimit, DeskCount, DeskInsert, DeskGivesUp, SkipSelect, SkipWrite,
                  Retry
    <3>2. desk # Free
      BY <3>1 DEF Free
    <3> QED
      BY <1>0, <3>1, <3>2 DEF Alone
  <2>2. ASSUME NEW r \in Products, (\E now \in BOOLEAN : BeginSchedule(r, now)) \/ BeginSkip(r) \/ BeginRetry(r)
        PROVE  at = "idle" /\ at' = "idle"
    BY <2>2 DEF BeginSchedule, BeginSkip, BeginRetry, DeskMay
  <2>3. ASSUME NEW t \in Types, NEW n \in Limits, SetLimit(t, n) PROVE at = "idle" /\ at' = "idle"
    BY <2>3 DEF SetLimit, DeskMay
  <2> QED
    BY <2>1, <2>2, <2>3 DEF Operate
<1>1. Alone' /\ WorkerHolds'
  BY <1>i DEF Alone, WorkerHolds
<1> SUFFICES Agree' /\ DeskHolds'
  BY <1>0, <1>1, <1>i DEF JobInv
<1>2. ASSUME UNCHANGED <<product, row>> PROVE Agree'
  BY <1>2, <1>0 DEF Agree
<1>3. ASSUME desk' = Free PROVE DeskHolds'
  BY <1>3 DEF DeskHolds, Free
<1>4. ASSUME NEW r \in Products, NEW now \in BOOLEAN, BeginSchedule(r, now) PROVE Agree' /\ DeskHolds'
  BY <1>2, <1>4 DEF BeginSchedule, DeskHolds
<1>5. CASE DeskLimit
  <2> DEFINE n == Slack(DefaultType, desk.day)
             q == [desk EXCEPT !.kind = "count", !.slack = n]
  <2>1. UNCHANGED <<product, row>> /\ desk.kind = "limit" /\ desk' \in {Free, q}
    BY <1>5 DEF DeskLimit
  <2>2. desk \in [kind : {"limit", "count", "insert", "publish"}, product : Products,
                  now : BOOLEAN, day : Days, slack : Int]
    BY <1>0, <2>1, DeskFields
  <2> HIDE DEF n
  <2>3. q.kind = "count" /\ q.product = desk.product
    BY <2>2
  <2> HIDE DEF q
  <2> QED
    BY <1>0, <1>2, <1>3, <2>1, <2>3 DEF DeskHolds
<1>6. CASE DeskCount
  <2> DEFINE q == [desk EXCEPT !.kind = "insert"]
  <2>1. UNCHANGED <<product, row>> /\ desk.kind = "count" /\ desk' \in {Free, q}
    BY <1>6 DEF DeskCount
  <2>2. desk \in [kind : {"limit", "count", "insert", "publish"}, product : Products,
                  now : BOOLEAN, day : Days, slack : Int]
    BY <1>0, <2>1, DeskFields
  <2>3. q.kind = "insert" /\ q.product = desk.product
    BY <2>2
  <2> HIDE DEF q
  <2> QED
    BY <1>0, <1>2, <1>3, <2>1, <2>3 DEF DeskHolds
<1>7. CASE DeskInsert
  <2> DEFINE k == <<desk.product, DefaultType, desk.day>>
             q == [desk EXCEPT !.kind = "publish"]
  <2>1. /\ desk.kind = "insert" /\ desk' \in {Free, q}
        /\ ScheduleRow(k) \/ UNCHANGED <<product, row>>
    BY <1>7 DEF DeskInsert
  <2>2. desk \in [kind : {"limit", "count", "insert", "publish"}, product : Products,
                  now : BOOLEAN, day : Days, slack : Int]
    BY <1>0, <2>1, DeskFields
  <2>3. q.kind = "publish"
    BY <2>2
  <2>4. k \in Keys /\ k[1] = desk.product
    BY <2>2, PipelineAssumption DEF Keys
  <2>5. product[k[1]] \in Schedulable
    BY <1>0, <2>1, <2>4 DEF DeskHolds
  <2> HIDE DEF k, q
  <2>6. ASSUME ScheduleRow(k) PROVE Agree'
    BY <1>0, <2>4, <2>5, <2>6, RowMoved
       DEF ScheduleRow, RowStatus, ProductStatus, Schedulable, ActiveStatus
  <2> QED
    BY <1>2, <1>3, <2>1, <2>3, <2>6 DEF DeskHolds
<1>8. CASE DeskGivesUp
  BY <1>2, <1>3, <1>8 DEF DeskGivesUp
<1>9. ASSUME NEW r \in Products, BeginSkip(r) PROVE Agree' /\ DeskHolds'
  BY <1>2, <1>9 DEF BeginSkip, DeskHolds
<1>10. CASE SkipSelect
  <2> DEFINE rows == ActiveRows(desk.product)
             q == [desk EXCEPT !.kind = "skip_write", !.rows = rows]
  <2>1. UNCHANGED <<product, row>> /\ desk.kind = "skip_select" /\ desk' = q
    BY <1>10 DEF SkipSelect
  <2>2. desk \in [kind : {"skip_select", "skip_write"}, product : Products, rows : SUBSET Keys]
    BY <1>0, <2>1, DeskFields
  <2> HIDE DEF rows
  <2>3. q.kind = "skip_write" /\ q.product = desk.product /\ q.rows = rows
    BY <2>2
  <2>4. ActiveRows(desk.product)' = {k \in Keys : k[1] = desk'.product /\ row'[k] \in ActiveStatus}
    BY DEF ActiveRows, RowsOf
  <2>5. rows = {k \in Keys : k[1] = desk.product /\ row[k] \in ActiveStatus}
    BY DEF ActiveRows, RowsOf, rows
  <2> HIDE DEF q
  <2> QED
    BY <1>0, <1>2, <2>1, <2>3, <2>4, <2>5 DEF DeskHolds
<1>11. CASE SkipWrite
  <2> DEFINE r == desk.product
  <2>1. /\ desk.kind = "skip_write" /\ desk' = Free /\ row' = Cancel(desk.rows)
        /\ product' = [product EXCEPT ![r] = "SKIPPED"]
        /\ desk.rows = ActiveRows(r)
    BY <1>0, <1>11 DEF SkipWrite, DeskHolds
  <2>2. r \in Products
    BY <1>0, <2>1, DeskFields
  <2> HIDE DEF r
  <2>3. \A k \in Keys : row'[k] = IF k[1] = r /\ row[k] \in ActiveStatus THEN "CANCELLED" ELSE row[k]
    BY <2>1 DEF Cancel, ActiveRows, RowsOf
  <2>4. \A s \in Products : product'[s] = IF s = r THEN "SKIPPED" ELSE product[s]
    BY <1>0, <2>1
  <2>5. \A k \in Keys : k[1] \in Products
    BY KeyParts
  <2>6. \A k \in Keys : /\ row'[k] # "ABSENT" => row[k] # "ABSENT"
                        /\ row'[k] \in ActiveStatus => row'[k] = row[k] /\ k[1] # r
                        /\ row'[k] = "FAILED" => row[k] = "FAILED"
                        /\ row[k] = "FAILED" => row'[k] = "FAILED"
                        /\ k[1] # r => row'[k] = row[k]
    BY <2>3 DEF ActiveStatus
  <2> HIDE DEF Cancel
  <2>7. /\ \A j, k \in Keys : j[1] = k[1] /\ row'[j] # "ABSENT" /\ row'[k] # "ABSENT" => j = k
        /\ \A k \in Keys : row'[k] # "ABSENT" => product'[k[1]] \notin Schedulable
    BY <1>0, <2>4, <2>5, <2>6 DEF Agree, Schedulable
  <2>8. /\ \A k \in Keys : row'[k] \in ActiveStatus => product'[k[1]] = "SCHEDULED"
        /\ \A k \in Keys : row'[k] = "FAILED" => product'[k[1]] \in {"FAILED", "SKIPPED"}
    BY <1>0, <2>4, <2>5, <2>6 DEF Agree
  <2>9. /\ \A s \in Products : product'[s] = "SCHEDULED" =>
             \E k \in Keys : k[1] = s /\ row'[k] \in ActiveStatus
        /\ \A s \in Products : product'[s] = "FAILED" => \E k \in Keys : k[1] = s /\ row'[k] = "FAILED"
    BY <1>0, <2>4, <2>6 DEF Agree
  <2>10. Agree'
    BY <2>7, <2>8, <2>9 DEF Agree
  <2> QED
    BY <1>3, <2>1, <2>10
<1>12. ASSUME NEW r \in Products, BeginRetry(r) PROVE Agree' /\ DeskHolds'
  BY <1>2, <1>12 DEF BeginRetry, DeskHolds
<1>13. CASE Retry
  <2> DEFINE r == desk.product
             failed == {k \in RowsOf(r) : row[k] = "FAILED"}
  <2>1. desk.kind = "retry" /\ desk' = Free /\ desk.status = product[r]
    BY <1>0, <1>13 DEF Retry, DeskHolds
  <2>2. r \in Products
    BY <1>0, <2>1, DeskFields
  <2>3. CASE failed = {}
    <3>1. product[r] # "FAILED"
      BY <1>0, <2>2, <2>3 DEF Agree, RowsOf
    <3>2. row' = row /\ product' = [product EXCEPT ![r] = IF desk.status = "FAILED" THEN "ELIGIBLE" ELSE @]
      BY <1>13, <2>3 DEF Retry
    <3>3. product' = product
      BY <1>0, <2>1, <2>2, <3>1, <3>2
    <3> QED
      BY <1>2, <1>3, <2>1, <3>2, <3>3
  <2>4. CASE failed # {}
    <3>1. PICK k \in failed :
            \/ /\ row' = [row EXCEPT ![k] = "SCHEDULED"]
               /\ product' = [product EXCEPT ![r] = IF desk.status = "SCHEDULED" THEN @ ELSE "SCHEDULED"]
            \/ UNCHANGED <<row, product>>
      BY <1>13, <2>4 DEF Retry
    <3>2. k \in Keys /\ k[1] = r /\ row[k] = "FAILED"
      BY DEF RowsOf
    <3>3. desk.status # "SCHEDULED"
      BY <1>0, <2>1, <3>2 DEF Agree
    <3>4. CASE UNCHANGED <<row, product>>
      BY <1>2, <1>3, <2>1, <3>4
    <3>5. CASE /\ row' = [row EXCEPT ![k] = "SCHEDULED"]
               /\ product' = [product EXCEPT ![r] = IF desk.status = "SCHEDULED" THEN @ ELSE "SCHEDULED"]
      <4>1. product' = [product EXCEPT ![k[1]] = "SCHEDULED"]
        BY <3>2, <3>3, <3>5
      <4>2. Agree'
        BY <1>0, <3>2, <3>5, <4>1, RowMoved DEF RowStatus, ProductStatus, Schedulable, ActiveStatus
      <4> QED
        BY <1>3, <2>1, <4>2
    <3> QED
      BY <3>1, <3>4, <3>5
  <2> QED
    BY <2>3, <2>4
<1>14. ASSUME NEW t \in Types, NEW n \in Limits, SetLimit(t, n) PROVE Agree' /\ DeskHolds'
  <2>1. UNCHANGED <<product, row, desk>>
    BY <1>14 DEF SetLimit
  <2> QED
    BY <1>0, <1>2, <2>1 DEF DeskHolds, ActiveRows, RowsOf
<1> QED
  BY <1>4, <1>5, <1>6, <1>7, <1>8, <1>9, <1>10, <1>11, <1>12, <1>13, <1>14
     DEF Operate, FinishOperation

\* No step of the job lets a product and its rows disagree.
LEMMA JobStep == ~Concurrent /\ JobInv /\ [Next]_vars => JobInv'
<1> SUFFICES ASSUME ~Concurrent, JobInv, [Next]_vars PROVE JobInv'
  OBVIOUS
<1> USE DEF tables, past, vars
<1>1. CASE Cycle
  BY <1>1, JobCycle
<1>2. CASE Attempt \/ \E k \in Keys : KilledPublishing(k)
  BY <1>2, JobAttempt DEF Attempt
<1>3. CASE Operate
  BY <1>3, JobOperate
<1>4. CASE Killed
  <2>1. UNCHANGED <<product, row>> /\ at' = "idle" /\ desk' = Free
    BY <1>4 DEF Killed, Die, Deaths
  <2>2. Typed'
    BY TypedStep DEF JobInv
  <2> QED
    BY <2>1, <2>2 DEF JobInv, Alone, Agree, WorkerHolds, DeskHolds, Free
<1>5. CASE DayPasses \/ UNCHANGED vars
  <2>1. UNCHANGED <<product, row, at, run, desk>>
    BY <1>5 DEF DayPasses
  <2>2. Typed'
    BY TypedStep DEF JobInv
  <2> QED
    BY <2>1, <2>2 DEF JobInv, Alone, Agree, WorkerHolds, DeskHolds, ActiveRows, RowsOf
<1> QED
  BY <1>1, <1>2, <1>3, <1>4, <1>5 DEF Next

\* In the scheduled job a product and its rows agree all the time.
LEMMA AlwaysJobInv == ~Concurrent => (Spec => []JobInv)
<1> SUFFICES ASSUME ~Concurrent PROVE Spec => []JobInv
  OBVIOUS
<1>1. JobInv /\ [Next]_vars => JobInv'
  BY JobStep
<1> QED
  BY <1>1, JobInit, PTL DEF Spec

\* In the scheduled job a SCHEDULED product has exactly one active row, so it is
\* not published as a post and as a reel, and any other product has none.
THEOREM JobOneActiveRow == ~Concurrent => (Spec => []OneActiveRow)
<1>1. JobInv => OneActiveRow
  <2> SUFFICES ASSUME JobInv, NEW r \in Products
               PROVE  Cardinality(ActiveRows(r)) = IF product[r] = "SCHEDULED" THEN 1 ELSE 0
    BY DEF OneActiveRow
  <2>1. Agree
    BY DEF JobInv
  <2>2. CASE product[r] = "SCHEDULED"
    <3>1. PICK k \in Keys : k[1] = r /\ row[k] \in ActiveStatus
      BY <2>1, <2>2 DEF Agree
    <3>2. ActiveRows(r) = {k}
      BY <2>1, <3>1 DEF Agree, ActiveRows, RowsOf, ActiveStatus
    <3> QED
      BY <2>2, <3>2, FS_Singleton
  <2>3. CASE product[r] # "SCHEDULED"
    <3>1. ActiveRows(r) = {}
      BY <2>1, <2>3 DEF Agree, ActiveRows, RowsOf
    <3> QED
      BY <2>3, <3>1, FS_EmptySet
  <2> QED
    BY <2>2, <2>3
<1> QED
  BY <1>1, AlwaysJobInv, PTL

\* In the scheduled job the scheduler never runs into a unique index, whose error
\* handler would end the cycle: what it selected is still free when it inserts.
THEOREM JobInsertsFreely == ~Concurrent => (Spec => []NoConflict)
<1> QED
  BY JobNoConflict, AlwaysJobInv, PTL

\* In the scheduled job what the owner skipped, or what is published, only a retry
\* of the owner brings back: no stage writes over it with a status read before.
THEOREM JobFinalForTheWorker == ~Concurrent => (Spec => FinalForTheWorker)
<1> USE DEF tables, past, vars
<1>1. ASSUME JobInv, ~Concurrent, [Next]_vars, NEW r \in Products,
             product[r] \in {"SKIPPED", "PUBLISHED"}, product'[r] # product[r]
      PROVE  desk.kind = "retry"
  <2>0. /\ product \in [Products -> ProductStatus] /\ Agree /\ WorkerHolds /\ DeskHolds
        /\ Typed /\ TypeOK
    BY <1>1 DEF JobInv, Typed, TypeOK
  <2>1. ASSUME NEW k \in Keys, Succeed(k) \/ Fail(k) \/ KilledPublishing(k) PROVE FALSE
    <3>1. product[k[1]] = "SCHEDULED"
      BY <2>0, <2>1 DEF Succeed, Fail, KilledPublishing, Publishing, Agree, ActiveStatus
    <3>2. product'[r] = product[r]
      BY <1>1, <2>0, <2>1, <3>1 DEF Succeed, Fail, KilledPublishing
    <3> QED
      BY <1>1, <3>2
  <2>2. ASSUME NEW k \in Keys, ScheduleRow(k), product[k[1]] \in Schedulable PROVE FALSE
    BY <1>1, <2>0, <2>2 DEF ScheduleRow, Schedulable
  <2>3. ASSUME InsertNext PROVE FALSE
    <3>1. NextKey \in Keys /\ NextKey[1] \in run.batch
      BY <2>0, <2>3, NextIsSelected DEF InsertNext
    <3>2. product[NextKey[1]] \in Schedulable
      BY <2>0, <2>3, <3>1 DEF InsertNext, WorkerHolds, Schedulable
    <3>3. ScheduleRow(NextKey) \/ product' = product
      BY <2>3 DEF InsertNext
    <3> QED
      BY <1>1, <2>2, <3>1, <3>2, <3>3
  <2>4. ASSUME Enqueue PROVE FALSE
    BY <1>1, <2>0, <2>4 DEF Enqueue, WorkerHolds
  <2>5. ASSUME DeskInsert PROVE FALSE
    <3> DEFINE k == <<desk.product, DefaultType, desk.day>>
    <3>1. desk \in [kind : {"limit", "count", "insert", "publish"}, product : Products,
                    now : BOOLEAN, day : Days, slack : Int]
      BY <2>0, <2>5, DeskFields DEF DeskInsert, TypeOK
    <3>2. k \in Keys /\ k[1] = desk.product
      BY <3>1, PipelineAssumption DEF Keys
    <3>3. product[k[1]] \in Schedulable
      BY <2>0, <2>5, <3>2 DEF DeskInsert, DeskHolds
    <3>4. ScheduleRow(k) \/ product' = product
      BY <2>5 DEF DeskInsert
    <3> HIDE DEF k
    <3> QED
      BY <1>1, <2>2, <3>2, <3>3, <3>4
  <2>6. ASSUME SkipWrite PROVE FALSE
    BY <1>1, <2>0, <2>6 DEF SkipWrite, DeskHolds
  <2>7. ASSUME Retry PROVE desk.kind = "retry"
    BY <2>7 DEF Retry
  <2>8. product' = product
        \/ InsertNext \/ Enqueue \/ DeskInsert \/ SkipWrite \/ Retry
        \/ \E k \in Keys : Succeed(k) \/ Fail(k) \/ KilledPublishing(k)
    BY <1>1 DEF Next, Cycle, Operate, FinishOperation, Attempt, StartCycle, EnsureLimits, ReadEligible,
                SelectQueued, ReadCapacity, EndInsert, EndCycle, StageFails, BeginSchedule, BeginSkip, BeginRetry,
                SetLimit, DeskLimit, DeskCount, DeskGivesUp, SkipSelect, Killed, DayPasses
  <2> QED
    BY <1>1, <2>1, <2>3, <2>4, <2>5, <2>6, <2>7, <2>8
<1> SUFFICES ASSUME ~Concurrent PROVE Spec => FinalForTheWorker
  OBVIOUS
<1>2. JobInv /\ [Next]_vars =>
        [\A r \in Products :
           product[r] \in {"SKIPPED", "PUBLISHED"} /\ product'[r] # product[r]
             => desk.kind = "retry"]_vars
  BY <1>1
<1> QED
  BY <1>2, AlwaysJobInv, PTL DEF Spec, FinalForTheWorker

-------------------------------------------------------------------------------
(* The scheduled job implements ProductLife *)

\* A step that moves one product, as ProductLife sees it.
LEMMA LifeMoved ==
  ASSUME Typed, NEW r \in Products, NEW t, NEW B,
         product' = [product EXCEPT ![r] = t],
         \A q \in Products : Bookings'[q] = IF q = r THEN B ELSE Bookings[q]
  PROVE  Stage' = [Stage EXCEPT ![r] = StageOf(t)] /\ Bookings' = [Bookings EXCEPT ![r] = B]
<1>1. product \in [Products -> ProductStatus]
  BY DEF Typed, TypeOK
<1>2. \A q \in Products : product'[q] = IF q = r THEN t ELSE product[q]
  BY <1>1
<1>3. /\ Stage = [q \in Products |-> StageOf(product[q])]
      /\ Stage' = [q \in Products |-> StageOf(product'[q])]
  BY DEF Stage
<1>4. Stage' = [Stage EXCEPT ![r] = StageOf(t)]
  BY <1>2, <1>3
<1>5. /\ Bookings = [q \in Products |-> Bookings[q]]
      /\ Bookings' = [q \in Products |-> Bookings'[q]]
  BY DEF Bookings
<1>6. Bookings' = [Bookings EXCEPT ![r] = B]
  BY <1>5
<1> QED
  BY <1>4, <1>6

\* A row that stays a booking, or was none and becomes none, changes nothing.
LEMMA SameBookings ==
  ASSUME \A k \in Keys : row'[k] \in {"ABSENT", "CANCELLED"} <=> row[k] \in {"ABSENT", "CANCELLED"}
  PROVE  Bookings' = Bookings
BY DEF Bookings, RowsOf

\* A new row is the only booking of its product.
LEMMA BooksProduct ==
  ASSUME JobInv, NEW k \in Keys, product[k[1]] \in Schedulable, ScheduleRow(k)
  PROVE  Life!LifeNext
<1> DEFINE r == k[1]
<1>0. Typed /\ Agree /\ row \in [Keys -> RowStatus] /\ r \in Products
  BY KeyParts DEF JobInv, Typed, TypeOK
<1>1. \A j \in Keys : j[1] = r => row[j] = "ABSENT"
  BY <1>0 DEF Agree
<1>2. row' = [row EXCEPT ![k] = "SCHEDULED"] /\ product' = [product EXCEPT ![r] = "SCHEDULED"]
  BY DEF ScheduleRow
<1>3. \A j \in Keys : row'[j] = IF j = k THEN "SCHEDULED" ELSE row[j]
  BY <1>0, <1>2
<1>4. \A q \in Products : Bookings'[q] = IF q = r THEN {k} ELSE Bookings[q]
  BY <1>1, <1>3 DEF Bookings, RowsOf
<1>5. /\ Stage' = [Stage EXCEPT ![r] = StageOf("SCHEDULED")]
      /\ Bookings' = [Bookings EXCEPT ![r] = {k}]
  BY <1>0, <1>2, <1>4, LifeMoved
<1>6. Stage[r] = "OPEN" /\ StageOf("SCHEDULED") = "SCHEDULED" /\ [j \in Keys |-> j[1]][k] = r
  BY <1>0 DEF Stage, StageOf, Schedulable
<1>7. Life!Book(r, k)
  BY <1>5, <1>6 DEF Life!Book
<1> QED
  BY <1>0, <1>7 DEF Life!LifeNext

\* A row that was published, or failed, ends its product's booking.
LEMMA FinishesProduct ==
  ASSUME JobInv, NEW k \in Keys, Succeed(k) \/ Fail(k) \/ KilledPublishing(k)
  PROVE  Life!LifeNext \/ UNCHANGED <<Stage, Bookings>>
<1> DEFINE r == k[1]
<1>0. /\ Typed /\ Agree /\ row \in [Keys -> RowStatus] /\ r \in Products
      /\ row[k] = "SCHEDULED" /\ product[r] = "SCHEDULED"
  BY KeyParts DEF JobInv, Typed, TypeOK, Succeed, Fail, KilledPublishing, Publishing, Agree, ActiveStatus
<1>1. \E s \in {"PUBLISHED", "FAILED", "PROCESSING"} : row' = [row EXCEPT ![k] = s]
  BY DEF Succeed, Fail, KilledPublishing
<1>2. Bookings' = Bookings
  BY <1>0, <1>1, SameBookings
<1>3. ASSUME NEW end \in {"PUBLISHED", "FAILED"}, product' = [product EXCEPT ![r] = end]
      PROVE  Life!LifeNext
  <2>1. Stage' = [Stage EXCEPT ![r] = StageOf(end)]
    BY <1>0, <1>2, <1>3, LifeMoved
  <2>2. Stage[r] = "SCHEDULED" /\ StageOf(end) = end
    BY <1>0 DEF Stage, StageOf, Schedulable
  <2>3. Life!Finish(r, end) /\ end \in Life!Stages
    BY <1>2, <2>1, <2>2 DEF Life!Finish, Life!Stages
  <2> QED
    BY <1>0, <2>3 DEF Life!LifeNext
<1>4. CASE Succeed(k)
  BY <1>3, <1>4 DEF Succeed
<1>5. CASE Fail(k)
  BY <1>3, <1>5 DEF Fail
<1>6. CASE KilledPublishing(k)
  BY <1>2, <1>6 DEF KilledPublishing, Stage
<1> QED
  BY <1>4, <1>5, <1>6

\* A skip drops the product, with the booking that was still to be published.
LEMMA DropsProduct ==
  ASSUME JobInv, SkipWrite
  PROVE  Life!LifeNext
<1> DEFINE r == desk.product
<1>0. /\ Typed /\ Agree /\ row \in [Keys -> RowStatus] /\ product \in [Products -> ProductStatus]
      /\ r \in Products
  BY DeskFields DEF JobInv, Typed, TypeOK, SkipWrite
<1>1. /\ row' = Cancel(ActiveRows(r)) /\ product' = [product EXCEPT ![r] = "SKIPPED"]
      /\ product[r] \notin {"PUBLISHED", "SKIPPED"}
  BY DEF SkipWrite, JobInv, DeskHolds
<1>2. \A k \in Keys : row'[k] = IF k[1] = r /\ row[k] \in ActiveStatus THEN "CANCELLED" ELSE row[k]
  BY <1>1 DEF Cancel, ActiveRows, RowsOf
<1> HIDE DEF r
<1> DEFINE B == IF product[r] = "FAILED" THEN Bookings[r] ELSE {}
<1>3. \A q \in Products : q # r => Bookings'[q] = Bookings[q]
  BY <1>2 DEF Bookings, RowsOf
<1>4. Bookings'[r] = B
  <2>1. CASE product[r] = "FAILED"
    <3>1. \A k \in Keys : k[1] = r => row[k] \notin ActiveStatus
      BY <1>0, <2>1 DEF Agree
    <3>2. \A k \in Keys : row'[k] = row[k]
      BY <1>2, <3>1
    <3> QED
      BY <1>0, <2>1, <3>2 DEF Bookings, RowsOf
  <2>2. CASE product[r] \in Schedulable
    <3>1. \A k \in Keys : k[1] = r => row[k] = "ABSENT"
      BY <1>0, <2>2 DEF Agree
    <3>2. \A k \in Keys : k[1] = r => row'[k] = "ABSENT"
      BY <1>2, <3>1 DEF ActiveStatus
    <3> QED
      BY <1>0, <2>2, <3>2 DEF Bookings, RowsOf, Schedulable
  <2>3. CASE product[r] = "SCHEDULED"
    <3>1. PICK k \in Keys : k[1] = r /\ row[k] \in ActiveStatus
      BY <1>0, <2>3 DEF Agree
    <3>2. \A j \in Keys : j[1] = r /\ j # k => row[j] = "ABSENT"
      BY <1>0, <3>1 DEF Agree, ActiveStatus
    <3>3. \A j \in Keys : j[1] = r => row'[j] \in {"ABSENT", "CANCELLED"}
      BY <1>2, <3>1, <3>2
    <3> QED
      BY <1>0, <2>3, <3>3 DEF Bookings, RowsOf
  <2> QED
    BY <1>0, <1>1, <2>1, <2>2, <2>3 DEF ProductStatus, Schedulable
<1>5. /\ Stage' = [Stage EXCEPT ![r] = StageOf("SKIPPED")]
      /\ Bookings' = [Bookings EXCEPT ![r] = B]
  <2> HIDE DEF B
  <2> QED
    BY <1>0, <1>1, <1>3, <1>4, LifeMoved
<1>6. /\ Stage[r] \in {"OPEN", "SCHEDULED", "FAILED"} /\ StageOf("SKIPPED") = "SKIPPED"
      /\ B = IF Stage[r] = "FAILED" THEN Bookings[r] ELSE {}
  BY <1>0, <1>1 DEF Stage, StageOf, Schedulable, ProductStatus
<1>7. Bookings' = [Bookings EXCEPT ![r] = IF Stage[r] = "FAILED" THEN @ ELSE {}]
  BY <1>5, <1>6
<1> HIDE DEF B
<1>8. Life!Drop(r)
  BY <1>5, <1>6, <1>7 DEF Life!Drop
<1> QED
  BY <1>0, <1>8 DEF Life!LifeNext

\* A retry reopens the booking that failed, or does nothing.
LEMMA ReopensProduct ==
  ASSUME JobInv, Retry
  PROVE  Life!LifeNext \/ UNCHANGED <<Stage, Bookings>>
<1> DEFINE r == desk.product
           failed == {k \in RowsOf(r) : row[k] = "FAILED"}
<1>0. /\ Typed /\ Agree /\ row \in [Keys -> RowStatus] /\ product \in [Products -> ProductStatus]
      /\ r \in Products /\ desk.status = product[r]
  BY DeskFields DEF JobInv, Typed, TypeOK, Retry, DeskHolds
<1>1. CASE failed = {}
  <2>1. product[r] # "FAILED"
    BY <1>0, <1>1 DEF Agree, RowsOf
  <2>2. row' = row /\ product' = product
    BY <1>0, <1>1, <2>1 DEF Retry
  <2> QED
    BY <2>2 DEF Stage, Bookings
<1>2. CASE failed # {}
  <2>1. PICK k \in failed :
          \/ /\ row' = [row EXCEPT ![k] = "SCHEDULED"]
             /\ product' = [product EXCEPT ![r] = IF desk.status = "SCHEDULED" THEN @ ELSE "SCHEDULED"]
          \/ UNCHANGED <<row, product>>
    BY <1>2 DEF Retry
  <2>2. k \in Keys /\ k[1] = r /\ row[k] = "FAILED"
    BY DEF RowsOf
  <2>3. product[r] \in {"FAILED", "SKIPPED"}
    BY <1>0, <2>2 DEF Agree
  <2>4. CASE UNCHANGED <<row, product>>
    BY <2>4 DEF Stage, Bookings
  <2>5. CASE /\ row' = [row EXCEPT ![k] = "SCHEDULED"]
             /\ product' = [product EXCEPT ![r] = IF desk.status = "SCHEDULED" THEN @ ELSE "SCHEDULED"]
    <3>1. product' = [product EXCEPT ![r] = "SCHEDULED"]
      BY <1>0, <2>3, <2>5
    <3>2. Bookings' = Bookings
      BY <1>0, <2>2, <2>5, SameBookings
    <3> HIDE DEF r
    <3>3. Stage' = [Stage EXCEPT ![r] = StageOf("SCHEDULED")]
      BY <1>0, <3>1, <3>2, LifeMoved
    <3>4. /\ Stage[r] \in {"FAILED", "SKIPPED"} /\ StageOf("SCHEDULED") = "SCHEDULED"
          /\ Bookings[r] # {}
      BY <1>0, <2>2, <2>3 DEF Stage, StageOf, Schedulable, Bookings, RowsOf
    <3>5. Life!Reopen(r)
      BY <3>2, <3>3, <3>4 DEF Life!Reopen
    <3> QED
      BY <1>0, <3>5 DEF Life!LifeNext
  <2> QED
    BY <2>1, <2>4, <2>5
<1> QED
  BY <1>1, <1>2

\* Every step of the job is a step in one product's life, or leaves all as it is.
LEMMA LifeStep == JobInv /\ [Next]_vars => [Life!LifeNext]_(Life!lifeVars)
<1> SUFFICES ASSUME JobInv, [Next]_vars
             PROVE  Life!LifeNext \/ UNCHANGED <<Stage, Bookings>>
  BY DEF Life!lifeVars
<1> USE DEF tables, past, vars
<1>0. Typed /\ TypeOK /\ Agree /\ WorkerHolds /\ DeskHolds
  BY DEF JobInv, Typed
<1>1. ASSUME UNCHANGED <<product, row>> PROVE UNCHANGED <<Stage, Bookings>>
  BY <1>1 DEF Stage, Bookings
<1>2. CASE InsertNext
  <2>1. NextKey \in Keys /\ NextKey[1] \in run.batch
    BY <1>0, <1>2, NextIsSelected DEF InsertNext
  <2>2. product[NextKey[1]] \in Schedulable
    BY <1>0, <1>2, <2>1 DEF InsertNext, WorkerHolds, Schedulable
  <2>3. ScheduleRow(NextKey) \/ UNCHANGED <<product, row>>
    BY <1>2 DEF InsertNext
  <2> QED
    BY <1>1, <2>1, <2>2, <2>3, BooksProduct
<1>3. CASE DeskInsert
  <2> DEFINE k == <<desk.product, DefaultType, desk.day>>
  <2>1. desk \in [kind : {"limit", "count", "insert", "publish"}, product : Products,
                  now : BOOLEAN, day : Days, slack : Int]
    BY <1>0, <1>3, DeskFields DEF DeskInsert, TypeOK
  <2>2. k \in Keys /\ k[1] = desk.product
    BY <2>1, PipelineAssumption DEF Keys
  <2>3. product[k[1]] \in Schedulable
    BY <1>0, <1>3, <2>2 DEF DeskInsert, DeskHolds
  <2>4. ScheduleRow(k) \/ UNCHANGED <<product, row>>
    BY <1>3 DEF DeskInsert
  <2> HIDE DEF k
  <2> QED
    BY <1>1, <2>2, <2>3, <2>4, BooksProduct
<1>4. CASE Enqueue
  <2>1. /\ row' = row /\ \A r \in run.loaded : product[r] = "ELIGIBLE"
        /\ product' = [r \in Products |-> IF r \in run.loaded THEN "QUEUED" ELSE product[r]]
    BY <1>0, <1>4 DEF Enqueue, WorkerHolds
  <2>2. \A r \in Products : StageOf(product'[r]) = StageOf(product[r])
    BY <2>1 DEF StageOf, Schedulable
  <2> QED
    BY <2>1, <2>2 DEF Stage, Bookings
<1>5. CASE \E k \in Keys : Succeed(k) \/ Fail(k) \/ KilledPublishing(k)
  BY <1>5, FinishesProduct
<1>6. CASE SkipWrite
  BY <1>6, DropsProduct
<1>7. CASE Retry
  BY <1>7, ReopensProduct
<1>8. UNCHANGED <<product, row>>
      \/ InsertNext \/ Enqueue \/ DeskInsert \/ SkipWrite \/ Retry
      \/ \E k \in Keys : Succeed(k) \/ Fail(k) \/ KilledPublishing(k)
  BY DEF Next, Cycle, Operate, FinishOperation, Attempt, StartCycle, EnsureLimits, ReadEligible,
         SelectQueued, ReadCapacity, EndInsert, EndCycle, StageFails, BeginSchedule, BeginSkip, BeginRetry,
         SetLimit, DeskLimit, DeskCount, DeskGivesUp, SkipSelect, Killed, DayPasses
<1> QED
  BY <1>1, <1>2, <1>3, <1>4, <1>5, <1>6, <1>7, <1>8

\* In the scheduled job all stages and operations together do to a product no more
\* than ProductLife: one booking, published at most once, reopened as it was.
THEOREM JobImplementsLife == ~Concurrent => (Spec => ImplementsProductLife)
<1> SUFFICES ASSUME ~Concurrent PROVE Spec => ImplementsProductLife
  OBVIOUS
<1>1. Init => Life!LifeInit
  <2> SUFFICES ASSUME Init PROVE Life!LifeInit
    OBVIOUS
  <2>1. Stage = [r \in Products |-> "OPEN"]
    BY DEF Init, Stage, StageOf, Schedulable
  <2>2. \A k \in Keys : row[k] = "ABSENT"
    BY DEF Init
  <2>3. \A r \in Products : {k \in RowsOf(r) : row[k] \notin {"ABSENT", "CANCELLED"}} = {}
    BY <2>2 DEF RowsOf
  <2>4. Bookings = [r \in Products |-> {}]
    BY <2>3 DEF Bookings
  <2> QED
    BY <2>1, <2>4 DEF Life!LifeInit
<1> QED
  BY <1>1, LifeStep, AlwaysJobInv, PTL DEF Spec, ImplementsProductLife, Life!LifeSpec

-------------------------------------------------------------------------------
(* The scheduled job: no day is overbooked *)

Booked(t, d)    == {k \in RowsOn(t, d) : row[k] \in ActiveStatus \cup {"PUBLISHED"}}
Confirmed(t, d) == {k \in RowsOn(t, d) : row[k] = "PUBLISHED"}

\* The counter covers the confirmed rows, the ceiling the active ones too.
Within ==
  \A t \in Types, d \in Days :
    LET b == <<t, d>> IN
    /\ Cardinality(Confirmed(t, d)) <= published[b]
    /\ Cardinality(Booked(t, d)) <= peak[b] + revived[b]
    /\ maxAllowed[b] <= peak[b]
    /\ maxAllowed[b] = NoLimit => peak[b] = 0

\* There is room for n more rows.
Fits(t, d, n) ==
  n > 0 => n + Cardinality(Active(t, d)) + published[<<t, d>>] <= maxAllowed[<<t, d>>]

\* The capacity that worker and dashboard have read is still there.
Reserved ==
  /\ at = "capacity" /\ run.reads = 1 => run.slack["POST"] = Slack("POST", run.day)
  /\ at = "capacity" /\ run.reads >= 2 => Fits("POST", run.day, run.slack["POST"])
  /\ at = "capacity" /\ run.reads = 3 => run.slack["REEL"] = Slack("REEL", run.day)
  /\ at = "insert" => \A t \in Types : Fits(t, run.day, run.slack[t])

DeskReserved ==
  /\ desk.kind = "count" => desk.slack = Slack(DefaultType, desk.day)
  /\ desk.kind = "insert" => Fits(DefaultType, desk.day, 1)

\* The books of a day are finite: a booked row is an active or a confirmed one.
LEMMA FiniteBooks ==
  ASSUME NEW t, NEW d
  PROVE  /\ IsFiniteSet(Booked(t, d)) /\ Cardinality(Booked(t, d)) \in Nat
         /\ IsFiniteSet(Confirmed(t, d)) /\ Cardinality(Confirmed(t, d)) \in Nat
         /\ IsFiniteSet(Active(t, d)) /\ Cardinality(Active(t, d)) \in Nat
         /\ Cardinality(Booked(t, d)) <= Cardinality(Active(t, d)) + Cardinality(Confirmed(t, d))
<1>1. /\ Booked(t, d) \in SUBSET Keys /\ Confirmed(t, d) \in SUBSET Keys
      /\ Active(t, d) \in SUBSET Keys
      /\ Booked(t, d) = Active(t, d) \cup Confirmed(t, d)
      /\ Active(t, d) \cap Confirmed(t, d) = {}
  BY DEF Booked, Confirmed, Active, RowsOn, ActiveStatus
<1>2. /\ IsFiniteSet(Booked(t, d)) /\ IsFiniteSet(Confirmed(t, d)) /\ IsFiniteSet(Active(t, d))
      /\ Cardinality(Booked(t, d)) \in Nat /\ Cardinality(Confirmed(t, d)) \in Nat
      /\ Cardinality(Active(t, d)) \in Nat
  BY <1>1, FiniteKeys, FS_Subset, FS_CardinalityType
<1>3. Cardinality(Booked(t, d)) = Cardinality(Active(t, d)) + Cardinality(Confirmed(t, d))
  BY <1>1, <1>2, FS_Union, FS_EmptySet
<1> QED
  BY <1>2, <1>3

\* A finite set that grows by one element at most grows by one at most.
LEMMA AtMostOneMore ==
  ASSUME NEW S, NEW T, NEW k, IsFiniteSet(S), T \subseteq S \cup {k}
  PROVE  IsFiniteSet(T) /\ Cardinality(T) <= Cardinality(S) + 1
<1>1. IsFiniteSet(S \cup {k}) /\ Cardinality(S \cup {k}) <= Cardinality(S) + 1
  <2>1. CASE k \in S
    <3>1. S \cup {k} = S /\ Cardinality(S) \in Nat
      BY <2>1, FS_CardinalityType
    <3> QED
      BY <3>1
  <2>2. CASE k \notin S
    <3>1. Cardinality(S) \in Nat
      BY FS_CardinalityType
    <3>2. IsFiniteSet(S \cup {k}) /\ Cardinality(S \cup {k}) = Cardinality(S) + 1
      BY <2>2, FS_AddElement
    <3> QED
      BY <3>1, <3>2
  <2> QED
    BY <2>1, <2>2
<1>2. IsFiniteSet(T) /\ Cardinality(T) <= Cardinality(S \cup {k})
  BY <1>1, FS_Subset
<1>3. Cardinality(T) \in Nat /\ Cardinality(S) \in Nat /\ Cardinality(S \cup {k}) \in Nat
  BY <1>1, <1>2, FS_CardinalityType
<1> QED
  BY <1>1, <1>2, <1>3

\* What a step may do to the books of a day.
BooksStep(t, d) ==
  LET b == <<t, d>> IN
  /\ \/ Booked(t, d)' \subseteq Booked(t, d)
     \/ /\ \E k \in Keys : Booked(t, d)' \subseteq Booked(t, d) \cup {k}
        /\ \/ Cardinality(Booked(t, d)) + 1 <= peak[b] + revived[b]
           \/ revived'[b] = revived[b] + 1
  /\ \/ Confirmed(t, d)' \subseteq Confirmed(t, d)
     \/ /\ \E k \in Keys : Confirmed(t, d)' \subseteq Confirmed(t, d) \cup {k}
        /\ published'[b] = published[b] + 1
  /\ published[b] <= published'[b] /\ peak[b] <= peak'[b] /\ revived[b] <= revived'[b]
  /\ maxAllowed'[b] <= peak'[b]
  /\ maxAllowed'[b] = NoLimit => peak'[b] = 0

\* The counter goes on covering the confirmed rows, if it grows with them.
LEMMA ConfirmedKept ==
  ASSUME NEW t \in Types, NEW d \in Days,
         published[<<t, d>>] \in Nat, published'[<<t, d>>] \in Nat,
         Cardinality(Confirmed(t, d)) <= published[<<t, d>>],
         published[<<t, d>>] <= published'[<<t, d>>],
         \/ Confirmed(t, d)' \subseteq Confirmed(t, d)
         \/ /\ \E k \in Keys : Confirmed(t, d)' \subseteq Confirmed(t, d) \cup {k}
            /\ published'[<<t, d>>] = published[<<t, d>>] + 1
  PROVE  Cardinality(Confirmed(t, d)') <= published'[<<t, d>>]
<1> DEFINE b == <<t, d>>
           S == Confirmed(t, d)
           T == Confirmed(t, d)'
<1>1. IsFiniteSet(S) /\ Cardinality(S) \in Nat
  BY FiniteBooks
<1>2. CASE T \subseteq S
  <2> HIDE DEF S, T
  <2>1. IsFiniteSet(T) /\ Cardinality(T) <= Cardinality(S) /\ Cardinality(T) \in Nat
    BY <1>1, <1>2, FS_Subset, FS_CardinalityType
  <2> QED
    BY <1>1, <2>1 DEF S, T
<1>3. CASE (\E k \in Keys : T \subseteq S \cup {k}) /\ published'[b] = published[b] + 1
  <2> HIDE DEF S, T
  <2>1. IsFiniteSet(T) /\ Cardinality(T) <= Cardinality(S) + 1
    BY <1>1, <1>3, AtMostOneMore
  <2>2. Cardinality(T) \in Nat
    BY <2>1, FS_CardinalityType
  <2> QED
    BY <1>1, <1>3, <2>1, <2>2 DEF S, T
<1> QED
  BY <1>2, <1>3

\* Such a step keeps the books in order.
LEMMA BooksKept ==
  ASSUME Typed, Typed', Within, \A t \in Types, d \in Days : BooksStep(t, d)
  PROVE  Within'
<1> SUFFICES ASSUME NEW t \in Types, NEW d \in Days
             PROVE  LET b == <<t, d>> IN
                    /\ Cardinality(Confirmed(t, d)') <= published'[b]
                    /\ Cardinality(Booked(t, d)') <= peak'[b] + revived'[b]
                    /\ maxAllowed'[b] <= peak'[b]
                    /\ maxAllowed'[b] = NoLimit => peak'[b] = 0
  BY DEF Within
<1> DEFINE b == <<t, d>>
<1>1. /\ published[b] \in Nat /\ published'[b] \in Nat /\ peak[b] \in Nat /\ peak'[b] \in Nat
      /\ revived[b] \in Nat /\ revived'[b] \in Nat
  <2>1. b \in Types \X Days /\ Limits \cup {0} \subseteq Nat
    BY PipelineAssumption
  <2> QED
    BY <2>1 DEF Typed, TypeOK
<1>2. BooksStep(t, d) /\ Cardinality(Confirmed(t, d)) <= published[b]
      /\ Cardinality(Booked(t, d)) <= peak[b] + revived[b]
  BY DEF Within
<1>3. Cardinality(Confirmed(t, d)') <= published'[b]
  BY <1>1, <1>2, ConfirmedKept DEF BooksStep
<1>4. Cardinality(Booked(t, d)') <= peak'[b] + revived'[b]
  <2> DEFINE S == Booked(t, d)
             T == Booked(t, d)'
  <2>1. IsFiniteSet(S) /\ Cardinality(S) \in Nat
    BY FiniteBooks
  <2>2. \/ T \subseteq S
        \/ /\ \E k \in Keys : T \subseteq S \cup {k}
           /\ Cardinality(S) + 1 <= peak[b] + revived[b] \/ revived'[b] = revived[b] + 1
    BY <1>2 DEF BooksStep
  <2>3. peak[b] <= peak'[b] /\ revived[b] <= revived'[b]
    BY <1>2 DEF BooksStep
  <2> HIDE DEF S, T
  <2>4. CASE T \subseteq S
    <3>1. IsFiniteSet(T) /\ Cardinality(T) <= Cardinality(S) /\ Cardinality(T) \in Nat
      BY <2>1, <2>4, FS_Subset, FS_CardinalityType
    <3> QED
      BY <1>1, <1>2, <2>1, <2>3, <3>1 DEF S, T
  <2>5. CASE /\ \E k \in Keys : T \subseteq S \cup {k}
             /\ Cardinality(S) + 1 <= peak[b] + revived[b] \/ revived'[b] = revived[b] + 1
    <3>1. IsFiniteSet(T) /\ Cardinality(T) <= Cardinality(S) + 1
      BY <2>1, <2>5, AtMostOneMore
    <3>2. Cardinality(T) \in Nat
      BY <3>1, FS_CardinalityType
    <3>3. Cardinality(S) + 1 <= peak'[b] + revived'[b]
      BY <1>1, <1>2, <2>1, <2>3, <2>5 DEF S
    <3> QED
      BY <1>1, <2>1, <3>1, <3>2, <3>3 DEF T
  <2> QED
    BY <2>2, <2>4, <2>5
<1> QED
  BY <1>2, <1>3, <1>4 DEF BooksStep

\* The second query of remaining_capacity leaves what fits.
LEMMA RoomFits ==
  ASSUME TypeOK, NEW t \in Types, NEW d \in Days
  PROVE  LET n == Room(Slack(t, d), t, d) IN Fits(t, d, n) /\ (n > 0 => Fits(t, d, 1))
<1>1. /\ Cardinality(Active(t, d)) \in Nat /\ published[<<t, d>>] \in Nat
      /\ maxAllowed[<<t, d>>] \in Int
  BY Capacity
<1> QED
  BY <1>1 DEF Room, Slack, Fits

\* A new row takes one of the places.
LEMMA NewRowBooks ==
  ASSUME Typed, Within, NEW k \in Keys, row[k] = "ABSENT", Fits(k[2], k[3], 1),
         ScheduleRow(k), UNCHANGED <<published, maxAllowed, peak, revived>>
  PROVE  \A t \in Types, d \in Days : BooksStep(t, d)
<1> SUFFICES ASSUME NEW t \in Types, NEW d \in Days PROVE BooksStep(t, d)
  OBVIOUS
<1> DEFINE b == <<t, d>>
<1>1. TypeOK /\ row' = [row EXCEPT ![k] = "SCHEDULED"] /\ row \in [Keys -> RowStatus]
  BY DEF Typed, TypeOK, ScheduleRow
<1>2. /\ published[b] \in Nat /\ peak[b] \in Nat /\ revived[b] \in Nat /\ maxAllowed[b] \in Int
      /\ Cardinality(Active(t, d)) \in Nat /\ Cardinality(Confirmed(t, d)) \in Nat
      /\ Cardinality(Booked(t, d)) \in Nat
      /\ Cardinality(Booked(t, d)) <= Cardinality(Active(t, d)) + Cardinality(Confirmed(t, d))
  BY <1>1, Capacity, FiniteBooks
<1>3. /\ Cardinality(Confirmed(t, d)) <= published[b] /\ maxAllowed[b] <= peak[b]
      /\ maxAllowed[b] = NoLimit => peak[b] = 0
  BY DEF Within
<1>4. Confirmed(t, d)' \subseteq Confirmed(t, d)
  BY <1>1 DEF Confirmed, RowsOn
<1>5. \/ Booked(t, d)' \subseteq Booked(t, d)
      \/ /\ \E j \in Keys : Booked(t, d)' \subseteq Booked(t, d) \cup {j}
         /\ Cardinality(Booked(t, d)) + 1 <= peak[b] + revived[b]
  <2>1. CASE k[2] = t /\ k[3] = d
    <3>1. 1 + Cardinality(Active(t, d)) + published[b] <= maxAllowed[b]
      BY <2>1 DEF Fits
    <3>2. Cardinality(Booked(t, d)) + 1 <= peak[b] + revived[b]
      BY <1>2, <1>3, <3>1
    <3>3. Booked(t, d)' \subseteq Booked(t, d) \cup {k}
      BY <1>1 DEF Booked, RowsOn
    <3> QED
      BY <3>2, <3>3
  <2>2. CASE ~(k[2] = t /\ k[3] = d)
    BY <1>1, <2>2 DEF Booked, RowsOn
  <2> QED
    BY <2>1, <2>2
<1> QED
  BY <1>2, <1>3, <1>4, <1>5 DEF BooksStep

\* Steps that add no row keep the books.
LEMMA OldRowsBooks ==
  ASSUME Typed, Within, UNCHANGED <<published, maxAllowed, peak, revived>>,
         \A k \in Keys : \/ row'[k] = row[k]
                         \/ row[k] \in ActiveStatus /\ row'[k] \in ActiveStatus
                         \/ row'[k] \in {"FAILED", "CANCELLED"}
  PROVE  \A t \in Types, d \in Days : BooksStep(t, d)
<1> SUFFICES ASSUME NEW t \in Types, NEW d \in Days PROVE BooksStep(t, d)
  OBVIOUS
<1> DEFINE b == <<t, d>>
<1>1. published[b] \in Nat /\ peak[b] \in Nat /\ revived[b] \in Nat
  BY Capacity DEF Typed
<1>2. /\ maxAllowed[b] <= peak[b]
      /\ maxAllowed[b] = NoLimit => peak[b] = 0
  BY DEF Within
<1>3. Booked(t, d)' \subseteq Booked(t, d) /\ Confirmed(t, d)' \subseteq Confirmed(t, d)
  BY DEF Booked, Confirmed, RowsOn, ActiveStatus
<1> QED
  BY <1>1, <1>2, <1>3 DEF BooksStep

BookInv == Within /\ Reserved /\ DeskReserved

\* The worker's stages: the limits first, then the rows.
LEMMA BookCycle ==
  ASSUME JobInv, BookInv, ~Concurrent, Cycle
  PROVE  BookInv'
<1> USE DEF tables, past, vars
<1>d. desk = Free /\ desk' = Free /\ JobInv'
  <2>1. desk = Free /\ JobInv'
    BY JobCycle
  <2>2. desk' = desk
    BY DEF Cycle, StartCycle, EnsureLimits, ReadEligible, Enqueue, SelectQueued, ReadCapacity,
           InsertNext, EndInsert, EndCycle, StageFails
  <2> QED
    BY <2>1, <2>2
<1>0. /\ Typed /\ TypeOK /\ Typed' /\ Within /\ Reserved /\ WorkerHolds /\ Agree
      /\ desk = Free /\ desk' = Free /\ run \in RunType
  <2>1. Typed'
    BY <1>d DEF JobInv
  <2> QED
    BY <1>d, <2>1 DEF JobInv, BookInv, Typed, TypeOK
<1>1. DeskReserved'
  BY <1>0 DEF DeskReserved, Free
<1> SUFFICES Within' /\ Reserved'
  BY <1>1 DEF BookInv
<1>2. ASSUME UNCHANGED <<row, published, maxAllowed, past>> PROVE Within'
  <2>1. \A k \in Keys : row'[k] = row[k]
    BY <1>2
  <2> QED
    BY <1>0, <1>2, <2>1, OldRowsBooks, BooksKept
<1>3. CASE StartCycle \/ ReadEligible \/ EndInsert \/ EndCycle \/ StageFails
  <2>1. /\ UNCHANGED <<row, published, maxAllowed, past>>
        /\ at' \in {"limits", "enqueue", "publish", "idle"}
    BY <1>3 DEF StartCycle, ReadEligible, EndInsert, EndCycle, StageFails, Goto, Abort
  <2> QED
    BY <1>2, <2>1 DEF Reserved
<1>4. CASE Enqueue
  BY <1>2, <1>4 DEF Enqueue, Goto, Reserved
<1>5. CASE EnsureLimits
  <2> DEFINE added == {<<t, run.day>> : t \in run.missing}
  <2>1. at' \in {"eligible", "idle"} /\ UNCHANGED <<row, published, revived>>
    BY <1>5 DEF EnsureLimits, Goto, Abort
  <2>2. \/ /\ \A b \in added : maxAllowed[b] = NoLimit
           /\ maxAllowed' = [b \in Types \X Days |-> IF b \in added THEN DefaultLimit ELSE maxAllowed[b]]
           /\ peak' = [b \in Types \X Days |-> IF b \in added THEN DefaultLimit ELSE peak[b]]
        \/ UNCHANGED <<maxAllowed, peak>>
    BY <1>5 DEF EnsureLimits
  <2> HIDE DEF added
  <2>3. ASSUME NEW t \in Types, NEW d \in Days PROVE BooksStep(t, d)
    <3> DEFINE b == <<t, d>>
    <3>1. /\ published[b] \in Nat /\ peak[b] \in Nat /\ revived[b] \in Nat /\ maxAllowed[b] \in Int
          /\ DefaultLimit \in Nat
      BY <1>0, Capacity, PipelineAssumption
    <3>2. /\ maxAllowed[b] <= peak[b]
          /\ maxAllowed[b] = NoLimit => peak[b] = 0
      BY <1>0 DEF Within
    <3>3. /\ peak[b] <= peak'[b] /\ maxAllowed'[b] <= peak'[b]
          /\ maxAllowed'[b] = NoLimit => peak'[b] = 0
      <4>1. CASE UNCHANGED <<maxAllowed, peak>>
        BY <3>1, <3>2, <4>1
      <4>2. CASE /\ \A c \in added : maxAllowed[c] = NoLimit
                 /\ maxAllowed' = [c \in Types \X Days |-> IF c \in added THEN DefaultLimit ELSE maxAllowed[c]]
                 /\ peak' = [c \in Types \X Days |-> IF c \in added THEN DefaultLimit ELSE peak[c]]
        <5>1. b \in Types \X Days
          OBVIOUS
        <5>2. /\ maxAllowed'[b] = IF b \in added THEN DefaultLimit ELSE maxAllowed[b]
              /\ peak'[b] = IF b \in added THEN DefaultLimit ELSE peak[b]
              /\ b \in added => peak[b] = 0
          BY <3>2, <4>2, <5>1
        <5> HIDE DEF b
        <5> QED
          BY <3>1, <3>2, <5>2 DEF NoLimit
      <4> QED
        BY <2>2, <4>1, <4>2
    <3>4. Booked(t, d)' \subseteq Booked(t, d) /\ Confirmed(t, d)' \subseteq Confirmed(t, d)
      BY <2>1 DEF Booked, Confirmed
    <3> QED
      BY <2>1, <3>1, <3>3, <3>4 DEF BooksStep
  <2>4. Within'
    BY <1>0, <2>3, BooksKept
  <2> QED
    BY <2>1, <2>4 DEF Reserved
<1>6. CASE SelectQueued
  <2> DEFINE read == {r \in Products : Selectable(r)}
             q == [Fresh EXCEPT !.day = today, !.batch = read]
  <2>1. UNCHANGED <<row, published, maxAllowed, past>> /\ at' = "capacity" /\ run' = q
    BY <1>6 DEF SelectQueued, Goto
  <2>2. run'.reads = 0
    BY <2>1 DEF Fresh
  <2> HIDE DEF q
  <2> QED
    BY <1>2, <2>1, <2>2 DEF Reserved
<1>7. CASE ReadCapacity
  <2> DEFINE t == IF run.reads < 2 THEN "POST" ELSE "REEL"
             n == IF run.reads \in {0, 2} THEN Slack(t, run.day) ELSE Room(run.slack[t], t, run.day)
             new == [run.slack EXCEPT ![t] = n]
             more == run.reads + 1
             q == [run EXCEPT !.slack = new, !.reads = more]
  <2>1. /\ UNCHANGED <<row, published, maxAllowed, past>> /\ at = "capacity" /\ run' = q
        /\ at' = IF run.reads < 3 THEN "capacity" ELSE "insert"
    BY <1>0, <1>7 DEF ReadCapacity, RunType
  <2>2. run.reads \in 0 .. 3 /\ run.slack \in [Types -> Int] /\ run.day \in Days
        /\ "POST" \in Types /\ "REEL" \in Types
    BY <1>0, <2>1 DEF Typed, Counted, RunType, Types
  <2>3. run'.slack = new /\ run'.reads = more /\ run'.day = run.day
    <3> HIDE DEF new, more
    <3> QED
      BY <1>0, <2>1 DEF RunType
  <2>4. \A u \in Types, d \in Days, m \in Int : Fits(u, d, m)' <=> Fits(u, d, m)
    BY <2>1 DEF Fits, Active
  <2>5. \A u \in Types, d \in Days : Slack(u, d)' = Slack(u, d)
    BY <2>1 DEF Slack
  <2>6. \A u \in Types : Fits(u, run.day, Room(Slack(u, run.day), u, run.day))
    BY <1>0, <2>2, RoomFits
  <2>7. new \in [Types -> Int]
    <3>1. t \in Types
      BY DEF Types
    <3> HIDE DEF t
    <3>2. Slack(t, run.day) \in Int /\ run.slack[t] \in Int
      BY <1>0, <2>2, <3>1, Capacity
    <3>3. Room(run.slack[t], t, run.day) \in Nat
      BY <1>0, <2>2, <3>1, <3>2, Capacity
    <3>4. n \in Int
      BY <3>2, <3>3
    <3> HIDE DEF n
    <3> QED
      BY <2>2, <3>1, <3>4
  <2>8. CASE run.reads = 0
    <3>1. new["POST"] = Slack("POST", run.day) /\ at' = "capacity" /\ more = 1
      BY <2>1, <2>2, <2>8
    <3> HIDE DEF new, more
    <3> QED
      BY <1>2, <2>1, <2>2, <2>3, <2>5, <3>1 DEF Reserved
  <2>9. CASE run.reads = 1
    <3>1. /\ new["POST"] = Room(run.slack["POST"], "POST", run.day)
          /\ run.slack["POST"] = Slack("POST", run.day)
          /\ at' = "capacity" /\ more = 2
      BY <1>0, <2>1, <2>2, <2>9 DEF Reserved
    <3>2. Fits("POST", run.day, new["POST"]) /\ new["POST"] \in Int
      BY <2>2, <2>6, <2>7, <3>1
    <3> HIDE DEF new, more
    <3> QED
      BY <1>2, <2>1, <2>2, <2>3, <2>4, <3>1, <3>2 DEF Reserved
  <2>10. CASE run.reads = 2
    <3>1. /\ new["POST"] = run.slack["POST"] /\ new["REEL"] = Slack("REEL", run.day)
          /\ Fits("POST", run.day, run.slack["POST"])
          /\ at' = "capacity" /\ more = 3
      BY <1>0, <2>1, <2>2, <2>10 DEF Reserved
    <3>2. Fits("POST", run.day, new["POST"]) /\ new["POST"] \in Int
      BY <2>2, <2>7, <3>1
    <3> HIDE DEF new, more
    <3> QED
      BY <1>2, <2>1, <2>2, <2>3, <2>4, <2>5, <3>1, <3>2 DEF Reserved
  <2>11. CASE run.reads = 3
    <3>1. /\ new["POST"] = run.slack["POST"]
          /\ new["REEL"] = Room(run.slack["REEL"], "REEL", run.day)
          /\ run.slack["REEL"] = Slack("REEL", run.day)
          /\ Fits("POST", run.day, run.slack["POST"])
          /\ at' = "insert"
      BY <1>0, <2>1, <2>2, <2>11 DEF Reserved
    <3>2. \A u \in Types : Fits(u, run.day, new[u]) /\ new[u] \in Int
      BY <2>2, <2>6, <2>7, <3>1 DEF Types
    <3> HIDE DEF new, more
    <3> QED
      BY <1>2, <2>1, <2>2, <2>3, <2>4, <3>1, <3>2 DEF Reserved
  <2> QED
    BY <2>2, <2>8, <2>9, <2>10, <2>11
<1>8. CASE InsertNext
  <2> DEFINE k == NextKey
             left == run.batch \ {k[1]}
             new == [run.slack EXCEPT ![k[2]] = run.slack[k[2]] - 1]
             q == [run EXCEPT !.batch = left, !.slack = new]
  <2>1. at = "insert" /\ Selected # {} /\ UNCHANGED <<published, maxAllowed, today, desk, past>>
    BY <1>8 DEF InsertNext
  <2>2. /\ k \in Keys /\ k[1] \in run.batch /\ k[2] \in Types /\ k[3] = run.day /\ run.day \in Days
        /\ run.slack[k[2]] > 0 /\ run.slack \in [Types -> Nat]
    BY <1>0, <2>1, NextIsSelected DEF Typed, Counted
  <2>3. Insertable(k)
    BY <2>1, JobNoConflict DEF NoConflict
  <2>4. ScheduleRow(k) /\ run' = q /\ at' = at /\ row[k] = "ABSENT"
    BY <1>0, <1>8, <2>3 DEF InsertNext, RunType, Insertable
  <2> HIDE DEF k
  <2>5. run'.slack = new /\ run'.day = run.day
    <3> HIDE DEF new, left
    <3> QED
      BY <1>0, <2>4 DEF RunType
  <2>6. Fits(k[2], k[3], run.slack[k[2]]) /\ Cardinality(Active(k[2], k[3])) \in Nat
        /\ published[<<k[2], k[3]>>] \in Nat /\ maxAllowed[<<k[2], k[3]>>] \in Int
    BY <1>0, <2>1, <2>2, Capacity DEF Reserved
  <2>7. Fits(k[2], k[3], 1)
    BY <2>2, <2>6 DEF Fits
  <2>8. Within'
    BY <1>0, <2>1, <2>2, <2>4, <2>7, NewRowBooks, BooksKept
  <2>9. PICK d \in Days : d = run.day
    BY <2>2
  <2>10. ASSUME NEW t \in Types
         PROVE  new[t] > 0 => new[t] + Cardinality(Active(t, d)') + published[<<t, d>>] <= maxAllowed[<<t, d>>]
    <3>1. row' = [row EXCEPT ![k] = "SCHEDULED"] /\ row \in [Keys -> RowStatus]
      BY <1>0, <2>4 DEF ScheduleRow, TypeOK
    <3> DEFINE A == Active(t, d)
               B == Active(t, d)'
               c == published[<<t, d>>]
               m == maxAllowed[<<t, d>>]
               v == new[t]
    <3>2. /\ Cardinality(A) \in Nat /\ IsFiniteSet(A)
          /\ c \in Nat /\ m \in Int /\ run.slack[t] \in Nat
      BY <1>0, <2>2, Capacity
    <3>3. run.slack[t] > 0 => run.slack[t] + Cardinality(A) + c <= m
      BY <1>0, <2>1, <2>9 DEF Reserved, Fits
    <3>4. CASE t = k[2]
      <4>1. v = run.slack[t] - 1
        BY <2>2, <3>4
      <4>2. B \subseteq A \cup {k}
        BY <3>1 DEF Active, RowsOn
      <4>3. IsFiniteSet(B) /\ Cardinality(B) <= Cardinality(A) + 1
        <5> HIDE DEF A, B
        <5> QED
          BY <2>2, <3>2, <4>2, AtMostOneMore
      <4>4. Cardinality(B) \in Nat
        BY <4>3, FS_CardinalityType
      <4> HIDE DEF A, B, c, m, v
      <4>5. v > 0 => v + Cardinality(B) + c <= m
        BY <3>2, <3>3, <4>1, <4>3, <4>4
      <4> QED
        BY <4>5 DEF B, c, m, v
    <3>5. CASE t # k[2]
      <4>1. v = run.slack[t]
        BY <2>2, <3>5
      <4>2. B = A
        BY <3>1, <3>5 DEF Active, RowsOn
      <4> HIDE DEF A, B, c, m, v
      <4> QED
        BY <3>3, <4>1, <4>2 DEF B, c, m, v
    <3> QED
      BY <3>4, <3>5
  <2>11. run'.day = d /\ run'.slack = new /\ published' = published /\ maxAllowed' = maxAllowed
    BY <2>1, <2>5, <2>9
  <2>12. \A t \in Types : Fits(t, run.day, run.slack[t])'
    <3> HIDE DEF new
    <3> QED
      BY <2>10, <2>11 DEF Fits, Active, RowsOn
  <2> QED
    BY <2>1, <2>4, <2>8, <2>12 DEF Reserved
<1> QED
  BY <1>3, <1>4, <1>5, <1>6, <1>7, <1>8 DEF Cycle


\* Publishing a row, in the worker's stage or from the button: a published row
\* was an active one, and the counter has gone up for it.
LEMMA BookAttempt ==
  ASSUME JobInv, BookInv, NEW k \in Keys, Succeed(k) \/ Fail(k) \/ KilledPublishing(k)
  PROVE  BookInv'
<1> USE DEF tables, past, vars
<1>0. /\ Typed /\ TypeOK /\ Typed' /\ Within /\ row[k] = "SCHEDULED" /\ row \in [Keys -> RowStatus]
      /\ UNCHANGED <<maxAllowed, peak, revived>>
  BY AttemptTyped
     DEF JobInv, BookInv, Typed, TypeOK, Succeed, Fail, KilledPublishing, Publishing
<1>1. at' \in {at, "idle"} /\ desk' \in {desk, Free}
  BY DEF Succeed, Fail, KilledPublishing, DeskDone, Die
<1>2. at \in {"publish", "idle"} /\ desk.kind \in {"publish", "free"}
  BY DEF JobInv, Alone, Free, Succeed, Fail, KilledPublishing, Publishing
<1>3. Reserved' /\ DeskReserved'
  BY <1>1, <1>2 DEF Reserved, DeskReserved, Free
<1>4. \E s \in {"PUBLISHED", "FAILED", "PROCESSING"} :
        /\ row' = [row EXCEPT ![k] = s]
        /\ \/ published' = published /\ s # "PUBLISHED"
           \/ published' = [published EXCEPT ![<<k[2], k[3]>>] = @ + 1] /\ s # "FAILED"
  BY DEF Succeed, Fail, KilledPublishing
<1>5. ASSUME NEW t \in Types, NEW d \in Days PROVE BooksStep(t, d)
  <2> DEFINE b == <<t, d>>
  <2>1. PICK s \in {"PUBLISHED", "FAILED", "PROCESSING"} :
          /\ row' = [row EXCEPT ![k] = s]
          /\ \/ published' = published /\ s # "PUBLISHED"
             \/ published' = [published EXCEPT ![<<k[2], k[3]>>] = @ + 1] /\ s # "FAILED"
    BY <1>4
  <2>2. /\ published[b] \in Nat /\ peak[b] \in Nat /\ revived[b] \in Nat
        /\ published \in [Types \X Days -> Nat] /\ b \in Types \X Days
    BY <1>0, Capacity DEF TypeOK
  <2>3. maxAllowed[b] <= peak[b] /\ (maxAllowed[b] = NoLimit => peak[b] = 0)
    BY <1>0 DEF Within
  <2>4. Booked(t, d)' \subseteq Booked(t, d)
    BY <1>0, <2>1 DEF Booked, RowsOn, ActiveStatus
  <2>5. /\ \/ Confirmed(t, d)' \subseteq Confirmed(t, d)
           \/ /\ Confirmed(t, d)' \subseteq Confirmed(t, d) \cup {k}
              /\ published'[b] = published[b] + 1
        /\ published[b] <= published'[b]
    <3>1. CASE published' = published /\ s # "PUBLISHED"
      <4>1. Confirmed(t, d)' \subseteq Confirmed(t, d)
        BY <1>0, <2>1, <3>1 DEF Confirmed, RowsOn
      <4> QED
        BY <2>2, <3>1, <4>1
    <3>2. CASE published' = [published EXCEPT ![<<k[2], k[3]>>] = @ + 1] /\ k[2] = t /\ k[3] = d
      <4>1. published'[b] = published[b] + 1
        BY <2>2, <3>2
      <4>2. Confirmed(t, d)' \subseteq Confirmed(t, d) \cup {k}
        BY <1>0, <2>1 DEF Confirmed, RowsOn
      <4> QED
        BY <2>2, <4>1, <4>2
    <3>3. CASE published' = [published EXCEPT ![<<k[2], k[3]>>] = @ + 1] /\ ~(k[2] = t /\ k[3] = d)
      <4>1. published'[b] = published[b]
        BY <2>2, <3>3
      <4>2. Confirmed(t, d)' \subseteq Confirmed(t, d)
        BY <1>0, <2>1, <3>3 DEF Confirmed, RowsOn
      <4> QED
        BY <2>2, <4>1, <4>2
    <3> QED
      BY <2>1, <3>1, <3>2, <3>3
  <2> QED
    BY <1>0, <2>2, <2>3, <2>4, <2>5 DEF BooksStep
<1>6. Within'
  BY <1>0, <1>5, BooksKept
<1> QED
  BY <1>3, <1>6 DEF BookInv

\* The dashboard: a row takes a place that was counted free, or a retry puts it
\* back without asking.
LEMMA BookOperate ==
  ASSUME JobInv, BookInv, ~Concurrent, Operate
  PROVE  BookInv'
<1> USE DEF tables, past, vars
<1>i. JobInv' /\ at' = "idle"
  BY JobOperate
<1>0. /\ Typed /\ TypeOK /\ Typed' /\ Within /\ DeskReserved /\ desk \in DeskType
      /\ row \in [Keys -> RowStatus]
  <2>1. Typed'
    BY <1>i DEF JobInv
  <2> QED
    BY <2>1 DEF JobInv, BookInv, Typed, TypeOK
<1>1. Reserved'
  BY <1>i DEF Reserved
<1> SUFFICES Within' /\ DeskReserved'
  BY <1>1 DEF BookInv
<1>2. ASSUME UNCHANGED <<row, published, maxAllowed, peak, revived>> PROVE Within'
  <2>1. \A k \in Keys : row'[k] = row[k]
    BY <1>2
  <2> QED
    BY <1>0, <1>2, <2>1, OldRowsBooks, BooksKept
<1>3. ASSUME desk'.kind \notin {"count", "insert"} PROVE DeskReserved'
  BY <1>3 DEF DeskReserved
<1>f. Free.kind = "free"
  BY DEF Free
<1>4. ASSUME NEW r \in Products,
             (\E now \in BOOLEAN : BeginSchedule(r, now)) \/ BeginSkip(r) \/ BeginRetry(r)
      PROVE  Within' /\ DeskReserved'
  <2>1. UNCHANGED <<row, published, maxAllowed, peak, revived>>
    BY <1>4 DEF BeginSchedule, BeginSkip, BeginRetry
  <2>2. desk'.kind \in {"limit", "skip_select", "retry"}
    BY <1>4 DEF BeginSchedule, BeginSkip, BeginRetry
  <2> QED
    BY <1>2, <1>3, <2>1, <2>2
<1>5. CASE DeskLimit
  <2> DEFINE n == Slack(DefaultType, desk.day)
             q == [desk EXCEPT !.kind = "count", !.slack = n]
  <2>1. /\ UNCHANGED <<row, published, maxAllowed, peak, revived>>
        /\ desk.kind = "limit" /\ desk' \in {Free, q}
    BY <1>5 DEF DeskLimit
  <2>2. desk \in [kind : {"limit", "count", "insert", "publish"}, product : Products,
                  now : BOOLEAN, day : Days, slack : Int]
    BY <1>0, <2>1, DeskFields
  <2> HIDE DEF n
  <2>3. q.kind = "count" /\ q.day = desk.day /\ q.slack = n
    BY <2>2
  <2> HIDE DEF q
  <2>4. ASSUME desk' = q PROVE DeskReserved'
    BY <2>1, <2>3, <2>4 DEF DeskReserved, Slack, n
  <2> QED
    BY <1>2, <1>3, <1>f, <2>1, <2>4
<1>6. CASE DeskCount
  <2> DEFINE q == [desk EXCEPT !.kind = "insert"]
  <2>1. /\ UNCHANGED <<row, published, maxAllowed, peak, revived>> /\ desk.kind = "count"
        /\ \/ desk' = Free
           \/ desk' = q /\ Room(desk.slack, DefaultType, desk.day) > 0
    BY <1>6 DEF DeskCount
  <2>2. desk \in [kind : {"limit", "count", "insert", "publish"}, product : Products,
                  now : BOOLEAN, day : Days, slack : Int]
    BY <1>0, <2>1, DeskFields
  <2>3. q.kind = "insert" /\ q.day = desk.day /\ desk.day \in Days /\ DefaultType \in Types
    BY <2>2, PipelineAssumption
  <2>4. desk.slack = Slack(DefaultType, desk.day)
    BY <1>0, <2>1 DEF DeskReserved
  <2> HIDE DEF q
  <2>5. ASSUME desk' = q, Room(desk.slack, DefaultType, desk.day) > 0 PROVE DeskReserved'
    <3>1. Fits(DefaultType, desk.day, 1)
      BY <1>0, <2>3, <2>4, <2>5, RoomFits
    <3> QED
      BY <2>1, <2>3, <2>5, <3>1 DEF DeskReserved, Fits, Active, RowsOn
  <2> QED
    BY <1>2, <1>3, <1>f, <2>1, <2>5
<1>7. CASE DeskInsert
  <2> DEFINE k == <<desk.product, DefaultType, desk.day>>
             q == [desk EXCEPT !.kind = "publish"]
  <2>1. /\ desk.kind = "insert" /\ desk' \in {Free, q}
        /\ UNCHANGED <<published, maxAllowed, peak, revived>>
        /\ (ScheduleRow(k) /\ Insertable(k)) \/ UNCHANGED <<product, row>>
    BY <1>7 DEF DeskInsert
  <2>2. desk \in [kind : {"limit", "count", "insert", "publish"}, product : Products,
                  now : BOOLEAN, day : Days, slack : Int]
    BY <1>0, <2>1, DeskFields
  <2>3. q.kind = "publish"
    BY <2>2
  <2>4. k \in Keys /\ k[2] = DefaultType /\ k[3] = desk.day
    BY <2>2, PipelineAssumption DEF Keys
  <2>5. Fits(k[2], k[3], 1)
    BY <1>0, <2>1, <2>4 DEF DeskReserved
  <2> HIDE DEF k, q
  <2>6. ASSUME ScheduleRow(k), Insertable(k) PROVE Within'
    <3>1. row[k] = "ABSENT"
      BY <2>6 DEF Insertable
    <3> QED
      BY <1>0, <2>1, <2>4, <2>5, <2>6, <3>1, NewRowBooks, BooksKept
  <2> QED
    BY <1>2, <1>3, <1>f, <2>1, <2>3, <2>6
<1>8. CASE DeskGivesUp
  BY <1>2, <1>3, <1>f, <1>8 DEF DeskGivesUp
<1>9. CASE SkipSelect
  <2>1. UNCHANGED <<row, published, maxAllowed, peak, revived>> /\ desk.kind = "skip_select"
        /\ desk' = [desk EXCEPT !.kind = "skip_write", !.rows = ActiveRows(desk.product)]
    BY <1>9 DEF SkipSelect
  <2>2. desk \in [kind : {"skip_select", "skip_write"}, product : Products, rows : SUBSET Keys]
    BY <1>0, <2>1, DeskFields
  <2>3. desk'.kind = "skip_write"
    BY <2>1, <2>2
  <2> QED
    BY <1>2, <1>3, <2>1, <2>3
<1>10. CASE SkipWrite
  <2>1. /\ row' = Cancel(desk.rows) /\ desk' = Free /\ UNCHANGED <<published, maxAllowed, peak, revived>>
    BY <1>10 DEF SkipWrite
  <2>2. \A k \in Keys : row'[k] = row[k] \/ row'[k] = "CANCELLED"
    BY <2>1 DEF Cancel
  <2>3. Within'
    BY <1>0, <2>1, <2>2, OldRowsBooks, BooksKept
  <2> QED
    BY <1>3, <1>f, <2>1, <2>3
<1>11. CASE Retry
  <2>1. desk' = Free /\ UNCHANGED <<published, maxAllowed, peak>>
    BY <1>11 DEF Retry
  <2>2. \/ UNCHANGED <<row, revived>>
        \/ \E k \in Keys : /\ row' = [row EXCEPT ![k] = "SCHEDULED"]
                           /\ revived' = [revived EXCEPT ![<<k[2], k[3]>>] = @ + 1]
    BY <1>11 DEF Retry, RowsOf
  <2>3. ASSUME NEW k \in Keys, row' = [row EXCEPT ![k] = "SCHEDULED"],
               revived' = [revived EXCEPT ![<<k[2], k[3]>>] = @ + 1],
               NEW t \in Types, NEW d \in Days
        PROVE  BooksStep(t, d)
    <3> DEFINE b == <<t, d>>
    <3>1. /\ published[b] \in Nat /\ peak[b] \in Nat /\ revived[b] \in Nat
          /\ revived \in [Types \X Days -> Nat] /\ b \in Types \X Days
      BY <1>0, Capacity DEF TypeOK
    <3>2. maxAllowed[b] <= peak[b] /\ (maxAllowed[b] = NoLimit => peak[b] = 0)
      BY <1>0 DEF Within
    <3>3. Confirmed(t, d)' \subseteq Confirmed(t, d)
      BY <1>0, <2>3 DEF Confirmed, RowsOn
    <3>4. CASE k[2] = t /\ k[3] = d
      <4>1. revived'[b] = revived[b] + 1
        BY <2>3, <3>1, <3>4
      <4>2. Booked(t, d)' \subseteq Booked(t, d) \cup {k}
        BY <1>0, <2>3 DEF Booked, RowsOn
      <4> QED
        BY <2>1, <3>1, <3>2, <3>3, <4>1, <4>2 DEF BooksStep
    <3>5. CASE ~(k[2] = t /\ k[3] = d)
      <4>1. revived'[b] = revived[b]
        BY <2>3, <3>1, <3>5
      <4>2. Booked(t, d)' \subseteq Booked(t, d)
        BY <1>0, <2>3, <3>5 DEF Booked, RowsOn
      <4> QED
        BY <2>1, <3>1, <3>2, <3>3, <4>1, <4>2 DEF BooksStep
    <3> QED
      BY <3>4, <3>5
  <2>4. Within'
    BY <1>0, <1>2, <2>1, <2>2, <2>3, BooksKept
  <2> QED
    BY <1>3, <1>f, <2>1, <2>4
<1>12. ASSUME NEW u \in Types, NEW n \in Limits, SetLimit(u, n) PROVE Within' /\ DeskReserved'
  <2> DEFINE a == <<u, today>>
  <2>1. /\ maxAllowed' = [maxAllowed EXCEPT ![a] = n]
        /\ peak' = [peak EXCEPT ![a] = IF n > @ THEN n ELSE @]
        /\ UNCHANGED <<row, published, revived>> /\ desk = Free /\ desk' = desk
    <3>1. desk = Free
      BY <1>12 DEF SetLimit, DeskMay
    <3> QED
      BY <1>12, <3>1 DEF SetLimit
  <2>2. a \in Types \X Days /\ n \in Nat
    BY <1>0, PipelineAssumption DEF TypeOK
  <2> HIDE DEF a
  <2>3. ASSUME NEW t \in Types, NEW d \in Days PROVE BooksStep(t, d)
    <3> DEFINE b == <<t, d>>
    <3>1. /\ published[b] \in Nat /\ peak[b] \in Nat /\ revived[b] \in Nat /\ maxAllowed[b] \in Int
          /\ b \in Types \X Days
      BY <1>0, Capacity
    <3>2. maxAllowed[b] <= peak[b] /\ (maxAllowed[b] = NoLimit => peak[b] = 0)
      BY <1>0 DEF Within
    <3>3. /\ maxAllowed'[b] = IF b = a THEN n ELSE maxAllowed[b]
          /\ peak'[b] = IF b = a /\ n > peak[b] THEN n ELSE peak[b]
      BY <1>0, <2>1, <2>2, <3>1 DEF TypeOK
    <3>4. Booked(t, d)' \subseteq Booked(t, d) /\ Confirmed(t, d)' \subseteq Confirmed(t, d)
      BY <2>1 DEF Booked, Confirmed
    <3> HIDE DEF b
    <3>5. /\ peak[b] <= peak'[b] /\ maxAllowed'[b] <= peak'[b]
          /\ maxAllowed'[b] = NoLimit => peak'[b] = 0
      BY <2>2, <3>1, <3>2, <3>3 DEF NoLimit
    <3> QED
      BY <2>1, <3>1, <3>4, <3>5 DEF BooksStep, b
  <2>4. Within'
    BY <1>0, <2>3, BooksKept
  <2> QED
    BY <1>3, <1>f, <2>1, <2>4
<1> QED
  BY <1>4, <1>5, <1>6, <1>7, <1>8, <1>9, <1>10, <1>11, <1>12 DEF Operate, FinishOperation


\* The books start empty.
LEMMA BookInit == Init => BookInv
<1> SUFFICES ASSUME Init PROVE BookInv
  OBVIOUS
<1>1. Reserved /\ DeskReserved
  BY DEF Init, Reserved, DeskReserved, Free
<1>2. ASSUME NEW t \in Types, NEW d \in Days
      PROVE  /\ Cardinality(Confirmed(t, d)) = 0 /\ Cardinality(Booked(t, d)) = 0
             /\ published[<<t, d>>] = 0 /\ peak[<<t, d>>] = 0 /\ revived[<<t, d>>] = 0
             /\ maxAllowed[<<t, d>>] = -1
  <2>1. Confirmed(t, d) = {} /\ Booked(t, d) = {}
    BY DEF Init, Confirmed, Booked, RowsOn, ActiveStatus
  <2>2. Cardinality(Confirmed(t, d)) = 0 /\ Cardinality(Booked(t, d)) = 0
    BY <2>1, FS_EmptySet
  <2> QED
    BY <2>2 DEF Init, NoLimit
<1>3. Within
  <2> SUFFICES ASSUME NEW t \in Types, NEW d \in Days
               PROVE  LET b == <<t, d>> IN
                      /\ Cardinality(Confirmed(t, d)) <= published[b]
                      /\ Cardinality(Booked(t, d)) <= peak[b] + revived[b]
                      /\ maxAllowed[b] <= peak[b]
                      /\ maxAllowed[b] = NoLimit => peak[b] = 0
    BY DEF Within
  <2> QED
    BY <1>2
<1> QED
  BY <1>1, <1>3 DEF BookInv

\* No step of the job brings the books out of order.
LEMMA BookStep == ~Concurrent /\ JobInv /\ BookInv /\ [Next]_vars => BookInv'
<1> SUFFICES ASSUME ~Concurrent, JobInv, BookInv, [Next]_vars PROVE BookInv'
  OBVIOUS
<1> USE DEF tables, past, vars
<1>0. Typed /\ Typed' /\ Within /\ Reserved /\ DeskReserved
  BY TypedStep DEF JobInv, BookInv
<1>1. CASE Cycle
  BY <1>1, BookCycle
<1>2. CASE Attempt \/ \E k \in Keys : KilledPublishing(k)
  BY <1>2, BookAttempt DEF Attempt
<1>3. CASE Operate
  BY <1>3, BookOperate
<1>4. ASSUME UNCHANGED <<row, published, maxAllowed, peak, revived>> PROVE Within'
  <2>1. \A k \in Keys : row'[k] = row[k]
    BY <1>4
  <2> QED
    BY <1>0, <1>4, <2>1, OldRowsBooks, BooksKept
<1>5. CASE Killed
  <2>1. UNCHANGED <<row, published, maxAllowed, peak, revived>> /\ at' = "idle" /\ desk' = Free
    BY <1>5 DEF Killed, Die, Deaths
  <2> QED
    BY <1>4, <2>1 DEF BookInv, Reserved, DeskReserved, Free
<1>6. CASE DayPasses \/ UNCHANGED vars
  <2>1. UNCHANGED <<row, published, maxAllowed, peak, revived, at, run, desk>>
    BY <1>6 DEF DayPasses
  <2>2. Reserved' /\ DeskReserved'
    BY <1>0, <2>1 DEF Reserved, DeskReserved, Fits, Slack, Active, RowsOn
  <2> QED
    BY <1>4, <2>1, <2>2 DEF BookInv
<1> QED
  BY <1>1, <1>2, <1>3, <1>5, <1>6 DEF Next

\* In the scheduled job a day's maximum is a ceiling already when rows are
\* scheduled: active and published rows never outnumber the largest maximum of
\* their day, except for those a retry put back.
THEOREM JobNotOverbooked == ~Concurrent => (Spec => []NotOverbooked)
<1> SUFFICES ASSUME ~Concurrent PROVE Spec => []NotOverbooked
  OBVIOUS
<1>1. JobInv /\ BookInv /\ [Next]_vars => JobInv' /\ BookInv'
  BY JobStep, BookStep
<1>2. BookInv => NotOverbooked
  BY DEF BookInv, Within, NotOverbooked, Booked
<1> QED
  BY <1>1, <1>2, JobInit, BookInit, PTL DEF Spec

-------------------------------------------------------------------------------
(* Both deployments: what is read may be stale, the tables still agree on this *)

\* What a step may do to the rows and to the limits: a row becomes SCHEDULED past
\* the unique index, a row due ends one way or the other, rows are cancelled, or
\* limits are set.
TakesRow(k) ==
  /\ \A j \in ActiveRows(k[1]) : j[2] # k[2]
  /\ row' = [row EXCEPT ![k] = "SCHEDULED"]
  /\ UNCHANGED <<published, maxAllowed, peak>>

SettlesRow(k) ==
  LET b == <<k[2], k[3]>> IN
  /\ row[k] = "SCHEDULED"
  /\ \E s \in {"PUBLISHED", "FAILED", "PROCESSING"} :
       /\ row' = [row EXCEPT ![k] = s]
       /\ \/ published' = published /\ s # "PUBLISHED"
          \/ published[b] < maxAllowed[b] /\ published' = [published EXCEPT ![b] = @ + 1]
  /\ UNCHANGED <<maxAllowed, peak>>

CancelsRows ==
  /\ \A k \in Keys : row'[k] \in {row[k], "CANCELLED"}
  /\ UNCHANGED <<published, maxAllowed, peak>>

SetsLimits ==
  /\ UNCHANGED <<row, published>>
  /\ \A b \in Types \X Days :
       \/ maxAllowed'[b] = maxAllowed[b] /\ peak'[b] = peak[b]
       \/ /\ maxAllowed'[b] \in Limits /\ maxAllowed'[b] <= peak'[b]
          /\ maxAllowed[b] = NoLimit \/ peak[b] <= peak'[b]

\* Every step, of whatever process, does one of these.
LEMMA TablesMove ==
  ASSUME Typed, [Next]_vars
  PROVE  SetsLimits \/ CancelsRows \/ \E k \in Keys : TakesRow(k) \/ SettlesRow(k)
<1> USE DEF tables, past, vars
<1>0. /\ TypeOK /\ row \in [Keys -> RowStatus]
      /\ maxAllowed \in [Types \X Days -> Limits \cup {NoLimit}]
      /\ peak \in [Types \X Days -> Limits \cup {0}]
  BY DEF Typed, TypeOK
<1>1. ASSUME UNCHANGED <<row, published, maxAllowed, peak>> PROVE SetsLimits
  BY <1>1 DEF SetsLimits
<1>2. ASSUME NEW k \in Keys, ScheduleRow(k), Insertable(k), UNCHANGED <<published, maxAllowed, peak>>
      PROVE  TakesRow(k)
  BY <1>2 DEF ScheduleRow, Insertable, TakesRow
<1>3. CASE InsertNext
  <2>1. NextKey \in Keys
    BY <1>0, <1>3, NextIsSelected DEF InsertNext
  <2>2. UNCHANGED <<published, maxAllowed, peak>>
        /\ ((ScheduleRow(NextKey) /\ Insertable(NextKey)) \/ row' = row)
    BY <1>3 DEF InsertNext
  <2> QED
    BY <1>1, <1>2, <2>1, <2>2
<1>4. CASE DeskInsert
  <2> DEFINE k == <<desk.product, DefaultType, desk.day>>
  <2>1. desk \in [kind : {"limit", "count", "insert", "publish"}, product : Products,
                  now : BOOLEAN, day : Days, slack : Int]
    BY <1>0, <1>4, DeskFields DEF DeskInsert, TypeOK
  <2>2. k \in Keys
    BY <2>1, PipelineAssumption DEF Keys
  <2>3. UNCHANGED <<published, maxAllowed, peak>> /\ ((ScheduleRow(k) /\ Insertable(k)) \/ row' = row)
    BY <1>4 DEF DeskInsert
  <2> HIDE DEF k
  <2> QED
    BY <1>1, <1>2, <2>2, <2>3
<1>5. CASE Retry
  <2>1. UNCHANGED <<published, maxAllowed, peak>>
    BY <1>5 DEF Retry
  <2>2. CASE row' = row
    BY <1>1, <2>1, <2>2
  <2>3. CASE row' # row
    <3>1. PICK k \in {j \in RowsOf(desk.product) : row[j] = "FAILED"} :
            /\ \A j \in ActiveRows(desk.product) : j[2] # k[2]
            /\ row' = [row EXCEPT ![k] = "SCHEDULED"]
      BY <1>5, <2>3 DEF Retry
    <3>2. k \in Keys /\ k[1] = desk.product
      BY DEF RowsOf
    <3>3. TakesRow(k)
      BY <2>1, <3>1, <3>2 DEF TakesRow
    <3> QED
      BY <3>2, <3>3
  <2> QED
    BY <2>2, <2>3
<1>6. CASE SkipWrite
  <2>1. row' = Cancel(desk.rows) /\ UNCHANGED <<published, maxAllowed, peak>>
    BY <1>6 DEF SkipWrite
  <2>2. \A k \in Keys : row'[k] \in {row[k], "CANCELLED"}
    BY <2>1 DEF Cancel
  <2> QED
    BY <2>1, <2>2 DEF CancelsRows
<1>7. ASSUME NEW k \in Keys, Succeed(k) \/ Fail(k) \/ KilledPublishing(k) PROVE SettlesRow(k)
  BY <1>7 DEF Succeed, Fail, KilledPublishing, Publishing, SettlesRow
<1>8. CASE EnsureLimits
  <2> DEFINE added == {<<t, run.day>> : t \in run.missing}
  <2>1. CASE maxAllowed' = maxAllowed /\ peak' = peak
    BY <1>1, <1>8, <2>1 DEF EnsureLimits
  <2>2. CASE /\ \A b \in added : maxAllowed[b] = NoLimit
             /\ maxAllowed' = [b \in Types \X Days |-> IF b \in added THEN DefaultLimit ELSE maxAllowed[b]]
             /\ peak' = [b \in Types \X Days |-> IF b \in added THEN DefaultLimit ELSE peak[b]]
    <3>1. DefaultLimit \in Limits /\ DefaultLimit <= DefaultLimit
      BY PipelineAssumption
    <3>2. UNCHANGED <<row, published>>
      BY <1>8 DEF EnsureLimits
    <3> HIDE DEF added
    <3> QED
      BY <2>2, <3>1, <3>2 DEF SetsLimits
  <2> QED
    BY <1>8, <2>1, <2>2 DEF EnsureLimits
<1>9. ASSUME NEW t \in Types, NEW n \in Limits, SetLimit(t, n) PROVE SetsLimits
  <2> DEFINE b == <<t, today>>
  <2>1. /\ UNCHANGED <<row, published>> /\ maxAllowed' = [maxAllowed EXCEPT ![b] = n]
        /\ peak' = [peak EXCEPT ![b] = IF n > @ THEN n ELSE @]
    BY <1>9 DEF SetLimit
  <2>2. b \in Types \X Days /\ n \in Nat /\ peak[b] \in Nat
    <3>1. b \in Types \X Days
      BY <1>0 DEF TypeOK
    <3>2. peak[b] \in Limits \cup {0}
      BY <1>0, <3>1
    <3>3. \A m \in Limits \cup {0} : m \in Nat
      BY PipelineAssumption
    <3> QED
      BY <3>1, <3>2, <3>3
  <2> HIDE DEF b
  <2>3. \A c \in Types \X Days : /\ maxAllowed'[c] = IF c = b THEN n ELSE maxAllowed[c]
                                 /\ peak'[c] = IF c = b /\ n > peak[b] THEN n ELSE peak[c]
    BY <1>0, <2>1, <2>2
  <2> QED
    BY <2>1, <2>2, <2>3 DEF SetsLimits
<1>10. \/ UNCHANGED <<row, published, maxAllowed, peak>>
       \/ InsertNext \/ DeskInsert \/ Retry \/ SkipWrite \/ EnsureLimits
       \/ \E k \in Keys : Succeed(k) \/ Fail(k) \/ KilledPublishing(k)
       \/ \E t \in Types, n \in Limits : SetLimit(t, n)
  BY DEF Next, Cycle, Operate, FinishOperation, Attempt, StartCycle, ReadEligible, Enqueue,
         SelectQueued, ReadCapacity, EndInsert, EndCycle, StageFails, BeginSchedule, BeginSkip, BeginRetry,
         DeskLimit, DeskCount, DeskGivesUp, SkipSelect, Killed, DayPasses
<1> QED
  BY <1>1, <1>3, <1>4, <1>5, <1>6, <1>7, <1>8, <1>9, <1>10

\* The counter covers the confirmed rows and stays below the peak, which covers the
\* maximum; without a row of daily_limits nothing is counted.
Below ==
  \A t \in Types, d \in Days :
    LET b == <<t, d>> IN
    /\ Cardinality(Confirmed(t, d)) <= published[b]
    /\ published[b] <= peak[b]
    /\ maxAllowed[b] <= peak[b]
    /\ maxAllowed[b] = NoLimit => peak[b] = 0

\* No step takes the counter past the peak, or leaves a confirmed row uncounted.
LEMMA BelowKept ==
  ASSUME Typed, Typed', Below, [Next]_vars
  PROVE  Below'
<1> SUFFICES ASSUME NEW t \in Types, NEW d \in Days
             PROVE  LET b == <<t, d>> IN
                    /\ Cardinality(Confirmed(t, d)') <= published'[b]
                    /\ published'[b] <= peak'[b]
                    /\ maxAllowed'[b] <= peak'[b]
                    /\ maxAllowed'[b] = NoLimit => peak'[b] = 0
  BY DEF Below
<1> DEFINE b == <<t, d>>
<1>1. /\ published[b] \in Nat /\ published'[b] \in Nat /\ peak[b] \in Nat /\ peak'[b] \in Nat
      /\ maxAllowed[b] \in Int /\ maxAllowed'[b] \in Int /\ b \in Types \X Days
      /\ published \in [Types \X Days -> Nat] /\ row \in [Keys -> RowStatus]
      /\ \A n \in Limits : n \in Nat /\ n # NoLimit
  <2>1. b \in Types \X Days /\ \A n \in Limits : n \in Nat /\ n # NoLimit
    BY PipelineAssumption DEF NoLimit
  <2>2. /\ published[b] \in Nat /\ published'[b] \in Nat
        /\ peak[b] \in Limits \cup {0} /\ peak'[b] \in Limits \cup {0}
        /\ maxAllowed[b] \in Limits \cup {NoLimit} /\ maxAllowed'[b] \in Limits \cup {NoLimit}
        /\ published \in [Types \X Days -> Nat] /\ row \in [Keys -> RowStatus]
    BY <2>1 DEF Typed, TypeOK
  <2> QED
    BY <2>1, <2>2 DEF NoLimit
<1>2. /\ Cardinality(Confirmed(t, d)) <= published[b] /\ published[b] <= peak[b]
      /\ maxAllowed[b] <= peak[b] /\ (maxAllowed[b] = NoLimit => peak[b] = 0)
  BY DEF Below
<1>3. ASSUME UNCHANGED <<published, maxAllowed, peak>>, Confirmed(t, d)' \subseteq Confirmed(t, d)
      PROVE  /\ Cardinality(Confirmed(t, d)') <= published'[b] /\ published'[b] <= peak'[b]
             /\ maxAllowed'[b] <= peak'[b] /\ (maxAllowed'[b] = NoLimit => peak'[b] = 0)
  BY <1>1, <1>2, <1>3, ConfirmedKept
<1>4. CASE SetsLimits
  <2>1. Confirmed(t, d)' = Confirmed(t, d) /\ published' = published
    BY <1>4 DEF SetsLimits, Confirmed
  <2>2. Cardinality(Confirmed(t, d)') <= published'[b]
    BY <1>2, <2>1
  <2>3. \/ maxAllowed'[b] = maxAllowed[b] /\ peak'[b] = peak[b]
        \/ /\ maxAllowed'[b] \in Limits /\ maxAllowed'[b] <= peak'[b]
           /\ maxAllowed[b] = NoLimit \/ peak[b] <= peak'[b]
    BY <1>1, <1>4 DEF SetsLimits
  <2>4. published'[b] <= peak'[b] /\ maxAllowed'[b] <= peak'[b]
    BY <1>1, <1>2, <2>1, <2>3
  <2>5. maxAllowed'[b] = NoLimit => peak'[b] = 0
    BY <1>1, <1>2, <2>3
  <2> QED
    BY <2>2, <2>4, <2>5
<1>5. CASE CancelsRows
  <2>1. Confirmed(t, d)' \subseteq Confirmed(t, d)
    BY <1>5 DEF CancelsRows, Confirmed, RowsOn
  <2> QED
    BY <1>3, <1>5, <2>1 DEF CancelsRows
<1>6. ASSUME NEW k \in Keys, TakesRow(k)
      PROVE  /\ Cardinality(Confirmed(t, d)') <= published'[b] /\ published'[b] <= peak'[b]
             /\ maxAllowed'[b] <= peak'[b] /\ (maxAllowed'[b] = NoLimit => peak'[b] = 0)
  <2>1. Confirmed(t, d)' \subseteq Confirmed(t, d)
    BY <1>1, <1>6 DEF TakesRow, Confirmed, RowsOn
  <2> QED
    BY <1>3, <1>6, <2>1 DEF TakesRow
<1>7. ASSUME NEW k \in Keys, SettlesRow(k)
      PROVE  /\ Cardinality(Confirmed(t, d)') <= published'[b] /\ published'[b] <= peak'[b]
             /\ maxAllowed'[b] <= peak'[b] /\ (maxAllowed'[b] = NoLimit => peak'[b] = 0)
  <2>1. PICK s \in {"PUBLISHED", "FAILED", "PROCESSING"} :
          /\ row' = [row EXCEPT ![k] = s]
          /\ \/ published' = published /\ s # "PUBLISHED"
             \/ /\ published[<<k[2], k[3]>>] < maxAllowed[<<k[2], k[3]>>]
                /\ published' = [published EXCEPT ![<<k[2], k[3]>>] = @ + 1]
    BY <1>7 DEF SettlesRow
  <2>2. UNCHANGED <<maxAllowed, peak>>
    BY <1>7 DEF SettlesRow
  <2>3. CASE published' = published /\ s # "PUBLISHED"
    <3>1. Confirmed(t, d)' \subseteq Confirmed(t, d)
      BY <1>1, <2>1, <2>3 DEF Confirmed, RowsOn
    <3> QED
      BY <1>3, <2>2, <2>3, <3>1
  <2>4. CASE /\ published[<<k[2], k[3]>>] < maxAllowed[<<k[2], k[3]>>]
             /\ published' = [published EXCEPT ![<<k[2], k[3]>>] = @ + 1]
    <3>1. CASE k[2] = t /\ k[3] = d
      <4>1. published'[b] = published[b] + 1 /\ published[b] < maxAllowed[b]
        BY <1>1, <2>4, <3>1
      <4>2. Confirmed(t, d)' \subseteq Confirmed(t, d) \cup {k}
        BY <1>1, <2>1 DEF Confirmed, RowsOn
      <4>3. Cardinality(Confirmed(t, d)') <= published'[b]
        BY <1>1, <1>2, <4>1, <4>2, ConfirmedKept
      <4> QED
        BY <1>1, <1>2, <2>2, <4>1, <4>3
    <3>2. CASE ~(k[2] = t /\ k[3] = d)
      <4>1. published'[b] = published[b]
        BY <1>1, <2>4, <3>2
      <4>2. Confirmed(t, d)' \subseteq Confirmed(t, d)
        BY <1>1, <2>1, <3>2 DEF Confirmed, RowsOn
      <4>3. Cardinality(Confirmed(t, d)') <= published'[b]
        BY <1>1, <1>2, <4>1, <4>2, ConfirmedKept
      <4> QED
        BY <1>2, <2>2, <4>1, <4>3
    <3> QED
      BY <3>1, <3>2
  <2> QED
    BY <2>1, <2>3, <2>4
<1> QED
  BY <1>4, <1>5, <1>6, <1>7, TablesMove

\* Nothing is counted at the start.
LEMMA InitBelow == Init => Below
<1> SUFFICES ASSUME Init, NEW t \in Types, NEW d \in Days
             PROVE  LET b == <<t, d>> IN
                    /\ Cardinality(Confirmed(t, d)) <= published[b]
                    /\ published[b] <= peak[b]
                    /\ maxAllowed[b] <= peak[b]
                    /\ maxAllowed[b] = NoLimit => peak[b] = 0
  BY DEF Below
<1>1. published[<<t, d>>] = 0 /\ peak[<<t, d>>] = 0 /\ maxAllowed[<<t, d>>] = NoLimit
  BY DEF Init
<1>2. Confirmed(t, d) = {}
  BY DEF Init, Confirmed, RowsOn
<1> QED
  BY <1>1, <1>2, FS_EmptySet DEF NoLimit

\* In both deployments a race may book a day beyond its maximum, but never publish
\* beyond it: the confirmed rows are within the counter, the counter within the
\* largest maximum the day has had.
THEOREM DayIsNeverOverpublished == Spec => []NeverOverpublished
<1>1. Typed /\ Below /\ [Next]_vars => Typed' /\ Below'
  BY TypedStep, BelowKept
<1>2. Below => NeverOverpublished
  BY DEF Below, NeverOverpublished, Confirmed
<1> QED
  BY <1>1, <1>2, InitTyped, InitBelow, PTL DEF Spec

\* In both deployments a product has at most one active row of a type: a row only
\* becomes active past the unique index, and a row that is active came from one.
THEOREM ProductHasNoTwins == Spec => []NoTwins
<1> DEFINE Distinct == \A j, k \in Keys :
             j[1] = k[1] /\ j[2] = k[2] /\ row[j] \in ActiveStatus /\ row[k] \in ActiveStatus => j = k
<1>1. Init => Distinct
  BY DEF Init, ActiveStatus
<1>2. ASSUME Typed, Distinct, [Next]_vars PROVE Distinct'
  <2>0. row \in [Keys -> RowStatus]
    BY <1>2 DEF Typed, TypeOK
  <2>1. ASSUME \A k \in Keys : row'[k] \in ActiveStatus => row[k] \in ActiveStatus
        PROVE  Distinct'
    BY <1>2, <2>1
  <2>2. CASE SetsLimits \/ CancelsRows
    <3>1. \A k \in Keys : row'[k] \in ActiveStatus => row[k] \in ActiveStatus
      BY <2>2 DEF SetsLimits, CancelsRows, ActiveStatus
    <3> QED
      BY <2>1, <3>1
  <2>3. ASSUME NEW k \in Keys, SettlesRow(k) PROVE Distinct'
    <3>1. \A j \in Keys : row'[j] \in ActiveStatus => row[j] \in ActiveStatus
      BY <2>0, <2>3 DEF SettlesRow, ActiveStatus
    <3> QED
      BY <2>1, <3>1
  <2>4. ASSUME NEW k \in Keys, TakesRow(k) PROVE Distinct'
    <3>1. \A j \in Keys : j[1] = k[1] /\ row[j] \in ActiveStatus => j[2] # k[2]
      BY <2>4 DEF TakesRow, ActiveRows, RowsOf
    <3>2. \A j \in Keys : j # k => row'[j] = row[j]
      BY <2>0, <2>4 DEF TakesRow
    <3> QED
      BY <1>2, <3>1, <3>2
  <2> QED
    BY <1>2, <2>2, <2>3, <2>4, TablesMove
<1>3. Distinct => NoTwins
  BY DEF NoTwins, ActiveRows, RowsOf
<1> HIDE DEF Distinct
<1>4. Typed /\ Distinct /\ [Next]_vars => Typed' /\ Distinct'
  BY <1>2, TypedStep
<1> QED
  BY <1>1, <1>3, <1>4, InitTyped, PTL DEF Spec
===============================================================================
