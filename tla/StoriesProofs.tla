----------------------------- MODULE StoriesProofs -----------------------------
(***************************************************************************)
(* Proofs about Stories, for any products, runners, days, limits, cooldown *)
(* and kills: who has a story in hand, that the stories of a product take  *)
(* turns, that the counter of a day is exact and implements SlotPool, and  *)
(* that a skip is heeded.                                                  *)
(***************************************************************************)
EXTENDS Stories, TLAPS, FunctionTheorems, FiniteSetTheorems, NaturalsInduction, WellFoundedInduction

\* Nonempty sets of numbers have a least element, which Min chooses.
LEMMA MinIsLeast ==
  ASSUME NEW S \in SUBSET Nat, S # {}
  PROVE  Min(S) \in S /\ \A x \in S : Min(S) <= x
<1> DEFINE Less == {ss \in Nat \X Nat : ss[1] < ss[2]}
<1>1. IsWellFoundedOn(Less, Nat)
  BY NatLessThanWellFounded DEF OpToRel
<1>2. PICK n \in S : \A x \in S : <<x, n>> \notin Less
  <2> HIDE DEF Less
  <2> QED
    BY <1>1, WFMin
<1>3. ASSUME NEW x \in S PROVE n <= x
  <2>1. n \in Nat /\ x \in Nat /\ <<x, n>> \notin Less
    BY <1>2
  <2>2. ~(x < n)
    BY <2>1
  <2> QED
    BY <2>1, <2>2
<1> QED
  BY <1>3 DEF Min

\* Days are counted from zero, and later times are on later days.
LEMMA DayProperties ==
  /\ DayOf(LastTick) \in Nat
  /\ \A t \in 0 .. LastTick : DayOf(t) \in Days
  /\ \A s, t \in 0 .. LastTick : s <= t => DayOf(s) <= DayOf(t)
<1>1. ASSUME NEW t \in Nat
      PROVE  DayOf(t) \in Nat /\ DayLength * DayOf(t) <= t /\ t < DayLength * (DayOf(t) + 1)
  BY StoriesAssumption DEF DayOf
<1>2. ASSUME NEW s \in Nat, NEW t \in Nat, s <= t PROVE DayOf(s) <= DayOf(t)
  <2> DEFINE a == DayOf(s)
             b == DayOf(t)
  <2>1. /\ a \in Nat /\ b \in Nat /\ DayLength \in Nat /\ DayLength > 0
        /\ DayLength * a <= s /\ t < DayLength * (b + 1)
    BY <1>1, StoriesAssumption
  <2> HIDE DEF a, b
  <2>2. DayLength * a < DayLength * (b + 1)
    BY <1>2, <2>1
  <2>3. ASSUME a >= b + 1 PROVE DayLength * a >= DayLength * (b + 1)
    BY <2>1, <2>3
  <2>4. a < b + 1
    <3> DEFINE x == DayLength * a
               y == DayLength * (b + 1)
    <3>1. x \in Int /\ y \in Int
      BY <2>1
    <3> HIDE DEF x, y
    <3>2. x < y /\ (a >= b + 1 => x >= y)
      BY <2>2, <2>3 DEF x, y
    <3> QED
      BY <2>1, <3>1, <3>2
  <2>5. a <= b
    BY <2>1, <2>4
  <2> QED
    BY <2>5 DEF a, b
<1>3. \A t \in 0 .. LastTick : t \in Nat /\ t <= LastTick
  BY StoriesAssumption
<1>4. LastTick \in Nat /\ DayOf(LastTick) \in Nat
  BY <1>1, StoriesAssumption
<1>5. ASSUME NEW t \in 0 .. LastTick PROVE DayOf(t) \in Days
  <2>1. DayOf(t) \in Nat /\ DayOf(t) <= DayOf(LastTick)
    BY <1>1, <1>2, <1>3, <1>4
  <2> QED
    BY <1>4, <2>1 DEF Days
<1> QED
  BY <1>2, <1>3, <1>4, <1>5

\* There are finitely many stories.
LEMMA FiniteKeys == IsFiniteSet(Keys)
<1>1. IsFiniteSet(Days)
  BY DayProperties, FS_Interval DEF Days
<1> QED
  BY <1>1, StoriesAssumption, FS_Product DEF Keys

\* The first story of a batch is one of it.
LEMMA FirstIsOfBatch ==
  ASSUME NEW S \in SUBSET Keys, S # {}
  PROVE  FirstStory(S) \in S
<1> DEFINE days == {d \in Nat : \E k \in S : k[2] = d}
           ids  == {i \in Nat : \E k \in S : k[2] = Min(days) /\ k[1] = i}
<1>1. ASSUME NEW k \in S PROVE k[1] \in Nat /\ k[2] \in Nat
  <2>1. k \in Products \X Days /\ Products \subseteq Nat /\ Days \subseteq Nat
    BY StoriesAssumption DEF Keys, Days
  <2> QED
    BY <2>1
<1>2. Min(days) \in days /\ \A d \in days : Min(days) <= d
  <2>1. days \in SUBSET Nat /\ days # {}
    BY <1>1
  <2> HIDE DEF days
  <2> QED
    BY <2>1, MinIsLeast
<1>3. Min(ids) \in ids /\ \A i \in ids : Min(ids) <= i
  <2>1. ids \in SUBSET Nat /\ ids # {}
    BY <1>1, <1>2
  <2> HIDE DEF ids
  <2> QED
    BY <2>1, MinIsLeast
<1>4. PICK k \in S : k[2] = Min(days) /\ k[1] = Min(ids)
  BY <1>3
<1>5. ASSUME NEW j \in S PROVE k[2] < j[2] \/ (k[2] = j[2] /\ k[1] <= j[1])
  <2>1. j[2] \in days /\ (j[2] = Min(days) => j[1] \in ids)
    BY <1>1
  <2> HIDE DEF days, ids
  <2>2. k[2] <= j[2] /\ (j[2] = k[2] => k[1] <= j[1])
    BY <1>2, <1>3, <1>4, <2>1
  <2> QED
    BY <1>1, <2>2
<1> HIDE DEF days, ids
<1> QED
  BY <1>5 DEF FirstStory

-------------------------------------------------------------------------------
(* Types *)

\* What a process has loaded is there.
Loaded(p) ==
  /\ p.slot <=> p.at \in {"calling", "live"}
  /\ p.at = "batch" => p.todo # {}
  /\ p.at \in {"loaded"} \cup Handling => p.key \in Keys
  /\ p.at = "create" => p.day <= DayOf(clock)

\* TypeOK without what it says of a story at hand.
Types ==
  /\ product \in [Products -> ProductStatus]
  /\ media \in [Products -> BOOLEAN]
  /\ story \in [Keys -> StoryStatus]
  /\ attempts \in [Keys -> Nat]
  /\ bucket \in [Keys -> Days]
  /\ publishedAt \in [Keys -> 0 .. LastTick \cup {NoTime}]
  /\ maxAllowed \in [Days -> Limits \cup {NoLimit}]
  /\ published \in [Days -> Nat]
  /\ clock \in 0 .. LastTick
  /\ proc \in [Procs -> ProcType]
  /\ stranded \subseteq Keys
  /\ orphaned \subseteq stranded
  /\ shown \in [Procs -> SUBSET Products]
  /\ peak \in [Days -> Limits \cup {0}]
  /\ spent \in [runs : 0 .. MaxRuns, changes : 0 .. MaxChanges, kills : 0 .. MaxKills]

Placed ==
  /\ \A w \in Procs : Loaded(proc[w])
  /\ \A w \in Runners : proc[w].at \notin {"start", "create"}

\* The record of an idle process, and of one that goes on with its batch.
LEMMA IdleTyped == Idle \in ProcType /\ Idle.at = "idle" /\ ~Idle.slot
<1>1. 0 \in Days
  BY DayProperties DEF Days
<1> QED
  BY <1>1 DEF Idle, ProcType, Places

LEMMA AdvanceTyped ==
  ASSUME NEW p \in ProcType
  PROVE  /\ Advance(p) \in ProcType
         /\ Advance(p).at \in {"idle", "batch"} /\ ~Advance(p).slot
         /\ Advance(p).at = "batch" => Advance(p).todo # {}
         /\ Advance(p).todo = p.todo
         /\ Advance(p).seen # NoKey => Advance(p).seen = p.seen
<1>1. CASE p.todo = {}
  BY <1>1, IdleTyped DEF Advance, Idle
<1>2. CASE p.todo # {}
  <2>1. /\ Advance(p) = [Idle EXCEPT !.at = "batch", !.todo = p.todo, !.seen = p.seen]
        /\ p.todo \subseteq Keys /\ p.seen \in (Products \X ProductStatus) \cup {NoKey}
    BY <1>2 DEF Advance, ProcType
  <2>2. Advance(p) \in ProcType
    BY <2>1, IdleTyped DEF ProcType, Places
  <2> QED
    BY <1>2, <2>1, <2>2 DEF Idle
<1> QED
  BY <1>1, <1>2

\* The initial state.
LEMMA InitTypes == Init => Types /\ Placed
<1> SUFFICES ASSUME Init PROVE Types /\ Placed
  OBVIOUS
<1>1. 0 \in Days /\ DefaultLimit \in Limits
  BY DayProperties, StoriesAssumption DEF Days
<1>2. Types
  BY <1>1, IdleTyped, StoriesAssumption DEF Init, Types, ProductStatus, StoryStatus
<1>3. Placed
  <2>1. \A w \in Procs : proc[w] = Idle
    BY DEF Init
  <2>2. Runners \subseteq Procs
    BY DEF Procs
  <2> QED
    BY <2>1, <2>2, IdleTyped DEF Placed, Loaded, Handling
<1> QED
  BY <1>2, <1>3

\* What a step of process w on to q must show.
LEMMA MovePlaced ==
  ASSUME Types, Placed, NEW w \in Procs, NEW q \in ProcType, Goto(w, q),
         UNCHANGED clock,
         Loaded(q), q.at \in {"start", "create"} => w = Worker
  PROVE  /\ proc' \in [Procs -> ProcType] /\ Placed'
         /\ proc'[w] = q /\ \A v \in Procs : v # w => proc'[v] = proc[v]
<1>1. /\ proc' \in [Procs -> ProcType] /\ proc'[w] = q
      /\ \A v \in Procs : v # w => proc'[v] = proc[v]
  BY DEF Types, Goto
<1>2. \A v \in Procs : Loaded(proc'[v])
  BY <1>1 DEF Placed
<1>3. \A v \in Procs : Loaded(proc[v])'
  BY <1>2 DEF Loaded
<1>4. \A v \in Runners : v \in Procs /\ v # Worker
  BY StoriesAssumption DEF Procs
<1>5. \A v \in Runners : proc'[v].at \notin {"start", "create"}
  BY <1>1, <1>4 DEF Placed
<1> QED
  BY <1>1, <1>3, <1>5 DEF Placed

\* Publishing keeps the types.
LEMMA PublishTyped ==
  ASSUME Types, Placed, NEW w \in Procs, Publish(w)
  PROVE  Types' /\ Placed'
<1> DEFINE p == proc[w]
<1>p. p \in ProcType /\ Loaded(p)
  BY DEF Types, Placed
<1>f. /\ p.at \in Places /\ p.todo \in SUBSET Keys /\ p.key \in Keys \cup {NoKey}
      /\ p.attempts \in Nat /\ p.slot \in BOOLEAN /\ p.transient \in BOOLEAN
      /\ p.seen \in (Products \X ProductStatus) \cup {NoKey}
  BY <1>p DEF ProcType
<1>i. Idle \in ProcType /\ Loaded(Idle) /\ Idle.at = "idle"
  BY IdleTyped DEF Loaded, Handling
<1>a. ASSUME NEW r \in ProcType
      PROVE  Advance(r) \in ProcType /\ Loaded(Advance(r)) /\ Advance(r).at \in {"idle", "batch"}
  BY AdvanceTyped DEF Loaded, Handling
<1> USE DEF rows, limits, past, vars
<1>1. ASSUME NEW q \in ProcType, Goto(w, q), Loaded(q), q.at \notin {"start", "create"},
             UNCHANGED <<product, media, rows, limits, clock, past>>
      PROVE  Types' /\ Placed'
  <2>1. proc' \in [Procs -> ProcType] /\ Placed'
    BY <1>1, MovePlaced
  <2> QED
    BY <1>1, <2>1 DEF Types
<1>2. ASSUME DealWithPosts(w) PROVE Types' /\ Placed'
  <2>1. CASE Goto(w, Advance(p))
    BY <1>1, <1>2, <1>a, <1>p, <2>1 DEF DealWithPosts
  <2>2. ASSUME NEW r \in Products, Goto(w, Advance([p EXCEPT !.seen = <<r, product[r]>>]))
        PROVE  Types' /\ Placed'
    <3>1. <<r, product[r]>> \in Products \X ProductStatus
      BY DEF Types
    <3>2. [p EXCEPT !.seen = <<r, product[r]>>] \in ProcType
      BY <1>p, <3>1 DEF ProcType
    <3> QED
      BY <1>1, <1>2, <1>a, <2>2, <3>2 DEF DealWithPosts
  <2> QED
    BY <1>2, <2>1, <2>2 DEF DealWithPosts
<1>3. ASSUME PassOver(w) PROVE Types' /\ Placed'
  <2> DEFINE q == [p EXCEPT !.todo = @ \ {FirstStory(p.todo)}]
  <2>1. q \in ProcType
    BY <1>p, <1>f DEF ProcType
  <2> QED
    BY <1>1, <1>3, <1>a, <2>1 DEF PassOver
<1>4. ASSUME Load(w) PROVE Types' /\ Placed'
  <2> DEFINE k == FirstStory(p.todo)
             q == [p EXCEPT !.at = "loaded", !.key = k, !.todo = @ \ {k}, !.attempts = attempts[k]]
  <2>1. k \in Keys /\ p.at = "batch"
    <3>1. p.at = "batch" /\ p.todo # {}
      BY <1>4, <1>p DEF Load, Loaded
    <3> QED
      BY <1>f, <3>1, FirstIsOfBatch
  <2> HIDE DEF k
  <2>2. attempts[k] \in Nat
    BY <2>1 DEF Types
  <2>3. q \in ProcType
    BY <1>p, <1>f, <2>1, <2>2 DEF ProcType, Places
  <2>4. Loaded(q)
    BY <1>p, <2>1, <2>3 DEF ProcType, Loaded, Handling
  <2>5. q.at = "loaded"
    BY <1>p DEF ProcType
  <2>6. Goto(w, q) /\ UNCHANGED <<product, media, rows, limits, clock, past>>
    BY <1>4 DEF Load, k
  <2> HIDE DEF q
  <2> QED
    BY <1>1, <2>3, <2>4, <2>5, <2>6
<1>5. ASSUME ClaimStory(w) PROVE Types' /\ Placed'
  <2>0. p.at = "loaded" /\ p.key \in Keys
    BY <1>5, <1>p DEF ClaimStory, Loaded
  <2>1. CASE ClaimableStory(p.key)
    <3> DEFINE q == [p EXCEPT !.at = "claimed"]
    <3>1. q \in ProcType /\ q.at = "claimed" /\ Loaded(q)
      BY <1>p, <2>0 DEF ProcType, Places, Loaded, Handling
    <3>2. Goto(w, q) /\ story' = [story EXCEPT ![p.key] = "PROCESSING"]
          /\ UNCHANGED <<product, media, attempts, bucket, publishedAt, limits, clock, past>>
      BY <1>5, <2>1 DEF ClaimStory
    <3>3. story' \in [Keys -> StoryStatus]
      BY <3>2 DEF Types, StoryStatus
    <3> HIDE DEF q
    <3>4. proc' \in [Procs -> ProcType] /\ Placed'
      BY <3>1, <3>2, MovePlaced
    <3> QED
      BY <3>2, <3>3, <3>4 DEF Types
  <2>2. CASE ~ClaimableStory(p.key)
    <3>1. [p EXCEPT !.seen = NoKey] \in ProcType
      BY <1>p DEF ProcType
    <3> QED
      BY <1>1, <1>5, <1>a, <2>2, <3>1 DEF ClaimStory
  <2> QED
    BY <2>1, <2>2
<1>6. ASSUME NEW t \in BOOLEAN, RecordStory(w, t), p.at \in Handling PROVE Types' /\ Placed'
  <2>1. p.key \in Keys
    BY <1>6, <1>p DEF Loaded
  <2>2. /\ story' \in [Keys -> StoryStatus] /\ attempts' \in [Keys -> Nat]
        /\ UNCHANGED <<product, media, bucket, publishedAt, limits, clock, past>>
    BY <1>6, <1>f, <2>1 DEF RecordStory, StoryAfterFailure, Types, StoryStatus
  <2>3. Goto(w, Advance(p))
    BY <1>6 DEF RecordStory
  <2>4. proc' \in [Procs -> ProcType] /\ Placed'
    BY <1>a, <1>p, <2>2, <2>3, MovePlaced
  <2> QED
    BY <2>2, <2>4 DEF Types
<1>7. ASSUME Refuse(w) \/ RecordFailure(w) PROVE Types' /\ Placed'
  BY <1>6, <1>7, <1>f DEF Refuse, RecordFailure, Handling
<1>8. ASSUME ReserveStory(w) PROVE Types' /\ Placed'
  <2> DEFINE q == [p EXCEPT !.at = "calling", !.slot = TRUE]
  <2>1. p.key \in Keys
    BY <1>8, <1>p DEF ReserveStory, Loaded, Handling
  <2>2. q \in ProcType /\ q.at = "calling" /\ Loaded(q)
    BY <1>p, <2>1 DEF ProcType, Places, Loaded, Handling
  <2>3. /\ Goto(w, q) /\ published' = [published EXCEPT ![bucket[p.key]] = @ + 1]
        /\ UNCHANGED <<product, media, rows, maxAllowed, clock, past>>
    BY <1>8 DEF ReserveStory
  <2>4. published' \in [Days -> Nat]
    <3>1. bucket[p.key] \in Days /\ published \in [Days -> Nat]
      BY <2>1 DEF Types
    <3> QED
      BY <2>3, <3>1
  <2> HIDE DEF q
  <2>5. proc' \in [Procs -> ProcType] /\ Placed'
    BY <2>2, <2>3, MovePlaced
  <2> QED
    BY <2>3, <2>4, <2>5 DEF Types
<1>9. ASSUME MeetFullDay(w) PROVE Types' /\ Placed'
  <2>1. p.key \in Keys
    BY <1>9, <1>p DEF MeetFullDay, Loaded, Handling
  <2>2. proc' \in [Procs -> ProcType] /\ Placed'
    BY <1>9, <1>i, MovePlaced DEF MeetFullDay
  <2> QED
    BY <1>9, <2>1, <2>2 DEF MeetFullDay, Types
<1>10. ASSUME GoesLive(w) PROVE Types' /\ Placed'
  <2> DEFINE q == [p EXCEPT !.at = "live"]
  <2>1. q \in ProcType /\ q.at = "live" /\ Loaded(q)
    BY <1>10, <1>p DEF GoesLive, ProcType, Places, Loaded, Handling
  <2> QED
    BY <1>1, <1>10, <2>1 DEF GoesLive
<1>11. ASSUME ReleaseStory(w) PROVE Types' /\ Placed'
  <2>1. p.key \in Keys
    BY <1>11, <1>p DEF ReleaseStory, Loaded, Handling
  <2>2. PICK t \in BOOLEAN : Goto(w, [p EXCEPT !.at = "failed", !.slot = FALSE, !.transient = t])
    BY <1>11 DEF ReleaseStory
  <2> DEFINE q == [p EXCEPT !.at = "failed", !.slot = FALSE, !.transient = t]
  <2>3. q \in ProcType /\ q.at = "failed" /\ Loaded(q)
    BY <1>p, <2>1 DEF ProcType, Places, Loaded, Handling
  <2>4. /\ published' = GiveBack(bucket[p.key])
        /\ UNCHANGED <<product, media, rows, maxAllowed, clock, past>>
    BY <1>11 DEF ReleaseStory
  <2>5. published' \in [Days -> Nat]
    <3>1. bucket[p.key] \in Days /\ published \in [Days -> Nat]
      BY <2>1 DEF Types
    <3> QED
      BY <2>4, <3>1 DEF GiveBack
  <2>6. proc' \in [Procs -> ProcType] /\ Placed'
    BY <2>2, <2>3, <2>4, MovePlaced
  <2> QED
    BY <2>4, <2>5, <2>6 DEF Types
<1>12. ASSUME ConfirmStory(w) PROVE Types' /\ Placed'
  <2>1. p.key \in Keys
    BY <1>12, <1>p DEF ConfirmStory, Loaded, Handling
  <2>2. /\ story' \in [Keys -> StoryStatus] /\ attempts' \in [Keys -> Nat]
        /\ publishedAt' \in [Keys -> 0 .. LastTick \cup {NoTime}]
        /\ UNCHANGED <<product, media, bucket, limits, clock, past>>
    BY <1>12, <1>f, <2>1 DEF ConfirmStory, Types, StoryStatus
  <2>3. Goto(w, Advance(p))
    BY <1>12 DEF ConfirmStory
  <2>4. proc' \in [Procs -> ProcType] /\ Placed'
    BY <1>a, <1>p, <2>2, <2>3, MovePlaced
  <2> QED
    BY <2>2, <2>4 DEF Types
<1> QED
  BY <1>2, <1>3, <1>4, <1>5, <1>7, <1>8, <1>9, <1>10, <1>11, <1>12 DEF Publish

\* Creating stories and what starts or ends a process keep the types.
LEMMA CreateTyped ==
  ASSUME Types, Placed,
         Create \/ Review \/ \E w \in Procs : StartBatch(w) \/ Killed(w)
  PROVE  Types' /\ Placed'
<1> USE DEF rows, limits, past, vars
<1>w. Worker \in Procs
  BY DEF Procs
<1>d. DayOf(clock) \in Days
  BY DayProperties DEF Types
<1>i. Idle \in ProcType /\ Loaded(Idle) /\ Idle.at = "idle"
  BY IdleTyped DEF Loaded, Handling
<1>s. Idle.at = "idle" /\ ~Idle.slot /\ Idle.todo = {}
  BY DEF Idle
<1>1. ASSUME StartCycle PROVE Types' /\ Placed'
  <2> DEFINE q == [Idle EXCEPT !.at = "start"]
  <2>1. q \in ProcType /\ q.at = "start" /\ Loaded(q)
    BY <1>i, <1>s DEF ProcType, Places, Loaded, Handling
  <2>2. proc' \in [Procs -> ProcType] /\ Placed'
    <3> HIDE DEF q
    <3>1. Goto(Worker, q) /\ clock' = clock
      BY <1>1 DEF StartCycle, q
    <3> QED
      BY <1>w, <2>1, <3>1, MovePlaced
  <2>3. Ensured(DayOf(clock)) \in Limits
    BY <1>d, StoriesAssumption DEF Types, Ensured
  <2>4. maxAllowed' \in [Days -> Limits \cup {NoLimit}] /\ peak' \in [Days -> Limits \cup {0}]
    BY <1>1, <1>d, <2>3 DEF StartCycle, Higher, Types
  <2> QED
    BY <1>1, <2>2, <2>4 DEF StartCycle, Types
<1>2. ASSUME ReadProducts PROVE Types' /\ Placed'
  <2> DEFINE p == proc[Worker]
             q == [p EXCEPT !.at = "create", !.day = DayOf(clock), !.room = Remaining(DayOf(clock)),
                            !.list = {r \in Products : product[r] \in Showable}]
  <2>1. p \in ProcType /\ p.at = "start" /\ ~p.slot
    BY <1>2, <1>w DEF ReadProducts, Types, Placed, Loaded
  <2>2. Remaining(DayOf(clock)) \in Nat
    <3> DEFINE active == {k \in Keys : story[k] \in Unfinished /\ bucket[k] = DayOf(clock)}
    <3>1. IsFiniteSet(active)
      BY FiniteKeys, FS_Subset
    <3>2. Cardinality(active) \in Nat
      BY <3>1, FS_CardinalityType
    <3>3. /\ maxAllowed[DayOf(clock)] \in Int /\ published[DayOf(clock)] \in Int
          /\ (maxAllowed[DayOf(clock)] # NoLimit => maxAllowed[DayOf(clock)] \in Nat)
      <4>1. /\ maxAllowed[DayOf(clock)] \in Limits \cup {NoLimit}
            /\ published[DayOf(clock)] \in Nat
        BY <1>d DEF Types
      <4>2. \A n \in Limits \cup {NoLimit} : n \in Int /\ (n # NoLimit => n \in Nat)
        BY StoriesAssumption DEF NoLimit
      <4> QED
        BY <4>1, <4>2
    <3> HIDE DEF active
    <3> QED
      BY <3>2, <3>3 DEF Remaining, active
  <2>3. q \in ProcType /\ q.at = "create" /\ q.day = DayOf(clock) /\ ~q.slot
    BY <1>d, <2>1, <2>2 DEF ProcType, Places
  <2>4. Loaded(q)
    BY <1>d, <2>3 DEF Loaded, Handling, Days
  <2>5. Goto(Worker, q) /\ UNCHANGED <<product, media, rows, limits, clock, past>>
    BY <1>2 DEF ReadProducts
  <2> HIDE DEF q
  <2>6. proc' \in [Procs -> ProcType] /\ Placed'
    BY <1>w, <2>3, <2>4, <2>5, MovePlaced
  <2> QED
    BY <2>5, <2>6 DEF Types
<1>3. ASSUME CreateNext PROVE Types' /\ Placed'
  <2> DEFINE p == proc[Worker]
             r == Min(p.list)
             k == <<r, p.day>>
             made == [p EXCEPT !.room = @ - 1, !.list = @ \ {r}]
             passed == [p EXCEPT !.list = @ \ {r}]
  <2>1. /\ p \in ProcType /\ Loaded(p) /\ p.at = "create" /\ p.room > 0 /\ p.room \in Nat
        /\ p.list \subseteq Products /\ p.list # {} /\ p.day \in Days
    BY <1>3, <1>w DEF CreateNext, Types, Placed, ProcType
  <2>2. r \in Products
    <3>1. p.list \in SUBSET Nat /\ p.list # {}
      BY <2>1, StoriesAssumption
    <3> QED
      BY <2>1, <3>1, MinIsLeast
  <2> HIDE DEF r
  <2>3. k \in Keys
    BY <2>1, <2>2 DEF Keys
  <2>4. /\ made \in ProcType /\ Loaded(made) /\ made.at = "create"
        /\ passed \in ProcType /\ Loaded(passed) /\ passed.at = "create"
    <3>1. p.room - 1 \in Nat /\ p.list \ {r} \in SUBSET Products
      BY <2>1
    <3>2. made \in ProcType /\ passed \in ProcType
      BY <2>1, <3>1 DEF ProcType
    <3>3. /\ made.at = p.at /\ made.day = p.day /\ made.slot = p.slot
          /\ passed.at = p.at /\ passed.day = p.day /\ passed.slot = p.slot
      BY <2>1 DEF ProcType
    <3> QED
      BY <2>1, <3>2, <3>3 DEF Loaded, Handling
  <2>5. /\ UNCHANGED <<product, media, attempts, publishedAt, limits, clock, past>>
        /\ \/ /\ story' = [story EXCEPT ![k] = "SCHEDULED"]
              /\ bucket' = [bucket EXCEPT ![k] = DayOf(clock)]
              /\ Goto(Worker, made)
           \/ UNCHANGED <<story, bucket>> /\ Goto(Worker, passed)
    BY <1>3 DEF CreateNext, r
  <2> HIDE DEF k, made, passed
  <2>6. story' \in [Keys -> StoryStatus] /\ bucket' \in [Keys -> Days]
    BY <1>d, <2>3, <2>5 DEF Types, StoryStatus
  <2>7. proc' \in [Procs -> ProcType] /\ Placed'
    BY <1>w, <2>4, <2>5, MovePlaced
  <2> QED
    BY <2>5, <2>6, <2>7 DEF Types
<1>4. ASSUME Review PROVE Types' /\ Placed'
  <2>1. proc' \in [Procs -> ProcType] /\ Placed'
    BY <1>4, <1>w, <1>i, MovePlaced DEF Review
  <2> QED
    BY <1>4, <2>1 DEF Review, Types
<1>5. ASSUME NEW w \in Procs, StartBatch(w) PROVE Types' /\ Placed'
  <2> DEFINE q == [Idle EXCEPT !.at = "posts", !.todo = DueStories]
  <2>1. q \in ProcType /\ q.at = "posts" /\ Loaded(q)
    BY <1>i, <1>s DEF ProcType, Places, Loaded, Handling, DueStories
  <2>2. proc' \in [Procs -> ProcType] /\ Placed'
    <3> HIDE DEF q
    <3>1. Goto(w, q) /\ clock' = clock
      BY <1>5 DEF StartBatch, q
    <3> QED
      BY <2>1, <3>1, MovePlaced
  <2>3. shown' \in [Procs -> SUBSET Products]
    BY <1>5 DEF StartBatch, Types
  <2>4. spent' \in [runs : 0 .. MaxRuns, changes : 0 .. MaxChanges, kills : 0 .. MaxKills]
    BY <1>5, StoriesAssumption DEF StartBatch, BatchMayStart, Types
  <2> QED
    BY <1>5, <2>2, <2>3, <2>4 DEF StartBatch, Types
<1>6. ASSUME NEW w \in Procs, Killed(w) PROVE Types' /\ Placed'
  <2>1. proc' \in [Procs -> ProcType] /\ Placed'
    BY <1>6, <1>i, MovePlaced DEF Killed
  <2>2. proc[w].at \in Handling => proc[w].key \in Keys
    BY DEF Placed, Loaded
  <2>3. proc[w].slot => proc[w].at \in Handling
    BY DEF Placed, Loaded, Handling
  <2>4. stranded' \subseteq Keys /\ orphaned' \subseteq stranded'
    BY <1>6, <2>2, <2>3 DEF Killed, Types
  <2>5. spent' \in [runs : 0 .. MaxRuns, changes : 0 .. MaxChanges, kills : 0 .. MaxKills]
    BY <1>6, StoriesAssumption DEF Killed, Types
  <2> QED
    BY <1>6, <2>1, <2>4, <2>5 DEF Killed, Types
<1> QED
  BY <1>1, <1>2, <1>3, <1>4, <1>5, <1>6 DEF Create

\* So does the rest of the system.
LEMMA WorldTyped ==
  ASSUME Types, Placed,
         \/ Tick
         \/ \E r \in Products : PurgeMedia(r) \/ \E s \in ProductStatus : ChangeProduct(r, s)
         \/ \E n \in Limits : SetStoryLimit(n)
         \/ UNCHANGED vars
  PROVE  Types' /\ Placed'
<1> USE DEF rows, limits, past, vars
<1>k. Placed' \/ ~(UNCHANGED <<proc, clock>>)
  BY DEF Placed, Loaded
<1>1. ASSUME Tick PROVE Types' /\ Placed'
  <2>1. clock' \in 0 .. LastTick /\ clock <= clock'
    BY <1>1, StoriesAssumption DEF Tick, Types
  <2>2. DayOf(clock) \in Nat /\ DayOf(clock') \in Nat /\ DayOf(clock) <= DayOf(clock')
    BY <2>1, DayProperties DEF Types, Days
  <2>3. \A w \in Procs : proc[w].day \in Nat
    BY DayProperties DEF Types, ProcType, Days
  <2>4. DayOf(clock)' = DayOf(clock')
    BY DEF DayOf
  <2>5. Placed'
    BY <1>1, <2>2, <2>3, <2>4 DEF Tick, Placed, Loaded
  <2> QED
    BY <1>1, <2>1, <2>5 DEF Tick, Types
<1>2. ASSUME NEW r \in Products, PurgeMedia(r) PROVE Types' /\ Placed'
  BY <1>2, <1>k DEF PurgeMedia, Types
<1>3. ASSUME NEW r \in Products, NEW s \in ProductStatus, ChangeProduct(r, s) PROVE Types' /\ Placed'
  <2>1. product' \in [Products -> ProductStatus] /\ shown' \in [Procs -> SUBSET Products]
    BY <1>3 DEF ChangeProduct, Types
  <2>2. spent' \in [runs : 0 .. MaxRuns, changes : 0 .. MaxChanges, kills : 0 .. MaxKills]
    BY <1>3, StoriesAssumption DEF ChangeProduct, Types
  <2> QED
    BY <1>3, <1>k, <2>1, <2>2 DEF ChangeProduct, Types
<1>4. ASSUME NEW n \in Limits, SetStoryLimit(n) PROVE Types' /\ Placed'
  <2>1. DayOf(clock) \in Days
    BY DayProperties DEF Types
  <2>2. maxAllowed' \in [Days -> Limits \cup {NoLimit}] /\ peak' \in [Days -> Limits \cup {0}]
    BY <1>4, <2>1 DEF SetStoryLimit, Higher, Types
  <2>3. spent' \in [runs : 0 .. MaxRuns, changes : 0 .. MaxChanges, kills : 0 .. MaxKills]
    BY <1>4, StoriesAssumption DEF SetStoryLimit, Types
  <2> QED
    BY <1>4, <1>k, <2>2, <2>3 DEF SetStoryLimit, Types
<1>5. CASE UNCHANGED vars
  BY <1>5, <1>k DEF Types
<1> QED
  BY <1>1, <1>2, <1>3, <1>4, <1>5

-------------------------------------------------------------------------------
(* Who has a story in hand *)

Handles(p) == p.at \in Handling

\* A story being handled belongs to one process and is not stranded; one that is
\* stranded stays as it was left.
Owned ==
  /\ \A w \in Procs : Handles(proc[w]) =>
       story[proc[w].key] = "PROCESSING" /\ proc[w].key \notin stranded
  /\ \A v, w \in Procs :
       Handles(proc[v]) /\ Handles(proc[w]) /\ proc[v].key = proc[w].key => v = w
  /\ \A k \in stranded : story[k] = "PROCESSING"
  /\ \A k \in Keys : story[k] = "PROCESSING" => k \in stranded \/ \E w \in Procs : InHand(w, k)

\* What a step may do to the story that process w has in hand: nothing, take one
\* that is SCHEDULED, finish with it, or strand it.
Keeps(w, q) ==
  /\ Handles(q) <=> Handles(proc[w])
  /\ Handles(q) => q.key = proc[w].key
  /\ \A k \in Keys : story'[k] = "PROCESSING" <=> story[k] = "PROCESSING"
  /\ stranded' = stranded

Takes(w, q) ==
  /\ ~Handles(proc[w]) /\ Handles(q)
  /\ q.key \in Keys /\ story[q.key] # "PROCESSING"
  /\ story' = [story EXCEPT ![q.key] = "PROCESSING"]
  /\ stranded' = stranded

Finishes(w, q) ==
  /\ Handles(proc[w]) /\ ~Handles(q)
  /\ \E s \in StoryStatus \ {"PROCESSING"} : story' = [story EXCEPT ![proc[w].key] = s]
  /\ stranded' = stranded

Strands(w, q) ==
  /\ Handles(proc[w]) /\ ~Handles(q)
  /\ story' = story
  /\ stranded' = stranded \cup {proc[w].key}

\* Each of the four keeps the stories owned.
LEMMA MoveOwned ==
  ASSUME Types, Placed, Owned, NEW w \in Procs, NEW q \in ProcType, Goto(w, q),
         Keeps(w, q) \/ Takes(w, q) \/ Finishes(w, q) \/ Strands(w, q)
  PROVE  Owned'
<1>1. /\ proc'[w] = q /\ \A v \in Procs : v # w => proc'[v] = proc[v]
      /\ story \in [Keys -> StoryStatus] /\ stranded \subseteq Keys
      /\ \A v \in Procs : Handles(proc[v]) => proc[v].key \in Keys
  BY DEF Goto, Types, Placed, Loaded, Handles
<1>o. /\ \A v \in Procs : Handles(proc[v]) =>
           story[proc[v].key] = "PROCESSING" /\ proc[v].key \notin stranded
      /\ \A u, v \in Procs :
           Handles(proc[u]) /\ Handles(proc[v]) /\ proc[u].key = proc[v].key => u = v
      /\ \A k \in stranded : story[k] = "PROCESSING"
      /\ \A k \in Keys : story[k] = "PROCESSING" =>
           k \in stranded \/ \E v \in Procs : Handles(proc[v]) /\ proc[v].key = k
  BY DEF Owned, InHand, Handles
<1> SUFFICES /\ \A v \in Procs : Handles(proc'[v]) =>
                  story'[proc'[v].key] = "PROCESSING" /\ proc'[v].key \notin stranded'
             /\ \A u, v \in Procs :
                  Handles(proc'[u]) /\ Handles(proc'[v]) /\ proc'[u].key = proc'[v].key => u = v
             /\ \A k \in stranded' : story'[k] = "PROCESSING"
             /\ \A k \in Keys : story'[k] = "PROCESSING" =>
                  k \in stranded' \/ \E v \in Procs : Handles(proc'[v]) /\ proc'[v].key = k
  BY DEF Owned, InHand, Handles
<1>2. CASE Keeps(w, q)
  <2>1. \A v \in Procs : Handles(proc'[v]) <=> Handles(proc[v])
    BY <1>1, <1>2 DEF Keeps
  <2>2. \A v \in Procs : Handles(proc[v]) => proc'[v].key = proc[v].key
    BY <1>1, <1>2 DEF Keeps
  <2> QED
    BY <1>1, <1>o, <1>2, <2>1, <2>2 DEF Keeps
<1>3. CASE Takes(w, q)
  <2>1. \A v \in Procs : Handles(proc'[v]) <=> Handles(proc[v]) \/ v = w
    BY <1>1, <1>3 DEF Takes
  <2>2. \A v \in Procs : Handles(proc[v]) => v # w /\ proc'[v] = proc[v] /\ proc[v].key # q.key
    BY <1>1, <1>o, <1>3 DEF Takes
  <2>3. \A k \in Keys : story'[k] = IF k = q.key THEN "PROCESSING" ELSE story[k]
    BY <1>1, <1>3 DEF Takes
  <2>4. stranded' = stranded /\ q.key \in Keys /\ q.key \notin stranded
    BY <1>o, <1>3 DEF Takes
  <2> QED
    BY <1>1, <1>o, <2>1, <2>2, <2>3, <2>4
<1>4. CASE Finishes(w, q)
  <2>1. \A v \in Procs : Handles(proc'[v]) <=> Handles(proc[v]) /\ v # w
    BY <1>1, <1>4 DEF Finishes
  <2>2. \A v \in Procs : Handles(proc[v]) /\ v # w => proc[v].key # proc[w].key
    BY <1>o, <1>4 DEF Finishes
  <2>3. PICK s \in StoryStatus \ {"PROCESSING"} : story' = [story EXCEPT ![proc[w].key] = s]
    BY <1>4 DEF Finishes
  <2>4. /\ \A k \in Keys : story'[k] = IF k = proc[w].key THEN s ELSE story[k]
        /\ s # "PROCESSING" /\ stranded' = stranded /\ proc[w].key \notin stranded
    BY <1>1, <1>o, <1>4, <2>3 DEF Finishes
  <2> QED
    BY <1>1, <1>o, <2>1, <2>2, <2>4
<1>5. CASE Strands(w, q)
  <2>1. \A v \in Procs : Handles(proc'[v]) <=> Handles(proc[v]) /\ v # w
    BY <1>1, <1>5 DEF Strands
  <2>2. \A v \in Procs : Handles(proc[v]) /\ v # w => proc[v].key # proc[w].key
    BY <1>o, <1>5 DEF Strands
  <2>3. story' = story /\ stranded' = stranded \cup {proc[w].key} /\ story[proc[w].key] = "PROCESSING"
    BY <1>o, <1>5 DEF Strands
  <2> QED
    BY <1>1, <1>o, <2>1, <2>2, <2>3
<1> QED
  BY <1>2, <1>3, <1>4, <1>5

\* Every step does one of these, or leaves all stories where they are.
LEMMA OwnedStep ==
  ASSUME Types, Placed, Owned, [Next]_vars
  PROVE  Owned'
<1> USE DEF rows, limits, past, vars, Handles
<1>t. \A w \in Procs : /\ proc[w] \in ProcType /\ Loaded(proc[w])
                       /\ proc[w].attempts \in Nat /\ proc[w].transient \in BOOLEAN
  BY DEF Types, Placed, ProcType
<1>w. Worker \in Procs
  BY DEF Procs
<1>a. ASSUME NEW p \in ProcType
      PROVE  Advance(p) \in ProcType /\ Advance(p).at \notin Handling
  BY AdvanceTyped DEF Handling
<1>i. Idle \in ProcType /\ Idle.at \notin Handling
  BY IdleTyped DEF Handling
<1>0. ASSUME UNCHANGED <<proc, story, stranded>> PROVE Owned'
  BY <1>0 DEF Owned, InHand

<1>1. ASSUME NEW w \in Procs, NEW q \in ProcType, Goto(w, q),
             ~Handles(proc[w]), ~Handles(q), UNCHANGED <<story, stranded>>
      PROVE  Owned'
  BY <1>1, MoveOwned DEF Keeps
<1>2. ASSUME NEW w \in Procs, NEW q \in ProcType, Goto(w, q), Handles(proc[w]), Handles(q),
             q.key = proc[w].key, UNCHANGED <<story, stranded>>
      PROVE  Owned'
  BY <1>2, MoveOwned DEF Keeps
<1>3. ASSUME Create \/ Review PROVE Owned'
  <2> DEFINE p == proc[Worker]
             d == DayOf(clock)
             list == {r \in Products : product[r] \in Showable}
             r == Min(p.list)
             k == <<r, p.day>>
  <2>1. CASE StartCycle
    <3>1. [Idle EXCEPT !.at = "start"] \in ProcType /\ [Idle EXCEPT !.at = "start"].at = "start"
      BY <1>i DEF ProcType, Places, Idle
    <3> QED
      BY <1>1, <1>w, <2>1, <3>1 DEF StartCycle, Handling
  <2>2. CASE ReadProducts
    <3> DEFINE q == [p EXCEPT !.at = "create", !.day = d, !.room = Remaining(d), !.list = list]
    <3>1. q.at = "create" /\ Goto(Worker, q) /\ p.at = "start" /\ UNCHANGED <<story, stranded>>
      BY <1>t, <1>w, <2>2 DEF ReadProducts, ProcType
    <3>2. proc' \in [Procs -> ProcType]
      BY <2>2, CreateTyped DEF Create, Types
    <3>3. q = proc'[Worker]
      BY <1>w, <3>1 DEF Goto, Types
    <3>4. q \in ProcType
      BY <1>w, <3>2, <3>3
    <3> HIDE DEF q
    <3> QED
      BY <1>1, <1>w, <3>1, <3>4 DEF Handling
  <2>3. CASE CreateNext
    <3> DEFINE q == proc'[Worker]
    <3>1. proc' \in [Procs -> ProcType]
      BY <2>3, CreateTyped DEF Create, Types
    <3>2. p.at = "create" /\ q.at = "create" /\ Goto(Worker, q) /\ q \in ProcType
      <4>1. p.at = "create" /\ q \in ProcType /\ p \in ProcType
        BY <1>t, <1>w, <2>3, <3>1 DEF CreateNext
      <4>2. ASSUME NEW x, Goto(Worker, x) PROVE q = x /\ Goto(Worker, q)
        BY <1>w, <4>2 DEF Goto, Types
      <4>3. \/ Goto(Worker, [p EXCEPT !.room = @ - 1, !.list = @ \ {r}])
            \/ Goto(Worker, [p EXCEPT !.list = @ \ {r}])
        BY <2>3 DEF CreateNext
      <4> HIDE DEF r
      <4>4. /\ [p EXCEPT !.room = @ - 1, !.list = @ \ {r}].at = "create"
            /\ [p EXCEPT !.list = @ \ {r}].at = "create"
        BY <4>1 DEF ProcType
      <4> QED
        BY <4>1, <4>2, <4>3, <4>4
    <3>3. /\ stranded' = stranded
          /\ \/ story[k] = "ABSENT" /\ story' = [story EXCEPT ![k] = "SCHEDULED"]
             \/ story' = story
      BY <2>3 DEF CreateNext
    <3>4. \A j \in Keys : story'[j] = "PROCESSING" <=> story[j] = "PROCESSING"
      BY <3>3 DEF Types
    <3> HIDE DEF q
    <3> QED
      BY <1>w, <3>2, <3>3, <3>4, MoveOwned DEF Keeps, Handling
  <2>4. CASE Review
    BY <1>1, <1>w, <1>i, <2>4 DEF Review, BatchMayStart, Handling
  <2> QED
    BY <1>3, <2>1, <2>2, <2>3, <2>4 DEF Create
<1>4. ASSUME NEW w \in Procs, StartBatch(w) PROVE Owned'
  <2> DEFINE q == [Idle EXCEPT !.at = "posts", !.todo = DueStories]
  <2>1. q \in ProcType /\ q.at = "posts"
    BY <1>i DEF ProcType, Places, Idle, DueStories
  <2>2. Goto(w, q) /\ UNCHANGED <<story, stranded>> /\ proc[w].at \notin Handling
    BY <1>4 DEF StartBatch, BatchMayStart, Handling
  <2> HIDE DEF q
  <2> QED
    BY <1>1, <2>1, <2>2 DEF Handling
<1>5. ASSUME NEW w \in Procs, Killed(w) PROVE Owned'
  <2>1. CASE Handles(proc[w])
    BY <1>5, <1>i, <2>1, MoveOwned DEF Killed, Strands
  <2>2. CASE ~Handles(proc[w])
    BY <1>1, <1>5, <1>i, <2>2 DEF Killed
  <2> QED
    BY <2>1, <2>2
<1>6. ASSUME NEW w \in Procs, Publish(w) PROVE Owned'
  <2> DEFINE p == proc[w]
             q == proc'[w]
  <2>t. q \in ProcType /\ proc' \in [Procs -> ProcType]
    BY <1>6, PublishTyped DEF Types
  <2>g. ASSUME NEW x, Goto(w, x) PROVE q = x /\ Goto(w, q)
    BY <2>g DEF Goto, Types
  <2>n. ASSUME NEW x \in ProcType, Goto(w, Advance(x)) PROVE Goto(w, q) /\ ~Handles(q)
    BY <1>a, <2>n, <2>g
  <2>1. ASSUME DealWithPosts(w) PROVE Owned'
    <3>1. p.at = "posts" /\ UNCHANGED <<story, stranded>>
      BY <2>1 DEF DealWithPosts
    <3>2. Goto(w, q) /\ ~Handles(q)
      <4>1. CASE Goto(w, Advance(p))
        BY <1>t, <2>n, <4>1
      <4>2. ASSUME NEW r \in Products, Goto(w, Advance([p EXCEPT !.seen = <<r, product[r]>>]))
            PROVE  Goto(w, q) /\ ~Handles(q)
        <5>1. <<r, product[r]>> \in Products \X ProductStatus
          BY DEF Types
        <5>2. [p EXCEPT !.seen = <<r, product[r]>>] \in ProcType
          BY <1>t, <5>1 DEF ProcType
        <5> QED
          BY <2>n, <4>2, <5>2
      <4> QED
        BY <2>1, <4>1, <4>2 DEF DealWithPosts
    <3> HIDE DEF q
    <3> QED
      BY <1>1, <2>t, <3>1, <3>2 DEF Handling
  <2>2. ASSUME PassOver(w) PROVE Owned'
    <3>1. p.at = "batch" /\ UNCHANGED <<story, stranded>>
      BY <2>2 DEF PassOver
    <3>2. [p EXCEPT !.todo = @ \ {FirstStory(p.todo)}] \in ProcType
      BY <1>t DEF ProcType
    <3>3. Goto(w, q) /\ ~Handles(q)
      BY <2>2, <2>n, <3>2 DEF PassOver
    <3> HIDE DEF q
    <3> QED
      BY <1>1, <2>t, <3>1, <3>3 DEF Handling
  <2>3. ASSUME Load(w) PROVE Owned'
    <3> DEFINE k == FirstStory(p.todo)
               x == [p EXCEPT !.at = "loaded", !.key = k, !.todo = @ \ {k}, !.attempts = attempts[k]]
    <3>1. p.at = "batch" /\ Goto(w, x) /\ UNCHANGED <<story, stranded>>
      BY <2>3 DEF Load
    <3>2. x.at = "loaded"
      BY <1>t DEF ProcType
    <3> HIDE DEF x
    <3>3. Goto(w, q) /\ q.at = "loaded"
      BY <2>g, <3>1, <3>2
    <3> HIDE DEF q
    <3> QED
      BY <1>1, <2>t, <3>1, <3>3 DEF Handling
  <2>4. ASSUME ClaimStory(w) PROVE Owned'
    <3>1. p.at = "loaded" /\ p.key \in Keys /\ stranded' = stranded
      BY <1>t, <2>4 DEF ClaimStory, Loaded
    <3>2. CASE ClaimableStory(p.key)
      <4>1. [p EXCEPT !.at = "claimed"].at = "claimed" /\ [p EXCEPT !.at = "claimed"].key = p.key
        BY <1>t DEF ProcType
      <4>2. Goto(w, q) /\ q.at = "claimed" /\ q.key = p.key
            /\ story' = [story EXCEPT ![p.key] = "PROCESSING"] /\ story[p.key] = "SCHEDULED"
        BY <2>4, <2>g, <3>2, <4>1 DEF ClaimStory, ClaimableStory
      <4> HIDE DEF q
      <4> QED
        BY <2>t, <3>1, <4>2, MoveOwned DEF Takes, Handling
    <3>3. CASE ~ClaimableStory(p.key)
      <4>1. [p EXCEPT !.seen = NoKey] \in ProcType
        BY <1>t DEF ProcType
      <4>2. Goto(w, q) /\ ~Handles(q) /\ story' = story
        BY <2>4, <2>n, <3>3, <4>1 DEF ClaimStory
      <4> HIDE DEF q
      <4> QED
        BY <1>1, <2>t, <3>1, <4>2 DEF Handling
    <3> QED
      BY <3>2, <3>3
  <2>5. ASSUME NEW t \in BOOLEAN, RecordStory(w, t), Handles(p) PROVE Owned'
    <3>1. StoryAfterFailure(p, t) \in StoryStatus \ {"PROCESSING"}
      BY DEF StoryAfterFailure, StoryStatus
    <3>2. Goto(w, q) /\ ~Handles(q)
      BY <1>t, <2>5, <2>n DEF RecordStory
    <3>3. story' = [story EXCEPT ![p.key] = StoryAfterFailure(p, t)] /\ stranded' = stranded
      BY <2>5 DEF RecordStory
    <3> HIDE DEF q
    <3>4. Finishes(w, q)
      BY <2>5, <3>1, <3>2, <3>3 DEF Finishes
    <3> QED
      BY <2>t, <3>2, <3>4, MoveOwned
  <2>6. ASSUME Refuse(w) \/ RecordFailure(w) PROVE Owned'
    BY <1>t, <2>5, <2>6 DEF Refuse, RecordFailure, Handling
  <2>7. ASSUME ReserveStory(w) PROVE Owned'
    <3> DEFINE x == [p EXCEPT !.at = "calling", !.slot = TRUE]
    <3>1. p.at = "claimed" /\ Goto(w, x) /\ UNCHANGED <<story, stranded>>
      BY <2>7 DEF ReserveStory
    <3>2. x.at = "calling" /\ x.key = p.key
      BY <1>t DEF ProcType
    <3> HIDE DEF x
    <3>3. Goto(w, q) /\ q.at = "calling" /\ q.key = p.key
      BY <2>g, <3>1, <3>2
    <3> HIDE DEF q
    <3> QED
      BY <1>2, <2>t, <3>1, <3>3 DEF Handling
  <2>8. ASSUME MeetFullDay(w) PROVE Owned'
    BY <1>i, <2>8, MoveOwned DEF MeetFullDay, Strands, Handling
  <2>9. ASSUME GoesLive(w) PROVE Owned'
    <3> DEFINE x == [p EXCEPT !.at = "live"]
    <3>1. p.at = "calling" /\ Goto(w, x) /\ UNCHANGED <<story, stranded>>
      BY <2>9 DEF GoesLive
    <3>2. x.at = "live" /\ x.key = p.key
      BY <1>t DEF ProcType
    <3> HIDE DEF x
    <3>3. Goto(w, q) /\ q.at = "live" /\ q.key = p.key
      BY <2>g, <3>1, <3>2
    <3> HIDE DEF q
    <3> QED
      BY <1>2, <2>t, <3>1, <3>3 DEF Handling
  <2>10. ASSUME ReleaseStory(w) PROVE Owned'
    <3>1. PICK t \in BOOLEAN : Goto(w, [p EXCEPT !.at = "failed", !.slot = FALSE, !.transient = t])
      BY <2>10 DEF ReleaseStory
    <3> DEFINE x == [p EXCEPT !.at = "failed", !.slot = FALSE, !.transient = t]
    <3>2. p.at \in {"calling", "live"} /\ UNCHANGED <<story, stranded>>
      BY <2>10 DEF ReleaseStory
    <3>3. x.at = "failed" /\ x.key = p.key
      BY <1>t DEF ProcType
    <3> HIDE DEF x
    <3>4. Goto(w, q) /\ q.at = "failed" /\ q.key = p.key
      BY <2>g, <3>1, <3>3 DEF x
    <3> HIDE DEF q
    <3> QED
      BY <1>2, <2>t, <3>2, <3>4 DEF Handling
  <2>11. ASSUME ConfirmStory(w) PROVE Owned'
    <3>1. Goto(w, q) /\ ~Handles(q)
      BY <1>t, <2>11, <2>n DEF ConfirmStory
    <3>2. p.at = "live" /\ story' = [story EXCEPT ![p.key] = "PUBLISHED"] /\ stranded' = stranded
      BY <2>11 DEF ConfirmStory
    <3> HIDE DEF q
    <3>3. Finishes(w, q)
      BY <3>1, <3>2 DEF Finishes, Handling, StoryStatus
    <3> QED
      BY <2>t, <3>1, <3>3, MoveOwned
  <2> QED
    BY <1>6, <2>1, <2>2, <2>3, <2>4, <2>6, <2>7, <2>8, <2>9, <2>10, <2>11 DEF Publish
<1>7. CASE Tick
  BY <1>0, <1>7 DEF Tick
<1>8. ASSUME NEW r \in Products, PurgeMedia(r) \/ \E s \in ProductStatus : ChangeProduct(r, s)
      PROVE  Owned'
  BY <1>0, <1>8 DEF PurgeMedia, ChangeProduct
<1>9. ASSUME NEW n \in Limits, SetStoryLimit(n) PROVE Owned'
  BY <1>0, <1>9 DEF SetStoryLimit
<1>10. CASE UNCHANGED vars
  BY <1>0, <1>10
<1> QED
  BY <1>3, <1>4, <1>5, <1>6, <1>7, <1>8, <1>9, <1>10 DEF Next

\* The invariant: types, places and owners.
Settled == Types /\ Placed /\ Owned

\* Nobody has a story in hand at the start.
LEMMA SettledInit == Init => Settled
<1> SUFFICES ASSUME Init PROVE Settled
  OBVIOUS
<1>1. \A w \in Procs : proc[w].at = "idle"
  BY IdleTyped DEF Init
<1>2. Owned
  BY <1>1 DEF Init, Owned, Handles, Handling
<1> QED
  BY <1>2, InitTypes DEF Settled

\* No step of any process unsettles a story.
LEMMA SettledStep == Settled /\ [Next]_vars => Settled'
<1> SUFFICES ASSUME Settled, [Next]_vars PROVE Settled'
  OBVIOUS
<1>0. Types /\ Placed /\ Owned
  BY DEF Settled
<1>1. CASE \E w \in Procs : Publish(w)
  BY <1>0, <1>1, PublishTyped, OwnedStep DEF Settled
<1>2. CASE Create \/ Review \/ \E w \in Procs : StartBatch(w) \/ Killed(w)
  BY <1>0, <1>2, CreateTyped, OwnedStep DEF Settled
<1>3. CASE \/ Tick
           \/ \E r \in Products : PurgeMedia(r) \/ \E s \in ProductStatus : ChangeProduct(r, s)
           \/ \E n \in Limits : SetStoryLimit(n)
           \/ UNCHANGED vars
  BY <1>0, <1>3, WorldTyped, OwnedStep DEF Settled
<1> QED
  BY <1>1, <1>2, <1>3 DEF Next

\* Whatever publishers, scheduler and owner do, each story in hand is settled.
THEOREM AlwaysSettled == Spec => []Settled
<1> QED
  BY SettledInit, SettledStep, PTL DEF Spec

\* Every variable keeps its type; the story a process has in hand, from the
\* claim of publish_story on, is PROCESSING.
THEOREM StoriesTypeOK == Spec => []TypeOK
<1>1. Settled => TypeOK
  <2> SUFFICES ASSUME Settled PROVE TypeOK
    OBVIOUS
  <2>1. \A w \in Procs :
          /\ proc[w].at \in Handling => proc[w].key \in Keys /\ story[proc[w].key] = "PROCESSING"
          /\ proc[w].slot <=> proc[w].at \in {"calling", "live"}
    BY DEF Settled, Placed, Loaded, Owned, Handles
  <2> QED
    BY <2>1 DEF Settled, Types, TypeOK
<1> QED
  BY <1>1, AlwaysSettled, PTL

\* A story in PROCESSING has exactly one process, or was left behind: no path
\* through publish_story forgets it and no second publisher takes it.
THEOREM StoriesAreExplained == Spec => []ProcessingExplained
<1>1. Settled => ProcessingExplained
  <2> SUFFICES ASSUME Settled, NEW k \in Keys
               PROVE  story[k] = "PROCESSING" <=> (k \in stranded) # (\E w \in Procs : InHand(w, k))
    BY DEF ProcessingExplained
  <2>1. (\E w \in Procs : InHand(w, k)) => story[k] = "PROCESSING" /\ k \notin stranded
    BY DEF Settled, Owned, InHand, Handles
  <2>2. k \in stranded => story[k] = "PROCESSING"
    BY DEF Settled, Owned
  <2>3. story[k] = "PROCESSING" => k \in stranded \/ \E w \in Procs : InHand(w, k)
    BY DEF Settled, Owned
  <2> DEFINE left == k \in stranded
             held == \E w \in Procs : InHand(w, k)
  <2>4. left \in BOOLEAN /\ held \in BOOLEAN
    OBVIOUS
  <2>5. story[k] = "PROCESSING" <=> ~(left <=> held)
    BY <2>1, <2>2, <2>3
  <2> HIDE DEF left, held
  <2>6. left # held <=> ~(left <=> held)
    BY <2>4
  <2>7. story[k] = "PROCESSING" <=> left # held
    BY <2>5, <2>6
  <2> QED
    BY <2>7 DEF left, held
<1> QED
  BY <1>1, AlwaysSettled, PTL

-------------------------------------------------------------------------------
(* Stories of a product take turns *)

Counts(k) == story[k] \in Unfinished \cup {"PUBLISHED"}

\* Stories are created in the order of their days; an earlier one was confirmed a
\* cooldown ago, and a cooldown before a later one that is confirmed.
Spaced(j, k) ==
  /\ story[j] = "PUBLISHED"
  /\ clock - publishedAt[j] >= Cooldown
  /\ story[k] = "PUBLISHED" => publishedAt[k] - publishedAt[j] >= Cooldown

Turns ==
  /\ \A k \in Keys : story[k] # "ABSENT" =>
       /\ k[2] <= DayOf(clock)
       /\ proc[Worker].at = "create" => k[2] <= proc[Worker].day
  /\ \A k \in Keys : story[k] = "PUBLISHED" => publishedAt[k] \in 0 .. clock
  /\ \A j, k \in Keys : j[1] = k[1] /\ j[2] < k[2] /\ Counts(j) /\ Counts(k) => Spaced(j, k)

\* The worker begins to create on the day it is.
Paced ==
  /\ clock' \in 0 .. LastTick /\ clock <= clock'
  /\ proc'[Worker].at = "create" =>
       \/ proc[Worker].at = "create" /\ proc'[Worker].day = proc[Worker].day
       \/ proc'[Worker].day = DayOf(clock)

\* What a step does to the rows: nothing, another state for an unfinished one,
\* the confirmation of one, or a new one.
Alters(k, s) ==
  /\ story[k] \in Unfinished /\ s \in Unfinished \cup {"FAILED"}
  /\ story' = [story EXCEPT ![k] = s]
  /\ publishedAt' = publishedAt

Confirms(k) ==
  /\ story[k] \in Unfinished /\ clock' = clock
  /\ story' = [story EXCEPT ![k] = "PUBLISHED"]
  /\ publishedAt' = [publishedAt EXCEPT ![k] = clock]

Makes(k) ==
  /\ story[k] = "ABSENT" /\ Rested(k[1]) /\ clock' = clock
  /\ proc[Worker].at = "create" /\ k[2] = proc[Worker].day
  /\ story' = [story EXCEPT ![k] = "SCHEDULED"]
  /\ publishedAt' = publishedAt

RowsStep ==
  \/ story' = story /\ publishedAt' = publishedAt
  \/ \E k \in Keys : (\E s \in StoryStatus : Alters(k, s)) \/ Confirms(k) \/ Makes(k)

\* Numbers of a story.
LEMMA KeyNumbers ==
  ASSUME NEW k \in Keys
  PROVE  k[1] \in Nat /\ k[2] \in Nat /\ k = <<k[1], k[2]>> /\ k[1] \in Products /\ k[2] \in Days
<1>1. PICK r \in Products, d \in Days : k = <<r, d>>
  BY DEF Keys
<1>2. r \in Nat /\ d \in Nat
  BY StoriesAssumption DEF Days
<1> QED
  BY <1>1, <1>2

\* Such steps keep the turns.
LEMMA TurnsKept ==
  ASSUME Types, Placed, Turns, Paced, RowsStep
  PROVE  Turns'
<1>n. \A k \in Keys : k[1] \in Nat /\ k[2] \in Nat /\ k = <<k[1], k[2]>>
  BY KeyNumbers
<1>c. clock \in Int /\ clock' \in Int /\ Cooldown \in Int
  BY StoriesAssumption DEF Types, Paced
<1>d. /\ DayOf(clock) \in Nat /\ DayOf(clock') \in Nat /\ DayOf(clock) <= DayOf(clock')
      /\ DayOf(clock)' = DayOf(clock')
      /\ Worker \in Procs /\ proc[Worker].day \in Nat
  <2>1. /\ DayOf(clock) \in Days /\ DayOf(clock') \in Days /\ DayOf(clock) <= DayOf(clock')
        /\ Days \subseteq Nat
    BY DayProperties DEF Types, Paced, Days
  <2> QED
    BY <2>1 DEF DayOf, Types, ProcType, Procs
<1>p. \A k \in Keys : publishedAt[k] \in Int
  BY DEF Types, NoTime
<1>t. /\ \A k \in Keys : story[k] # "ABSENT" =>
           k[2] <= DayOf(clock) /\ (proc[Worker].at = "create" => k[2] <= proc[Worker].day)
      /\ \A k \in Keys : story[k] = "PUBLISHED" => publishedAt[k] \in 0 .. clock
      /\ \A j, k \in Keys : j[1] = k[1] /\ j[2] < k[2] /\ Counts(j) /\ Counts(k) => Spaced(j, k)
  BY DEF Turns
<1>s. story \in [Keys -> StoryStatus] /\ publishedAt \in [Keys -> 0 .. LastTick \cup {NoTime}]
  BY DEF Types
\* The days of the rows, when no row is new or the new one is of the day.
<1>1. ASSUME NEW k \in Keys, story[k] # "ABSENT" \/ Makes(k)
      PROVE  k[2] <= DayOf(clock') /\ (proc'[Worker].at = "create" => k[2] <= proc'[Worker].day)
  <2>1. k[2] <= DayOf(clock) /\ (proc[Worker].at = "create" => k[2] <= proc[Worker].day)
    BY <1>1, <1>t, <1>n, <1>d DEF Makes, Placed, Loaded
  <2> QED
    BY <2>1, <1>n, <1>d DEF Paced
<1>2. ASSUME NEW k \in Keys, story[k] = "PUBLISHED" PROVE publishedAt[k] \in 0 .. clock'
  BY <1>2, <1>t, <1>c, <1>p DEF Paced
\* Two rows that are as they were.
<1>3. ASSUME NEW j \in Keys, NEW k \in Keys, j[1] = k[1], j[2] < k[2], Counts(j), Counts(k)
      PROVE  /\ story[j] = "PUBLISHED" /\ clock - publishedAt[j] >= Cooldown
             /\ clock' - publishedAt[j] >= Cooldown
             /\ story[k] = "PUBLISHED" => publishedAt[k] - publishedAt[j] >= Cooldown
  <2>1. Spaced(j, k)
    BY <1>3, <1>t
  <2> QED
    BY <2>1, <1>c, <1>p DEF Spaced, Paced
<1> SUFFICES
      /\ \A k \in Keys : story'[k] # "ABSENT" =>
           k[2] <= DayOf(clock') /\ (proc'[Worker].at = "create" => k[2] <= proc'[Worker].day)
      /\ \A k \in Keys : story'[k] = "PUBLISHED" => publishedAt'[k] \in 0 .. clock'
      /\ \A j, k \in Keys :
           /\ j[1] = k[1] /\ j[2] < k[2]
           /\ story'[j] \in Unfinished \cup {"PUBLISHED"} /\ story'[k] \in Unfinished \cup {"PUBLISHED"}
           => /\ story'[j] = "PUBLISHED" /\ clock' - publishedAt'[j] >= Cooldown
              /\ story'[k] = "PUBLISHED" => publishedAt'[k] - publishedAt'[j] >= Cooldown
  BY <1>d DEF Turns, Counts, Spaced
<1>4. CASE story' = story /\ publishedAt' = publishedAt
  BY <1>1, <1>2, <1>3, <1>4 DEF Counts
<1>5. ASSUME NEW a \in Keys, NEW s \in StoryStatus, Alters(a, s)
      PROVE  /\ \A k \in Keys : story'[k] # "ABSENT" => story[k] # "ABSENT"
             /\ \A k \in Keys : story'[k] \in Unfinished \cup {"PUBLISHED"} => Counts(k)
             /\ \A k \in Keys : story'[k] = "PUBLISHED" <=> story[k] = "PUBLISHED"
             /\ publishedAt' = publishedAt
  BY <1>5, <1>s DEF Alters, Counts, Unfinished
<1>6. CASE \E a \in Keys : \E s \in StoryStatus : Alters(a, s)
  BY <1>1, <1>2, <1>3, <1>5, <1>6
<1>7. ASSUME NEW a \in Keys, Confirms(a)
      PROVE  /\ \A k \in Keys : story'[k] # "ABSENT" => story[k] # "ABSENT"
             /\ \A k \in Keys : story'[k] = "PUBLISHED" => publishedAt'[k] \in 0 .. clock'
             /\ \A j, k \in Keys :
                  /\ j[1] = k[1] /\ j[2] < k[2]
                  /\ story'[j] \in Unfinished \cup {"PUBLISHED"}
                  /\ story'[k] \in Unfinished \cup {"PUBLISHED"}
                  => /\ story'[j] = "PUBLISHED" /\ clock' - publishedAt'[j] >= Cooldown
                     /\ story'[k] = "PUBLISHED" => publishedAt'[k] - publishedAt'[j] >= Cooldown
  <2>1. /\ story[a] \in Unfinished /\ story'[a] = "PUBLISHED" /\ publishedAt'[a] = clock
        /\ clock' = clock /\ clock \in 0 .. clock
        /\ \A k \in Keys : k # a => story'[k] = story[k] /\ publishedAt'[k] = publishedAt[k]
    BY <1>7, <1>s, <1>c DEF Confirms, Types
  <2>2. \A k \in Keys : story'[k] \in Unfinished \cup {"PUBLISHED"} => Counts(k)
    BY <2>1 DEF Counts
  <2>3. ASSUME NEW j \in Keys, NEW k \in Keys, j[1] = k[1], j[2] < k[2],
               story'[j] \in Unfinished \cup {"PUBLISHED"},
               story'[k] \in Unfinished \cup {"PUBLISHED"}
        PROVE  /\ story'[j] = "PUBLISHED" /\ clock' - publishedAt'[j] >= Cooldown
               /\ story'[k] = "PUBLISHED" => publishedAt'[k] - publishedAt'[j] >= Cooldown
    <3>1. /\ story[j] = "PUBLISHED" /\ clock - publishedAt[j] >= Cooldown
          /\ story[k] = "PUBLISHED" => publishedAt[k] - publishedAt[j] >= Cooldown
      BY <1>3, <2>2, <2>3
    <3>2. j # a
      BY <2>1, <3>1 DEF Unfinished
    <3> QED
      BY <2>1, <3>1, <3>2
  <2> QED
    BY <1>2, <2>1, <2>3 DEF Unfinished
<1>8. CASE \E a \in Keys : Confirms(a)
  BY <1>1, <1>7, <1>8
<1>9. ASSUME NEW a \in Keys, Makes(a)
      PROVE  /\ \A k \in Keys : story'[k] # "ABSENT" => story[k] # "ABSENT" \/ Makes(k)
             /\ \A k \in Keys : story'[k] = "PUBLISHED" => publishedAt'[k] \in 0 .. clock'
             /\ \A j, k \in Keys :
                  /\ j[1] = k[1] /\ j[2] < k[2]
                  /\ story'[j] \in Unfinished \cup {"PUBLISHED"}
                  /\ story'[k] \in Unfinished \cup {"PUBLISHED"}
                  => /\ story'[j] = "PUBLISHED" /\ clock' - publishedAt'[j] >= Cooldown
                     /\ story'[k] = "PUBLISHED" => publishedAt'[k] - publishedAt'[j] >= Cooldown
  <2>1. /\ story[a] = "ABSENT" /\ story'[a] = "SCHEDULED" /\ publishedAt' = publishedAt
        /\ clock' = clock /\ Rested(a[1]) /\ proc[Worker].at = "create" /\ a[2] = proc[Worker].day
        /\ \A k \in Keys : k # a => story'[k] = story[k]
    BY <1>9, <1>s DEF Makes
  <2>2. \A k \in Keys : Counts(k) => k # a /\ story[k] # "ABSENT"
    BY <2>1 DEF Counts, Unfinished
  <2>3. \A k \in Keys : story'[k] \in Unfinished \cup {"PUBLISHED"} => k = a \/ Counts(k)
    BY <2>1 DEF Counts
  <2>4. ASSUME NEW j \in Keys, Counts(j), j[1] = a[1]
        PROVE  j[2] < a[2] /\ story[j] = "PUBLISHED" /\ clock - publishedAt[j] >= Cooldown
    <3> DEFINE L == Latest(a[1])
    <3>1. j \in StoriesOf(a[1]) /\ \A k \in StoriesOf(a[1]) : k \in Keys /\ k[1] = a[1] /\ Counts(k)
      BY <2>4 DEF StoriesOf, Counts
    <3>2. L \in StoriesOf(a[1]) /\ \A k \in StoriesOf(a[1]) : k[2] <= L[2]
      <4> DEFINE late == {n \in Nat : \E k \in StoriesOf(a[1]) : k[2] + n = DayOf(clock)}
                 best == Min(late)
      <4>1. \A k \in StoriesOf(a[1]) : DayOf(clock) - k[2] \in late
        <5>1. ASSUME NEW k \in StoriesOf(a[1]) PROVE DayOf(clock) - k[2] \in late
          <6>1. k[2] \in Nat /\ k[2] <= DayOf(clock)
            BY <1>n, <1>t, <2>2, <3>1
          <6> QED
            BY <1>d, <6>1
        <5> QED
          BY <5>1
      <4>2. late \in SUBSET Nat /\ late # {}
        BY <3>1, <4>1
      <4>3. best \in late /\ \A n \in late : best <= n
        <5> HIDE DEF late
        <5> QED
          BY <4>2, MinIsLeast
      <4>4. PICK k \in StoriesOf(a[1]) : k[2] + best = DayOf(clock)
        BY <4>3
      <4>5. \A i \in StoriesOf(a[1]) : i[2] <= k[2]
        <5>1. ASSUME NEW i \in StoriesOf(a[1]) PROVE i[2] <= k[2]
          <6>1. best <= DayOf(clock) - i[2] /\ best \in Nat /\ i[2] \in Nat /\ k[2] \in Nat
            BY <1>n, <3>1, <4>1, <4>3
          <6> HIDE DEF best, late
          <6> QED
            BY <1>d, <4>4, <6>1
        <5> QED
          BY <5>1
      <4> HIDE DEF best, late
      <4> QED
        BY <4>5 DEF Latest
    <3>3. story[L] = "PUBLISHED" /\ clock - publishedAt[L] >= Cooldown
      BY <2>1, <3>1 DEF Rested
    <3> HIDE DEF L
    <3>4. L \in Keys /\ L[1] = a[1] /\ Counts(L) /\ j[2] <= L[2]
      BY <3>1, <3>2
    <3>5. story[j] = "PUBLISHED" /\ clock - publishedAt[j] >= Cooldown
      <4>1. CASE j[2] < L[2]
        BY <1>3, <2>4, <3>4, <4>1
      <4>2. CASE j[2] = L[2]
        BY <1>n, <2>4, <3>3, <3>4, <4>2
      <4> QED
        BY <1>n, <3>4, <4>1, <4>2
    <3>6. j[2] <= a[2] /\ j # a
      BY <1>t, <2>1, <2>2, <2>4
    <3>7. j[2] # a[2]
      BY <1>n, <2>4, <3>6
    <3> QED
      BY <1>n, <3>5, <3>6, <3>7
  <2>5. ASSUME NEW j \in Keys, NEW k \in Keys, j[1] = k[1], j[2] < k[2],
               story'[j] \in Unfinished \cup {"PUBLISHED"},
               story'[k] \in Unfinished \cup {"PUBLISHED"}
        PROVE  /\ story'[j] = "PUBLISHED" /\ clock' - publishedAt'[j] >= Cooldown
               /\ story'[k] = "PUBLISHED" => publishedAt'[k] - publishedAt'[j] >= Cooldown
    <3>1. CASE j = a
      <4>1. k # a /\ Counts(k)
        BY <1>n, <2>3, <2>5, <3>1
      <4>2. k[2] < a[2]
        BY <2>4, <2>5, <3>1, <4>1
      <4> QED
        BY <1>n, <2>5, <3>1, <4>2
    <3>2. CASE j # a /\ k = a
      BY <2>1, <2>3, <2>4, <2>5, <3>2
    <3>3. CASE j # a /\ k # a
      BY <1>3, <2>1, <2>3, <2>5, <3>3
    <3> QED
      BY <3>1, <3>2, <3>3
  <2> QED
    BY <1>2, <1>9, <2>1, <2>5
<1>10. CASE \E a \in Keys : Makes(a)
  BY <1>1, <1>9, <1>10
<1> QED
  BY <1>4, <1>6, <1>8, <1>10 DEF RowsStep

\* Publishing leads a process on in its batch, and leaves the others alone.
LEMMA PublishLeadsOn ==
  ASSUME Types, Placed, NEW w \in Procs, Publish(w)
  PROVE  /\ proc'[w].at \in {"idle", "batch", "loaded"} \cup Handling
         /\ \A v \in Procs : v # w => proc'[v] = proc[v]
<1> DEFINE p == proc[w]
<1>p. p \in ProcType
  BY DEF Types
<1>g. ASSUME NEW q, Goto(w, q)
      PROVE  proc'[w] = q /\ \A v \in Procs : v # w => proc'[v] = proc[v]
  BY <1>g DEF Goto, Types
<1>1. ASSUME NEW q, Goto(w, q), q.at \in {"idle", "batch", "loaded"} \cup Handling
      PROVE  /\ proc'[w].at \in {"idle", "batch", "loaded"} \cup Handling
             /\ \A v \in Procs : v # w => proc'[v] = proc[v]
  BY <1>1, <1>g
<1>a. ASSUME NEW x \in ProcType, Goto(w, Advance(x))
      PROVE  /\ proc'[w].at \in {"idle", "batch", "loaded"} \cup Handling
             /\ \A v \in Procs : v # w => proc'[v] = proc[v]
  BY <1>a, <1>1, AdvanceTyped
<1>s. ASSUME NEW r \in Products PROVE [p EXCEPT !.seen = <<r, product[r]>>] \in ProcType
  <2>1. <<r, product[r]>> \in Products \X ProductStatus
    BY DEF Types
  <2> QED
    BY <1>p, <2>1 DEF ProcType
<1>2. CASE DealWithPosts(w)
  <2>1. CASE Goto(w, Advance(p))
    BY <1>a, <1>p, <2>1
  <2>2. CASE \E r \in Products : Goto(w, Advance([p EXCEPT !.seen = <<r, product[r]>>]))
    BY <1>a, <1>s, <2>2
  <2> QED
    BY <1>2, <2>1, <2>2 DEF DealWithPosts
<1>3. CASE PassOver(w)
  <2>1. [p EXCEPT !.todo = @ \ {FirstStory(p.todo)}] \in ProcType
    BY <1>p DEF ProcType
  <2> QED
    BY <1>3, <1>a, <2>1 DEF PassOver
<1>4. CASE Load(w)
  <2> DEFINE k == FirstStory(p.todo)
             q == [p EXCEPT !.at = "loaded", !.key = k, !.todo = @ \ {k}, !.attempts = attempts[k]]
  <2>1. q.at = "loaded" /\ Goto(w, q)
    BY <1>4, <1>p DEF Load, ProcType
  <2> HIDE DEF q
  <2> QED
    BY <1>1, <2>1
<1>5. CASE ClaimStory(w)
  <2>1. [p EXCEPT !.seen = NoKey] \in ProcType /\ [p EXCEPT !.at = "claimed"].at = "claimed"
    BY <1>p DEF ProcType
  <2>2. Goto(w, [p EXCEPT !.at = "claimed"]) \/ Goto(w, Advance([p EXCEPT !.seen = NoKey]))
    BY <1>5 DEF ClaimStory
  <2> QED
    BY <1>1, <1>a, <2>1, <2>2 DEF Handling
<1>6. CASE Refuse(w) \/ RecordFailure(w) \/ ConfirmStory(w)
  BY <1>6, <1>a, <1>p DEF Refuse, RecordFailure, ConfirmStory, RecordStory
<1>7. CASE ReserveStory(w)
  <2>1. [p EXCEPT !.at = "calling", !.slot = TRUE].at = "calling"
    BY <1>p DEF ProcType
  <2> QED
    BY <1>7, <1>1, <2>1 DEF ReserveStory, Handling
<1>8. CASE MeetFullDay(w)
  BY <1>8, <1>1, IdleTyped DEF MeetFullDay
<1>9. CASE GoesLive(w)
  <2>1. [p EXCEPT !.at = "live"].at = "live"
    BY <1>p DEF ProcType
  <2> QED
    BY <1>9, <1>1, <2>1 DEF GoesLive, Handling
<1>10. CASE ReleaseStory(w)
  <2>1. PICK t \in BOOLEAN : Goto(w, [p EXCEPT !.at = "failed", !.slot = FALSE, !.transient = t])
    BY <1>10 DEF ReleaseStory
  <2>2. [p EXCEPT !.at = "failed", !.slot = FALSE, !.transient = t].at = "failed"
    BY <1>p DEF ProcType
  <2> QED
    BY <1>1, <2>1, <2>2 DEF Handling
<1> QED
  BY <1>2, <1>3, <1>4, <1>5, <1>6, <1>7, <1>8, <1>9, <1>10 DEF Publish

\* Every step is paced and does one of those things to the rows.
LEMMA NextRows ==
  ASSUME Settled, [Next]_vars
  PROVE  Paced /\ RowsStep
<1> USE DEF rows, limits, past, vars
<1>0. Types /\ Placed /\ Owned /\ Worker \in Procs
  BY DEF Settled, Procs
<1>c. clock \in 0 .. LastTick /\ clock \in Int /\ clock <= clock
  BY <1>0, StoriesAssumption DEF Types
<1>g. ASSUME NEW w \in Procs, NEW q, Goto(w, q)
      PROVE  proc'[w] = q /\ \A v \in Procs : v # w => proc'[v] = proc[v]
  BY <1>0, <1>g DEF Goto, Types
<1>s. \A w \in Procs : Handles(proc[w]) =>
        proc[w].key \in Keys /\ story[proc[w].key] = "PROCESSING"
  BY <1>0 DEF Placed, Loaded, Owned, Handles
<1>1. ASSUME NEW w \in Procs, Publish(w) PROVE Paced /\ RowsStep
  <2>1. clock' = clock
    BY <1>1 DEF Publish, DealWithPosts, PassOver, Load, ClaimStory, Refuse, RecordFailure, RecordStory,
                ReserveStory, MeetFullDay, GoesLive, ReleaseStory, ConfirmStory
  <2>2. proc'[Worker].at = "create" => proc'[Worker] = proc[Worker]
    BY <1>0, <1>1, PublishLeadsOn DEF Handling
  <2>3. Paced
    BY <1>c, <2>1, <2>2 DEF Paced
  <2>4. ASSUME NEW t \in BOOLEAN, RecordStory(w, t), Handles(proc[w]) PROVE RowsStep
    <3> DEFINE s == StoryAfterFailure(proc[w], t)
    <3>1. s \in Unfinished \cup {"FAILED"} /\ s \in StoryStatus
      BY DEF StoryAfterFailure, Unfinished, StoryStatus
    <3>2. story' = [story EXCEPT ![proc[w].key] = s] /\ publishedAt' = publishedAt
      BY <2>4 DEF RecordStory
    <3> HIDE DEF s
    <3>3. Alters(proc[w].key, s) /\ proc[w].key \in Keys
      BY <1>s, <2>4, <3>1, <3>2 DEF Alters, Unfinished
    <3> QED
      BY <3>1, <3>3 DEF RowsStep
  <2>5. CASE Refuse(w) \/ RecordFailure(w)
    <3>1. proc[w].transient \in BOOLEAN
      BY <1>0 DEF Types, ProcType
    <3> QED
      BY <2>3, <2>4, <2>5, <3>1 DEF Refuse, RecordFailure, Handles, Handling
  <2>6. CASE ConfirmStory(w)
    <3>1. proc[w].key \in Keys /\ story[proc[w].key] = "PROCESSING"
      BY <1>s, <2>6 DEF ConfirmStory, Handles, Handling
    <3>2. Confirms(proc[w].key)
      BY <2>6, <3>1 DEF ConfirmStory, Confirms, Unfinished
    <3> QED
      BY <2>3, <3>1, <3>2 DEF RowsStep
  <2>7. CASE ClaimStory(w)
    <3>1. CASE ClaimableStory(proc[w].key)
      <4>1. proc[w].key \in Keys
        BY <1>0, <2>7 DEF ClaimStory, Placed, Loaded
      <4>2. Alters(proc[w].key, "PROCESSING") /\ "PROCESSING" \in StoryStatus
        BY <2>7, <3>1 DEF ClaimStory, ClaimableStory, Alters, Unfinished, StoryStatus
      <4> QED
        BY <2>3, <4>1, <4>2 DEF RowsStep
    <3>2. CASE ~ClaimableStory(proc[w].key)
      BY <2>3, <2>7, <3>2 DEF ClaimStory, RowsStep
    <3> QED
      BY <3>1, <3>2
  <2>8. CASE \/ DealWithPosts(w) \/ PassOver(w) \/ Load(w) \/ ReserveStory(w) \/ MeetFullDay(w)
             \/ GoesLive(w) \/ ReleaseStory(w)
    BY <2>3, <2>8
       DEF DealWithPosts, PassOver, Load, ReserveStory, MeetFullDay, GoesLive, ReleaseStory, RowsStep
  <2> QED
    BY <1>1, <2>3, <2>5, <2>6, <2>7, <2>8 DEF Publish
<1>2. CASE StartCycle
  <2>1. proc'[Worker].at = "start" /\ clock' = clock
    BY <1>0, <1>2, <1>g DEF StartCycle, Idle
  <2> QED
    BY <1>2, <1>c, <2>1 DEF StartCycle, Paced, RowsStep
<1>3. CASE ReadProducts
  <2> DEFINE p == proc[Worker]
             d == DayOf(clock)
             n == Remaining(d)
             l == {r \in Products : product[r] \in Showable}
             q == [p EXCEPT !.at = "create", !.day = d, !.room = n, !.list = l]
  <2>1. proc'[Worker] = q /\ p \in ProcType /\ clock' = clock
    BY <1>0, <1>3, <1>g DEF ReadProducts, Types
  <2> HIDE DEF n, l, d
  <2>2. proc'[Worker].day = d
    BY <2>1 DEF ProcType
  <2> QED
    BY <1>3, <1>c, <2>1, <2>2 DEF ReadProducts, Paced, RowsStep, d
<1>4. CASE CreateNext
  <2> DEFINE p == proc[Worker]
             r == Min(p.list)
             k == <<r, p.day>>
             made == [p EXCEPT !.room = @ - 1, !.list = @ \ {r}]
             passed == [p EXCEPT !.list = @ \ {r}]
  <2>1. p \in ProcType /\ p.at = "create" /\ p.list \subseteq Products /\ p.list # {} /\ p.day \in Days
    BY <1>0, <1>4 DEF CreateNext, Types, ProcType
  <2>2. r \in Products
    <3>1. p.list \in SUBSET Nat /\ p.list # {}
      BY <2>1, StoriesAssumption
    <3> QED
      BY <2>1, <3>1, MinIsLeast
  <2>3. Goto(Worker, made) \/ Goto(Worker, passed)
    BY <1>4 DEF CreateNext
  <2>4. /\ clock' = clock /\ publishedAt' = publishedAt
        /\ \/ Rested(r) /\ story[k] = "ABSENT" /\ story' = [story EXCEPT ![k] = "SCHEDULED"]
           \/ story' = story
    BY <1>4 DEF CreateNext
  <2> HIDE DEF r
  <2>5. made.day = p.day /\ passed.day = p.day
    BY <2>1 DEF ProcType
  <2> HIDE DEF made, passed
  <2>6. proc'[Worker].day = proc[Worker].day
    BY <1>0, <1>g, <2>3, <2>5
  <2>7. k \in Keys /\ k[1] = r /\ k[2] = p.day
    BY <2>1, <2>2 DEF Keys
  <2> HIDE DEF k
  <2>8. RowsStep
    BY <2>1, <2>4, <2>7 DEF RowsStep, Makes
  <2> QED
    BY <1>c, <2>1, <2>4, <2>6, <2>8 DEF Paced
<1>5. CASE Review
  <2>1. proc'[Worker].at = "idle" /\ clock' = clock
    BY <1>0, <1>5, <1>g, IdleTyped DEF Review
  <2> QED
    BY <1>5, <1>c, <2>1 DEF Review, Paced, RowsStep
<1>6. ASSUME NEW w \in Procs, StartBatch(w) \/ Killed(w) PROVE Paced /\ RowsStep
  <2>1. UNCHANGED <<clock, story, publishedAt>>
    BY <1>6 DEF StartBatch, Killed
  <2>2. proc'[w].at \in {"posts", "idle"} /\ \A v \in Procs : v # w => proc'[v] = proc[v]
    <3>1. [Idle EXCEPT !.at = "posts", !.todo = DueStories].at = "posts" /\ Idle.at = "idle"
      BY DEF Idle
    <3>2. Goto(w, Idle) \/ Goto(w, [Idle EXCEPT !.at = "posts", !.todo = DueStories])
      BY <1>6 DEF StartBatch, Killed
    <3> QED
      BY <1>g, <3>1, <3>2
  <2> QED
    BY <1>0, <1>c, <2>1, <2>2 DEF Paced, RowsStep
<1>7. CASE Tick
  <2>1. clock' \in 0 .. LastTick /\ clock <= clock'
    BY <1>7, <1>c, StoriesAssumption DEF Tick
  <2> QED
    BY <1>7, <2>1 DEF Tick, Paced, RowsStep
<1>8. CASE \E r \in Products : PurgeMedia(r) \/ \E s \in ProductStatus : ChangeProduct(r, s)
  BY <1>8, <1>c DEF PurgeMedia, ChangeProduct, Paced, RowsStep
<1>9. CASE \E n \in Limits : SetStoryLimit(n)
  BY <1>9, <1>c DEF SetStoryLimit, Paced, RowsStep
<1>10. CASE UNCHANGED vars
  BY <1>10, <1>c DEF Paced, RowsStep
<1> QED
  BY <1>1, <1>2, <1>3, <1>4, <1>5, <1>6, <1>7, <1>8, <1>9, <1>10 DEF Next, Create

\* Never two stories of a product under way, and the confirmed ones are a cooldown
\* apart, whatever fails and whoever publishes.
THEOREM StoriesAreApart == Spec => []StoriesTakeTurns
<1>1. Init => Turns
  <2> SUFFICES ASSUME Init PROVE Turns
    OBVIOUS
  <2>1. \A k \in Keys : story[k] = "ABSENT"
    BY DEF Init
  <2> QED
    BY <2>1 DEF Turns, Counts, Unfinished
<1>2. Settled /\ Turns /\ [Next]_vars => Turns'
  BY NextRows, TurnsKept DEF Settled
<1>3. Settled /\ Turns => StoriesTakeTurns
  <2> SUFFICES ASSUME Settled, Turns, NEW j \in Keys, NEW k \in Keys, j # k, j[1] = k[1]
               PROVE  /\ ~(story[j] \in Unfinished /\ story[k] \in Unfinished)
                      /\ story[j] = "PUBLISHED" /\ story[k] = "PUBLISHED" /\ j[2] < k[2]
                           => publishedAt[k] - publishedAt[j] >= Cooldown
    BY DEF StoriesTakeTurns
  <2>1. /\ j[2] \in Nat /\ k[2] \in Nat
        /\ j[2] # k[2]
    BY KeyNumbers
  <2>2. /\ j[2] < k[2] /\ Counts(j) /\ Counts(k) => Spaced(j, k)
        /\ k[2] < j[2] /\ Counts(j) /\ Counts(k) => Spaced(k, j)
    BY DEF Turns
  <2>3. j[2] < k[2] \/ k[2] < j[2]
    BY <2>1
  <2> QED
    BY <2>2, <2>3 DEF Counts, Spaced, Unfinished
<1> QED
  BY <1>1, <1>2, <1>3, AlwaysSettled, PTL DEF Spec

-------------------------------------------------------------------------------
(* The slots of a day *)

\* The story owns a slot of its day.
Holding(k) == k \in Slotted \cup Confirmed \cup orphaned

Counted == \A d \in Days : published[d] = Cardinality({k \in Keys : bucket[k] = d /\ Holding(k)})

Capped == \A d \in Days : published[d] <= peak[d] /\ maxAllowed[d] <= peak[d]

\* What a step may do to the slots: nothing, reserve one where there is room, give
\* one back, keep one for good with the confirmation, or leave one with its dead
\* process.
SlotsStay ==
  /\ Slotted' = Slotted /\ Confirmed' = Confirmed /\ orphaned' = orphaned
  /\ \A k \in Keys : Holding(k) => bucket'[k] = bucket[k]
  /\ published' = published

Reserves(a) ==
  /\ ~Holding(a) /\ Slotted' = Slotted \cup {a}
  /\ Confirmed' = Confirmed /\ orphaned' = orphaned
  /\ bucket' = bucket /\ HasRoom(bucket[a])
  /\ published' = [published EXCEPT ![bucket[a]] = @ + 1]

GivesBack(a) ==
  /\ a \in Slotted /\ a \notin Confirmed \cup orphaned
  /\ Slotted' = Slotted \ {a}
  /\ Confirmed' = Confirmed /\ orphaned' = orphaned
  /\ bucket' = bucket /\ published' = GiveBack(bucket[a])

KeepsForGood(a) ==
  /\ a \in Slotted
  /\ Slotted' = Slotted \ {a} /\ Confirmed' = Confirmed \cup {a}
  /\ UNCHANGED <<orphaned, bucket, published>>

LeavesBehind(a) ==
  /\ a \in Slotted
  /\ Slotted' = Slotted \ {a} /\ orphaned' = orphaned \cup {a}
  /\ Confirmed' = Confirmed /\ UNCHANGED <<bucket, published>>

SlotsStep ==
  \/ SlotsStay
  \/ \E a \in Keys : Reserves(a) \/ GivesBack(a) \/ KeepsForGood(a) \/ LeavesBehind(a)

LimitsStep == \A d \in Days : peak[d] <= peak'[d] /\ maxAllowed'[d] <= peak'[d]

\* Such steps keep the counter of every day exact, and within its peak.
LEMMA CountKept ==
  ASSUME Types, Counted, Capped, SlotsStep, LimitsStep, Types'
  PROVE  Counted' /\ Capped'
<1> DEFINE U(d) == {k \in Keys : bucket[k] = d /\ Holding(k)}
           V(d) == {k \in Keys : bucket'[k] = d /\ Holding(k)'}
<1>f. ASSUME NEW d \in Days PROVE IsFiniteSet(U(d)) /\ IsFiniteSet(V(d))
  BY FiniteKeys, FS_Subset
<1>t. \A d \in Days : /\ published[d] \in Nat /\ peak[d] \in Int /\ peak'[d] \in Int
                      /\ maxAllowed[d] \in Int /\ maxAllowed'[d] \in Int
  <2>1. \A n \in Limits \cup {NoLimit} \cup {0} : n \in Int
    BY StoriesAssumption DEF NoLimit
  <2>2. \A d \in Days : /\ published[d] \in Nat /\ peak[d] \in Limits \cup {0}
                        /\ peak'[d] \in Limits \cup {0}
                        /\ maxAllowed[d] \in Limits \cup {NoLimit}
                        /\ maxAllowed'[d] \in Limits \cup {NoLimit}
    BY DEF Types
  <2> QED
    BY <2>1, <2>2
<1>c. \A d \in Days : published[d] = Cardinality(U(d)) /\ published[d] <= peak[d]
                      /\ maxAllowed[d] <= peak[d] /\ peak[d] <= peak'[d] /\ maxAllowed'[d] <= peak'[d]
  BY DEF Counted, Capped, LimitsStep
<1> SUFFICES ASSUME NEW d \in Days
             PROVE  published'[d] = Cardinality(V(d)) /\ published'[d] <= peak'[d]
  BY <1>c DEF Counted, Capped
<1>1. CASE SlotsStay \/ \E a \in Keys : KeepsForGood(a) \/ LeavesBehind(a)
  <2>1. V(d) = U(d) /\ published'[d] = published[d]
    BY <1>1 DEF SlotsStay, KeepsForGood, LeavesBehind, Holding
  <2> HIDE DEF U, V
  <2> QED
    BY <1>t, <1>c, <2>1
<1>2. ASSUME NEW a \in Keys, Reserves(a)
      PROVE  published'[d] = Cardinality(V(d)) /\ published'[d] <= peak'[d]
  <2>1. bucket[a] \in Days /\ published \in [Days -> Nat]
    BY DEF Types
  <2>2. CASE bucket[a] = d
    <3>1. V(d) = U(d) \cup {a} /\ a \notin U(d)
      BY <1>2, <2>2 DEF Reserves, Holding
    <3>2. published'[d] = published[d] + 1 /\ published[d] < maxAllowed[d]
      BY <1>2, <2>1, <2>2 DEF Reserves, HasRoom
    <3>3. Cardinality(U(d) \cup {a}) = Cardinality(U(d)) + 1
      <4> HIDE DEF U, V
      <4> QED
        BY <1>f, <3>1, FS_AddElement
    <3> HIDE DEF U, V
    <3> QED
      BY <1>t, <1>c, <3>1, <3>2, <3>3
  <2>3. CASE bucket[a] # d
    <3>1. V(d) = U(d) /\ published'[d] = published[d]
      BY <1>2, <2>1, <2>3 DEF Reserves, Holding
    <3> HIDE DEF U, V
    <3> QED
      BY <1>t, <1>c, <3>1
  <2> QED
    BY <2>2, <2>3
<1>3. ASSUME NEW a \in Keys, GivesBack(a)
      PROVE  published'[d] = Cardinality(V(d)) /\ published'[d] <= peak'[d]
  <2>1. bucket[a] \in Days /\ published \in [Days -> Nat]
    BY DEF Types
  <2>2. CASE bucket[a] = d
    <3>1. V(d) = U(d) \ {a} /\ a \in U(d)
      BY <1>3, <2>2 DEF GivesBack, Holding
    <3>2. Cardinality(U(d) \ {a}) = Cardinality(U(d)) - 1 /\ Cardinality(U(d)) # 0
      <4> HIDE DEF U, V
      <4> QED
        BY <1>f, <3>1, FS_RemoveElement, FS_EmptySet
    <3>3. published'[d] = IF published[d] > 0 THEN published[d] - 1 ELSE published[d]
      BY <1>3, <2>1, <2>2 DEF GivesBack, GiveBack
    <3> HIDE DEF U, V
    <3> QED
      BY <1>t, <1>c, <3>1, <3>2, <3>3
  <2>3. CASE bucket[a] # d
    <3>1. V(d) = U(d) /\ published'[d] = published[d]
      BY <1>3, <2>1, <2>3 DEF GivesBack, GiveBack, Holding
    <3> HIDE DEF U, V
    <3> QED
      BY <1>t, <1>c, <3>1
  <2> QED
    BY <2>2, <2>3
<1> QED
  BY <1>1, <1>2, <1>3 DEF SlotsStep

\* Publishing does one of these.
LEMMA PublishSlots ==
  ASSUME Settled, Settled', NEW w \in Procs, Publish(w)
  PROVE  SlotsStep
<1> USE DEF rows, limits, past, vars
<1> DEFINE p == proc[w]
           q == proc'[w]
<1>0. Types /\ Placed /\ Owned /\ Types' /\ Placed'
  BY DEF Settled
<1>p. /\ p \in ProcType /\ q \in ProcType /\ p.slot \in BOOLEAN /\ q.slot \in BOOLEAN
      /\ p.slot <=> p.at \in {"calling", "live"}
      /\ q.slot <=> q.at \in {"calling", "live"}
  BY <1>0 DEF Types, Placed, Loaded, ProcType
<1>g. ASSUME NEW x, Goto(w, x) PROVE q = x
  BY <1>0, <1>g DEF Goto, Types
<1>a. ASSUME NEW x \in ProcType, Goto(w, Advance(x)) PROVE ~q.slot
  BY <1>a, <1>g, AdvanceTyped
<1>v. \A v \in Procs : v # w => proc'[v] = proc[v]
  BY <1>0, PublishLeadsOn
\* The story in hand is in nobody else's, and not published.
<1>k. ASSUME p.at \in Handling
      PROVE  /\ p.key \in Keys /\ story[p.key] = "PROCESSING" /\ p.key \notin orphaned
             /\ \A v \in Procs : v # w /\ proc[v].slot => proc[v].key # p.key
  <2>1. \A v \in Procs : proc[v].slot => Handles(proc[v])
    BY <1>0 DEF Placed, Loaded, Handles, Handling
  <2> QED
    BY <1>k, <1>0, <2>1 DEF Types, Placed, Loaded, Owned, Handles
\* Who owns a slot, before the step and after it.
<1>h. ASSUME NEW k \in Keys
      PROVE  /\ k \in Slotted <=>
                  \/ p.slot /\ p.key = k
                  \/ \E v \in Procs : v # w /\ proc[v].slot /\ proc[v].key = k
             /\ (k \in Slotted)' <=>
                  \/ q.slot /\ q.key = k
                  \/ \E v \in Procs : v # w /\ proc[v].slot /\ proc[v].key = k
  BY <1>v DEF Slotted
<1>s. Slotted \subseteq Keys /\ Slotted' \subseteq Keys
  BY DEF Slotted
<1> HIDE DEF q
<1>c. ASSUME \A k \in Keys : story'[k] = "PUBLISHED" <=> story[k] = "PUBLISHED"
      PROVE  Confirmed' = Confirmed
  BY <1>c DEF Confirmed
<1>1. ASSUME ~p.slot, ~q.slot, UNCHANGED <<orphaned, bucket, published>>,
             \A k \in Keys : story'[k] = "PUBLISHED" <=> story[k] = "PUBLISHED"
      PROVE  SlotsStep
  <2>1. \A k \in Keys : (k \in Slotted)' <=> k \in Slotted
    BY <1>1, <1>h
  <2>2. Slotted' = Slotted
    BY <1>s, <2>1
  <2> QED
    BY <1>1, <1>c, <2>2 DEF SlotsStep, SlotsStay
<1>2. CASE DealWithPosts(w) \/ PassOver(w) \/ Load(w)
  <2>1. p.at \in {"posts", "batch"} /\ UNCHANGED <<orphaned, bucket, published, story>>
    BY <1>2 DEF DealWithPosts, PassOver, Load
  <2>2. ~q.slot
    <3>1. CASE DealWithPosts(w)
      <4>1. CASE Goto(w, Advance(p))
        BY <1>a, <1>p, <4>1
      <4>2. ASSUME NEW r \in Products, Goto(w, Advance([p EXCEPT !.seen = <<r, product[r]>>]))
            PROVE  ~q.slot
        <5>1. <<r, product[r]>> \in Products \X ProductStatus
          BY <1>0 DEF Types
        <5>2. [p EXCEPT !.seen = <<r, product[r]>>] \in ProcType
          BY <1>p, <5>1 DEF ProcType
        <5> QED
          BY <1>a, <4>2, <5>2
      <4> QED
        BY <3>1, <4>1, <4>2 DEF DealWithPosts
    <3>2. CASE PassOver(w)
      <4>1. [p EXCEPT !.todo = @ \ {FirstStory(p.todo)}] \in ProcType
        BY <1>p DEF ProcType
      <4> QED
        BY <1>a, <3>2, <4>1 DEF PassOver
    <3>3. CASE Load(w)
      <4> DEFINE k == FirstStory(p.todo)
                 x == [p EXCEPT !.at = "loaded", !.key = k, !.todo = @ \ {k}, !.attempts = attempts[k]]
      <4>1. Goto(w, x) /\ x.at = "loaded"
        BY <1>p, <3>3 DEF Load, ProcType
      <4> HIDE DEF x
      <4> QED
        BY <1>g, <1>p, <4>1
    <3> QED
      BY <1>2, <3>1, <3>2, <3>3
  <2> QED
    BY <1>1, <1>p, <2>1, <2>2
<1>3. CASE ClaimStory(w)
  <2>1. /\ p.at = "loaded" /\ UNCHANGED <<orphaned, bucket, published>>
        /\ p.key \in Keys /\ story \in [Keys -> StoryStatus]
    BY <1>0, <1>3 DEF ClaimStory, Types, Placed, Loaded
  <2>2. \/ /\ story[p.key] = "SCHEDULED" /\ story' = [story EXCEPT ![p.key] = "PROCESSING"]
           /\ Goto(w, [p EXCEPT !.at = "claimed"])
        \/ story' = story /\ Goto(w, Advance([p EXCEPT !.seen = NoKey]))
    BY <1>3 DEF ClaimStory, ClaimableStory
  <2>3. [p EXCEPT !.seen = NoKey] \in ProcType /\ [p EXCEPT !.at = "claimed"].at = "claimed"
    BY <1>p DEF ProcType
  <2>4. ~q.slot
    BY <1>a, <1>g, <1>p, <2>2, <2>3
  <2>5. \A k \in Keys : story'[k] = "PUBLISHED" <=> story[k] = "PUBLISHED"
    BY <2>1, <2>2
  <2> QED
    BY <1>1, <1>p, <2>1, <2>4, <2>5
<1>4. ASSUME NEW t \in BOOLEAN, RecordStory(w, t), p.at \in {"claimed", "failed"} PROVE SlotsStep
  <2> DEFINE s == StoryAfterFailure(p, t)
  <2>1. /\ story' = [story EXCEPT ![p.key] = s] /\ s # "PUBLISHED"
        /\ UNCHANGED <<orphaned, bucket, published>> /\ Goto(w, Advance(p))
    BY <1>4 DEF RecordStory, StoryAfterFailure
  <2> HIDE DEF s
  <2>2. ~q.slot /\ ~p.slot
    BY <1>4, <1>a, <1>p, <2>1
  <2>3. \A k \in Keys : story'[k] = "PUBLISHED" <=> story[k] = "PUBLISHED"
    BY <1>4, <1>0, <1>k, <2>1 DEF Types, Handling
  <2> QED
    BY <1>1, <2>1, <2>2, <2>3
<1>5. CASE Refuse(w) \/ RecordFailure(w)
  <2>1. p.transient \in BOOLEAN
    BY <1>p DEF ProcType
  <2> QED
    BY <1>4, <1>5, <2>1 DEF Refuse, RecordFailure
<1>6. CASE ReserveStory(w)
  <2>1. /\ p.at = "claimed" /\ HasRoom(bucket[p.key])
        /\ published' = [published EXCEPT ![bucket[p.key]] = @ + 1]
        /\ UNCHANGED <<story, bucket, orphaned>>
    BY <1>6 DEF ReserveStory
  <2>2. q.slot /\ q.key = p.key /\ ~p.slot
    <3>1. [p EXCEPT !.at = "calling", !.slot = TRUE].slot
          /\ [p EXCEPT !.at = "calling", !.slot = TRUE].key = p.key
      BY <1>p DEF ProcType
    <3> QED
      BY <1>6, <1>g, <1>p, <2>1, <3>1 DEF ReserveStory
  <2>3. /\ p.key \in Keys /\ story[p.key] = "PROCESSING" /\ p.key \notin orphaned
        /\ \A v \in Procs : v # w /\ proc[v].slot => proc[v].key # p.key
    BY <1>k, <2>1 DEF Handling
  <2>4. p.key \notin Slotted /\ \A k \in Keys : (k \in Slotted)' <=> k \in Slotted \/ k = p.key
    BY <1>h, <2>2, <2>3
  <2>5. Slotted' = Slotted \cup {p.key}
    BY <1>s, <2>3, <2>4
  <2>6. ~Holding(p.key) /\ Confirmed' = Confirmed
    BY <1>c, <2>1, <2>3, <2>4 DEF Holding, Confirmed
  <2>7. Reserves(p.key)
    BY <2>1, <2>5, <2>6 DEF Reserves
  <2> QED
    BY <2>3, <2>7 DEF SlotsStep
<1>7. CASE MeetFullDay(w)
  <2>1. p.at = "claimed" /\ UNCHANGED <<orphaned, bucket, published, story>> /\ ~q.slot
    BY <1>7, <1>g, IdleTyped DEF MeetFullDay
  <2> QED
    BY <1>1, <1>p, <2>1
<1>8. CASE GoesLive(w)
  <2>1. p.at = "calling" /\ UNCHANGED <<orphaned, bucket, published, story>>
    BY <1>8 DEF GoesLive
  <2>2. q.slot /\ q.key = p.key /\ p.slot
    <3>1. [p EXCEPT !.at = "live"].slot = p.slot /\ [p EXCEPT !.at = "live"].key = p.key
      BY <1>p DEF ProcType
    <3> QED
      BY <1>8, <1>g, <1>p, <2>1, <3>1 DEF GoesLive
  <2>3. \A k \in Keys : (k \in Slotted)' <=> k \in Slotted
    BY <1>h, <2>2
  <2>4. Slotted' = Slotted /\ Confirmed' = Confirmed
    BY <1>c, <1>s, <2>1, <2>3
  <2> QED
    BY <2>1, <2>4 DEF SlotsStep, SlotsStay
<1>9. CASE ReleaseStory(w)
  <2>1. /\ p.at \in {"calling", "live"} /\ published' = GiveBack(bucket[p.key])
        /\ UNCHANGED <<story, bucket, orphaned>>
    BY <1>9 DEF ReleaseStory
  <2>2. p.slot /\ ~q.slot
    <3>1. PICK t \in BOOLEAN : Goto(w, [p EXCEPT !.at = "failed", !.slot = FALSE, !.transient = t])
      BY <1>9 DEF ReleaseStory
    <3>2. ~[p EXCEPT !.at = "failed", !.slot = FALSE, !.transient = t].slot
      BY <1>p DEF ProcType
    <3> QED
      BY <1>g, <1>p, <2>1, <3>1, <3>2
  <2>3. /\ p.key \in Keys /\ story[p.key] = "PROCESSING" /\ p.key \notin orphaned
        /\ \A v \in Procs : v # w /\ proc[v].slot => proc[v].key # p.key
    BY <1>k, <2>1 DEF Handling
  <2>4. p.key \in Slotted /\ \A k \in Keys : (k \in Slotted)' <=> k \in Slotted /\ k # p.key
    BY <1>h, <2>2, <2>3
  <2>5. Slotted' = Slotted \ {p.key}
    BY <1>s, <2>4
  <2>6. p.key \notin Confirmed \cup orphaned /\ Confirmed' = Confirmed
    BY <1>c, <2>1, <2>3 DEF Confirmed
  <2>7. GivesBack(p.key)
    BY <2>1, <2>4, <2>5, <2>6 DEF GivesBack
  <2> QED
    BY <2>3, <2>7 DEF SlotsStep
<1>10. CASE ConfirmStory(w)
  <2>1. /\ p.at = "live" /\ story' = [story EXCEPT ![p.key] = "PUBLISHED"]
        /\ UNCHANGED <<bucket, orphaned, published>> /\ Goto(w, Advance(p))
    BY <1>10 DEF ConfirmStory
  <2>2. p.slot /\ ~q.slot /\ p.key \in Keys
    BY <1>a, <1>k, <1>p, <2>1 DEF Handling
  <2>3. \A k \in Keys : story'[k] = IF k = p.key THEN "PUBLISHED" ELSE story[k]
    BY <1>0, <2>1, <2>2 DEF Types
  <2>4. \A v \in Procs : v # w /\ proc[v].slot => proc[v].key # p.key
    BY <1>k, <2>1 DEF Handling
  <2>5. p.key \in Slotted /\ \A k \in Keys : (k \in Slotted)' <=> k \in Slotted /\ k # p.key
    BY <1>h, <2>2, <2>4
  <2>6. Slotted' = Slotted \ {p.key}
    BY <1>s, <2>5
  <2>7. Confirmed' = Confirmed \cup {p.key}
    BY <2>2, <2>3 DEF Confirmed
  <2>8. KeepsForGood(p.key)
    BY <2>1, <2>5, <2>6, <2>7 DEF KeepsForGood
  <2> QED
    BY <2>2, <2>8 DEF SlotsStep
<1> QED
  BY <1>2, <1>3, <1>5, <1>6, <1>7, <1>8, <1>9, <1>10 DEF Publish

\* Every step does one of these, and the peak follows the maximum.
LEMMA NextSlots ==
  ASSUME Settled, Settled', Capped, [Next]_vars
  PROVE  SlotsStep /\ LimitsStep
<1> USE DEF rows, limits, past, vars
<1>0. Types /\ Placed /\ Owned /\ Types' /\ Placed'
  BY DEF Settled
<1>n. ASSUME NEW d \in Days
      PROVE  peak[d] \in Int /\ maxAllowed[d] \in Int /\ maxAllowed[d] <= peak[d] /\ peak[d] <= peak[d]
  <2>1. \A n \in Limits \cup {NoLimit} \cup {0} : n \in Int
    BY StoriesAssumption DEF NoLimit
  <2>2. peak[d] \in Limits \cup {0} /\ maxAllowed[d] \in Limits \cup {NoLimit}
    BY <1>0 DEF Types
  <2>3. peak[d] \in Int /\ maxAllowed[d] \in Int
    BY <2>1, <2>2
  <2> QED
    BY <2>3 DEF Capped
<1>l. (UNCHANGED <<peak, maxAllowed>>) => LimitsStep
  BY <1>n DEF LimitsStep
<1>d. DayOf(clock) \in Days
  BY <1>0, DayProperties DEF Types
<1>p. \A w \in Procs : proc[w].slot <=> proc[w].at \in {"calling", "live"}
  BY <1>0 DEF Placed, Loaded
<1>g. ASSUME NEW w \in Procs, NEW q, Goto(w, q)
      PROVE  proc'[w] = q /\ \A v \in Procs : v # w => proc'[v] = proc[v]
  BY <1>0, <1>g DEF Goto, Types
\* Steps of a process without a slot that touch no owner of one.
<1>1. ASSUME NEW w \in Procs, NEW q, Goto(w, q), ~proc[w].slot, ~q.slot,
             UNCHANGED <<orphaned, published>>,
             \A k \in Keys : (story'[k] = "PUBLISHED" <=> story[k] = "PUBLISHED")
                             /\ (Holding(k) => bucket'[k] = bucket[k])
      PROVE  SlotsStep
  <2>1. \A v \in Procs : proc'[v].slot <=> proc[v].slot
    BY <1>1, <1>g
  <2>2. \A v \in Procs : proc[v].slot => proc'[v] = proc[v]
    BY <1>1, <1>g
  <2>3. Slotted' = Slotted
    BY <2>1, <2>2 DEF Slotted
  <2>4. Confirmed' = Confirmed
    BY <1>1 DEF Confirmed
  <2> QED
    BY <1>1, <2>3, <2>4 DEF SlotsStep, SlotsStay
<1>2. ASSUME UNCHANGED <<story, orphaned, bucket, published, proc>> PROVE SlotsStep
  BY <1>2 DEF SlotsStep, SlotsStay, Slotted, Confirmed
<1>3. ASSUME NEW w \in Procs, Publish(w) PROVE SlotsStep /\ LimitsStep
  <2>1. UNCHANGED <<peak, maxAllowed>>
    BY <1>3 DEF Publish, DealWithPosts, PassOver, Load, ClaimStory, Refuse, RecordFailure, RecordStory,
                ReserveStory, MeetFullDay, GoesLive, ReleaseStory, ConfirmStory
  <2> QED
    BY <1>3, <1>l, <2>1, PublishSlots
<1>h. ASSUME NEW n \in Limits, NEW d \in Days
      PROVE  \A e \in Days : /\ peak[e] <= Higher(d, n)[e]
                             /\ [maxAllowed EXCEPT ![d] = n][e] <= Higher(d, n)[e]
  <2>1. n \in Int
    BY StoriesAssumption
  <2>2. /\ peak \in [Days -> Limits \cup {0}]
        /\ maxAllowed \in [Days -> Limits \cup {NoLimit}]
    BY <1>0 DEF Types
  <2>3. /\ \A e \in Days : Higher(d, n)[e] = IF e = d /\ n > peak[d] THEN n ELSE peak[e]
        /\ \A e \in Days : [maxAllowed EXCEPT ![d] = n][e] = IF e = d THEN n ELSE maxAllowed[e]
    BY <2>2 DEF Higher
  <2> QED
    BY <1>n, <2>1, <2>3
<1>4. CASE StartCycle
  <2> DEFINE d == DayOf(clock)
             n == Ensured(d)
  <2>1. \/ n \in Limits
        \/ n \in Int /\ n = maxAllowed[d]
    BY <1>d, <1>n, StoriesAssumption DEF Ensured
  <2>2. /\ maxAllowed' = [maxAllowed EXCEPT ![d] = n] /\ peak' = Higher(d, n)
        /\ UNCHANGED <<story, orphaned, bucket, published>>
        /\ proc[Worker].at = "idle" /\ Goto(Worker, [Idle EXCEPT !.at = "start"]) /\ Worker \in Procs
    BY <1>4 DEF StartCycle, Procs
  <2>3. ~[Idle EXCEPT !.at = "start"].slot
    BY DEF Idle
  <2>4. SlotsStep
    BY <1>1, <1>p, <2>2, <2>3
  <2> HIDE DEF n, d
  <2>5. CASE n \in Limits
    BY <1>d, <1>h, <2>2, <2>4, <2>5 DEF LimitsStep, d
  <2>6. CASE n = maxAllowed[d]
    <3>1. d \in Days /\ maxAllowed \in [Days -> Limits \cup {NoLimit}] /\ ~(n > peak[d])
      BY <1>0, <1>d, <1>n, <2>6 DEF Types, d
    <3>2. maxAllowed' = maxAllowed /\ peak' = peak
      BY <2>2, <2>6, <3>1 DEF Higher
    <3> QED
      BY <1>l, <2>4, <3>2
  <2> QED
    BY <2>1, <2>5, <2>6
<1>5. CASE ReadProducts
  <2> DEFINE p == proc[Worker]
             n == Remaining(DayOf(clock))
             l == {r \in Products : product[r] \in Showable}
             q == [p EXCEPT !.at = "create", !.day = DayOf(clock), !.room = n, !.list = l]
  <2>1. /\ p \in ProcType /\ p.at = "start" /\ ~p.slot /\ Goto(Worker, q) /\ Worker \in Procs
        /\ UNCHANGED <<story, orphaned, bucket, published, peak, maxAllowed>>
    BY <1>0, <1>5, <1>p DEF ReadProducts, Types, Procs
  <2> HIDE DEF n, l
  <2>2. ~q.slot
    BY <2>1 DEF ProcType
  <2> HIDE DEF q
  <2> QED
    BY <1>1, <1>l, <2>1, <2>2
<1>6. CASE CreateNext
  <2> DEFINE p == proc[Worker]
             r == Min(p.list)
             k == <<r, p.day>>
             made == [p EXCEPT !.room = @ - 1, !.list = @ \ {r}]
             passed == [p EXCEPT !.list = @ \ {r}]
  <2>1. /\ p \in ProcType /\ p.at = "create" /\ ~p.slot /\ Worker \in Procs
        /\ UNCHANGED <<orphaned, published, peak, maxAllowed>>
        /\ \/ /\ story[k] = "ABSENT" /\ story' = [story EXCEPT ![k] = "SCHEDULED"]
              /\ bucket' = [bucket EXCEPT ![k] = DayOf(clock)] /\ Goto(Worker, made)
           \/ UNCHANGED <<story, bucket>> /\ Goto(Worker, passed)
    BY <1>0, <1>6, <1>p DEF CreateNext, Types, Procs
  <2> HIDE DEF r
  <2>2. ~made.slot /\ ~passed.slot
    BY <2>1 DEF ProcType
  <2> HIDE DEF k, made, passed
  <2>3. ASSUME NEW j \in Keys, Holding(j) PROVE story[j] \in {"PUBLISHED", "PROCESSING"}
    <3>1. \A v \in Procs : proc[v].slot => Handles(proc[v])
      BY <1>p DEF Handles, Handling
    <3> QED
      BY <1>0, <2>3, <3>1 DEF Holding, Slotted, Confirmed, Types, Owned, Handles
  <2>4. \A j \in Keys : (story'[j] = "PUBLISHED" <=> story[j] = "PUBLISHED")
                        /\ (Holding(j) => bucket'[j] = bucket[j])
    <3>1. story \in [Keys -> StoryStatus] /\ bucket \in [Keys -> Days]
      BY <1>0 DEF Types
    <3> QED
      BY <2>1, <2>3, <3>1
  <2> QED
    BY <1>1, <1>l, <2>1, <2>2, <2>4
<1>7. ASSUME NEW w \in Procs, StartBatch(w) \/ (w = Worker /\ Review) PROVE SlotsStep /\ LimitsStep
  <2>1. ~[Idle EXCEPT !.at = "posts", !.todo = DueStories].slot /\ ~Idle.slot
    BY DEF Idle
  <2>2. /\ Goto(w, Idle) \/ Goto(w, [Idle EXCEPT !.at = "posts", !.todo = DueStories])
        /\ UNCHANGED <<story, orphaned, bucket, published, peak, maxAllowed>>
        /\ proc[w].at \in {"create", "idle"}
    BY <1>7 DEF StartBatch, Review, BatchMayStart
  <2>3. ~proc[w].slot
    BY <1>p, <2>2
  <2> QED
    BY <1>1, <1>l, <2>1, <2>2, <2>3
<1>8. ASSUME NEW w \in Procs, Killed(w) PROVE SlotsStep /\ LimitsStep
  <2>1. /\ UNCHANGED <<story, bucket, published, peak, maxAllowed>> /\ Goto(w, Idle) /\ ~Idle.slot
        /\ orphaned' = IF proc[w].slot THEN orphaned \cup {proc[w].key} ELSE orphaned
    BY <1>8 DEF Killed, Idle
  <2>2. proc'[w] = Idle /\ \A v \in Procs : v # w => proc'[v] = proc[v]
    BY <1>g, <2>1
  <2>3. Confirmed' = Confirmed
    BY <2>1 DEF Confirmed
  <2>4. CASE ~proc[w].slot
    <3>1. Slotted' = Slotted
      BY <2>1, <2>2, <2>4 DEF Slotted
    <3> QED
      BY <1>l, <2>1, <2>3, <2>4, <3>1 DEF SlotsStep, SlotsStay
  <2>5. CASE proc[w].slot
    <3> DEFINE a == proc[w].key
    <3>1. \A v \in Procs : proc[v].slot => Handles(proc[v])
      BY <1>p DEF Handles, Handling
    <3>2. a \in Keys /\ \A v \in Procs : v # w /\ proc[v].slot => proc[v].key # a
      BY <1>0, <2>5, <3>1 DEF Placed, Loaded, Owned, Handles
    <3>3. Slotted' = Slotted \ {a}
      BY <2>1, <2>2, <3>2 DEF Slotted
    <3>4. LeavesBehind(a)
      BY <2>1, <2>3, <2>5, <3>2, <3>3 DEF LeavesBehind, Slotted
    <3> QED
      BY <1>l, <2>1, <3>2, <3>4 DEF SlotsStep
  <2> QED
    BY <2>4, <2>5
<1>9. CASE Tick
  BY <1>9, <1>2, <1>l DEF Tick
<1>10. CASE \E r \in Products : PurgeMedia(r) \/ \E s \in ProductStatus : ChangeProduct(r, s)
  BY <1>10, <1>2, <1>l DEF PurgeMedia, ChangeProduct
<1>11. ASSUME NEW n \in Limits, SetStoryLimit(n) PROVE SlotsStep /\ LimitsStep
  <2>1. /\ maxAllowed' = [maxAllowed EXCEPT ![DayOf(clock)] = n] /\ peak' = Higher(DayOf(clock), n)
        /\ UNCHANGED <<story, orphaned, bucket, published, proc>>
    BY <1>11 DEF SetStoryLimit
  <2> QED
    BY <1>2, <1>d, <1>h, <2>1 DEF LimitsStep
<1>12. CASE UNCHANGED vars
  BY <1>12, <1>2, <1>l
<1> QED
  BY <1>3, <1>4, <1>5, <1>6, <1>7, <1>8, <1>9, <1>10, <1>11, <1>12 DEF Next, Create, Procs

\* No slot is taken at the start.
LEMMA InitCounted == Init => Counted /\ Capped
<1> SUFFICES ASSUME Init, NEW d \in Days
             PROVE  /\ published[d] = Cardinality({k \in Keys : bucket[k] = d /\ Holding(k)})
                    /\ published[d] <= peak[d] /\ maxAllowed[d] <= peak[d]
  BY DEF Counted, Capped
<1>1. /\ published[d] = 0 /\ peak[d] = 0 /\ maxAllowed[d] = NoLimit
      /\ \A w \in Procs : ~proc[w].slot
      /\ \A k \in Keys : story[k] = "ABSENT"
      /\ orphaned = {}
  BY DEF Init, Idle
<1>2. {k \in Keys : bucket[k] = d /\ Holding(k)} = {}
  BY <1>1 DEF Holding, Slotted, Confirmed
<1> QED
  BY <1>1, <1>2, FS_EmptySet DEF NoLimit

\* published_count is the number of stories that own a slot of the day, through
\* midnight, retries and kills, and no day holds more than its maximum has been.
THEOREM StorySlotsAreExact == Spec => []StorySlotsExact
<1>1. Settled /\ Settled' /\ Counted /\ Capped /\ [Next]_vars => Counted' /\ Capped'
  BY NextSlots, CountKept DEF Settled
<1>2. Settled /\ Counted /\ Capped => StorySlotsExact
  <2> SUFFICES ASSUME Settled, Counted, Capped, NEW d \in Days
               PROVE  published[d] = Cardinality(SlotsOf(d)) /\ published[d] <= peak[d]
    BY DEF StorySlotsExact
  <2>1. Slotted \cup Confirmed \cup orphaned \subseteq Keys
    BY DEF Settled, Types, Slotted, Confirmed
  <2>2. SlotsOf(d) = {k \in Keys : bucket[k] = d /\ Holding(k)}
    BY <2>1 DEF SlotsOf, Holding
  <2> QED
    BY <2>2 DEF Counted, Capped
<1> QED
  BY <1>1, <1>2, InitCounted, AlwaysSettled, PTL DEF Spec

-------------------------------------------------------------------------------
(* Stories implement SlotPool *)

\* The instance counts with the Cardinality of FiniteSets.
LEMMA SameCardinality == \A S : Pool!Cardinality(S) = Cardinality(S)
BY DEF Pool!Cardinality, Cardinality

\* A publication names its story.
LEMMA PublicationsDiffer ==
  /\ \A j, k : Publication(j) = Publication(k) => j = k
  /\ \A S, k : Publication(k) \in Publications(S) <=> k \in S
BY DEF Publication, Publications

\* Adding or removing a story adds or removes its publication.
LEMMA PublicationsFollow ==
  ASSUME NEW S, NEW a
  PROVE  /\ Publications(S \cup {a}) = Publications(S) \cup {Publication(a)}
         /\ Publications(S \ {a}) = Publications(S) \ {Publication(a)}
BY DEF Publication, Publications

\* The slots the pool sees taken on a day are as many as the stories that own one.
LEMMA TakenIsCounted ==
  ASSUME Types, Counted, NEW d \in Days
  PROVE  Cardinality(Pool!Taken(d)) = published[d]
<1> DEFINE U == {k \in Keys : bucket[k] = d /\ Holding(k)}
           f == [k \in U |-> Publication(k)]
<1>1. Slotted \cup Confirmed \cup orphaned \subseteq Keys
  BY DEF Slotted, Confirmed, Types
<1>2. Pool!Owners = Publications(Slotted \cup Confirmed \cup orphaned)
  BY DEF Pool!Owners, Publications
<1>3. Pool!Taken(d) = {Publication(k) : k \in U}
  <2>1. \A k \in Keys : Publication(k) \in Keys \X Days /\ Publication(k)[2] = bucket[k]
    BY DEF Types, Publication
  <2> QED
    BY <1>1, <1>2, <2>1 DEF Pool!Taken, Holding, Publications
<1>4. f \in Bijection(U, Pool!Taken(d))
  <2>1. f \in [U -> Pool!Taken(d)]
    BY <1>3
  <2>2. \A j, k \in U : f[j] = f[k] => j = k
    BY PublicationsDiffer
  <2>3. \A x \in Pool!Taken(d) : \E k \in U : f[k] = x
    BY <1>3
  <2> HIDE DEF f, U
  <2> QED
    BY <2>1, <2>2, <2>3, Fun_IsBij
<1> HIDE DEF f
<1>5. IsFiniteSet(U)
  BY FiniteKeys, FS_Subset
<1>6. Cardinality(Pool!Taken(d)) = Cardinality(U)
  <2> HIDE DEF U
  <2> QED
    BY <1>4, <1>5, FS_Bijection, Fun_ExistsBij
<1> QED
  BY <1>6 DEF Counted

\* The pool with the variables of this module.
LEMMA PoolVars ==
  /\ Pool!poolVars = <<maxAllowed, Publications(Slotted), Publications(Confirmed), Publications(orphaned)>>
  /\ Pool!poolVars' = <<maxAllowed', Publications(Slotted)', Publications(Confirmed)', Publications(orphaned)'>>
BY DEF Pool!poolVars

\* The maximum is changed for one day, by a step that leaves the slots alone.
ResizesDay ==
  /\ \E d \in Days, n \in Limits \cup {NoLimit} : maxAllowed' = [maxAllowed EXCEPT ![d] = n]
  /\ SlotsStay

LEMMA NextMaximum ==
  ASSUME Settled, [Next]_vars
  PROVE  maxAllowed' = maxAllowed \/ ResizesDay
<1> USE DEF rows, limits, past, vars
<1>0. Types /\ Placed
  BY DEF Settled
<1>d. DayOf(clock) \in Days
  BY <1>0, DayProperties DEF Types
<1>1. ASSUME NEW w \in Procs, Publish(w) PROVE maxAllowed' = maxAllowed
  BY <1>1 DEF Publish, DealWithPosts, PassOver, Load, ClaimStory, Refuse, RecordFailure, RecordStory,
              ReserveStory, MeetFullDay, GoesLive, ReleaseStory, ConfirmStory
<1>2. CASE StartCycle
  <2>1. Ensured(DayOf(clock)) \in Limits \cup {NoLimit}
    BY <1>0, <1>d, StoriesAssumption DEF Ensured, Types
  <2>2. /\ maxAllowed' = [maxAllowed EXCEPT ![DayOf(clock)] = Ensured(DayOf(clock))]
        /\ UNCHANGED <<story, orphaned, bucket, published>>
        /\ proc[Worker].at = "idle" /\ Worker \in Procs
        /\ proc' = [proc EXCEPT ![Worker] = [Idle EXCEPT !.at = "start"]]
    BY <1>2 DEF StartCycle, Procs, Goto
  <2>3. ~[Idle EXCEPT !.at = "start"].slot /\ ~proc[Worker].slot
    BY <1>0, <2>2 DEF Idle, Placed, Loaded
  <2>4. /\ proc'[Worker] = [Idle EXCEPT !.at = "start"]
        /\ \A v \in Procs : v # Worker => proc'[v] = proc[v]
    BY <1>0, <2>2 DEF Types
  <2>5. Slotted' = Slotted
    BY <2>3, <2>4 DEF Slotted
  <2>6. SlotsStay
    BY <2>2, <2>5 DEF SlotsStay, Confirmed
  <2> QED
    BY <1>d, <2>1, <2>2, <2>6 DEF ResizesDay
<1>3. ASSUME NEW n \in Limits, SetStoryLimit(n) PROVE ResizesDay
  <2>1. /\ maxAllowed' = [maxAllowed EXCEPT ![DayOf(clock)] = n]
        /\ UNCHANGED <<story, orphaned, bucket, published, proc>>
    BY <1>3 DEF SetStoryLimit
  <2>2. SlotsStay
    BY <2>1 DEF SlotsStay, Slotted, Confirmed
  <2> QED
    BY <1>d, <2>1, <2>2 DEF ResizesDay
<1>4. ASSUME NEW w \in Procs, StartBatch(w) \/ Killed(w) PROVE maxAllowed' = maxAllowed
  BY <1>4 DEF StartBatch, Killed
<1>5. CASE ReadProducts \/ CreateNext \/ Review
  BY <1>5 DEF ReadProducts, CreateNext, Review
<1>6. CASE \E r \in Products : PurgeMedia(r) \/ \E s \in ProductStatus : ChangeProduct(r, s)
  BY <1>6 DEF PurgeMedia, ChangeProduct
<1>7. CASE Tick \/ UNCHANGED vars
  BY <1>7 DEF Tick
<1> QED
  BY <1>1, <1>2, <1>3, <1>4, <1>5, <1>6, <1>7 DEF Next, Create

\* The kind of a step is kept while its publications are compared.
LEMMA PublicationsStay ==
  ASSUME Types, SlotsStay
  PROVE  /\ Publications(Slotted)' = Publications(Slotted)
         /\ Publications(Confirmed)' = Publications(Confirmed)
         /\ Publications(orphaned)' = Publications(orphaned)
<1>1. Slotted \subseteq Keys /\ Confirmed \subseteq Keys /\ orphaned \subseteq Keys
  BY DEF Slotted, Confirmed, Types
<1>2. \A k \in Slotted \cup Confirmed \cup orphaned : bucket'[k] = bucket[k]
  BY <1>1 DEF SlotsStay, Holding
<1> QED
  BY <1>2 DEF SlotsStay, Publications, Publication

\* Every step is a step of the pool, or leaves it alone.
LEMMA PoolStep ==
  ASSUME Settled, Settled', Counted, Capped, [Next]_vars
  PROVE  [Pool!PoolNext]_(Pool!poolVars)
<1>0. Types /\ (SlotsStep /\ (maxAllowed' = maxAllowed \/ ResizesDay))
  BY NextSlots, NextMaximum DEF Settled
<1>1. CASE ResizesDay
  <2>1. PICK d \in Days, n \in Limits \cup {NoLimit} : maxAllowed' = [maxAllowed EXCEPT ![d] = n]
    BY <1>1 DEF ResizesDay
  <2>2. SlotsStay
    BY <1>1 DEF ResizesDay
  <2>3. Pool!Resize(d, n)
    BY <1>0, <2>1, <2>2, PublicationsStay DEF Pool!Resize
  <2> QED
    BY <2>3 DEF Pool!PoolNext
<1>2. CASE SlotsStay /\ maxAllowed' = maxAllowed
  BY <1>0, <1>2, PublicationsStay, PoolVars
<1>3. ASSUME NEW a \in Keys, maxAllowed' = maxAllowed,
             Reserves(a) \/ GivesBack(a) \/ KeepsForGood(a) \/ LeavesBehind(a)
      PROVE  [Pool!PoolNext]_(Pool!poolVars)
  <2> DEFINE x == Publication(a)
  <2>1. /\ x \in Keys \X Days /\ x[2] = bucket[a] /\ bucket[a] \in Days
        /\ [y \in Keys \X Days |-> y[2]][x] = bucket[a]
    BY <1>0 DEF Publication, Types
  <2>2. bucket' = bucket
    BY <1>3 DEF Reserves, GivesBack, KeepsForGood, LeavesBehind
  <2>3. /\ Publications(Slotted)' = Publications(Slotted')
        /\ Publications(Confirmed)' = Publications(Confirmed')
        /\ Publications(orphaned)' = Publications(orphaned')
    BY <2>2 DEF Publications, Publication
  <2>4. \A S : x \in Publications(S) <=> a \in S
    BY PublicationsDiffer
  <2>5. \A S : /\ Publications(S \cup {a}) = Publications(S) \cup {x}
               /\ Publications(S \ {a}) = Publications(S) \ {x}
    BY PublicationsFollow
  <2> HIDE DEF x
  <2>6. CASE Reserves(a)
    <3>1. x \notin Pool!Owners
      BY <2>4, <2>6 DEF Reserves, Holding, Pool!Owners
    <3>2. Cardinality(Pool!Taken(bucket[a])) < maxAllowed[bucket[a]]
      BY <1>0, <2>1, <2>6, TakenIsCounted DEF Reserves, HasRoom
    <3>3. /\ Publications(Slotted)' = Publications(Slotted) \cup {x}
          /\ Publications(Confirmed)' = Publications(Confirmed)
          /\ Publications(orphaned)' = Publications(orphaned)
      BY <2>3, <2>5, <2>6 DEF Reserves
    <3>4. Pool!TakeSlot(x)
      BY <1>3, <2>1, <3>1, <3>2, <3>3, SameCardinality DEF Pool!TakeSlot
    <3> QED
      BY <2>1, <3>4 DEF Pool!PoolNext
  <2>7. CASE GivesBack(a)
    <3>1. /\ x \in Publications(Slotted)
          /\ Publications(Slotted)' = Publications(Slotted) \ {x}
          /\ Publications(Confirmed)' = Publications(Confirmed)
          /\ Publications(orphaned)' = Publications(orphaned)
      BY <2>3, <2>4, <2>5, <2>7 DEF GivesBack
    <3>2. Pool!GiveBack(x)
      BY <1>3, <3>1 DEF Pool!GiveBack
    <3> QED
      BY <2>1, <3>2 DEF Pool!PoolNext
  <2>8. CASE KeepsForGood(a)
    <3>1. /\ x \in Publications(Slotted)
          /\ Publications(Slotted)' = Publications(Slotted) \ {x}
          /\ Publications(Confirmed)' = Publications(Confirmed) \cup {x}
          /\ Publications(orphaned)' = Publications(orphaned)
      BY <2>3, <2>4, <2>5, <2>8 DEF KeepsForGood
    <3>2. Pool!Keep(x)
      BY <1>3, <3>1 DEF Pool!Keep
    <3> QED
      BY <2>1, <3>2 DEF Pool!PoolNext
  <2>9. CASE LeavesBehind(a)
    <3>1. /\ x \in Publications(Slotted)
          /\ Publications(Slotted)' = Publications(Slotted) \ {x}
          /\ Publications(Confirmed)' = Publications(Confirmed)
          /\ Publications(orphaned)' = Publications(orphaned) \cup {x}
      BY <2>3, <2>4, <2>5, <2>9 DEF LeavesBehind
    <3>2. Pool!Orphan(x)
      BY <1>3, <3>1 DEF Pool!Orphan
    <3> QED
      BY <2>1, <3>2 DEF Pool!PoolNext
  <2> QED
    BY <1>3, <2>6, <2>7, <2>8, <2>9
<1> QED
  BY <1>0, <1>1, <1>2, <1>3 DEF SlotsStep, SlotsStay

\* Stories take, keep and give back the slots of a day as the pool promises: when
\* there is room, once, and never after the confirmation.
THEOREM StoriesImplementPool == Spec => ImplementsSlotPool
<1>1. Init => Pool!PoolInit
  <2> SUFFICES ASSUME Init PROVE Pool!PoolInit
    OBVIOUS
  <2>1. Slotted = {} /\ Confirmed = {} /\ orphaned = {}
    BY DEF Init, Idle, Slotted, Confirmed
  <2>2. maxAllowed \in [Days -> Limits \cup {NoLimit}]
    BY DEF Init
  <2> QED
    BY <2>1, <2>2 DEF Pool!PoolInit, Publications
<1>2. Settled /\ Settled' /\ Counted /\ Capped /\ [Next]_vars
        => [Pool!PoolNext]_(Pool!poolVars) /\ Counted' /\ Capped'
  BY PoolStep, NextSlots, CountKept DEF Settled
<1> QED
  BY <1>1, <1>2, InitCounted, AlwaysSettled, PTL DEF Spec, ImplementsSlotPool, Pool!PoolSpec

-------------------------------------------------------------------------------
(* A skip is heeded *)

InBatch == {"posts", "batch", "loaded"} \cup Handling

\* A product that is refused since before a batch is never taken for another by
\* it: neither from the table nor from the session; and what it publishes is not
\* such a product.
Heeds(w) ==
  proc[w].at \in InBatch =>
    /\ \A r \in Products : product[r] # "SKIPPED" => r \in shown[w]
    /\ proc[w].seen # NoKey /\ proc[w].seen[2] # "SKIPPED" => proc[w].seen[1] \in shown[w]
    /\ proc[w].at \in {"calling", "live"} => proc[w].key[1] \in shown[w]

Heeded == \A w \in Procs : Heeds(w)

\* What a step of w on to q must show.
LEMMA MoveHeeded ==
  ASSUME Types, Heeded, NEW w \in Procs, NEW q, Goto(w, q), UNCHANGED <<product, shown>>,
         q.at \in InBatch => proc[w].at \in InBatch,
         \/ q.seen = proc[w].seen \/ q.seen = NoKey
         \/ \E r \in Products : q.seen = <<r, product[r]>>,
         q.at \in {"calling", "live"} => q.key[1] \in shown[w]
  PROVE  Heeded'
<1>1. proc'[w] = q /\ \A v \in Procs : v # w => proc'[v] = proc[v]
  BY DEF Goto, Types
<1>2. Heeds(w)'
  BY <1>1 DEF Heeded, Heeds
<1>3. \A v \in Procs : v # w => Heeds(v)'
  BY <1>1 DEF Heeded, Heeds
<1> QED
  BY <1>2, <1>3 DEF Heeded

\* Publishing keeps it: a story goes out only if its product is not refused.
LEMMA PublishHeeded ==
  ASSUME Settled, Heeded, NEW w \in Procs, Publish(w)
  PROVE  Heeded'
<1> USE DEF rows, limits, past, vars
<1> DEFINE p == proc[w]
<1>0. Types /\ Placed /\ p \in ProcType /\ Loaded(p)
  BY DEF Settled, Types, Placed
<1>i. Idle.at \notin InBatch /\ Idle.seen = NoKey /\ Idle.at = "idle"
  BY DEF Idle, InBatch, Handling
<1>a. ASSUME NEW x \in ProcType, Goto(w, Advance(x)), UNCHANGED <<product, shown>>, p.at \in InBatch,
             x.seen = p.seen \/ x.seen = NoKey \/ \E r \in Products : x.seen = <<r, product[r]>>
      PROVE  Heeded'
  <2> DEFINE q == Advance(x)
  <2>1. q.at \in {"idle", "batch"} /\ (q.seen = NoKey \/ q.seen = x.seen)
    BY AdvanceTyped
  <2>2. Goto(w, q)
    BY <1>a
  <2> HIDE DEF q
  <2> QED
    BY <1>0, <1>a, <2>1, <2>2, MoveHeeded
<1>2. CASE DealWithPosts(w)
  <2>1. p.at \in InBatch /\ UNCHANGED <<product, shown>>
    BY <1>2 DEF DealWithPosts, InBatch
  <2>2. CASE Goto(w, Advance(p))
    BY <1>0, <1>a, <2>1, <2>2
  <2>3. ASSUME NEW r \in Products, Goto(w, Advance([p EXCEPT !.seen = <<r, product[r]>>]))
        PROVE  Heeded'
    <3> DEFINE x == [p EXCEPT !.seen = <<r, product[r]>>]
    <3>1. <<r, product[r]>> \in Products \X ProductStatus
      BY <1>0 DEF Types
    <3>2. x \in ProcType /\ x.seen = <<r, product[r]>>
      BY <1>0, <3>1 DEF ProcType
    <3>3. Goto(w, Advance(x))
      BY <2>3
    <3> HIDE DEF x
    <3> QED
      BY <1>a, <2>1, <3>2, <3>3
  <2> QED
    BY <1>2, <2>2, <2>3 DEF DealWithPosts
<1>3. CASE PassOver(w)
  <2> DEFINE x == [p EXCEPT !.todo = @ \ {FirstStory(p.todo)}]
  <2>1. x \in ProcType /\ x.seen = p.seen
    BY <1>0 DEF ProcType
  <2>2. Goto(w, Advance(x)) /\ UNCHANGED <<product, shown>> /\ p.at \in InBatch
    BY <1>3 DEF PassOver, InBatch
  <2> HIDE DEF x
  <2> QED
    BY <1>a, <2>1, <2>2
<1>4. CASE Load(w)
  <2> DEFINE k == FirstStory(p.todo)
             x == [p EXCEPT !.at = "loaded", !.key = k, !.todo = @ \ {k}, !.attempts = attempts[k]]
  <2>1. x.at = "loaded" /\ x.seen = p.seen
    BY <1>0 DEF ProcType
  <2>2. Goto(w, x) /\ UNCHANGED <<product, shown>> /\ p.at \in InBatch
    BY <1>4 DEF Load, InBatch
  <2> HIDE DEF x
  <2> QED
    BY <1>0, <2>1, <2>2, MoveHeeded
<1>5. CASE ClaimStory(w)
  <2>1. p.at \in InBatch /\ UNCHANGED <<product, shown>>
    BY <1>5 DEF ClaimStory, InBatch
  <2>2. CASE Goto(w, [p EXCEPT !.at = "claimed"])
    <3> DEFINE x == [p EXCEPT !.at = "claimed"]
    <3>1. x.at = "claimed" /\ x.seen = p.seen /\ Goto(w, x)
      BY <1>0, <2>2 DEF ProcType
    <3> HIDE DEF x
    <3> QED
      BY <1>0, <2>1, <3>1, MoveHeeded
  <2>3. CASE Goto(w, Advance([p EXCEPT !.seen = NoKey]))
    <3> DEFINE x == [p EXCEPT !.seen = NoKey]
    <3>1. x \in ProcType /\ x.seen = NoKey /\ Goto(w, Advance(x))
      BY <1>0, <2>3 DEF ProcType
    <3> HIDE DEF x
    <3> QED
      BY <1>a, <2>1, <3>1
  <2> QED
    BY <1>5, <2>2, <2>3 DEF ClaimStory
<1>6. CASE Refuse(w) \/ RecordFailure(w) \/ ConfirmStory(w)
  <2>1. p.at \in InBatch /\ Goto(w, Advance(p)) /\ UNCHANGED <<product, shown>>
    BY <1>6 DEF Refuse, RecordFailure, ConfirmStory, RecordStory, InBatch, Handling
  <2> QED
    BY <1>0, <1>a, <2>1
<1>7. CASE ReserveStory(w)
  <2> DEFINE x == [p EXCEPT !.at = "calling", !.slot = TRUE]
  <2>1. x.at = "calling" /\ x.seen = p.seen /\ x.key = p.key
    BY <1>0 DEF ProcType
  <2>2. Goto(w, x) /\ UNCHANGED <<product, shown>> /\ p.at = "claimed" /\ StatusFor(p) # "SKIPPED"
    BY <1>7 DEF ReserveStory, Unsafe
  <2>3. p.at \in InBatch
    BY <2>2 DEF InBatch, Handling
  <2>4. p.key[1] \in shown[w]
    <3>1. p.key \in Keys
      BY <1>0, <2>2 DEF Loaded, Handling
    <3>2. p.key[1] \in Products
      BY <3>1, KeyNumbers
    <3> QED
      BY <2>2, <2>3, <3>2 DEF Heeded, Heeds, StatusFor
  <2> HIDE DEF x
  <2> QED
    BY <1>0, <2>1, <2>2, <2>3, <2>4, MoveHeeded
<1>8. CASE MeetFullDay(w)
  BY <1>0, <1>8, <1>i, MoveHeeded DEF MeetFullDay
<1>9. CASE GoesLive(w)
  <2> DEFINE x == [p EXCEPT !.at = "live"]
  <2>1. x.at = "live" /\ x.seen = p.seen /\ x.key = p.key
    BY <1>0 DEF ProcType
  <2>2. Goto(w, x) /\ UNCHANGED <<product, shown>> /\ p.at = "calling" /\ p.at \in InBatch
    BY <1>9 DEF GoesLive, InBatch, Handling
  <2>3. p.key[1] \in shown[w]
    BY <2>2 DEF Heeded, Heeds
  <2> HIDE DEF x
  <2> QED
    BY <1>0, <2>1, <2>2, <2>3, MoveHeeded
<1>10. CASE ReleaseStory(w)
  <2>1. PICK t \in BOOLEAN : Goto(w, [p EXCEPT !.at = "failed", !.slot = FALSE, !.transient = t])
    BY <1>10 DEF ReleaseStory
  <2> DEFINE x == [p EXCEPT !.at = "failed", !.slot = FALSE, !.transient = t]
  <2>2. x.at = "failed" /\ x.seen = p.seen /\ Goto(w, x)
    BY <1>0, <2>1 DEF ProcType
  <2>3. UNCHANGED <<product, shown>> /\ p.at \in InBatch
    BY <1>10 DEF ReleaseStory, InBatch, Handling
  <2> HIDE DEF x
  <2> QED
    BY <1>0, <2>2, <2>3, MoveHeeded
<1> QED
  BY <1>2, <1>3, <1>4, <1>5, <1>6, <1>7, <1>8, <1>9, <1>10 DEF Publish

LEMMA HeededStep == Settled /\ Heeded /\ [Next]_vars => Heeded'
<1> SUFFICES ASSUME Settled, Heeded, [Next]_vars PROVE Heeded'
  OBVIOUS
<1> USE DEF rows, limits, past, vars
<1>0. Types /\ Worker \in Procs
  BY DEF Settled, Procs
<1>i. /\ Idle.at = "idle" /\ Idle.seen = NoKey /\ "idle" \notin InBatch /\ "create" \notin InBatch
      /\ "start" \notin InBatch
  BY DEF Idle, InBatch, Handling
<1>g. ASSUME NEW w \in Procs, NEW q, Goto(w, q)
      PROVE  proc'[w] = q /\ \A v \in Procs : v # w => proc'[v] = proc[v]
  BY <1>0, <1>g DEF Goto, Types
\* Steps out of a batch.
<1>1. ASSUME NEW w \in Procs, NEW q, Goto(w, q), q.at \notin InBatch, UNCHANGED <<product, shown>>
      PROVE  Heeded'
  BY <1>1, <1>g DEF Heeded, Heeds
<1>2. ASSUME UNCHANGED <<product, shown, proc>> PROVE Heeded'
  BY <1>2 DEF Heeded, Heeds
<1>3. ASSUME NEW w \in Procs, Publish(w) PROVE Heeded'
  BY <1>3, PublishHeeded
<1>4. CASE Create
  <2> DEFINE q == proc'[Worker]
             p == proc[Worker]
  <2>1. p \in ProcType
    BY <1>0 DEF Types
  <2>2. q.at \in {"start", "create"} /\ Goto(Worker, q) /\ UNCHANGED <<product, shown>>
    <3>1. CASE StartCycle
      <4>1. [Idle EXCEPT !.at = "start"].at = "start"
        BY DEF Idle
      <4> QED
        BY <1>0, <1>g, <3>1, <4>1 DEF StartCycle
    <3>2. CASE ReadProducts
      <4> DEFINE d == DayOf(clock)
                 n == Remaining(d)
                 l == {r \in Products : product[r] \in Showable}
                 x == [p EXCEPT !.at = "create", !.day = d, !.room = n, !.list = l]
      <4>1. Goto(Worker, x) /\ UNCHANGED <<product, shown>>
        BY <3>2 DEF ReadProducts
      <4> HIDE DEF d, n, l
      <4>2. x.at = "create"
        BY <2>1 DEF ProcType
      <4> HIDE DEF x
      <4> QED
        BY <1>0, <1>g, <4>1, <4>2
    <3>3. CASE CreateNext
      <4> DEFINE r == Min(p.list)
                 made == [p EXCEPT !.room = @ - 1, !.list = @ \ {r}]
                 passed == [p EXCEPT !.list = @ \ {r}]
      <4>1. (Goto(Worker, made) \/ Goto(Worker, passed)) /\ UNCHANGED <<product, shown>> /\ p.at = "create"
        BY <3>3 DEF CreateNext
      <4> HIDE DEF r
      <4>2. made.at = "create" /\ passed.at = "create"
        BY <2>1, <4>1 DEF ProcType
      <4> HIDE DEF made, passed
      <4> QED
        BY <1>0, <1>g, <4>1, <4>2
    <3> QED
      BY <1>4, <3>1, <3>2, <3>3 DEF Create
  <2> HIDE DEF q
  <2> QED
    BY <1>0, <1>1, <1>i, <2>2
<1>5. CASE Review
  BY <1>0, <1>1, <1>5, <1>i DEF Review
<1>6. ASSUME NEW w \in Procs, Killed(w) PROVE Heeded'
  BY <1>1, <1>6, <1>i DEF Killed
<1>7. ASSUME NEW w \in Procs, StartBatch(w) PROVE Heeded'
  <2> DEFINE q == [Idle EXCEPT !.at = "posts", !.todo = DueStories]
  <2>1. q.at = "posts" /\ q.seen = NoKey
    BY DEF Idle
  <2>2. /\ Goto(w, q) /\ product' = product
        /\ shown' = [shown EXCEPT ![w] = {r \in Products : product[r] # "SKIPPED"}]
    BY <1>7 DEF StartBatch
  <2> HIDE DEF q
  <2>3. /\ shown'[w] = {r \in Products : product[r] # "SKIPPED"}
        /\ \A v \in Procs : v # w => shown'[v] = shown[v]
    BY <1>0, <2>2 DEF Types
  <2>4. Heeds(w)'
    BY <1>g, <2>1, <2>2, <2>3 DEF Heeds
  <2>5. \A v \in Procs : v # w => Heeds(v)'
    BY <1>g, <2>2, <2>3 DEF Heeded, Heeds
  <2> QED
    BY <2>4, <2>5 DEF Heeded
<1>8. ASSUME NEW r \in Products, NEW s \in ProductStatus, ChangeProduct(r, s) PROVE Heeded'
  <2>1. /\ product' = [product EXCEPT ![r] = s] /\ proc' = proc
        /\ shown' = [w \in Procs |-> IF s = "SKIPPED" THEN shown[w] ELSE shown[w] \cup {r}]
    BY <1>8 DEF ChangeProduct
  <2>2. \A w \in Procs : shown[w] \subseteq shown'[w] /\ (s # "SKIPPED" => r \in shown'[w])
    BY <2>1
  <2>3. \A t \in Products : product'[t] # "SKIPPED" => product[t] # "SKIPPED" \/ (t = r /\ s # "SKIPPED")
    BY <1>0, <2>1 DEF Types
  <2>4. ASSUME NEW w \in Procs PROVE Heeds(w)'
    BY <2>1, <2>2, <2>3 DEF Heeded, Heeds
  <2> QED
    BY <2>4 DEF Heeded
<1>9. CASE Tick \/ \E r \in Products : PurgeMedia(r)
  BY <1>2, <1>9 DEF Tick, PurgeMedia
<1>10. CASE \E n \in Limits : SetStoryLimit(n)
  BY <1>2, <1>10 DEF SetStoryLimit
<1>11. CASE UNCHANGED vars
  BY <1>2, <1>11
<1> QED
  BY <1>3, <1>4, <1>5, <1>6, <1>7, <1>8, <1>9, <1>10, <1>11 DEF Next

\* A product that was skipped before a batch began, and stayed so, has no story
\* published by that batch, even if the session still holds an older status.
THEOREM SkipsAreHeeded == Spec => SkipIsHeeded
<1>1. Init => Heeded
  <2> SUFFICES ASSUME Init PROVE Heeded
    OBVIOUS
  <2>1. \A w \in Procs : proc[w].at \notin InBatch
    BY DEF Init, Idle, InBatch, Handling
  <2> QED
    BY <2>1 DEF Heeded, Heeds
<1>2. Heeded => [\A w \in Procs :
        proc[w].at = "calling" /\ proc'[w].at = "live" => proc[w].key[1] \in shown[w]]_vars
  BY DEF Heeded, Heeds, InBatch, Handling
<1> QED
  BY <1>1, <1>2, HeededStep, AlwaysSettled, PTL DEF Spec, SkipIsHeeded
===============================================================================
