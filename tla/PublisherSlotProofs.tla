-------------------------- MODULE PublisherSlotProofs --------------------------
(***************************************************************************)
(* The daily limit: published_count is the number of the owners of a slot, *)
(* the maximum holds, and Publisher implements SlotPool.                   *)
(*                                                                         *)
(* A slot has an owner from the UPDATE of reserve_slot on; who owns one is *)
(* changed by Reserve, Release, Confirm and Crash only.  The proofs rest   *)
(* on Ownership: a counter can stand for a set because no post enters the  *)
(* set twice, that is, because a row is never held by two processes and    *)
(* never held again once it is confirmed or abandoned.                     *)
(***************************************************************************)
EXTENDS PublisherProofs

\* The posts under way that own a slot.
Holders == {p \in Posts : \E a \in Actors : OwnsSlot(a) /\ cur[a] = p}

\* published_count stays below the largest maximum there has been.
Capped ==
  \A b \in Buckets : published[b] <= peak[b] /\ maxAllowed[b] <= peak[b]

\* The owners of a slot, by how they own it.
LEMMA SlotOwnersAre ==
  \A b \in Buckets :
    /\ SlotOwners(b) = PostsIn(b) \cap (ledger \cup orphaned \cup Holders)
    /\ SlotOwners(b)' = PostsIn(b) \cap (ledger' \cup orphaned' \cup Holders')
BY DEF SlotOwners, PostsIn, Holders

\* They are finitely many.
LEMMA FiniteOwners == \A b \in Buckets : IsFiniteSet(SlotOwners(b))
<1>1. \A b \in Buckets : SlotOwners(b) \subseteq Posts
  BY DEF SlotOwners, PostsIn
<1> QED
  BY <1>1, FS_Subset, ConstantsAssumption

\* A process holds one row at most, and a row one process: when a process
\* stops owning a slot, its row stops being held, and no other does.
LEMMA HolderLeaves ==
  ASSUME TypeOK, Ownership, NEW a \in Actors, OwnsSlot(a),
         \A c \in Actors : OwnsSlot(c)' <=> OwnsSlot(c) /\ c # a,
         \A c \in Actors : OwnsSlot(c)' => cur'[c] = cur[c]
  PROVE  Holders' = Holders \ {cur[a]} /\ cur[a] \in Holders
<1>1. Claimed(a) /\ cur[a] \in Posts
  BY DEF OwnsSlot, Claimed, TypeOK
<1>2. \A c \in Actors : OwnsSlot(c)' => cur[c] # cur[a]
  BY <1>1 DEF OwnsSlot, Claimed, Ownership, ClaimExclusive
<1> QED
  BY <1>1, <1>2 DEF Holders

\* Steps that leave every slot with its owner.
LEMMA SameSlots ==
  ASSUME UNCHANGED <<published, ledger, orphaned>>, Holders' = Holders
  PROVE  SlotsAccounted => SlotsAccounted'
BY SlotOwnersAre DEF SlotsAccounted

\* reserve_slot: the row owned nothing, so the set and the counter grow by one.
LEMMA ReserveSlot ==
  ASSUME TypeOK, Ownership, NEW a \in Actors, Reserve(a)
  PROVE  /\ ~ HasRoom(BucketOf[cur[a]]) => Holders' = Holders /\ published' = published
         /\ HasRoom(BucketOf[cur[a]]) =>
              /\ Holders' = Holders \cup {cur[a]}
              /\ cur[a] \notin Holders
              /\ published' = [published EXCEPT ![BucketOf[cur[a]]] = @ + 1]
         /\ cur[a] \in Posts /\ cur[a] \notin ledger \cup orphaned
         /\ UNCHANGED <<ledger, orphaned, cur>>
<1>1. /\ Claimed(a) /\ cur[a] \in Posts /\ ~ OwnsSlot(a)
      /\ pc \in [Actors -> Labels]
      /\ UNCHANGED <<ledger, orphaned, cur>>
  BY DEF Reserve, Claimed, OwnsSlot, TypeOK, rowVars, pastVars
<1>2. cur[a] \notin ledger \cup orphaned
  BY <1>1 DEF Ownership
<1>3. cur[a] \notin Holders
  BY <1>1 DEF Holders, OwnsSlot, Claimed, Ownership, ClaimExclusive
<1>4. CASE HasRoom(BucketOf[cur[a]])
  <2>1. \A c \in Actors : OwnsSlot(c)' <=> OwnsSlot(c) \/ c = a
    BY <1>1, <1>4 DEF Reserve, OwnsSlot, Goto
  <2> QED
    BY <1>1, <1>2, <1>3, <1>4, <2>1 DEF Reserve, Holders
<1>5. CASE ~ HasRoom(BucketOf[cur[a]])
  <2>1. \A c \in Actors : OwnsSlot(c)' <=> OwnsSlot(c)
    BY <1>1, <1>5 DEF Reserve, OwnsSlot, Goto
  <2> QED
    BY <1>1, <1>2, <1>3, <1>5, <2>1 DEF Reserve, Holders
<1> QED
  BY <1>4, <1>5

\* release_slot: the row stops holding its slot.
LEMMA ReleaseSlot ==
  ASSUME TypeOK, Ownership, NEW a \in Actors, Release(a)
  PROVE  /\ Holders' = Holders \ {cur[a]} /\ cur[a] \in Holders
         /\ cur[a] \in Posts /\ cur[a] \notin ledger \cup orphaned
         /\ UNCHANGED <<ledger, orphaned>>
<1>1. /\ Claimed(a) /\ OwnsSlot(a) /\ cur[a] \in Posts
      /\ pc \in [Actors -> Labels] /\ pc' = [pc EXCEPT ![a] = "record"]
      /\ UNCHANGED <<ledger, orphaned, cur>>
  BY DEF Release, Claimed, OwnsSlot, TypeOK, rowVars, pastVars, Goto
<1>2. \A c \in Actors : OwnsSlot(c)' <=> OwnsSlot(c) /\ c # a
  BY <1>1 DEF OwnsSlot
<1> QED
  BY <1>1, <1>2, HolderLeaves DEF Ownership

\* The confirmation: the slot passes from the holder to the ledger.
LEMMA ConfirmSlot ==
  ASSUME TypeOK, Ownership, NEW a \in Actors, Confirm(a)
  PROVE  /\ Holders' = Holders \ {cur[a]} /\ cur[a] \in Holders
         /\ ledger' = ledger \cup {cur[a]}
         /\ UNCHANGED <<orphaned, published>>
<1>1. /\ Claimed(a) /\ OwnsSlot(a) /\ cur[a] \in Posts
      /\ pc \in [Actors -> Labels] /\ pc' = [pc EXCEPT ![a] = "idle"]
      /\ cur \in [Actors -> Posts \cup {NoPost}] /\ cur' = [cur EXCEPT ![a] = NoPost]
      /\ UNCHANGED <<orphaned, published>>
  BY DEF Confirm, Return, Claimed, OwnsSlot, TypeOK, limitVars, pastVars, Goto
<1>2. /\ \A c \in Actors : OwnsSlot(c)' <=> OwnsSlot(c) /\ c # a
      /\ \A c \in Actors : OwnsSlot(c)' => cur'[c] = cur[c]
  BY <1>1 DEF OwnsSlot
<1>3. cur[a] \notin ledger
  BY <1>1 DEF Ownership
<1> QED
  BY <1>1, <1>2, <1>3, HolderLeaves DEF Confirm

\* A killed process leaves its slot to the orphaned ones.
LEMMA CrashSlot ==
  ASSUME TypeOK, Ownership, NEW a \in Actors, Crash(a)
  PROVE  /\ OwnsSlot(a) => /\ Holders' = Holders \ {cur[a]} /\ cur[a] \in Holders
                           /\ orphaned' = orphaned \cup {cur[a]}
         /\ ~ OwnsSlot(a) => Holders' = Holders /\ orphaned' = orphaned
         /\ UNCHANGED <<ledger, published, maxAllowed>>
<1>1. /\ pc \in [Actors -> Labels] /\ pc' = [pc EXCEPT ![a] = "idle"]
      /\ cur \in [Actors -> Posts \cup {NoPost}] /\ cur' = [cur EXCEPT ![a] = NoPost]
      /\ orphaned' = IF OwnsSlot(a) THEN orphaned \cup {cur[a]} ELSE orphaned
      /\ UNCHANGED <<ledger, published, maxAllowed>>
  BY DEF Crash, Return, TypeOK, limitVars, rowVars, Goto
<1>2. /\ \A c \in Actors : OwnsSlot(c)' <=> OwnsSlot(c) /\ c # a
      /\ \A c \in Actors : OwnsSlot(c)' => cur'[c] = cur[c]
  BY <1>1 DEF OwnsSlot
<1>3. CASE OwnsSlot(a)
  BY <1>1, <1>2, <1>3, HolderLeaves
<1>4. CASE ~ OwnsSlot(a)
  BY <1>1, <1>2, <1>4 DEF Holders
<1> QED
  BY <1>3, <1>4

\* All other steps: the slots, the ledger and the maxima are left alone, but
\* for a new maximum set by the owner.
OtherStep ==
  /\ Holders' = Holders
  /\ UNCHANGED <<published, ledger, orphaned>>
  /\ \/ UNCHANGED <<maxAllowed, peak>>
     \/ \E b \in Buckets, n \in Limits : SetLimit(b, n)

\* A step of the system is one of the four that move slots, or another.
LEMMA SlotSteps ==
  ASSUME TypeOK, [Next]_vars
  PROVE  \/ \E a \in Actors : Reserve(a) \/ Release(a) \/ Confirm(a) \/ Crash(a)
         \/ OtherStep
<1> USE DEF rowVars, limitVars, procVars, pastVars, Goto, OwnsSlot
<1>t. pc \in [Actors -> Labels] /\ cur \in [Actors -> Posts \cup {NoPost}]
  BY DEF TypeOK
<1>h. ASSUME \A c \in Actors : OwnsSlot(c)' <=> OwnsSlot(c),
             \A c \in Actors : OwnsSlot(c) => cur'[c] = cur[c]
      PROVE  Holders' = Holders
  BY <1>h DEF Holders
<1>1. ASSUME NEW w \in Workers, StartBatch(w) PROVE OtherStep
  BY <1>1 DEF StartBatch, OtherStep, Holders
<1>2. ASSUME NEW w \in Workers, NEW p \in Posts, PassOver(w, p) PROVE OtherStep
  BY <1>2 DEF PassOver, OtherStep, Holders
<1>3. ASSUME NEW w \in Workers, NEW p \in Posts, Load(w, p) PROVE OtherStep
  BY <1>3, <1>t, <1>h DEF Load, OtherStep
<1>4. ASSUME NEW a \in Actors, Claim(a) PROVE OtherStep
  BY <1>4, <1>t, <1>h DEF Claim, Return, OtherStep
<1>5. ASSUME NEW a \in Actors, Prepare(a) PROVE OtherStep
  BY <1>5, <1>t, <1>h DEF Prepare, OtherStep
<1>6. ASSUME NEW a \in Actors, Revert(a) PROVE OtherStep
  BY <1>6, <1>t, <1>h DEF Revert, Return, Abort, OtherStep
<1>7. ASSUME NEW a \in Actors, GoesLive(a) PROVE OtherStep
  BY <1>7, <1>t, <1>h DEF GoesLive, OtherStep
<1>8. ASSUME NEW a \in Actors, Record(a) PROVE OtherStep
  BY <1>8, <1>t, <1>h DEF Record, Return, Abort, OtherStep
<1>9. ASSUME NEW a \in Actors, NEW t \in BOOLEAN, CallFails(a, t) PROVE OtherStep
  BY <1>9, <1>t, <1>h DEF CallFails, OtherStep
<1>10. ASSUME NEW a \in Actors, NEW t \in BOOLEAN, AnswerLost(a, t) PROVE OtherStep
  BY <1>10, <1>t, <1>h DEF AnswerLost, OtherStep
<1>11. ASSUME Operate PROVE OtherStep
  <2>1. ASSUME NEW p \in Posts, BeginInsert(p) PROVE OtherStep
    BY <2>1, <1>t, <1>h DEF BeginInsert, DashboardFree, OtherStep
  <2>2. ASSUME NEW r \in Products, BeginSkip(r) PROVE OtherStep
    BY <2>2, <1>t, <1>h DEF BeginSkip, DashboardFree, OtherStep
  <2>3. ASSUME NEW r \in Products, BeginRetry(r) PROVE OtherStep
    BY <2>3, <1>t, <1>h DEF BeginRetry, DashboardFree, OtherStep
  <2>4. ASSUME SkipSelect PROVE OtherStep
    BY <2>4, <1>t, <1>h DEF SkipSelect, OtherStep
  <2>5. ASSUME SkipWrite PROVE OtherStep
    BY <2>5, <1>t, <1>h DEF SkipWrite, OtherStep
  <2>6. ASSUME RetryWrite PROVE OtherStep
    BY <2>6, <1>t, <1>h DEF RetryWrite, OtherStep
  <2>7. ASSUME NEW b \in Buckets, NEW n \in Limits, SetLimit(b, n) PROVE OtherStep
    BY <2>7, <1>h DEF SetLimit, OtherStep
  <2>8. ASSUME NEW m \in {"REVIEW", "AUTO"}, SetMode(m) PROVE OtherStep
    BY <2>8, <1>h DEF SetMode, OtherStep
  <2>9. ASSUME Insert PROVE OtherStep
    BY <2>9, <1>t, <1>h DEF Insert, OtherStep
  <2>10. ASSUME SelectPost PROVE OtherStep
    BY <2>10, <1>t, <1>h DEF SelectPost, OtherStep
  <2> QED
    BY <1>11, <2>1, <2>2, <2>3, <2>4, <2>5, <2>6, <2>7, <2>8, <2>9, <2>10
       DEF Operate
<1>12. ASSUME NEW p \in Posts, BackoffElapses(p) PROVE OtherStep
  BY <1>12, <1>h DEF BackoffElapses, OtherStep
<1>13. CASE UNCHANGED vars
  BY <1>13, <1>h DEF vars, OtherStep
<1> QED
  BY <1>1, <1>2, <1>3, <1>4, <1>5, <1>6, <1>7, <1>8, <1>9, <1>10, <1>11, <1>12, <1>13
     DEF Next, Drain, Publish

-------------------------------------------------------------------------------
(* The counter is exact, and the maximum holds *)

\* No slot is in use at the start.
LEMMA InitSlots == Init => SlotsAccounted /\ Capped
<1> SUFFICES ASSUME Init PROVE SlotsAccounted /\ Capped
  OBVIOUS
<1>1. \A b \in Buckets : SlotOwners(b) = {}
  BY DEF Init, SlotOwners, OwnsSlot
<1>2. \A b \in Buckets : published[b] = 0 /\ peak[b] = maxAllowed[b] /\ maxAllowed[b] \in Nat
  BY ConstantsAssumption DEF Init
<1> QED
  BY <1>1, <1>2, FS_EmptySet DEF SlotsAccounted, Capped

\* Every step keeps the counter equal to the number of owners.
LEMMA NextSlots == TypeOK /\ Ownership /\ SlotsAccounted /\ [Next]_vars => SlotsAccounted'
<1> SUFFICES ASSUME TypeOK, Ownership, SlotsAccounted, [Next]_vars PROVE SlotsAccounted'
  OBVIOUS
<1>t. published \in [Buckets -> Nat]
  BY DEF TypeOK
<1>1. ASSUME NEW a \in Actors, Reserve(a) PROVE SlotsAccounted'
  <2>1. CASE ~ HasRoom(BucketOf[cur[a]])
    BY <1>1, <2>1, ReserveSlot, SameSlots
  <2>2. CASE HasRoom(BucketOf[cur[a]])
    <3> SUFFICES ASSUME NEW b \in Buckets PROVE published'[b] = Cardinality(SlotOwners(b)')
      BY DEF SlotsAccounted
    <3>1. /\ Holders' = Holders \cup {cur[a]}
          /\ cur[a] \notin Holders \cup ledger \cup orphaned /\ cur[a] \in Posts
          /\ published' = [published EXCEPT ![BucketOf[cur[a]]] = @ + 1]
          /\ UNCHANGED <<ledger, orphaned>>
      BY <1>1, <2>2, ReserveSlot
    <3>2. CASE BucketOf[cur[a]] = b
      <4>1. SlotOwners(b)' = SlotOwners(b) \cup {cur[a]} /\ cur[a] \notin SlotOwners(b)
        BY <3>1, <3>2, SlotOwnersAre DEF PostsIn
      <4>2. Cardinality(SlotOwners(b)') = Cardinality(SlotOwners(b)) + 1
        BY <4>1, FiniteOwners, FS_AddElement
      <4> QED
        BY <3>1, <3>2, <4>2, <1>t DEF SlotsAccounted
    <3>3. CASE BucketOf[cur[a]] # b
      <4>1. SlotOwners(b)' = SlotOwners(b)
        BY <3>1, <3>3, SlotOwnersAre DEF PostsIn
      <4> QED
        BY <3>1, <3>3, <4>1, <1>t DEF SlotsAccounted
    <3> QED
      BY <3>2, <3>3
  <2> QED
    BY <2>1, <2>2
<1>2. ASSUME NEW a \in Actors, Release(a) PROVE SlotsAccounted'
  <2> SUFFICES ASSUME NEW b \in Buckets PROVE published'[b] = Cardinality(SlotOwners(b)')
    BY DEF SlotsAccounted
  <2>1. /\ Holders' = Holders \ {cur[a]} /\ cur[a] \in Holders
        /\ cur[a] \in Posts /\ cur[a] \notin ledger \cup orphaned
        /\ UNCHANGED <<ledger, orphaned>>
    BY <1>2, ReleaseSlot
  <2>2. published' = [published EXCEPT ![BucketOf[cur[a]]] = SlotsAfterRelease(@)]
    BY <1>2 DEF Release
  <2>3. CASE BucketOf[cur[a]] = b
    <3>1. SlotOwners(b)' = SlotOwners(b) \ {cur[a]} /\ cur[a] \in SlotOwners(b)
      BY <2>1, <2>3, SlotOwnersAre DEF PostsIn
    <3>2. /\ Cardinality(SlotOwners(b)') = Cardinality(SlotOwners(b)) - 1
          /\ Cardinality(SlotOwners(b)') \in Nat
      BY <3>1, FiniteOwners, FS_RemoveElement, FS_CardinalityType
    <3>3. published'[b] = published[b] - 1
      BY <2>2, <2>3, <3>2, <1>t DEF SlotsAfterRelease, SlotsAccounted
    <3> QED
      BY <3>2, <3>3 DEF SlotsAccounted
  <2>4. CASE BucketOf[cur[a]] # b
    <3>0. cur[a] \notin PostsIn(b)
      BY <2>4 DEF PostsIn
    <3>1. SlotOwners(b)' = SlotOwners(b)
      <4>1. PostsIn(b) \cap (ledger' \cup orphaned' \cup Holders')
              = PostsIn(b) \cap (ledger \cup orphaned \cup Holders)
        BY <2>1, <3>0
      <4> QED
        BY <4>1, SlotOwnersAre
    <3>2. published'[b] = published[b]
      BY <2>2, <2>4, <1>t
    <3> QED
      BY <3>1, <3>2 DEF SlotsAccounted
  <2> QED
    BY <2>3, <2>4
<1>3. ASSUME NEW a \in Actors, Confirm(a) PROVE SlotsAccounted'
  <2>1. \A b \in Buckets : SlotOwners(b)' = SlotOwners(b)
    BY <1>3, ConfirmSlot, SlotOwnersAre
  <2> QED
    BY <1>3, <2>1, ConfirmSlot DEF SlotsAccounted
<1>4. ASSUME NEW a \in Actors, Crash(a) PROVE SlotsAccounted'
  <2>1. \A b \in Buckets : SlotOwners(b)' = SlotOwners(b)
    BY <1>4, CrashSlot, SlotOwnersAre
  <2> QED
    BY <1>4, <2>1, CrashSlot DEF SlotsAccounted
<1>5. CASE OtherStep
  BY <1>5, SameSlots DEF OtherStep
<1> QED
  BY <1>1, <1>2, <1>3, <1>4, <1>5, SlotSteps

\* Every step keeps the counter below the largest maximum.
LEMMA NextCapped == TypeOK /\ Capped /\ [Next]_vars => Capped'
<1> SUFFICES ASSUME TypeOK, Capped, [Next]_vars PROVE Capped'
  OBVIOUS
<1>t. /\ published \in [Buckets -> Nat] /\ maxAllowed \in [Buckets -> Limits]
      /\ peak \in [Buckets -> Limits] /\ Limits \subseteq Nat
  BY ConstantsAssumption DEF TypeOK
<1>1. ASSUME NEW a \in Actors, Reserve(a) PROVE Capped'
  <2>1. UNCHANGED <<maxAllowed, peak>>
    BY <1>1 DEF Reserve
  <2>2. CASE HasRoom(BucketOf[cur[a]])
    <3>1. published' = [published EXCEPT ![BucketOf[cur[a]]] = @ + 1]
      BY <1>1, <2>2 DEF Reserve
    <3> SUFFICES ASSUME NEW b \in Buckets PROVE published'[b] <= peak[b]
      BY <2>1 DEF Capped
    <3>2. /\ published[b] \in Nat /\ maxAllowed[b] \in Nat /\ peak[b] \in Nat
          /\ published[b] <= peak[b] /\ maxAllowed[b] <= peak[b]
      BY <1>t DEF Capped
    <3>3. b = BucketOf[cur[a]] => published[b] < maxAllowed[b]
      BY <2>2 DEF HasRoom
    <3> QED
      BY <1>t, <3>1, <3>2, <3>3
  <2>3. CASE ~ HasRoom(BucketOf[cur[a]])
    BY <1>1, <2>1, <2>3 DEF Reserve, Capped
  <2> QED
    BY <2>2, <2>3
<1>2. ASSUME NEW a \in Actors, Release(a) PROVE Capped'
  <2> SUFFICES ASSUME NEW b \in Buckets PROVE published'[b] <= peak[b]
    BY <1>2 DEF Release, Capped
  <2>1. published' = [published EXCEPT ![BucketOf[cur[a]]] = SlotsAfterRelease(@)]
    BY <1>2 DEF Release
  <2>2. /\ published[b] \in Nat /\ peak[b] \in Nat
        /\ published[b] <= peak[b]
    BY <1>t DEF Capped
  <2>3. SlotsAfterRelease(published[b]) <= published[b]
    BY <2>2 DEF SlotsAfterRelease
  <2>4. SlotsAfterRelease(published[b]) \in Nat
    BY <2>2 DEF SlotsAfterRelease
  <2>5. published'[b] \in {published[b], SlotsAfterRelease(published[b])}
    BY <1>t, <2>1
  <2> QED
    BY <2>2, <2>3, <2>4, <2>5
<1>3. ASSUME NEW a \in Actors, Confirm(a) PROVE Capped'
  BY <1>3 DEF Confirm, Capped, limitVars
<1>4. ASSUME NEW a \in Actors, Crash(a) PROVE Capped'
  BY <1>4 DEF Crash, Capped, limitVars
<1>5. CASE OtherStep
  <2>1. CASE UNCHANGED <<maxAllowed, peak>>
    BY <1>5, <2>1 DEF OtherStep, Capped
  <2>2. ASSUME NEW b \in Buckets, NEW n \in Limits, SetLimit(b, n) PROVE Capped'
    <3> SUFFICES ASSUME NEW c \in Buckets
                 PROVE  published'[c] <= peak'[c] /\ maxAllowed'[c] <= peak'[c]
      BY DEF Capped
    <3>1. /\ published' = published
          /\ maxAllowed' = [maxAllowed EXCEPT ![b] = n]
          /\ peak' = [peak EXCEPT ![b] = IF n > @ THEN n ELSE @]
      BY <2>2 DEF SetLimit
    <3>2. /\ published[c] \in Nat /\ maxAllowed[c] \in Nat /\ peak[c] \in Nat /\ n \in Nat
          /\ published[c] <= peak[c] /\ maxAllowed[c] <= peak[c]
      BY <1>t DEF Capped
    <3>3. CASE c = b
      BY <1>t, <3>1, <3>2, <3>3
    <3>4. CASE c # b
      BY <1>t, <3>1, <3>2, <3>4
    <3> QED
      BY <3>3, <3>4
  <2> QED
    BY <1>5, <2>1, <2>2 DEF OtherStep
<1> QED
  BY <1>1, <1>2, <1>3, <1>4, <1>5, SlotSteps

\* The invariant the theorems below share.
SlotInv == TypeOK /\ Ownership /\ SlotsAccounted /\ Capped

\* It holds in every reachable state.
LEMMA AlwaysSlotInv == Spec => []SlotInv
<1>1. Init => SlotInv
  BY InitType, InitOwnership, InitSlots DEF SlotInv
<1>2. SlotInv /\ [Next]_vars => SlotInv'
  BY NextType, NextOwnership, NextSlots, NextCapped DEF SlotInv
<1> QED
  BY <1>1, <1>2, PTL DEF Spec

\* published_count is exact, whatever the interleaving and the crashes.
THEOREM CounterIsExact == Spec => []SlotsAccounted
BY AlwaysSlotInv, PTL DEF SlotInv

\* The confirmed posts of a day and type never exceed the largest maximum.
THEOREM LimitHolds == Spec => []WithinLimit
<1>1. SlotInv => WithinLimit
  <2> SUFFICES ASSUME SlotInv, NEW b \in Buckets
               PROVE  Cardinality(ledger \cap PostsIn(b)) <= peak[b]
    BY DEF WithinLimit
  <2>1. ledger \cap PostsIn(b) \subseteq SlotOwners(b)
    BY DEF SlotOwners
  <2>2. /\ Cardinality(ledger \cap PostsIn(b)) <= Cardinality(SlotOwners(b))
        /\ Cardinality(ledger \cap PostsIn(b)) \in Nat
    BY <2>1, FiniteOwners, FS_Subset, FS_CardinalityType
  <2>3. /\ Cardinality(SlotOwners(b)) = published[b] /\ published[b] <= peak[b]
        /\ published[b] \in Nat /\ peak[b] \in Nat
    BY ConstantsAssumption DEF SlotInv, SlotsAccounted, Capped, TypeOK
  <2> QED
    BY <2>2, <2>3
<1> QED
  BY <1>1, AlwaysSlotInv, PTL

-------------------------------------------------------------------------------
(* Publisher implements SlotPool *)

\* The instance counts with the Cardinality of FiniteSets.
LEMMA SameCardinality == \A S : Pool!Cardinality(S) = Cardinality(S)
BY DEF Pool!Cardinality, Cardinality

\* The slots of a row that the pool sees taken are the owners of the code.
LEMMA TakenAre == TypeOK => \A b \in Buckets : Pool!Taken(b) = SlotOwners(b)
<1>1. Pool!Owners = Holders \cup ledger \cup orphaned
  BY DEF Pool!Owners, Holders
<1>2. TypeOK => Holders \cup ledger \cup orphaned \subseteq Posts
  BY DEF TypeOK, Holders
<1> QED
  BY <1>1, <1>2, SlotOwnersAre DEF Pool!Taken, PostsIn

\* Every step of the code is a step of the pool, or leaves it alone.
LEMMA PoolStep == SlotInv /\ [Next]_vars => [Pool!PoolNext]_(Pool!poolVars)
<1> SUFFICES ASSUME SlotInv, [Next]_vars PROVE [Pool!PoolNext]_(Pool!poolVars)
  OBVIOUS
<1>i. TypeOK /\ Ownership /\ SlotsAccounted
  BY DEF SlotInv
<1>v. (UNCHANGED Pool!poolVars) <=> UNCHANGED <<maxAllowed, Holders, ledger, orphaned>>
  BY DEF Pool!poolVars, Holders
<1>1. ASSUME NEW a \in Actors, Reserve(a) PROVE [Pool!PoolNext]_(Pool!poolVars)
  <2>1. UNCHANGED <<maxAllowed, ledger, orphaned>> /\ cur[a] \in Posts
    BY <1>1, <1>i, ReserveSlot DEF Reserve
  <2>2. CASE ~ HasRoom(BucketOf[cur[a]])
    BY <1>1, <1>i, <1>v, <2>1, <2>2, ReserveSlot
  <2>3. CASE HasRoom(BucketOf[cur[a]])
    <3>1. BucketOf[cur[a]] \in Buckets
      BY <2>1, ConstantsAssumption
    <3>2. PICK p \in Posts : p = cur[a]
      BY <2>1
    <3>3. Cardinality(Pool!Taken(BucketOf[p])) < maxAllowed[BucketOf[p]]
      BY <1>i, <2>3, <3>1, <3>2, TakenAre DEF HasRoom, SlotsAccounted
    <3>4. /\ p \notin Holders \cup ledger \cup orphaned
          /\ Holders' = Holders \cup {p}
      BY <1>1, <1>i, <2>3, <3>2, ReserveSlot
    <3>5. Pool!TakeSlot(p)
      <4>1. p \notin Pool!Owners
        BY <3>4 DEF Pool!Owners, Holders
      <4>2. Holders' = Holders \cup {p} /\ UNCHANGED <<maxAllowed, ledger, orphaned>>
        BY <2>1, <3>4
      <4> QED
        BY <3>3, <4>1, <4>2, SameCardinality DEF Pool!TakeSlot, Holders
    <3> QED
      BY <3>5 DEF Pool!PoolNext
  <2> QED
    BY <2>2, <2>3
<1>2. ASSUME NEW a \in Actors, Release(a) PROVE [Pool!PoolNext]_(Pool!poolVars)
  <2>1. UNCHANGED maxAllowed
    BY <1>2 DEF Release
  <2>2. PICK p \in Posts : p = cur[a]
    BY <1>2, <1>i, ReleaseSlot
  <2>3. Pool!GiveBack(p)
    BY <1>2, <1>i, <2>1, <2>2, ReleaseSlot DEF Pool!GiveBack, Holders
  <2> QED
    BY <2>3 DEF Pool!PoolNext
<1>3. ASSUME NEW a \in Actors, Confirm(a) PROVE [Pool!PoolNext]_(Pool!poolVars)
  <2>1. UNCHANGED maxAllowed
    BY <1>3 DEF Confirm, limitVars
  <2>2. PICK p \in Posts : p = cur[a]
    BY <1>3, <1>i, ConfirmSlot DEF Holders
  <2>3. Pool!Keep(p)
    BY <1>3, <1>i, <2>1, <2>2, ConfirmSlot DEF Pool!Keep, Holders
  <2> QED
    BY <2>3 DEF Pool!PoolNext
<1>4. ASSUME NEW a \in Actors, Crash(a) PROVE [Pool!PoolNext]_(Pool!poolVars)
  <2>1. CASE OwnsSlot(a)
    <3>1. PICK p \in Posts : p = cur[a]
      BY <1>4, <1>i, <2>1, CrashSlot DEF Holders
    <3>2. Pool!Orphan(p)
      <4>1. UNCHANGED <<maxAllowed, ledger>> /\ p \in Holders
            /\ Holders' = Holders \ {p} /\ orphaned' = orphaned \cup {p}
        BY <1>4, <1>i, <2>1, <3>1, CrashSlot
      <4> QED
        BY <4>1 DEF Pool!Orphan, Holders
    <3> QED
      BY <3>2 DEF Pool!PoolNext
  <2>2. CASE ~ OwnsSlot(a)
    BY <1>4, <1>i, <1>v, <2>2, CrashSlot
  <2> QED
    BY <2>1, <2>2
<1>5. CASE OtherStep
  <2>1. CASE UNCHANGED <<maxAllowed, peak>>
    BY <1>5, <1>v, <2>1 DEF OtherStep
  <2>2. ASSUME NEW b \in Buckets, NEW n \in Limits, SetLimit(b, n)
        PROVE  Pool!Resize(b, n)
    BY <1>5, <2>2 DEF OtherStep, SetLimit, Pool!Resize, Holders
  <2> QED
    BY <1>5, <2>1, <2>2 DEF OtherStep, Pool!PoolNext
<1> QED
  BY <1>1, <1>2, <1>3, <1>4, <1>5, <1>i, SlotSteps

\* The counter of daily_limits implements the pool of identified slots: a slot
\* is taken only when there is room, by a post that owns none, and given back
\* by its owner only, never after a confirmation.
THEOREM CounterImplementsPool == Spec => ImplementsSlotPool
<1>1. Init => Pool!PoolInit
  BY DEF Init, Pool!PoolInit, OwnsSlot
<1> QED
  BY <1>1, PoolStep, AlwaysSlotInv, PTL DEF Spec, ImplementsSlotPool, Pool!PoolSpec
===============================================================================
