---------------------------- MODULE PublisherProofs ----------------------------
(***************************************************************************)
(* Proofs about Publisher, for any number of workers, posts, products and  *)
(* daily limits, and any bounds.  The layers, each resting on those above: *)
(*                                                                         *)
(*   TypeCorrect        every variable keeps its type                      *)
(*   Ownership          who may hold a row, and in which status            *)
(*   Exclusive, Done    ClaimExclusive, ConfirmedIsDone, ProcessingIsOwned *)
(*   Attempts           attempt_count against the maximum                  *)
(*   Balance            LiveAccounted, OnlyConfirmedIsPublished            *)
(***************************************************************************)
EXTENDS Publisher, TLAPS, FiniteSetTheorems

USE DEF Actors

-------------------------------------------------------------------------------
(* Type correctness *)

\* What a process remembers when it has nothing loaded is a well-typed sight.
LEMMA NothingTyped == Nothing \in Sights
BY DEF Nothing, Sights, ProductStatus

\* A remembered attempt_count is a number, a remembered status a status.
LEMMA SightTyped ==
  ASSUME seen \in [Actors -> Sights], NEW a \in Actors
  PROVE  /\ seen[a].attempts \in Nat
         /\ seen[a].product \in ProductStatus
         /\ seen[a].transient \in BOOLEAN
BY DEF Sights

\* The initial values have their types.
LEMMA InitType == Init => TypeOK
<1> SUFFICES ASSUME Init PROVE TypeOK
  OBVIOUS
<1>1. /\ status \in [Posts -> PostStatus]
      /\ product \in [Products -> ProductStatus]
  BY DEF Init, PostStatus, ProductStatus
<1>2. pc \in [Actors -> Labels] /\ \A a \in Actors : ~ Claimed(a) /\ pc[a] = "idle"
  BY DEF Init, Labels, Claimed
<1>3. seen \in [Actors -> Sights]
  BY NothingTyped DEF Init
<1> QED
  BY <1>1, <1>2, <1>3, ConstantsAssumption DEF Init, TypeOK, NoOp, Operating, ProductStatus

\* Every step of every process keeps the types.
LEMMA NextType == TypeOK /\ [Next]_vars => TypeOK'
<1> SUFFICES ASSUME TypeOK, [Next]_vars PROVE TypeOK'
  OBVIOUS
<1> USE DEF TypeOK, Claimed, PostStatus, ProductStatus, Labels, Goto,
        Operating, rowVars, limitVars, procVars, pastVars
<1>1. ASSUME NEW w \in Workers, StartBatch(w) PROVE TypeOK'
  BY <1>1 DEF StartBatch
<1>2. ASSUME NEW w \in Workers, NEW p \in Posts, PassOver(w, p) PROVE TypeOK'
  BY <1>2 DEF PassOver
<1>3. ASSUME NEW w \in Workers, NEW p \in Posts, Load(w, p) PROVE TypeOK'
  BY <1>3 DEF Load, Sights
<1>4. ASSUME NEW a \in Actors, Claim(a) PROVE TypeOK'
  <2>1. cur[a] \in Posts
    BY <1>4 DEF Claim
  <2>2. CASE Claimable(cur[a])
    BY <1>4, <2>1, <2>2 DEF Claim
  <2>3. CASE ~ Claimable(cur[a])
    <3>1. seen' \in [Actors -> Sights]
      BY <1>4, <2>3, NothingTyped DEF Claim, Return
    <3>2. pc' = [pc EXCEPT ![a] = "idle"] /\ cur' = [cur EXCEPT ![a] = NoPost]
      BY <1>4, <2>3 DEF Claim, Return
    <3> QED
      BY <1>4, <2>3, <3>1, <3>2 DEF Claim, Return
  <2> QED
    BY <2>2, <2>3
<1>5. ASSUME NEW a \in Actors, Prepare(a) PROVE TypeOK'
  <2>1. cur[a] \in Posts
    BY <1>5 DEF Prepare
  <2>2. LoadedProduct(a) \in ProductStatus
    BY <2>1, ConstantsAssumption DEF LoadedProduct
  <2>3. seen' \in [Actors -> Sights]
    BY <1>5, <2>2 DEF Prepare, Sights
  <2>4. pc' \in [Actors -> Labels] /\ pc'[a] \in {"record", "reserve"}
    BY <1>5 DEF Prepare
  <2>5. \A c \in Actors : c # a => pc'[c] = pc[c]
    BY <1>5 DEF Prepare
  <2> QED
    BY <1>5, <2>1, <2>3, <2>4, <2>5 DEF Prepare
<1>6. ASSUME NEW a \in Actors, Reserve(a) PROVE TypeOK'
  BY <1>6 DEF Reserve
<1>7. ASSUME NEW a \in Actors, Revert(a) PROVE TypeOK'
  <2>1. cur[a] \in Posts
    BY <1>7 DEF Revert
  <2>2. seen' \in [Actors -> Sights] /\ todo' \in [Actors -> SUBSET Posts]
    BY <1>7, NothingTyped DEF Revert, Return, Abort
  <2>3. pc' = [pc EXCEPT ![a] = "idle"] /\ cur' = [cur EXCEPT ![a] = NoPost]
    BY <1>7 DEF Revert, Return, Abort
  <2>4. status' \in [Posts -> PostStatus]
    BY <1>7, <2>1 DEF Revert
  <2> QED
    BY <1>7, <2>2, <2>3, <2>4 DEF Revert
<1>8. ASSUME NEW a \in Actors, GoesLive(a) PROVE TypeOK'
  BY <1>8 DEF GoesLive
<1>9. ASSUME NEW a \in Actors, Confirm(a) PROVE TypeOK'
  <2>1. cur[a] \in Posts /\ ProductOf[cur[a]] \in Products
    BY <1>9, ConstantsAssumption DEF Confirm
  <2>2. status' \in [Posts -> PostStatus] /\ ledger' \subseteq Posts
    BY <1>9, <2>1 DEF Confirm
  <2>6. waiting' \in [Posts -> BOOLEAN]
    BY <1>9, <2>1 DEF Confirm
  <2>3. attempts' \in [Posts -> Nat]
    <3>1. seen[a].attempts + 1 \in Nat
      BY SightTyped
    <3> QED
      BY <1>9, <3>1 DEF Confirm
  <2>4. product' \in [Products -> ProductStatus]
    BY <1>9, <2>1 DEF Confirm, Flush
  <2>5. seen' \in [Actors -> Sights]
    BY <1>9, NothingTyped DEF Confirm, Return
  <2> QED
    BY <1>9, <2>2, <2>3, <2>4, <2>5, <2>6 DEF Confirm, Return
<1>10. ASSUME NEW a \in Actors, Release(a) PROVE TypeOK'
  <2>1. cur[a] \in Posts /\ BucketOf[cur[a]] \in Buckets
    BY <1>10, ConstantsAssumption DEF Release
  <2>2. SlotsAfterRelease(published[BucketOf[cur[a]]]) \in Nat
    BY <2>1 DEF SlotsAfterRelease
  <2>3. published' \in [Buckets -> Nat]
    BY <1>10, <2>2 DEF Release
  <2> QED
    BY <1>10, <2>1, <2>3 DEF Release
<1>11. ASSUME NEW a \in Actors, Record(a) PROVE TypeOK'
  <2>1. cur[a] \in Posts /\ ProductOf[cur[a]] \in Products
    BY <1>11, ConstantsAssumption DEF Record
  <2>2. attempts' \in [Posts -> Nat] /\ waiting' \in [Posts -> BOOLEAN]
    <3>1. seen[a].attempts + 1 \in Nat
      BY SightTyped
    <3> QED
      BY <1>11, <3>1 DEF Record
  <2>3. status' \in [Posts -> PostStatus]
    BY <1>11, <2>1 DEF Record, StatusAfterFailure
  <2>4. product' \in [Products -> ProductStatus]
    BY <1>11, <2>1 DEF Record, Flush
  <2>5. seen' \in [Actors -> Sights]
    BY <1>11, NothingTyped DEF Record, Return, Abort
  <2>6. /\ pc' = [pc EXCEPT ![a] = "idle"] /\ cur' = [cur EXCEPT ![a] = NoPost]
        /\ todo' \in [Actors -> SUBSET Posts]
    BY <1>11 DEF Record, Return, Abort
  <2> QED
    BY <1>11, <2>2, <2>3, <2>4, <2>5, <2>6 DEF Record
<1>12. ASSUME NEW a \in Actors, NEW t \in BOOLEAN, CallFails(a, t) PROVE TypeOK'
  BY <1>12 DEF CallFails, Sights
<1>13. ASSUME NEW a \in Actors, NEW t \in BOOLEAN, AnswerLost(a, t) PROVE TypeOK'
  BY <1>13 DEF AnswerLost, Sights
<1>14. ASSUME NEW a \in Actors, Crash(a) PROVE TypeOK'
  <2>1. Claimed(a) => cur[a] \in Posts
    OBVIOUS
  <2>2. lost' \in [Posts -> Nat]
    BY <1>14, <2>1 DEF Crash
  <2>3. orphaned' \subseteq Posts /\ abandoned' \subseteq Posts
    BY <1>14, <2>1 DEF Crash, OwnsSlot
  <2>4. seen' \in [Actors -> Sights] /\ todo' \in [Actors -> SUBSET Posts]
    BY <1>14, NothingTyped DEF Crash, Return
  <2>5. pc' \in [Actors -> Labels] /\ cur' \in [Actors -> Posts \cup {NoPost}]
    BY <1>14 DEF Crash, Return
  <2>6. crashes' \in 0 .. MaxCrashes
    BY <1>14, ConstantsAssumption DEF Crash
  <2>7. /\ op' \in [product : Products \cup {"none"}, status : ProductStatus, rows : SUBSET Posts]
        /\ pc'[Dashboard] \in Operating => op'.product \in Products
    BY <1>14 DEF Crash, Return, NoOp
  <2>8. \A c \in Actors : Claimed(c)' \/ pc'[c] = "claim" => cur'[c] \in Posts
    BY <1>14 DEF Crash, Return
  <2> QED
    BY <1>14, <2>2, <2>3, <2>4, <2>5, <2>6, <2>7, <2>8 DEF Crash
<1>15. ASSUME NEW p \in Posts, BeginInsert(p) PROVE TypeOK'
  BY <1>15, ConstantsAssumption DEF BeginInsert, DashboardFree
<1>16. ASSUME NEW r \in Products, BeginSkip(r) PROVE TypeOK'
  BY <1>16 DEF BeginSkip, DashboardFree
<1>17. ASSUME SkipSelect PROVE TypeOK'
  BY <1>17 DEF SkipSelect, PostsOf
<1>18. ASSUME SkipWrite PROVE TypeOK'
  BY <1>18 DEF SkipWrite, NoOp
<1>19. ASSUME NEW r \in Products, BeginRetry(r) PROVE TypeOK'
  BY <1>19 DEF BeginRetry, DashboardFree
<1>20. ASSUME RetryWrite PROVE TypeOK'
  BY <1>20 DEF RetryWrite, NoOp, Flush, PostsOf
<1>21. ASSUME NEW b \in Buckets, NEW n \in Limits, SetLimit(b, n) PROVE TypeOK'
  BY <1>21 DEF SetLimit
<1>22. ASSUME NEW m \in {"REVIEW", "AUTO"}, SetMode(m) PROVE TypeOK'
  BY <1>22 DEF SetMode
<1>23. ASSUME NEW p \in Posts, BackoffElapses(p) PROVE TypeOK'
  BY <1>23 DEF BackoffElapses
<1>24. CASE UNCHANGED vars
  BY <1>24 DEF vars
<1>25. ASSUME Insert PROVE TypeOK'
  BY <1>25 DEF Insert, NoOp
<1>26. ASSUME SelectPost PROVE TypeOK'
  <2>1. seen' \in [Actors -> Sights]
    <3>1. ASSUME NEW p \in Posts PROVE [seen EXCEPT ![Dashboard].attempts = attempts[p]] \in [Actors -> Sights]
      BY DEF Sights
    <3> QED
      BY <1>26, <3>1 DEF SelectPost, PostsOf
  <2> QED
    BY <1>26, <2>1 DEF SelectPost, NoOp, PostsOf
<1> QED
  BY <1>1, <1>2, <1>3, <1>4, <1>5, <1>6, <1>7, <1>8, <1>9, <1>10, <1>11, <1>12,
     <1>13, <1>14, <1>15, <1>16, <1>17, <1>18, <1>19, <1>20, <1>21, <1>22, <1>23,
     <1>24, <1>25, <1>26 DEF Next, Drain, Publish, Operate

\* Type correctness: in particular published_count never goes below zero, and
\* a process that holds a row holds an existing one.
THEOREM TypeCorrect == Spec => []TypeOK
BY InitType, NextType, PTL DEF Spec

-------------------------------------------------------------------------------
(* Who holds a row *)

\* The unique index: one active row for a product and a content type.
OneActive ==
  \A p, q \in Posts :
    /\ p # q
    /\ ProductOf[p] = ProductOf[q]
    /\ TypeOf[BucketOf[p]] = TypeOf[BucketOf[q]]
    /\ status[p] \in ActiveStatus
    => status[q] \notin ActiveStatus

\* The strengthening of ClaimExclusive, ConfirmedIsDone and ProcessingIsOwned
\* that is inductive.  The claim is exclusive because a held row is in no
\* status the conditional UPDATE accepts; a killed process leaves its row in
\* such a status for good; and only the holder writes the status of the row,
\* except for a skip, whose CANCELLED the claim does not accept either.  The
\* index says that a holder whose write it refuses leaves a cancelled row.
Ownership ==
  /\ \A a \in Actors : Claimed(a) =>
       /\ status[cur[a]] \in {"PROCESSING", "CANCELLED"}
       /\ cur[a] \notin ledger \cup abandoned
  /\ ClaimExclusive
  /\ \A p \in abandoned : status[p] \in {"PROCESSING", "CANCELLED"} /\ p \notin ledger
  /\ orphaned \subseteq abandoned
  /\ \A p \in ledger : status[p] \in {"PUBLISHED", "CANCELLED"}
  /\ ProcessingIsOwned
  /\ OneActive

\* Nobody holds a row at the start.
LEMMA InitOwnership == Init => Ownership
<1> SUFFICES ASSUME Init PROVE Ownership
  OBVIOUS
<1>1. OneActive
  BY DEF Init, OneActive, Vacant, PostsOf, ActiveStatus
<1> QED
  BY <1>1, ConstantsAssumption DEF Init, Ownership, ClaimExclusive, ProcessingIsOwned, Claimed

\* Writing a row that the index leaves room for keeps it unique.
LEMMA ActivateOne ==
  ASSUME TypeOK, OneActive, NEW p \in Posts, NEW s,
         Vacant(p) \/ s \notin ActiveStatus,
         status' = [status EXCEPT ![p] = s]
  PROVE  OneActive'
BY DEF TypeOK, OneActive, Vacant, PostsOf

\* A row the index has no room for is not active itself.
LEMMA NotVacant ==
  ASSUME OneActive, NEW p \in Posts, ~ Vacant(p)
  PROVE  status[p] \notin ActiveStatus
BY DEF OneActive, Vacant, PostsOf

\* Steps that change neither who holds which row, nor the ledger and the rows
\* of killed processes, and that touch no status but to cancel a row or to
\* queue one that was absent or failed.
LEMMA SameOwners ==
  ASSUME TypeOK, Ownership,
         UNCHANGED <<ledger, abandoned, orphaned>>,
         \A c \in Actors : Claimed(c)' <=> Claimed(c),
         \A c \in Actors : Claimed(c) => cur'[c] = cur[c],
         \A p \in Posts : \/ status'[p] \in {status[p], "CANCELLED"}
                          \/ status[p] \in {"ABSENT", "FAILED"} /\ status'[p] = "SCHEDULED",
         OneActive'
  PROVE  Ownership'
<1>1. /\ ledger \subseteq Posts /\ abandoned \subseteq Posts
      /\ \A c \in Actors : Claimed(c) => cur[c] \in Posts
  BY DEF TypeOK
<1>2. \A c \in Actors : Claimed(c)' =>
        /\ status'[cur'[c]] \in {"PROCESSING", "CANCELLED"}
        /\ cur'[c] \notin ledger' \cup abandoned'
  BY <1>1 DEF Ownership
<1>3. ClaimExclusive'
  BY DEF Ownership, ClaimExclusive
<1>4. ProcessingIsOwned'
  BY DEF Ownership, ProcessingIsOwned, Handled
<1>5. \A p \in abandoned' : status'[p] \in {"PROCESSING", "CANCELLED"} /\ p \notin ledger'
  BY <1>1 DEF Ownership
<1>6. \A p \in ledger' : status'[p] \in {"PUBLISHED", "CANCELLED"}
  BY <1>1 DEF Ownership
<1> QED
  BY <1>2, <1>3, <1>4, <1>5, <1>6 DEF Ownership

\* The case in which no status changes at all.
LEMMA SameRows ==
  ASSUME TypeOK, Ownership,
         UNCHANGED <<status, ledger, abandoned, orphaned>>,
         \A c \in Actors : Claimed(c)' <=> Claimed(c),
         \A c \in Actors : Claimed(c) => cur'[c] = cur[c]
  PROVE  Ownership'
<1>1. OneActive'
  BY DEF Ownership, OneActive
<1> QED
  BY <1>1, SameOwners

\* A process that gives its row up writes a status of its choice: no other
\* process held the row.
LEMMA GivesUp ==
  ASSUME TypeOK, Ownership, NEW a \in Actors, Claimed(a),
         NEW s \in PostStatus \ {"PROCESSING"},
         pc' = [pc EXCEPT ![a] = "idle"],
         cur' = [cur EXCEPT ![a] = NoPost],
         status' = [status EXCEPT ![cur[a]] = s],
         Vacant(cur[a]) \/ s # "SCHEDULED",
         \/ ledger' = ledger
         \/ ledger' = ledger \cup {cur[a]} /\ s = "PUBLISHED",
         UNCHANGED <<abandoned, orphaned>>
  PROVE  Ownership'
<1>1. cur[a] \in Posts /\ status \in [Posts -> PostStatus] /\ cur \in [Actors -> Posts \cup {NoPost}]
      /\ pc \in [Actors -> Labels] /\ ledger \subseteq Posts /\ abandoned \subseteq Posts
  BY DEF TypeOK
<1>2. \A c \in Actors : Claimed(c)' <=> Claimed(c) /\ c # a
  BY <1>1 DEF Claimed
<1>3. \A c \in Actors : Claimed(c)' => cur'[c] = cur[c] /\ cur[c] # cur[a]
  BY <1>1, <1>2 DEF Ownership, ClaimExclusive
<1>4. \A c \in Actors : Claimed(c)' =>
        /\ status'[cur'[c]] \in {"PROCESSING", "CANCELLED"}
        /\ cur'[c] \notin ledger' \cup abandoned'
  BY <1>1, <1>2, <1>3 DEF Ownership, TypeOK
<1>5. ClaimExclusive'
  BY <1>1, <1>2, <1>3 DEF Ownership, ClaimExclusive
<1>6. \A p \in abandoned' : status'[p] \in {"PROCESSING", "CANCELLED"} /\ p \notin ledger'
  BY <1>1 DEF Ownership
<1>7. \A p \in ledger' : status'[p] \in {"PUBLISHED", "CANCELLED"}
  BY <1>1 DEF Ownership
<1>8. ProcessingIsOwned'
  <2> SUFFICES ASSUME NEW p \in Posts, status'[p] = "PROCESSING"
               PROVE  Handled(p)' \/ p \in abandoned'
    BY DEF ProcessingIsOwned
  <2>1. status[p] = "PROCESSING" /\ p # cur[a]
    BY <1>1
  <2>2. CASE p \in abandoned
    BY <2>2
  <2>3. CASE p \notin abandoned
    <3>1. PICK c \in Actors : Claimed(c) /\ cur[c] = p
      BY <2>1, <2>3 DEF Ownership, ProcessingIsOwned, Handled
    <3> QED
      BY <3>1, <2>1, <1>1, <1>2 DEF Handled
  <2> QED
    BY <2>2, <2>3
<1>9. OneActive'
  BY <1>1, ActivateOne DEF Ownership, ActiveStatus
<1> QED
  BY <1>4, <1>5, <1>6, <1>7, <1>8, <1>9 DEF Ownership

\* A process whose write the index refuses leaves the row as it is: CANCELLED.
LEMMA Aborts ==
  ASSUME TypeOK, Ownership, NEW a \in Actors, Claimed(a), ~ Vacant(cur[a]),
         pc' = [pc EXCEPT ![a] = "idle"],
         cur' = [cur EXCEPT ![a] = NoPost],
         UNCHANGED <<status, ledger, abandoned, orphaned>>
  PROVE  Ownership'
<1>1. cur[a] \in Posts /\ status \in [Posts -> PostStatus]
  BY DEF TypeOK
<1>2. status[cur[a]] = "CANCELLED"
  BY <1>1, NotVacant DEF Ownership, ActiveStatus
<1>3. status' = [status EXCEPT ![cur[a]] = "CANCELLED"]
  BY <1>1, <1>2
<1> QED
  BY <1>3, GivesUp DEF PostStatus

\* The conditional UPDATE: the row was SCHEDULED, so nobody held it.
LEMMA ClaimOwnership ==
  ASSUME TypeOK, Ownership, NEW a \in Actors, Claim(a)
  PROVE  Ownership'
<1>1. /\ cur[a] \in Posts /\ pc[a] = "claim" /\ ~ Claimed(a)
      /\ pc \in [Actors -> Labels] /\ cur \in [Actors -> Posts \cup {NoPost}]
      /\ status \in [Posts -> PostStatus] /\ ledger \subseteq Posts /\ abandoned \subseteq Posts
  BY DEF TypeOK, Claim, Claimed
<1>2. UNCHANGED <<ledger, abandoned, orphaned>>
  BY DEF Claim, pastVars
<1>3. CASE ~ Claimable(cur[a])
  <2>1. pc' = [pc EXCEPT ![a] = "idle"] /\ cur' = [cur EXCEPT ![a] = NoPost] /\ status' = status
    BY <1>3 DEF Claim, Return, Goto
  <2>2. \A c \in Actors : Claimed(c)' <=> Claimed(c)
    BY <1>1, <2>1 DEF Claimed
  <2>3. \A c \in Actors : Claimed(c) => cur'[c] = cur[c]
    BY <1>1, <2>1
  <2> QED
    BY <1>2, <2>1, <2>2, <2>3, SameRows
<1>4. CASE Claimable(cur[a])
  <2>1. /\ pc' = [pc EXCEPT ![a] = "prepare"] /\ cur' = cur
        /\ status' = [status EXCEPT ![cur[a]] = "PROCESSING"]
        /\ status[cur[a]] = "SCHEDULED"
    BY <1>4 DEF Claim, Goto, Claimable
  <2>2. \A c \in Actors : Claimed(c)' <=> Claimed(c) \/ c = a
    BY <1>1, <2>1 DEF Claimed
  <2>3. \A c \in Actors : Claimed(c) => cur[c] # cur[a]
    BY <2>1 DEF Ownership
  <2>4. cur[a] \notin ledger \cup abandoned
    BY <2>1 DEF Ownership
  <2>5. \A c \in Actors : Claimed(c)' =>
          /\ status'[cur'[c]] \in {"PROCESSING", "CANCELLED"}
          /\ cur'[c] \notin ledger' \cup abandoned'
    <3> SUFFICES ASSUME NEW c \in Actors, Claimed(c)'
                 PROVE  /\ status'[cur[c]] \in {"PROCESSING", "CANCELLED"}
                        /\ cur[c] \notin ledger \cup abandoned
      BY <1>2, <2>1
    <3>1. CASE c = a
      BY <1>1, <2>1, <2>4, <3>1
    <3>2. CASE c # a
      BY <1>1, <2>1, <2>2, <2>3, <3>2 DEF Ownership, TypeOK
    <3> QED
      BY <3>1, <3>2
  <2>6. ClaimExclusive'
    BY <2>1, <2>2, <2>3 DEF Ownership, ClaimExclusive
  <2>7. ProcessingIsOwned'
    BY <1>1, <1>2, <2>1, <2>2 DEF Ownership, ProcessingIsOwned, Handled
  <2>8. \A p \in abandoned' : status'[p] \in {"PROCESSING", "CANCELLED"} /\ p \notin ledger'
    BY <1>1, <1>2, <2>1, <2>4 DEF Ownership
  <2>9. \A p \in ledger' : status'[p] \in {"PUBLISHED", "CANCELLED"}
    BY <1>1, <1>2, <2>1, <2>4 DEF Ownership
  <2>10. OneActive'
    BY <1>1, <2>1 DEF Ownership, OneActive, ActiveStatus
  <2> QED
    BY <1>2, <2>5, <2>6, <2>7, <2>8, <2>9, <2>10 DEF Ownership
<1> QED
  BY <1>3, <1>4

\* A killed process leaves the row it held to the abandoned ones.
LEMMA CrashOwnership ==
  ASSUME TypeOK, Ownership, NEW a \in Actors, Crash(a)
  PROVE  Ownership'
<1>1. /\ pc' = [pc EXCEPT ![a] = "idle"] /\ cur' = [cur EXCEPT ![a] = NoPost]
      /\ UNCHANGED <<status, ledger>>
      /\ orphaned' = IF OwnsSlot(a) THEN orphaned \cup {cur[a]} ELSE orphaned
      /\ abandoned' = IF Claimed(a) THEN abandoned \cup {cur[a]} ELSE abandoned
  BY DEF Crash, Return, Goto, rowVars
<1>2. /\ pc \in [Actors -> Labels] /\ cur \in [Actors -> Posts \cup {NoPost}]
      /\ OwnsSlot(a) => Claimed(a)
  BY DEF TypeOK, OwnsSlot, Claimed
<1>3. \A c \in Actors : Claimed(c)' <=> Claimed(c) /\ c # a
  BY <1>1, <1>2 DEF Claimed
<1>4. \A c \in Actors : Claimed(c)' => cur'[c] = cur[c] /\ (Claimed(a) => cur[c] # cur[a])
  BY <1>1, <1>2, <1>3 DEF Ownership, ClaimExclusive
<1>5. \A c \in Actors : Claimed(c)' =>
        /\ status'[cur'[c]] \in {"PROCESSING", "CANCELLED"}
        /\ cur'[c] \notin ledger' \cup abandoned'
  BY <1>1, <1>3, <1>4 DEF Ownership
<1>6. ClaimExclusive'
  BY <1>3, <1>4 DEF Ownership, ClaimExclusive
<1>7. ProcessingIsOwned'
  BY <1>1, <1>2, <1>3 DEF Ownership, ProcessingIsOwned, Handled
<1>8. /\ \A p \in abandoned' : status'[p] \in {"PROCESSING", "CANCELLED"} /\ p \notin ledger'
      /\ orphaned' \subseteq abandoned'
  BY <1>1, <1>2 DEF Ownership
<1>9. OneActive'
  BY <1>1 DEF Ownership, OneActive
<1> QED
  BY <1>1, <1>5, <1>6, <1>7, <1>8, <1>9 DEF Ownership

\* Every step keeps the ownership of the rows.
LEMMA NextOwnership == TypeOK /\ Ownership /\ [Next]_vars => Ownership'
<1> SUFFICES ASSUME TypeOK, Ownership, [Next]_vars PROVE Ownership'
  OBVIOUS
<1>t. /\ pc \in [Actors -> Labels]
      /\ cur \in [Actors -> Posts \cup {NoPost}]
      /\ status \in [Posts -> PostStatus]
      /\ \A c \in Actors : Claimed(c) => cur[c] \in Posts
  BY DEF TypeOK
<1> USE DEF rowVars, limitVars, procVars, pastVars, Goto
<1>1. ASSUME NEW w \in Workers, StartBatch(w) PROVE Ownership'
  BY <1>1, SameRows DEF StartBatch, Claimed
<1>2. ASSUME NEW w \in Workers, NEW p \in Posts, PassOver(w, p) PROVE Ownership'
  BY <1>2, SameRows DEF PassOver, Claimed
<1>3. ASSUME NEW w \in Workers, NEW p \in Posts, Load(w, p) PROVE Ownership'
  BY <1>3, <1>t, SameRows DEF Load, Claimed
<1>4. ASSUME NEW a \in Actors, Claim(a) PROVE Ownership'
  BY <1>4, ClaimOwnership
<1>5. ASSUME NEW a \in Actors, Prepare(a) PROVE Ownership'
  BY <1>5, <1>t, SameRows DEF Prepare, Claimed
<1>6. ASSUME NEW a \in Actors, Reserve(a) PROVE Ownership'
  BY <1>6, <1>t, SameRows DEF Reserve, Claimed
<1>7. ASSUME NEW a \in Actors, Revert(a) PROVE Ownership'
  <2>1. CASE Vacant(cur[a])
    BY <1>7, <2>1, GivesUp DEF Revert, Return, Claimed, PostStatus
  <2>2. CASE ~ Vacant(cur[a])
    BY <1>7, <2>2, Aborts DEF Revert, Return, Abort, Claimed
  <2> QED
    BY <2>1, <2>2
<1>8. ASSUME NEW a \in Actors, GoesLive(a) PROVE Ownership'
  BY <1>8, <1>t, SameRows DEF GoesLive, Claimed
<1>9. ASSUME NEW a \in Actors, Confirm(a) PROVE Ownership'
  <2>1. Claimed(a) /\ cur[a] \notin ledger
    BY <1>9 DEF Confirm, Claimed, Ownership
  <2> QED
    BY <1>9, <2>1, GivesUp DEF Confirm, Return, PostStatus
<1>10. ASSUME NEW a \in Actors, Release(a) PROVE Ownership'
  BY <1>10, <1>t, SameRows DEF Release, Claimed
<1>11. ASSUME NEW a \in Actors, Record(a) PROVE Ownership'
  <2> DEFINE willRetry == seen[a].transient /\ HasAttemptsRemaining(seen[a].attempts + 1)
             s == StatusAfterFailure(willRetry)
  <2>1. s \in PostStatus \ {"PROCESSING"} /\ (s = "SCHEDULED" <=> willRetry)
    BY DEF StatusAfterFailure, PostStatus
  <2>2. Claimed(a)
    BY <1>11 DEF Record, Claimed
  <2>3. CASE willRetry => Vacant(cur[a])
    <3>1. status' = [status EXCEPT ![cur[a]] = s]
      BY <1>11, <2>3 DEF Record
    <3> HIDE DEF s, willRetry
    <3> QED
      BY <1>11, <2>1, <2>2, <2>3, <3>1, GivesUp DEF Record, Return, Abort
  <2>4. CASE ~ (willRetry => Vacant(cur[a]))
    BY <1>11, <2>2, <2>4, Aborts DEF Record, Return, Abort
  <2> QED
    BY <2>3, <2>4
<1>12. ASSUME NEW a \in Actors, NEW t \in BOOLEAN, CallFails(a, t) PROVE Ownership'
  BY <1>12, <1>t, SameRows DEF CallFails, Claimed
<1>13. ASSUME NEW a \in Actors, NEW t \in BOOLEAN, AnswerLost(a, t) PROVE Ownership'
  BY <1>13, <1>t, SameRows DEF AnswerLost, Claimed
<1>14. ASSUME NEW a \in Actors, Crash(a) PROVE Ownership'
  BY <1>14, CrashOwnership
<1>15. ASSUME NEW p \in Posts, BeginInsert(p) PROVE Ownership'
  BY <1>15, <1>t, SameRows DEF BeginInsert, DashboardFree, Claimed
<1>16. ASSUME NEW r \in Products, BeginSkip(r) PROVE Ownership'
  BY <1>16, <1>t, SameRows DEF BeginSkip, DashboardFree, Claimed
<1>17. ASSUME SkipSelect PROVE Ownership'
  BY <1>17, <1>t, SameRows DEF SkipSelect, Claimed
<1>18. ASSUME SkipWrite PROVE Ownership'
  <2>1. \A p \in Posts : status'[p] \in {status[p], "CANCELLED"}
    BY <1>18, <1>t DEF SkipWrite
  <2>2. OneActive'
    BY <2>1 DEF Ownership, OneActive, ActiveStatus
  <2> QED
    BY <1>18, <1>t, <2>1, <2>2, SameOwners DEF SkipWrite, Claimed
<1>19. ASSUME NEW r \in Products, BeginRetry(r) PROVE Ownership'
  BY <1>19, <1>t, SameRows DEF BeginRetry, DashboardFree, Claimed
<1>20. ASSUME RetryWrite PROVE Ownership'
  <2>1. CASE UNCHANGED status
    BY <1>20, <1>t, <2>1, SameRows DEF RetryWrite, Claimed
  <2>2. ASSUME NEW p \in Posts, status[p] = "FAILED", Vacant(p),
               status' = [status EXCEPT ![p] = "SCHEDULED"]
        PROVE  Ownership'
    <3>1. OneActive'
      BY <2>2, ActivateOne DEF Ownership
    <3> QED
      BY <1>20, <1>t, <2>2, <3>1, SameOwners DEF RetryWrite, Claimed
  <2> QED
    BY <1>20, <2>1, <2>2 DEF RetryWrite, Retryable, PostsOf
<1>21. ASSUME NEW b \in Buckets, NEW n \in Limits, SetLimit(b, n) PROVE Ownership'
  BY <1>21, <1>t, SameRows DEF SetLimit, Claimed
<1>22. ASSUME NEW m \in {"REVIEW", "AUTO"}, SetMode(m) PROVE Ownership'
  BY <1>22, <1>t, SameRows DEF SetMode, Claimed
<1>23. ASSUME NEW p \in Posts, BackoffElapses(p) PROVE Ownership'
  BY <1>23, <1>t, SameRows DEF BackoffElapses, Claimed
<1>24. CASE UNCHANGED vars
  BY <1>24, <1>t, SameRows DEF vars, Claimed
<1>25. ASSUME Insert PROVE Ownership'
  <2>1. CASE UNCHANGED status
    BY <1>25, <1>t, <2>1, SameRows DEF Insert, Claimed
  <2>2. ASSUME NEW p \in Posts, status[p] = "ABSENT", Vacant(p),
               status' = [status EXCEPT ![p] = "SCHEDULED"]
        PROVE  Ownership'
    <3>1. OneActive'
      BY <2>2, ActivateOne DEF Ownership
    <3> QED
      BY <1>25, <1>t, <2>2, <3>1, SameOwners DEF Insert, Claimed
  <2> QED
    BY <1>25, <2>1, <2>2 DEF Insert, TypeOK
<1>26. ASSUME SelectPost PROVE Ownership'
  BY <1>26, <1>t, SameRows DEF SelectPost, Claimed
<1> QED
  BY <1>1, <1>2, <1>3, <1>4, <1>5, <1>6, <1>7, <1>8, <1>9, <1>10, <1>11, <1>12,
     <1>13, <1>14, <1>15, <1>16, <1>17, <1>18, <1>19, <1>20, <1>21, <1>22, <1>23,
     <1>24, <1>25, <1>26 DEF Next, Drain, Publish, Operate

\* In every reachable state the rows are owned as Ownership says.
LEMMA AlwaysOwned == Spec => [](TypeOK /\ Ownership)
BY InitType, NextType, InitOwnership, NextOwnership, PTL DEF Spec

\* Two processes never publish the same row at the same time.
THEOREM ClaimIsExclusive == Spec => []ClaimExclusive
BY AlwaysOwned, PTL DEF Ownership

\* Only a killed process leaves a row in PROCESSING behind.
THEOREM NobodyForgetsProcessing == Spec => []ProcessingIsOwned
BY AlwaysOwned, PTL DEF Ownership

\* A confirmed post is never worked on again, whoever skips it meanwhile.
THEOREM ConfirmedIsFinal == Spec => []ConfirmedIsDone
<1>1. TypeOK /\ Ownership => ConfirmedIsDone
  BY DEF Ownership, ConfirmedIsDone, Handled
<1> QED
  BY <1>1, AlwaysOwned, PTL

\* A row cancelled while nobody publishes it stays cancelled: claiming,
\* reverting, recording and confirming all need the row or its SCHEDULED.
THEOREM CancelledForGood == Spec => CancelSticks
<1>1. ASSUME TypeOK, [Next]_vars, NEW p \in Posts, status[p] = "CANCELLED", ~ Handled(p)
      PROVE  status'[p] = "CANCELLED"
  <2>1. /\ status \in [Posts -> PostStatus]
        /\ \A a \in Actors : Claimed(a) => cur[a] # p
    BY <1>1 DEF TypeOK, Handled
  <2>2. ASSUME NEW a \in Actors, Publish(a) PROVE status'[p] = "CANCELLED"
    BY <1>1, <2>1, <2>2 DEF Publish, Claim, Claimable, Prepare, Reserve,
       Revert, GoesLive, Confirm, Release, Record, CallFails, AnswerLost, Claimed, rowVars
  <2>3. ASSUME Operate PROVE status'[p] = "CANCELLED"
    BY <1>1, <2>1, <2>3 DEF Operate, BeginInsert, BeginSkip, BeginRetry, SkipSelect, SkipWrite,
       Insert, SelectPost, RetryWrite, Retryable, SetLimit, SetMode, rowVars
  <2>4. ASSUME NEW w \in Workers, Drain(w) PROVE status'[p] = "CANCELLED"
    BY <1>1, <2>4 DEF Drain, StartBatch, PassOver, Load, rowVars
  <2>5. ASSUME NEW a \in Actors, Crash(a) PROVE status'[p] = "CANCELLED"
    BY <1>1, <2>5 DEF Crash, rowVars
  <2>6. ASSUME NEW q \in Posts, BackoffElapses(q) PROVE status'[p] = "CANCELLED"
    BY <1>1, <2>6 DEF BackoffElapses
  <2>7. CASE UNCHANGED vars
    BY <1>1, <2>7 DEF vars, rowVars
  <2> QED
    BY <1>1, <2>2, <2>3, <2>4, <2>5, <2>6, <2>7 DEF Next
<1>2. TypeOK /\ [Next]_vars =>
        [\A p \in Posts : status[p] = "CANCELLED" /\ ~ Handled(p)
                            => status'[p] = "CANCELLED"]_vars
  BY <1>1
<1> QED
  BY <1>2, TypeCorrect, PTL DEF Spec, CancelSticks

-------------------------------------------------------------------------------
(* Attempts *)

\* What makes AttemptBudget inductive: a row that can still be tried, a row
\* that is held and a value read earlier all leave room for one more attempt.
\* The value may be stale, and the owner may have retried the row since: the
\* bound only grows with the retries.
AttemptsLeft ==
  /\ \A p \in Posts : status[p] \in {"ABSENT", "SCHEDULED", "PROCESSING"}
                        => attempts[p] < MaxAttempts + retries[p]
  /\ \A a \in Actors : Claimed(a) => attempts[cur[a]] < MaxAttempts + retries[cur[a]]
  /\ \A a \in Actors : Claimed(a) \/ pc[a] = "claim"
                        => seen[a].attempts < MaxAttempts + retries[cur[a]]
  /\ AttemptBudget

\* No row has been tried at the start.
LEMMA InitAttempts == Init => AttemptsLeft
BY ConstantsAssumption DEF Init, AttemptsLeft, AttemptBudget, Claimed

\* Steps that count no attempt and no retry.
LEMMA SameAttempts ==
  ASSUME TypeOK, AttemptsLeft, UNCHANGED <<attempts, retries>>,
         \A c \in Actors : Claimed(c)' => Claimed(c),
         \A c \in Actors : Claimed(c)' \/ pc'[c] = "claim" =>
           (Claimed(c) \/ pc[c] = "claim") /\ cur'[c] = cur[c]
             /\ seen'[c].attempts = seen[c].attempts,
         \A p \in Posts : status'[p] \in {"ABSENT", "SCHEDULED", "PROCESSING"} =>
           \/ status[p] \in {"ABSENT", "SCHEDULED", "PROCESSING"}
           \/ attempts[p] < MaxAttempts + retries[p]
  PROVE  AttemptsLeft'
BY DEF AttemptsLeft, AttemptBudget

\* The holder of a row ends an attempt: it writes what it read, plus one.
LEMMA CountsAttempt ==
  ASSUME TypeOK, Ownership, AttemptsLeft, NEW a \in Actors, Claimed(a),
         attempts' = [attempts EXCEPT ![cur[a]] = seen[a].attempts + 1],
         pc' = [pc EXCEPT ![a] = "idle"],
         cur' = [cur EXCEPT ![a] = NoPost],
         seen' = [seen EXCEPT ![a] = Nothing],
         retries' = retries,
         NEW s, status' = [status EXCEPT ![cur[a]] = s],
         s \in {"ABSENT", "SCHEDULED", "PROCESSING"} => seen[a].attempts + 1 < MaxAttempts
  PROVE  AttemptsLeft'
<1>1. /\ cur[a] \in Posts /\ seen[a].attempts \in Nat
      /\ attempts \in [Posts -> Nat] /\ retries \in [Posts -> Nat] /\ status \in [Posts -> PostStatus]
      /\ pc \in [Actors -> Labels] /\ cur \in [Actors -> Posts \cup {NoPost}]
      /\ seen \in [Actors -> Sights] /\ MaxAttempts \in Nat
      /\ \A c \in Actors : Claimed(c) \/ pc[c] = "claim" => cur[c] \in Posts
  BY SightTyped, ConstantsAssumption DEF TypeOK
<1>2. \A c \in Actors : Claimed(c)' => Claimed(c) /\ c # a /\ cur'[c] = cur[c] /\ cur[c] # cur[a]
  <2>1. \A c \in Actors : Claimed(c)' => Claimed(c) /\ c # a
    BY <1>1 DEF Claimed
  <2> QED
    BY <1>1, <2>1 DEF Ownership, ClaimExclusive
<1>3. \A c \in Actors : Claimed(c)' \/ pc'[c] = "claim" =>
        (Claimed(c) \/ pc[c] = "claim") /\ cur'[c] = cur[c] /\ seen'[c] = seen[c]
  BY <1>1 DEF Claimed
<1>4. seen[a].attempts < MaxAttempts + retries[cur[a]]
  BY DEF AttemptsLeft
<1>5. \A p \in Posts : status'[p] \in {"ABSENT", "SCHEDULED", "PROCESSING"}
                         => attempts'[p] < MaxAttempts + retries'[p]
  BY <1>1 DEF AttemptsLeft
<1>6. \A c \in Actors : Claimed(c)' => attempts'[cur'[c]] < MaxAttempts + retries'[cur'[c]]
  BY <1>1, <1>2 DEF AttemptsLeft
<1>7. \A c \in Actors : Claimed(c)' \/ pc'[c] = "claim"
                         => seen'[c].attempts < MaxAttempts + retries'[cur'[c]]
  BY <1>3 DEF AttemptsLeft
<1>8. AttemptBudget'
  BY <1>1, <1>4 DEF AttemptsLeft, AttemptBudget
<1> QED
  BY <1>5, <1>6, <1>7, <1>8 DEF AttemptsLeft

\* A row that passes the early returns is loaded: it leaves room.
LEMMA Loads ==
  ASSUME TypeOK, AttemptsLeft, NEW a \in Actors, NEW p \in Posts,
         ~ Ineligible(p), ~ Claimed(a),
         pc' = [pc EXCEPT ![a] = "claim"],
         cur' = [cur EXCEPT ![a] = p],
         seen' = [seen EXCEPT ![a].attempts = attempts[p]],
         UNCHANGED <<status, attempts, retries>>
  PROVE  AttemptsLeft'
<1>t. /\ pc \in [Actors -> Labels]
      /\ cur \in [Actors -> Posts \cup {NoPost}]
      /\ seen \in [Actors -> Sights]
      /\ status \in [Posts -> PostStatus]
      /\ \A c \in Actors : Claimed(c) \/ pc[c] = "claim" => cur[c] \in Posts
  BY DEF TypeOK
<1>1. attempts[p] < MaxAttempts + retries[p]
  BY <1>t DEF Ineligible, AttemptsLeft, PostStatus
<1>2. /\ seen'[a].attempts = attempts[p]
      /\ \A c \in Actors : c # a => seen'[c] = seen[c]
  BY <1>t DEF Sights
<1>3. \A c \in Actors : Claimed(c)' => Claimed(c) /\ c # a /\ cur'[c] = cur[c]
  BY <1>t DEF Claimed
<1>4. ASSUME NEW c \in Actors, Claimed(c)' \/ pc'[c] = "claim"
      PROVE  seen'[c].attempts < MaxAttempts + retries[cur'[c]]
  <2>1. CASE c = a
    BY <1>t, <1>1, <1>2, <2>1
  <2>2. CASE c # a
    BY <1>t, <1>2, <1>3, <1>4, <2>2 DEF AttemptsLeft
  <2> QED
    BY <2>1, <2>2
<1> QED
  BY <1>3, <1>4 DEF AttemptsLeft, AttemptBudget

\* Every step keeps the room for one more attempt.
LEMMA NextAttempts == TypeOK /\ Ownership /\ AttemptsLeft /\ [Next]_vars => AttemptsLeft'
<1> SUFFICES ASSUME TypeOK, Ownership, AttemptsLeft, [Next]_vars PROVE AttemptsLeft'
  OBVIOUS
<1>t. /\ pc \in [Actors -> Labels]
      /\ cur \in [Actors -> Posts \cup {NoPost}]
      /\ seen \in [Actors -> Sights]
      /\ status \in [Posts -> PostStatus]
      /\ \A c \in Actors : Claimed(c) \/ pc[c] = "claim" => cur[c] \in Posts
  BY DEF TypeOK
<1> USE DEF rowVars, limitVars, procVars, pastVars, Goto
<1>1. ASSUME NEW w \in Workers, StartBatch(w) PROVE AttemptsLeft'
  BY <1>1, SameAttempts DEF StartBatch, Claimed
<1>2. ASSUME NEW w \in Workers, NEW p \in Posts, PassOver(w, p) PROVE AttemptsLeft'
  BY <1>2, SameAttempts DEF PassOver, Claimed
<1>3. ASSUME NEW w \in Workers, NEW p \in Posts, Load(w, p) PROVE AttemptsLeft'
  BY <1>3, Loads DEF Load, Claimed
<1>4. ASSUME NEW a \in Actors, Claim(a) PROVE AttemptsLeft'
  <2>1. CASE ~ Claimable(cur[a])
    BY <1>4, <1>t, <2>1, SameAttempts DEF Claim, Return, Claimed
  <2>2. CASE Claimable(cur[a])
    <3>1. /\ cur[a] \in Posts /\ status[cur[a]] = "SCHEDULED"
          /\ status' = [status EXCEPT ![cur[a]] = "PROCESSING"]
          /\ pc' = [pc EXCEPT ![a] = "prepare"] /\ pc[a] = "claim"
          /\ UNCHANGED <<attempts, retries, cur, seen>>
      BY <1>4, <1>t, <2>2 DEF Claim, Claimable
    <3>2. \A c \in Actors : Claimed(c)' => Claimed(c) \/ c = a
      BY <1>t, <3>1 DEF Claimed
    <3>3. attempts[cur[a]] < MaxAttempts + retries[cur[a]]
      BY <3>1 DEF AttemptsLeft
    <3> QED
      BY <1>t, <3>1, <3>2, <3>3 DEF AttemptsLeft, AttemptBudget
  <2> QED
    BY <2>1, <2>2
<1>5. ASSUME NEW a \in Actors, Prepare(a) PROVE AttemptsLeft'
  BY <1>5, <1>t, SameAttempts DEF Prepare, Claimed, Sights
<1>6. ASSUME NEW a \in Actors, Reserve(a) PROVE AttemptsLeft'
  BY <1>6, <1>t, SameAttempts DEF Reserve, Claimed
<1>7. ASSUME NEW a \in Actors, Revert(a) PROVE AttemptsLeft'
  <2>1. /\ Claimed(a) /\ attempts[cur[a]] < MaxAttempts + retries[cur[a]]
    BY <1>7 DEF Revert, Claimed, AttemptsLeft
  <2> QED
    BY <1>7, <1>t, <2>1, SameAttempts DEF Revert, Return, Abort, Claimed
<1>8. ASSUME NEW a \in Actors, GoesLive(a) PROVE AttemptsLeft'
  BY <1>8, <1>t, SameAttempts DEF GoesLive, Claimed
<1>9. ASSUME NEW a \in Actors, Confirm(a) PROVE AttemptsLeft'
  <2>1. Claimed(a) /\ cur[a] \notin ledger
    BY <1>9 DEF Confirm, Claimed, Ownership
  <2> QED
    BY <1>9, <2>1, CountsAttempt DEF Confirm, Return
<1>10. ASSUME NEW a \in Actors, Release(a) PROVE AttemptsLeft'
  BY <1>10, <1>t, SameAttempts DEF Release, Claimed
<1>11. ASSUME NEW a \in Actors, Record(a) PROVE AttemptsLeft'
  <2> DEFINE n == seen[a].attempts + 1
             willRetry == seen[a].transient /\ HasAttemptsRemaining(n)
             s == StatusAfterFailure(willRetry)
  <2>1. s \in {"ABSENT", "SCHEDULED", "PROCESSING"} => n < MaxAttempts
    BY DEF StatusAfterFailure, HasAttemptsRemaining
  <2>2. Claimed(a)
    BY <1>11 DEF Record, Claimed
  <2>3. CASE willRetry => Vacant(cur[a])
    <3>1. /\ attempts' = [attempts EXCEPT ![cur[a]] = n]
          /\ status' = [status EXCEPT ![cur[a]] = s]
      BY <1>11, <2>3 DEF Record
    <3>2. /\ pc' = [pc EXCEPT ![a] = "idle"] /\ cur' = [cur EXCEPT ![a] = NoPost]
          /\ seen' = [seen EXCEPT ![a] = Nothing] /\ retries' = retries
      BY <1>11, <2>3 DEF Record, Return
    <3> HIDE DEF s, willRetry
    <3> QED
      BY <2>1, <2>2, <3>1, <3>2, CountsAttempt
  <2>4. CASE ~ (willRetry => Vacant(cur[a]))
    BY <1>11, <1>t, <2>4, SameAttempts DEF Record, Return, Abort, Claimed
  <2> QED
    BY <2>3, <2>4
<1>12. ASSUME NEW a \in Actors, NEW t \in BOOLEAN, CallFails(a, t) PROVE AttemptsLeft'
  BY <1>12, <1>t, SameAttempts DEF CallFails, Claimed, Sights
<1>13. ASSUME NEW a \in Actors, NEW t \in BOOLEAN, AnswerLost(a, t) PROVE AttemptsLeft'
  BY <1>13, <1>t, SameAttempts DEF AnswerLost, Claimed, Sights
<1>14. ASSUME NEW a \in Actors, Crash(a) PROVE AttemptsLeft'
  BY <1>14, <1>t, SameAttempts DEF Crash, Return, Claimed
<1>15. ASSUME NEW p \in Posts, BeginInsert(p) PROVE AttemptsLeft'
  BY <1>15, <1>t, SameAttempts DEF BeginInsert, DashboardFree, Claimed
<1>16. ASSUME NEW r \in Products, BeginSkip(r) PROVE AttemptsLeft'
  BY <1>16, <1>t, SameAttempts DEF BeginSkip, DashboardFree, Claimed
<1>17. ASSUME SkipSelect PROVE AttemptsLeft'
  BY <1>17, <1>t, SameAttempts DEF SkipSelect, Claimed
<1>18. ASSUME SkipWrite PROVE AttemptsLeft'
  BY <1>18, <1>t, SameAttempts DEF SkipWrite, Claimed
<1>19. ASSUME NEW r \in Products, BeginRetry(r) PROVE AttemptsLeft'
  BY <1>19, <1>t, SameAttempts DEF BeginRetry, DashboardFree, Claimed
<1>20. ASSUME RetryWrite PROVE AttemptsLeft'
  <2>1. CASE UNCHANGED <<status, retries>>
    BY <1>20, <1>t, <2>1, SameAttempts DEF RetryWrite, Claimed
  <2>2. ASSUME NEW p \in Posts,
               status' = [status EXCEPT ![p] = "SCHEDULED"],
               retries' = [retries EXCEPT ![p] = @ + 1]
        PROVE  AttemptsLeft'
    <3>1. /\ UNCHANGED <<attempts, cur, seen>>
          /\ pc' = [pc EXCEPT ![Dashboard] = "idle"]
          /\ retries \in [Posts -> Nat] /\ attempts \in [Posts -> Nat] /\ MaxAttempts \in Nat
      BY <1>20, ConstantsAssumption DEF RetryWrite, TypeOK
    <3>2. \A q \in Posts : retries[q] \in Nat /\ retries'[q] \in Nat /\ retries[q] <= retries'[q]
      BY <2>2, <3>1
    <3>3. /\ \A c \in Actors : Claimed(c)' => Claimed(c)
          /\ \A c \in Actors : Claimed(c)' \/ pc'[c] = "claim" => Claimed(c) \/ pc[c] = "claim"
      BY <1>t, <3>1 DEF Claimed
    <3>4. \A q \in Posts : status'[q] \in {"ABSENT", "SCHEDULED", "PROCESSING"}
                             => attempts'[q] < MaxAttempts + retries'[q]
      BY <1>t, <2>2, <3>1, <3>2 DEF AttemptsLeft, AttemptBudget
    <3>5. \A c \in Actors : Claimed(c)' => attempts'[cur'[c]] < MaxAttempts + retries'[cur'[c]]
      BY <1>t, <3>1, <3>2, <3>3 DEF AttemptsLeft
    <3>6. \A c \in Actors : Claimed(c)' \/ pc'[c] = "claim"
                             => seen'[c].attempts < MaxAttempts + retries'[cur'[c]]
      BY <1>t, <3>1, <3>2, <3>3, SightTyped DEF AttemptsLeft
    <3>7. AttemptBudget'
      BY <3>1, <3>2 DEF AttemptsLeft, AttemptBudget
    <3> QED
      BY <3>4, <3>5, <3>6, <3>7 DEF AttemptsLeft
  <2> QED
    BY <1>20, <2>1, <2>2 DEF RetryWrite, PostsOf
<1>21. ASSUME NEW b \in Buckets, NEW n \in Limits, SetLimit(b, n) PROVE AttemptsLeft'
  BY <1>21, <1>t, SameAttempts DEF SetLimit, Claimed
<1>22. ASSUME NEW m \in {"REVIEW", "AUTO"}, SetMode(m) PROVE AttemptsLeft'
  BY <1>22, <1>t, SameAttempts DEF SetMode, Claimed
<1>23. ASSUME NEW p \in Posts, BackoffElapses(p) PROVE AttemptsLeft'
  BY <1>23, <1>t, SameAttempts DEF BackoffElapses, Claimed
<1>24. CASE UNCHANGED vars
  BY <1>24, <1>t, SameAttempts DEF vars, Claimed
<1>25. ASSUME Insert PROVE AttemptsLeft'
  BY <1>25, <1>t, SameAttempts DEF Insert, Claimed
<1>26. ASSUME SelectPost PROVE AttemptsLeft'
  <2>1. ASSUME NEW p \in Posts, ~ Ineligible(p),
               pc' = [pc EXCEPT ![Dashboard] = "claim"],
               cur' = [cur EXCEPT ![Dashboard] = p],
               seen' = [seen EXCEPT ![Dashboard].attempts = attempts[p]]
        PROVE  AttemptsLeft'
    BY <1>26, <2>1, Loads DEF SelectPost, Claimed
  <2>2. CASE UNCHANGED <<cur, seen>> /\ pc' = [pc EXCEPT ![Dashboard] = "idle"]
    BY <1>26, <1>t, <2>2, SameAttempts DEF SelectPost, Claimed
  <2> QED
    BY <1>26, <2>1, <2>2 DEF SelectPost, PostsOf
<1> QED
  BY <1>1, <1>2, <1>3, <1>4, <1>5, <1>6, <1>7, <1>8, <1>9, <1>10, <1>11, <1>12,
     <1>13, <1>14, <1>15, <1>16, <1>17, <1>18, <1>19, <1>20, <1>21, <1>22, <1>23,
     <1>24, <1>25, <1>26 DEF Next, Drain, Publish, Operate

\* attempt_count never passes the maximum by more than the owner's retries.
THEOREM AttemptsAreBounded == Spec => []AttemptBudget
<1>1. AttemptsLeft => AttemptBudget
  BY DEF AttemptsLeft
<1>2. Spec => []AttemptsLeft
  BY AlwaysOwned, InitAttempts, NextAttempts, PTL DEF Spec
<1> QED
  BY <1>1, <1>2, PTL

-------------------------------------------------------------------------------
(* What has happened at Instagram *)

(***************************************************************************)
(* Every publication is confirmed, awaited or lost (LiveAccounted), and    *)
(* nothing is marked PUBLISHED without a confirmed one                     *)
(* (OnlyConfirmedIsPublished).  Only GoesLive publishes; Confirm,          *)
(* AnswerLost and Crash say what became of a publication, each for the row *)
(* its process holds.  The proofs rest on Ownership: the row is held by    *)
(* that process alone and has no ledger row yet.                           *)
(***************************************************************************)

\* The post is at Instagram and its process has not got the answer.
Awaits(a, p) == pc[a] = "live" /\ cur[a] = p
Awaited(p) == \E a \in Actors : Awaits(a, p)

Bit(b) == IF b THEN 1 ELSE 0

\* LiveAccounted without cardinalities.
Balance ==
  \A p \in Posts : live[p] = lost[p] + Bit(p \in ledger) + Bit(Awaited(p))

\* Nothing has happened at the start.
LEMMA InitBalance == Init => Balance
BY DEF Init, Balance, Bit, Awaited, Awaits

\* Steps of nobody who awaits an answer.
LEMMA SameBalance ==
  ASSUME Balance, UNCHANGED <<live, lost, ledger>>,
         \A c \in Actors : pc'[c] = "live" <=> pc[c] = "live",
         \A c \in Actors : pc[c] = "live" => cur'[c] = cur[c]
  PROVE  Balance'
<1>1. \A p \in Posts : Awaited(p)' <=> Awaited(p)
  BY DEF Awaited, Awaits
<1> QED
  BY <1>1 DEF Balance, Bit

\* One process begins or stops to await an answer for its row, which no other holds.
LEMMA OneAwaits ==
  ASSUME TypeOK, Ownership, NEW a \in Actors, NEW p \in Posts, Claimed(a), cur[a] = p,
         \A c \in Actors : c # a => pc'[c] = pc[c] /\ cur'[c] = cur[c],
         pc'[a] = "live" => cur'[a] = p
  PROVE  /\ \A q \in Posts : q # p => (Awaited(q)' <=> Awaited(q))
         /\ Awaited(p) <=> pc[a] = "live"
         /\ Awaited(p)' <=> pc'[a] = "live"
<1>1. \A c \in Actors : pc[c] = "live" => Claimed(c)
  BY DEF Claimed
<1>2. \A c \in Actors : c # a /\ pc[c] = "live" => cur[c] # p
  BY <1>1 DEF Ownership, ClaimExclusive
<1>3. Awaited(p) <=> pc[a] = "live"
  BY <1>2 DEF Awaited, Awaits
<1>4. Awaited(p)' <=> pc'[a] = "live"
  BY <1>2 DEF Awaited, Awaits
<1>5. \A q \in Posts : q # p => (Awaited(q)' <=> Awaited(q))
  BY DEF Awaited, Awaits
<1> QED
  BY <1>3, <1>4, <1>5

\* Every step keeps the balance.
LEMMA NextBalance == TypeOK /\ Ownership /\ Balance /\ [Next]_vars => Balance'
<1> SUFFICES ASSUME TypeOK, Ownership, Balance, [Next]_vars PROVE Balance'
  OBVIOUS
<1>t. /\ pc \in [Actors -> Labels]
      /\ cur \in [Actors -> Posts \cup {NoPost}]
      /\ live \in [Posts -> Nat] /\ lost \in [Posts -> Nat]
      /\ \A c \in Actors : Claimed(c) => cur[c] \in Posts
  BY DEF TypeOK
<1> USE DEF rowVars, limitVars, procVars, pastVars, Goto
<1>1. ASSUME NEW w \in Workers, StartBatch(w) PROVE Balance'
  BY <1>1, SameBalance DEF StartBatch
<1>2. ASSUME NEW w \in Workers, NEW p \in Posts, PassOver(w, p) PROVE Balance'
  BY <1>2, SameBalance DEF PassOver
<1>3. ASSUME NEW w \in Workers, NEW p \in Posts, Load(w, p) PROVE Balance'
  BY <1>3, <1>t, SameBalance DEF Load
<1>4. ASSUME NEW a \in Actors, Claim(a) PROVE Balance'
  BY <1>4, <1>t, SameBalance DEF Claim, Return
<1>5. ASSUME NEW a \in Actors, Prepare(a) PROVE Balance'
  BY <1>5, <1>t, SameBalance DEF Prepare
<1>6. ASSUME NEW a \in Actors, Reserve(a) PROVE Balance'
  BY <1>6, <1>t, SameBalance DEF Reserve
<1>7. ASSUME NEW a \in Actors, Revert(a) PROVE Balance'
  BY <1>7, <1>t, SameBalance DEF Revert, Return, Abort
<1>8. ASSUME NEW a \in Actors, GoesLive(a) PROVE Balance'
  <2> DEFINE p == cur[a]
  <2>1. Claimed(a) /\ p \in Posts /\ pc[a] # "live" /\ pc'[a] = "live" /\ cur' = cur
    BY <1>8, <1>t DEF GoesLive, Claimed
  <2>2. \A c \in Actors : c # a => pc'[c] = pc[c]
    BY <1>8, <1>t DEF GoesLive
  <2>3. live' = [live EXCEPT ![p] = @ + 1] /\ UNCHANGED <<lost, ledger>>
    BY <1>8 DEF GoesLive
  <2> QED
    BY <1>t, <2>1, <2>2, <2>3, OneAwaits DEF Balance, Bit
<1>9. ASSUME NEW a \in Actors, Confirm(a) PROVE Balance'
  <2> DEFINE p == cur[a]
  <2>1. Claimed(a) /\ p \in Posts /\ pc[a] = "live" /\ pc'[a] # "live" /\ p \notin ledger
    BY <1>9, <1>t DEF Confirm, Return, Claimed, Ownership
  <2>2. \A c \in Actors : c # a => pc'[c] = pc[c] /\ cur'[c] = cur[c]
    BY <1>9, <1>t DEF Confirm, Return
  <2>3. ledger' = ledger \cup {p} /\ UNCHANGED <<live, lost>>
    BY <1>9, <2>1 DEF Confirm
  <2> QED
    BY <1>t, <2>1, <2>2, <2>3, OneAwaits DEF Balance, Bit
<1>10. ASSUME NEW a \in Actors, Release(a) PROVE Balance'
  BY <1>10, <1>t, SameBalance DEF Release
<1>11. ASSUME NEW a \in Actors, Record(a) PROVE Balance'
  BY <1>11, <1>t, SameBalance DEF Record, Return, Abort
<1>12. ASSUME NEW a \in Actors, NEW t \in BOOLEAN, CallFails(a, t) PROVE Balance'
  BY <1>12, <1>t, SameBalance DEF CallFails
<1>13. ASSUME NEW a \in Actors, NEW p \in Posts, cur[a] = p, pc[a] = "live", pc'[a] # "live",
              \A c \in Actors : c # a => pc'[c] = pc[c] /\ cur'[c] = cur[c],
              lost' = [lost EXCEPT ![p] = @ + 1], UNCHANGED <<live, ledger>>
       PROVE  Balance'
  <2>1. Claimed(a)
    BY <1>13 DEF Claimed
  <2> QED
    BY <1>13, <1>t, <2>1, OneAwaits DEF Balance, Bit
<1>14. ASSUME NEW a \in Actors, NEW t \in BOOLEAN, AnswerLost(a, t) PROVE Balance'
  <2>1. cur[a] \in Posts /\ pc[a] = "live" /\ pc'[a] # "live"
    BY <1>14, <1>t DEF AnswerLost, Claimed
  <2>2. \A c \in Actors : c # a => pc'[c] = pc[c] /\ cur'[c] = cur[c]
    BY <1>14, <1>t DEF AnswerLost
  <2> QED
    BY <1>13, <1>14, <2>1, <2>2 DEF AnswerLost
<1>15. ASSUME NEW a \in Actors, Crash(a) PROVE Balance'
  <2>1. /\ pc'[a] = "idle"
        /\ \A c \in Actors : c # a => pc'[c] = pc[c] /\ cur'[c] = cur[c]
        /\ UNCHANGED <<live, ledger>>
    BY <1>15, <1>t DEF Crash, Return
  <2>2. CASE pc[a] = "live"
    <3>1. cur[a] \in Posts /\ lost' = [lost EXCEPT ![cur[a]] = @ + 1]
      BY <1>15, <1>t, <2>2 DEF Crash, Claimed
    <3> QED
      BY <1>13, <2>1, <2>2, <3>1
  <2>3. CASE pc[a] # "live"
    <3>1. lost' = lost
      BY <1>15, <2>3 DEF Crash
    <3> QED
      BY <2>1, <2>3, <3>1, SameBalance
  <2> QED
    BY <2>2, <2>3
<1>16. ASSUME Operate PROVE Balance'
  BY <1>16, <1>t, SameBalance DEF Operate, BeginInsert, BeginSkip, BeginRetry, Insert,
     SelectPost, SkipSelect, SkipWrite, RetryWrite, SetLimit, SetMode, DashboardFree
<1>17. ASSUME NEW p \in Posts, BackoffElapses(p) PROVE Balance'
  BY <1>17, SameBalance DEF BackoffElapses
<1>18. CASE UNCHANGED vars
  BY <1>18, SameBalance DEF vars
<1> QED
  BY <1>1, <1>2, <1>3, <1>4, <1>5, <1>6, <1>7, <1>8, <1>9, <1>10, <1>11, <1>12,
     <1>14, <1>15, <1>16, <1>17, <1>18 DEF Next, Drain, Publish

\* In every reachable state.
LEMMA AlwaysBalanced == Spec => []Balance
BY AlwaysOwned, InitBalance, NextBalance, PTL DEF Spec

\* Instagram has published a post once for its confirmation, once if an answer is
\* awaited, and once for every answer that was lost: the code never publishes twice
\* by itself.
THEOREM PublicationsAccounted == Spec => []LiveAccounted
<1>1. TypeOK /\ Ownership /\ Balance => LiveAccounted
  <2> SUFFICES ASSUME TypeOK, Ownership, Balance, NEW p \in Posts
               PROVE  live[p] = lost[p] + Cardinality({p} \cap ledger)
                        + Cardinality({a \in Actors : pc[a] = "live" /\ cur[a] = p})
    BY DEF LiveAccounted
  <2> DEFINE W == {a \in Actors : pc[a] = "live" /\ cur[a] = p}
  <2>1. \A a, b \in W : a = b
    BY DEF Ownership, ClaimExclusive, Claimed
  <2>2. Cardinality(W) = Bit(Awaited(p))
    <3>1. CASE W = {}
      BY <3>1, FS_EmptySet DEF Bit, Awaited, Awaits
    <3>2. CASE W # {}
      <4>1. PICK a \in W : W = {a}
        BY <2>1, <3>2
      <4> QED
        BY <4>1, FS_Singleton DEF Bit, Awaited, Awaits
    <3> QED
      BY <3>1, <3>2
  <2>3. Cardinality({p} \cap ledger) = Bit(p \in ledger)
    <3>1. {p} \cap ledger = IF p \in ledger THEN {p} ELSE {}
      OBVIOUS
    <3> QED
      BY <3>1, FS_EmptySet, FS_Singleton DEF Bit
  <2> QED
    BY <2>2, <2>3 DEF Balance
<1> QED
  BY <1>1, AlwaysOwned, AlwaysBalanced, PTL

-------------------------------------------------------------------------------
(* PUBLISHED *)

\* Only the final transaction writes PUBLISHED, with the ledger row.
Marked ==
  /\ \A p \in Posts : status[p] = "PUBLISHED" => p \in ledger
  /\ \A r \in Products : product[r] = "PUBLISHED" => PostsOf(r) \cap ledger # {}

\* Steps that mark nothing: the ledger does not lose a row.
LEMMA MarksNothing ==
  ASSUME Marked, ledger \subseteq ledger',
         \A p \in Posts : status'[p] = "PUBLISHED" => status[p] = "PUBLISHED",
         \A r \in Products : product'[r] = "PUBLISHED" => product[r] = "PUBLISHED"
  PROVE  Marked'
BY DEF Marked, PostsOf

\* Every step keeps the marks.
LEMMA NextMarked == TypeOK /\ Ownership /\ Marked /\ [Next]_vars => Marked'
<1> SUFFICES ASSUME TypeOK, Ownership, Marked, [Next]_vars PROVE Marked'
  OBVIOUS
<1>t. /\ status \in [Posts -> PostStatus]
      /\ product \in [Products -> ProductStatus]
      /\ \A c \in Actors : Claimed(c) \/ pc[c] = "claim" => cur[c] \in Posts
  BY DEF TypeOK
<1> USE DEF rowVars, limitVars, procVars, pastVars, Goto
<1>1. ASSUME NEW a \in Actors, Confirm(a) PROVE Marked'
  <2> DEFINE p == cur[a]
             r == ProductOf[p]
  <2>1. p \in Posts /\ p \notin ledger
    BY <1>1, <1>t DEF Confirm, Claimed, Ownership
  <2>2. /\ ledger' = ledger \cup {p}
        /\ status' = [status EXCEPT ![p] = "PUBLISHED"]
        /\ \A q \in Products : q # r => product'[q] = product[q]
    BY <1>1, <1>t, <2>1 DEF Confirm
  <2>3. p \in PostsOf(r) \cap ledger'
    BY <2>1, <2>2 DEF PostsOf
  <2>4. \A q \in Products : product'[q] = "PUBLISHED" => PostsOf(q) \cap ledger' # {}
    BY <2>2, <2>3 DEF Marked, PostsOf
  <2>5. \A q \in Posts : status'[q] = "PUBLISHED" => q \in ledger'
    BY <1>t, <2>2 DEF Marked
  <2> QED
    BY <2>4, <2>5 DEF Marked, PostsOf
<1>2. ASSUME NEW a \in Actors, Record(a) PROVE Marked'
  <2> DEFINE willRetry == seen[a].transient /\ HasAttemptsRemaining(seen[a].attempts + 1)
             s == StatusAfterFailure(willRetry)
  <2>1. s # "PUBLISHED"
    BY DEF StatusAfterFailure
  <2>2. status' \in {status, [status EXCEPT ![cur[a]] = s]}
    BY <1>2 DEF Record
  <2>3. \A r \in Products : product'[r] \in {product[r], "FAILED"}
    BY <1>2, <1>t DEF Record, Flush
  <2>4. ledger' = ledger
    BY <1>2 DEF Record
  <2> HIDE DEF s
  <2>5. \A q \in Posts : status'[q] \in {status[q], s}
    BY <1>t, <2>2
  <2> QED
    BY <2>1, <2>3, <2>4, <2>5, MarksNothing
<1>3. ASSUME NEW a \in Actors, Claim(a) \/ Revert(a) PROVE Marked'
  BY <1>3, <1>t, MarksNothing DEF Claim, Revert
<1>4. ASSUME NEW a \in Actors, \/ Prepare(a) \/ Reserve(a) \/ GoesLive(a) \/ Release(a) \/ Crash(a)
             \/ \E t \in BOOLEAN : CallFails(a, t) \/ AnswerLost(a, t)
      PROVE  Marked'
  BY <1>4, MarksNothing DEF Prepare, Reserve, GoesLive, Release, CallFails, AnswerLost, Crash
<1>5. ASSUME NEW w \in Workers, Drain(w) PROVE Marked'
  BY <1>5, MarksNothing DEF Drain, StartBatch, PassOver, Load
<1>6. ASSUME Insert PROVE Marked'
  BY <1>6, <1>t, MarksNothing DEF Insert
<1>7. ASSUME SkipWrite PROVE Marked'
  BY <1>7, <1>t, MarksNothing DEF SkipWrite
<1>8. ASSUME RetryWrite PROVE Marked'
  <2>1. \A r \in Products : product'[r] \in {product[r], "SCHEDULED", "ELIGIBLE"}
    BY <1>8, <1>t DEF RetryWrite, Flush
  <2>2. \A p \in Posts : status'[p] \in {status[p], "SCHEDULED"}
    BY <1>8, <1>t DEF RetryWrite
  <2>3. ledger' = ledger
    BY <1>8 DEF RetryWrite
  <2> QED
    BY <2>1, <2>2, <2>3, MarksNothing
<1>9. ASSUME \/ \E p \in Posts : BeginInsert(p)
             \/ \E r \in Products : BeginSkip(r) \/ BeginRetry(r)
             \/ SelectPost \/ SkipSelect
             \/ \E b \in Buckets, n \in Limits : SetLimit(b, n)
             \/ \E m \in {"REVIEW", "AUTO"} : SetMode(m)
             \/ \E p \in Posts : BackoffElapses(p)
             \/ UNCHANGED vars
      PROVE  Marked'
  <2>1. UNCHANGED <<status, product, ledger>>
    BY <1>9 DEF BeginInsert, BeginSkip, BeginRetry, SelectPost, SkipSelect, SetLimit, SetMode,
                BackoffElapses, vars
  <2> QED
    BY <2>1, MarksNothing
<1> QED
  BY <1>1, <1>2, <1>3, <1>4, <1>5, <1>6, <1>7, <1>8, <1>9 DEF Next, Publish, Operate

\* No post and no product is PUBLISHED without a confirmed publication that is at
\* Instagram.
THEOREM PublishedIsConfirmed == Spec => []OnlyConfirmedIsPublished
<1>1. Init => Marked
  BY DEF Init, Marked
<1>2. TypeOK /\ Balance => \A p \in ledger : live[p] > 0
  <2> SUFFICES ASSUME TypeOK, Balance, NEW p \in ledger PROVE live[p] > 0
    OBVIOUS
  <2>1. p \in Posts /\ lost[p] \in Nat
    BY DEF TypeOK
  <2> QED
    BY <2>1 DEF Balance, Bit
<1>3. TypeOK /\ Balance /\ Marked => OnlyConfirmedIsPublished
  BY <1>2 DEF OnlyConfirmedIsPublished, Marked
<1> QED
  BY <1>1, <1>3, AlwaysOwned, AlwaysBalanced, NextMarked, PTL DEF Spec
===============================================================================
