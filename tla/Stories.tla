-------------------------------- MODULE Stories --------------------------------
(***************************************************************************)
(* Stories, which may repeat: schedule_stories (app/queue/scheduler.py)    *)
(* creates a row for a product that has none under way and was not shown   *)
(* lately; publish_story (app/instagram/publisher_service.py) publishes    *)
(* it within the day's maximum.                                            *)
(*                                                                         *)
(* One worker (app/runtime/worker.py) creates and publishes; runners       *)
(* (python -m app.instagram.runner, by hand) only publish, at the same     *)
(* time.  A row is named by its idempotency_key: a product and the day the *)
(* cycle began on (a product keeps one medium here, until retention takes  *)
(* it).  One action is the code between two commits, as in Publisher; what *)
(* a process still holds of the objects it loaded is in proc.  The stages  *)
(* for posts, and the owner, appear as what they do to products.status.    *)
(***************************************************************************)
EXTENDS Integers, FiniteSets, FiniteSetsExt

CONSTANTS
  Products,      \* ids of products, the order in which they are considered
  Worker,        \* the worker process
  Runners,       \* publishers started by hand
  MaxAttempts,   \* INSTAGRAM_MAX_PUBLISH_ATTEMPTS
  Cooldown,      \* STORY_COOLDOWN_HOURS, in ticks
  DayLength,     \* ticks of a day
  DefaultLimit,  \* DEFAULT_DAILY_STORY_LIMIT
  Limits,        \* values the owner gives to max_allowed
  LastTick,      \* bound: time
  MaxRuns,       \* bound: batches started by hand
  MaxChanges,    \* bound: limits and product statuses changed by others
  MaxKills       \* bound: processes killed

ASSUME StoriesAssumption ==
  /\ Products \subseteq Nat
  /\ IsFiniteSet(Products)
  /\ Worker \notin Runners
  /\ MaxAttempts \in Nat \ {0}
  /\ Cooldown \in Nat
  /\ DayLength \in Nat \ {0}
  /\ DefaultLimit \in Limits
  /\ Limits \subseteq Nat
  /\ LastTick \in Nat
  /\ MaxRuns \in Nat
  /\ MaxChanges \in Nat
  /\ MaxKills \in Nat

Procs   == Runners \cup {Worker}
DayOf(t) == t \div DayLength
Days    == 0 .. DayOf(LastTick)
Keys    == Products \X Days
NoLimit == -1
NoTime  == -1

\* QUEUED stands for VALIDATED to SCHEDULED, SKIPPED for REJECTED and
\* DUPLICATE as well: this code does not tell them apart.
ProductStatus == {"QUEUED", "PUBLISHED", "SKIPPED", "FAILED"}
Showable      == {"QUEUED", "PUBLISHED"}
StoryStatus   == {"ABSENT", "SCHEDULED", "PROCESSING", "PUBLISHED", "FAILED"}
Unfinished    == {"SCHEDULED", "PROCESSING"}

VARIABLES
  product,      \* products.status
  media,        \* the product still has its photo or video
  story,        \* stories.status, by key
  attempts,     \* stories.attempt_count
  bucket,       \* the day of stories.scheduled_for
  publishedAt,  \* stories.published_at
  maxAllowed,   \* daily_limits.max_allowed for STORY
  published,    \* daily_limits.published_count for STORY
  clock,
  proc,         \* where a process is and what it has read
  stranded,     \* history: stories whose process was killed or gave up
  orphaned,     \* history: those of them that keep a slot
  shown,        \* history: products that were not refused all along a batch
  peak,         \* history: the largest max_allowed of a day
  spent         \* bounds

rows    == <<story, attempts, bucket, publishedAt>>
limits  == <<maxAllowed, published>>
past    == <<stranded, orphaned, shown, peak, spent>>
vars    == <<product, media, rows, limits, clock, proc, past>>

NoKey == <<>>

\* day, room, list: creating, for the products listed; todo: the batch; key: the
\* story at hand, with the attempt_count it was loaded with; seen: a product this
\* session has loaded, and its status then; slot: holds a place of the day.
Idle == [at |-> "idle", day |-> 0, room |-> 0, list |-> {}, todo |-> {}, key |-> NoKey,
         attempts |-> 0, seen |-> NoKey, slot |-> FALSE, transient |-> FALSE]

Handling == {"claimed", "calling", "live", "failed"}

Places == {"idle", "start", "create", "posts", "batch", "loaded"} \cup Handling

ProcType ==
  [at : Places, day : Days, room : Nat, list : SUBSET Products, todo : SUBSET Keys,
   key : Keys \cup {NoKey}, attempts : Nat, seen : (Products \X ProductStatus) \cup {NoKey},
   slot : BOOLEAN, transient : BOOLEAN]

TypeOK ==
  /\ product \in [Products -> ProductStatus]
  /\ media \in [Products -> BOOLEAN]
  /\ story \in [Keys -> StoryStatus]
  /\ attempts \in [Keys -> Nat]
  /\ bucket \in [Keys -> Days]
  /\ publishedAt \in [Keys -> 0 .. LastTick \cup {NoTime}]
  /\ maxAllowed \in [Days -> Limits \cup {NoLimit}]
  /\ published \in [Days -> Nat]
  /\ clock \in 0 .. LastTick
  /\ proc \in [Procs -> ProcType]
  /\ \A w \in Procs :
       /\ proc[w].at \in Handling => proc[w].key \in Keys /\ story[proc[w].key] = "PROCESSING"
       /\ proc[w].slot <=> proc[w].at \in {"calling", "live"}
  /\ stranded \subseteq Keys
  /\ orphaned \subseteq stranded
  /\ shown \in [Procs -> SUBSET Products]
  /\ peak \in [Days -> Limits \cup {0}]
  /\ spent \in [runs : 0 .. MaxRuns, changes : 0 .. MaxChanges, kills : 0 .. MaxKills]

Init ==
  /\ product = [r \in Products |-> "QUEUED"]
  /\ media = [r \in Products |-> TRUE]
  /\ story = [k \in Keys |-> "ABSENT"]
  /\ attempts = [k \in Keys |-> 0]
  /\ bucket = [k \in Keys |-> 0]
  /\ publishedAt = [k \in Keys |-> NoTime]
  /\ maxAllowed = [d \in Days |-> NoLimit]
  /\ published = [d \in Days |-> 0]
  /\ clock = 0
  /\ proc = [w \in Procs |-> Idle]
  /\ stranded = {}
  /\ orphaned = {}
  /\ shown = [w \in Procs |-> {}]
  /\ peak = [d \in Days |-> 0]
  /\ spent = [runs |-> 0, changes |-> 0, kills |-> 0]

-------------------------------------------------------------------------------
(* Helpers *)

Goto(w, rec) == proc' = [proc EXCEPT ![w] = rec]

\* On to the next story of the batch, or to the end.
Advance(p) ==
  IF p.todo = {} THEN Idle
  ELSE [Idle EXCEPT !.at = "batch", !.todo = p.todo, !.seen = p.seen]

StoriesOf(r) == {k \in Keys : k[1] = r /\ story[k] \in Unfinished \cup {"PUBLISHED"}}

\* Rows are inserted in the order of their days: the latest one by id.
Latest(r) == CHOOSE k \in StoriesOf(r) : \A j \in StoriesOf(r) : j[2] <= k[2]

\* Mutant: a story that is being published does not count as under way.
RestedUnlessScheduled(r) ==
  \/ StoriesOf(r) = {}
  \/ story[Latest(r)] = "PROCESSING"
  \/ story[Latest(r)] = "PUBLISHED" /\ clock - publishedAt[Latest(r)] >= Cooldown

\* No story of the product is under way, and the last one was long ago.
Rested(r) ==
  \/ StoriesOf(r) = {}
  \/ story[Latest(r)] = "PUBLISHED" /\ clock - publishedAt[Latest(r)] >= Cooldown

\* remaining_capacity(STORY): the stories of the day that are not finished, and
\* the places taken.
Remaining(d) ==
  LET active == {k \in Keys : story[k] \in Unfinished /\ bucket[k] = d}
      left   == maxAllowed[d] - published[d] - Cardinality(active)
  IN IF maxAllowed[d] = NoLimit \/ left < 0 THEN 0 ELSE left

\* The rows due, whatever the hour of the day.
DueStories == {k \in Keys : story[k] = "SCHEDULED"}

\* The first of them, ORDER BY id: inserted first.
FirstStory(S) ==
  CHOOSE k \in S : \A j \in S : k[2] < j[2] \/ (k[2] = j[2] /\ k[1] <= j[1])

-------------------------------------------------------------------------------
(* The worker creates stories *)

\* ensure_default_daily_limits, at the head of the cycle.
Ensured(d) == IF maxAllowed[d] = NoLimit THEN DefaultLimit ELSE maxAllowed[d]

Higher(d, n) == IF n > peak[d] THEN [peak EXCEPT ![d] = n] ELSE peak

StartCycle ==
  LET d == DayOf(clock) IN
  /\ proc[Worker].at = "idle"
  /\ maxAllowed' = [maxAllowed EXCEPT ![d] = Ensured(d)]
  /\ peak' = Higher(d, Ensured(d))
  /\ Goto(Worker, [Idle EXCEPT !.at = "start"])
  /\ UNCHANGED <<product, media, rows, published, clock, stranded, orphaned, shown, spent>>

\* schedule_stories' queries for the room and the products.
ReadProducts ==
  LET p == proc[Worker]
      d == DayOf(clock)
  IN /\ p.at = "start"
     /\ Goto(Worker, [p EXCEPT !.at = "create", !.day = d, !.room = Remaining(d),
                               !.list = {r \in Products : product[r] \in Showable}])
     /\ UNCHANGED <<product, media, rows, limits, clock, past>>

\* The next product of the list (equal scores, ORDER BY id), whatever its status
\* is by now.  The key also names the product's first medium: a product keeps it,
\* so that product and day name the story.
CreateNext ==
  LET p == proc[Worker]
      r == Min(p.list)
      k == <<r, p.day>>
  IN /\ p.at = "create"
     /\ p.room > 0
     /\ p.list # {}
     /\ IF media[r] /\ Rested(r) /\ story[k] = "ABSENT"
        THEN /\ story' = [story EXCEPT ![k] = "SCHEDULED"]
             /\ bucket' = [bucket EXCEPT ![k] = DayOf(clock)]
             /\ Goto(Worker, [p EXCEPT !.room = @ - 1, !.list = @ \ {r}])
        ELSE /\ Goto(Worker, [p EXCEPT !.list = @ \ {r}])
             /\ UNCHANGED <<story, bucket>>
     /\ UNCHANGED <<product, media, attempts, publishedAt, limits, clock, past>>

-------------------------------------------------------------------------------
(* A batch of the publisher: run_publisher *)

BatchMayStart(w) ==
  IF w = Worker THEN proc[w].at = "create" /\ (proc[w].room = 0 \/ proc[w].list = {})
  ELSE proc[w].at = "idle" /\ spent.runs < MaxRuns

\* Mode REVIEW: nothing is published.
Review ==
  /\ BatchMayStart(Worker)
  /\ Goto(Worker, Idle)
  /\ UNCHANGED <<product, media, rows, limits, clock, past>>

\* Mode AUTO: the ids are read before the posts are dealt with.
StartBatch(w) ==
  /\ BatchMayStart(w)
  /\ Goto(w, [Idle EXCEPT !.at = "posts", !.todo = DueStories])
  /\ shown' = [shown EXCEPT ![w] = {r \in Products : product[r] # "SKIPPED"}]
  /\ spent' = IF w = Worker THEN spent ELSE [spent EXCEPT !.runs = @ + 1]
  /\ UNCHANGED <<product, media, rows, limits, clock, stranded, orphaned, peak>>

\* The posts of the batch: publishing one loads its product into the session,
\* where it stays until a rollback.
DealWithPosts(w) ==
  LET p == proc[w] IN
  /\ p.at = "posts"
  /\ \/ Goto(w, Advance(p))
     \/ \E r \in Products : Goto(w, Advance([p EXCEPT !.seen = <<r, product[r]>>]))
  /\ UNCHANGED <<product, media, rows, limits, clock, past>>

\* The story has been published or given up by another process.
PassOver(w) ==
  LET p == proc[w]
      k == FirstStory(p.todo)
  IN /\ p.at = "batch"
     /\ story[k] \in {"PUBLISHED", "FAILED"}
     /\ Goto(w, Advance([p EXCEPT !.todo = @ \ {k}]))
     /\ UNCHANGED <<product, media, rows, limits, clock, past>>

\* The other early return, for a row without attempts left, is never taken: such
\* a row is not put back to SCHEDULED.
Load(w) ==
  LET p == proc[w]
      k == FirstStory(p.todo)
  IN /\ p.at = "batch"
     /\ story[k] \notin {"PUBLISHED", "FAILED"}
     /\ Goto(w, [p EXCEPT !.at = "loaded", !.key = k, !.todo = @ \ {k},
                          !.attempts = attempts[k]])
     /\ UNCHANGED <<product, media, rows, limits, clock, past>>

\* Mutant: the claim does not look at the status.
ClaimableAlways(k) == TRUE

\* WHERE status IN (PENDING, SCHEDULED)
ClaimableStory(k) == story[k] = "SCHEDULED"

\* _claim_story; without a row it rolls back, which unloads every object.
ClaimStory(w) ==
  LET p == proc[w] IN
  /\ p.at = "loaded"
  /\ IF ClaimableStory(p.key)
     THEN /\ story' = [story EXCEPT ![p.key] = "PROCESSING"]
          /\ Goto(w, [p EXCEPT !.at = "claimed"])
     ELSE /\ Goto(w, Advance([p EXCEPT !.seen = NoKey]))
          /\ UNCHANGED story
  /\ UNCHANGED <<product, media, attempts, bucket, publishedAt, limits, clock, past>>

-------------------------------------------------------------------------------
(* publish_story, from the claim on *)

\* session.get returns the object the session has loaded before, if any.
StatusFor(p) ==
  IF p.seen # NoKey /\ p.seen[1] = p.key[1] THEN p.seen[2] ELSE product[p.key[1]]

\* Mutant: a skipped product's story is published like any other.
UnsafeIfNoMedia(p) == ~media[p.key[1]]

\* The product is refused, or the medium is gone (media_id SET NULL).
Unsafe(p) == StatusFor(p) = "SKIPPED" \/ ~media[p.key[1]]

\* Mutant: a failure leaves the row claimed.
FailureForgotten(p, transient) == "PROCESSING"

\* Transient failures are retried while attempts are left.
StoryAfterFailure(p, transient) ==
  IF transient /\ p.attempts + 1 < MaxAttempts THEN "SCHEDULED" ELSE "FAILED"

\* _record_story_failure writes what the loaded object says.
RecordStory(w, transient) ==
  LET p == proc[w] IN
  /\ story' = [story EXCEPT ![p.key] = StoryAfterFailure(p, transient)]
  /\ attempts' = [attempts EXCEPT ![p.key] = p.attempts + 1]
  /\ Goto(w, Advance(p))
  /\ UNCHANGED <<product, media, bucket, publishedAt, limits, clock, past>>

Refuse(w) ==
  /\ proc[w].at = "claimed"
  /\ Unsafe(proc[w])
  /\ RecordStory(w, FALSE)

HasRoom(d) == published[d] < maxAllowed[d]

\* reserve_slot of the day the story was scheduled for.
ReserveStory(w) ==
  LET p == proc[w]
      d == bucket[p.key]
  IN /\ p.at = "claimed"
     /\ ~Unsafe(p)
     /\ HasRoom(d)
     /\ published' = [published EXCEPT ![d] = @ + 1]
     /\ Goto(w, [p EXCEPT !.at = "calling", !.slot = TRUE])
     /\ UNCHANGED <<product, media, rows, maxAllowed, clock, past>>

\* The day is full: reserve_slot rolls back, and reading scheduled_for of the
\* row that is thereby unloaded raises.  The batch ends, the row stays claimed.
MeetFullDay(w) ==
  LET p == proc[w] IN
  /\ p.at = "claimed"
  /\ ~Unsafe(p)
  /\ ~HasRoom(bucket[p.key])
  /\ stranded' = stranded \cup {p.key}
  /\ Goto(w, Idle)
  /\ UNCHANGED <<product, media, rows, limits, clock, orphaned, shown, peak, spent>>

\* Instagram publishes the story ...
GoesLive(w) ==
  /\ proc[w].at = "calling"
  /\ Goto(w, [proc[w] EXCEPT !.at = "live"])
  /\ UNCHANGED <<product, media, rows, limits, clock, past>>

\* Mutant: the slot is given back to the day of the failure.
GiveBackToday(d) == [published EXCEPT ![DayOf(clock)] = IF @ > 0 THEN @ - 1 ELSE @]

GiveBack(d) == [published EXCEPT ![d] = IF @ > 0 THEN @ - 1 ELSE @]

\* release_slot, after an error before that, or a lost answer after it.
ReleaseStory(w) ==
  LET p == proc[w]
  IN /\ p.at \in {"calling", "live"}
     /\ published' = GiveBack(bucket[p.key])
     /\ \E transient \in BOOLEAN :
          Goto(w, [p EXCEPT !.at = "failed", !.slot = FALSE, !.transient = transient])
     /\ UNCHANGED <<product, media, rows, maxAllowed, clock, past>>

RecordFailure(w) == proc[w].at = "failed" /\ RecordStory(w, proc[w].transient)

\* The answer arrives: product.status is left alone.
ConfirmStory(w) ==
  LET p == proc[w] IN
  /\ p.at = "live"
  /\ story' = [story EXCEPT ![p.key] = "PUBLISHED"]
  /\ publishedAt' = [publishedAt EXCEPT ![p.key] = clock]
  /\ attempts' = [attempts EXCEPT ![p.key] = p.attempts + 1]
  /\ Goto(w, Advance(p))
  /\ UNCHANGED <<product, media, bucket, limits, clock, past>>

-------------------------------------------------------------------------------
(* The rest of the system *)

Tick ==
  /\ clock < LastTick
  /\ clock' = clock + 1
  /\ UNCHANGED <<product, media, rows, limits, proc, past>>

\* The owner, the pipeline or the publisher of posts changes products.status.
ChangeProduct(r, s) ==
  /\ product[r] # s
  /\ spent.changes < MaxChanges
  /\ spent' = [spent EXCEPT !.changes = @ + 1]
  /\ product' = [product EXCEPT ![r] = s]
  /\ shown' = [w \in Procs |-> IF s = "SKIPPED" THEN shown[w] ELSE shown[w] \cup {r}]
  /\ UNCHANGED <<media, rows, limits, clock, proc, stranded, orphaned, peak>>

\* set_limit writes today's row, or adds it.
SetStoryLimit(n) ==
  LET d == DayOf(clock) IN
  /\ maxAllowed[d] # n
  /\ spent.changes < MaxChanges
  /\ spent' = [spent EXCEPT !.changes = @ + 1]
  /\ maxAllowed' = [maxAllowed EXCEPT ![d] = n]
  /\ peak' = Higher(d, n)
  /\ UNCHANGED <<product, media, rows, published, clock, proc, stranded, orphaned, shown>>

\* purge_expired_media, between two cycles of the worker.
PurgeMedia(r) ==
  /\ proc[Worker].at = "idle"
  /\ product[r] \in {"PUBLISHED", "SKIPPED", "FAILED"}
  /\ media[r]
  /\ media' = [media EXCEPT ![r] = FALSE]
  /\ UNCHANGED <<product, rows, limits, clock, proc, past>>

\* The process dies, or an exception of the posts ends the batch; a story that
\* was being published stays PROCESSING.
Killed(w) ==
  LET p == proc[w] IN
  /\ p.at # "idle"
  /\ spent.kills < MaxKills
  /\ spent' = [spent EXCEPT !.kills = @ + 1]
  /\ stranded' = IF p.at \in Handling THEN stranded \cup {p.key} ELSE stranded
  /\ orphaned' = IF p.slot THEN orphaned \cup {p.key} ELSE orphaned
  /\ Goto(w, Idle)
  /\ UNCHANGED <<product, media, rows, limits, clock, shown, peak>>

Create == StartCycle \/ ReadProducts \/ CreateNext

Publish(w) ==
  \/ DealWithPosts(w) \/ PassOver(w) \/ Load(w) \/ ClaimStory(w)
  \/ Refuse(w) \/ ReserveStory(w) \/ MeetFullDay(w)
  \/ GoesLive(w) \/ ReleaseStory(w) \/ RecordFailure(w) \/ ConfirmStory(w)

Next ==
  \/ Create
  \/ Review
  \/ \E w \in Procs : Publish(w) \/ StartBatch(w) \/ Killed(w)
  \/ \E r \in Products : PurgeMedia(r) \/ \E s \in ProductStatus : ChangeProduct(r, s)
  \/ \E n \in Limits : SetStoryLimit(n)
  \/ Tick

Spec == Init /\ [][Next]_vars

\* The worker's cycles never stop, and they publish again and again: the mode
\* is AUTO often enough.  What a process has begun it ends; nobody need start a
\* runner.
FairSpec ==
  /\ Spec
  /\ WF_vars(Create)
  /\ SF_vars(StartBatch(Worker))
  /\ \A w \in Procs : WF_vars(Publish(w))

-------------------------------------------------------------------------------
(* Properties *)

\* Handled by w.
InHand(w, k) == proc[w].at \in Handling /\ proc[w].key = k

\* A story in PROCESSING has exactly one process, or its process was killed or
\* met a full day: no other path through publish_story forgets it, and no
\* second publisher takes it.
ProcessingExplained ==
  \A k \in Keys :
    story[k] = "PROCESSING" <=> (k \in stranded) # (\E w \in Procs : InHand(w, k))

\* Stories of a product take turns: never two under way, and the confirmed ones
\* are a cooldown apart, whatever fails and whoever publishes.
StoriesTakeTurns ==
  \A j, k \in Keys : j # k /\ j[1] = k[1] =>
    /\ ~(story[j] \in Unfinished /\ story[k] \in Unfinished)
    /\ story[j] = "PUBLISHED" /\ story[k] = "PUBLISHED" /\ j[2] < k[2]
         => publishedAt[k] - publishedAt[j] >= Cooldown

\* The stories under way that own a slot, and the confirmed ones.
Slotted == {k \in Keys : \E w \in Procs : proc[w].slot /\ proc[w].key = k}
Confirmed == {k \in Keys : story[k] = "PUBLISHED"}

\* The slots in use on day d.
SlotsOf(d) == {k \in Slotted \cup Confirmed \cup orphaned : bucket[k] = d}

\* published_count is the number of stories that own a slot of the day, even if
\* midnight, a retry on a later day or a kill comes between, and a day never
\* holds more of them than its maximum has ever been.
StorySlotsExact ==
  \A d \in Days : published[d] = Cardinality(SlotsOf(d)) /\ published[d] <= peak[d]

\* A story with the day it is counted in: what asks the pool of slots for one.
Publication(k) == <<k, bucket[k]>>
Publications(S) == {Publication(k) : k \in S}

\* The slot discipline of daily_limit_guard.py, for the rows of content type STORY.
Pool == INSTANCE SlotPool WITH
  Posts <- Keys \X Days,
  Buckets <- Days,
  BucketOf <- [x \in Keys \X Days |-> x[2]],
  Limits <- Limits \cup {NoLimit},
  limit <- maxAllowed,
  holders <- Publications(Slotted),
  confirmed <- Publications(Confirmed),
  orphaned <- Publications(orphaned)

\* Stories use the same pool of slots as posts do: a story takes one when there is
\* room in its day and it owns none, and gives it back unless it was confirmed.
ImplementsSlotPool == Pool!PoolSpec

\* A product that was skipped before a batch began, and stayed so, has no story
\* published by that batch, even if the session still holds an older status.
SkipIsHeeded ==
  [][\A w \in Procs :
       proc[w].at = "calling" /\ proc'[w].at = "live" => proc[w].key[1] \in shown[w]]_vars

\* Every story is published or given up, unless its process was killed or met a
\* full day: a story never waits for ever behind another one's failure.
StoriesEnd ==
  \A k \in Keys :
    [](story[k] \in Unfinished => <>(story[k] \in {"PUBLISHED", "FAILED"} \/ k \in stranded))
===============================================================================
