------------------------------- MODULE Pipeline -------------------------------
(***************************************************************************)
(* From an eligible product to a row of scheduled_posts: one cycle of the  *)
(* worker (app/runtime/worker.py) as far as limits, queue, batch scheduler *)
(* and publisher go, and the dashboard operations on the same rows.        *)
(*                                                                         *)
(* Two deployments run this code.  docker-compose.yml starts the worker    *)
(* and the dashboard as two processes (Concurrent); the scheduled job of   *)
(* app/runtime/worker_once.py first serves the dashboard's updates and     *)
(* then runs the stages, in one process (not Concurrent).                  *)
(*                                                                         *)
(* One action is what happens between two points where the other process   *)
(* can see or change the database: a statement, or a commit.  run and desk *)
(* hold what the two processes have read before.  What publishing a row    *)
(* does in detail is the subject of module Publisher: here it is one step  *)
(* with the outcomes that change the database.  Of the cycle's other       *)
(* stages only that one before the queue may end the cycle is here         *)
(* (StageFails); what they write is left out, and products start ELIGIBLE. *)
(***************************************************************************)
EXTENDS Integers, FiniteSets

CONSTANTS
  Products,     \* ids of products
  Preferred,    \* products.preferred_content_type
  HasVideo,     \* the product has a downloaded video
  Score,        \* products.score
  DefaultType,  \* SCHEDULER_DEFAULT_CONTENT_TYPE
  DefaultLimit, \* DEFAULT_DAILY_POST_LIMIT, DEFAULT_DAILY_REEL_LIMIT
  Limits,       \* values the owner gives to max_allowed
  LastDay,      \* bound: days
  MaxRetries,   \* bound: retries by the owner
  MaxKills,     \* bound: processes killed
  MaxChanges,   \* bound: limits set by the owner
  Concurrent    \* whether the dashboard runs beside the worker

Types == {"POST", "REEL"}
Days  == 1 .. LastDay

ASSUME PipelineAssumption ==
  /\ Products \subseteq Nat
  /\ IsFiniteSet(Products)
  /\ Preferred \in [Products -> Types \cup {"STORY", "NULL"}]
  /\ HasVideo \in [Products -> BOOLEAN]
  /\ Score \in [Products -> Nat]
  /\ DefaultType \in Types
  /\ DefaultLimit \in Limits
  /\ Limits \subseteq Nat
  /\ LastDay \in Nat \ {0}
  /\ MaxRetries \in Nat
  /\ MaxKills \in Nat
  /\ MaxChanges \in Nat
  /\ Concurrent \in BOOLEAN

NoLimit == -1  \* no row in daily_limits

ProductStatus ==
  {"ELIGIBLE", "QUEUED", "SCHEDULED", "PUBLISHED", "FAILED", "SKIPPED"}
RowStatus ==
  {"ABSENT", "SCHEDULED", "PROCESSING", "PUBLISHED", "FAILED", "CANCELLED"}
ActiveStatus == {"SCHEDULED", "PROCESSING"}
Schedulable  == {"ELIGIBLE", "QUEUED"}

\* build_idempotency_key: a product, a content type and a day.
Keys == Products \X Types \X Days

VARIABLES
  product,     \* products.status
  row,         \* scheduled_posts.status
  published,   \* daily_limits.published_count
  maxAllowed,  \* daily_limits.max_allowed
  today,       \* the date in the scheduler's timezone
  at,          \* where the worker is in its cycle
  run,         \* what the worker has read
  desk,        \* the dashboard's operation and what it has read
  peak,        \* history: the largest max_allowed of a day
  revived,     \* history: rows the owner's retries put back
  spent        \* bounds: processes killed, limits set

tables == <<product, row, published, maxAllowed>>
past   == <<peak, revived, spent>>
vars   == <<tables, today, at, run, desk, past>>

Places == {"idle", "limits", "eligible", "enqueue", "select", "capacity", "insert", "publish"}

\* missing: content types without a limit; loaded: products read by the queue;
\* batch: those the scheduler has yet to deal with; day: its date; reads: capacity
\* queries done; slack: their results, less what has been inserted.
Fresh == [missing |-> {}, loaded |-> {}, batch |-> {}, day |-> 1, reads |-> 0,
          slack |-> [t \in Types |-> 0]]

RunType ==
  [missing : SUBSET Types, loaded : SUBSET Products, batch : SUBSET Products,
   day : Days, reads : 0 .. 4, slack : [Types -> Int]]

Free == [kind |-> "free"]

\* A row on its way, a skip, a retry; what each has read.
DeskType ==
  {Free}
    \cup [kind : {"limit", "count", "insert", "publish"}, product : Products, now : BOOLEAN,
          day : Days, slack : Int]
    \cup [kind : {"skip_select", "skip_write"}, product : Products, rows : SUBSET Keys]
    \cup [kind : {"retry"}, product : Products, status : ProductStatus]

\* One update at a time; in the job, only before the stages.
DeskMay   == desk = Free /\ (Concurrent \/ at = "idle")
WorkerMay == at = "idle" /\ (Concurrent \/ desk = Free)

-------------------------------------------------------------------------------
(* Helpers *)

RowsOf(r)      == {k \in Keys : k[1] = r}
RowsOn(t, d)   == {k \in Keys : k[2] = t /\ k[3] = d}
ActiveRows(r)  == {k \in RowsOf(r) : row[k] \in ActiveStatus}
Active(t, d)   == {k \in RowsOn(t, d) : row[k] \in ActiveStatus}

\* The unique idempotency_key and the partial unique index let the row in.
Insertable(k) ==
  /\ row[k] = "ABSENT"
  /\ \A j \in ActiveRows(k[1]) : j[2] # k[2]

\* Mutant: published_count is not counted as consumed.
SlackIgnoringPublished(t, d) == maxAllowed[<<t, d>>]

\* First query of remaining_capacity: the row of daily_limits, if any.
Slack(t, d) ==
  IF maxAllowed[<<t, d>>] = NoLimit THEN 0 ELSE maxAllowed[<<t, d>>] - published[<<t, d>>]

\* Mutant: more rows than the maximum leave a negative room.
RoomUnclamped(slack, t, d) == slack - Cardinality(Active(t, d))

\* Second query: the active rows of the day.
Room(slack, t, d) ==
  LET left == slack - Cardinality(Active(t, d)) IN IF left > 0 THEN left ELSE 0

\* The first candidate with a slot left: the owner's choice, or video before
\* photo.  Selectable never lets a product without a choice come this far: the
\* second half is never used.
Choice(r) ==
  IF Preferred[r] \in Types THEN Preferred[r]
  ELSE IF HasVideo[r] /\ run.slack["REEL"] > 0 THEN "REEL" ELSE "POST"

\* The products of the batch that still find a slot; the others are passed over.
\* The code selects all of them first: in memory, from what only it has read, so
\* that each product may as well be chosen when it is its turn to be inserted.
Selected == {r \in run.batch : run.slack[Choice(r)] > 0}

\* ORDER BY score DESC, id ASC
Foremost(S) ==
  CHOOSE r \in S : \A s \in S : Score[s] < Score[r] \/ (Score[s] = Score[r] /\ r <= s)

\* The next row to insert.
NextKey == LET r == Foremost(Selected) IN <<r, Choice(r), run.day>>

\* WHERE preferred_content_type != 'STORY', which is not true of NULL either.
Selectable(r) == product[r] = "QUEUED" /\ Preferred[r] \notin {"STORY", "NULL"}

-------------------------------------------------------------------------------
TypeOK ==
  /\ product \in [Products -> ProductStatus]
  /\ row \in [Keys -> RowStatus]
  /\ published \in [Types \X Days -> Nat]
  /\ maxAllowed \in [Types \X Days -> Limits \cup {NoLimit}]
  /\ today \in Days
  /\ at \in Places
  /\ at = "insert" => run.slack \in [Types -> Nat]
  /\ run \in RunType
  /\ desk \in DeskType
  /\ peak \in [Types \X Days -> Limits \cup {0}]
  /\ revived \in [Types \X Days -> Nat]
  /\ spent \in [kills : 0 .. MaxKills, changes : 0 .. MaxChanges]

Init ==
  /\ product = [r \in Products |-> "ELIGIBLE"]
  /\ row = [k \in Keys |-> "ABSENT"]
  /\ published = [b \in Types \X Days |-> 0]
  /\ maxAllowed = [b \in Types \X Days |-> NoLimit]
  /\ today = 1
  /\ at = "idle"
  /\ run = Fresh
  /\ desk = Free
  /\ peak = [b \in Types \X Days |-> 0]
  /\ revived = [b \in Types \X Days |-> 0]
  /\ spent = [kills |-> 0, changes |-> 0]

-------------------------------------------------------------------------------
(* The worker's cycle *)

Goto(l) == at' = l

\* An exception in a stage ends the cycle: nothing read survives.
Abort == at' = "idle" /\ run' = Fresh

\* ensure_default_daily_limits: which limits of today are missing.
StartCycle ==
  /\ WorkerMay
  /\ Goto("limits")
  /\ run' = [Fresh EXCEPT !.day = today,
                          !.missing = {t \in Types : maxAllowed[<<t, today>>] = NoLimit}]
  /\ UNCHANGED <<tables, today, desk, past>>

\* Its commit; the owner may have set one of them meanwhile.
EnsureLimits ==
  LET added == {<<t, run.day>> : t \in run.missing}
  IN /\ at = "limits"
     /\ IF \A b \in added : maxAllowed[b] = NoLimit
        THEN /\ maxAllowed' = [b \in Types \X Days |-> IF b \in added THEN DefaultLimit ELSE maxAllowed[b]]
             /\ peak' = [b \in Types \X Days |-> IF b \in added THEN DefaultLimit ELSE peak[b]]
             /\ Goto("eligible")
             /\ run' = Fresh
        ELSE /\ Abort
             /\ UNCHANGED <<maxAllowed, peak>>
     /\ UNCHANGED <<product, row, published, today, desk, revived, spent>>

\* The parser, the captions or the eligibility of a product fails.  Each of them
\* catches the exception, rolls back and then reads the object that the rollback
\* has expired: MissingGreenlet, which ends the cycle.  For the captions it takes
\* no more than a provider that does not answer.
StageFails ==
  /\ at = "eligible"
  /\ Abort
  /\ UNCHANGED <<tables, today, desk, past>>

\* enqueue_eligible_products reads ...
ReadEligible ==
  /\ at = "eligible"
  /\ run' = [run EXCEPT !.loaded = {r \in Products : product[r] = "ELIGIBLE"}]
  /\ Goto("enqueue")
  /\ UNCHANGED <<tables, today, desk, past>>

\* ... and writes QUEUED into all it has read.
Enqueue ==
  /\ at = "enqueue"
  /\ product' = [r \in Products |-> IF r \in run.loaded THEN "QUEUED" ELSE product[r]]
  /\ Goto("select")
  /\ run' = Fresh
  /\ UNCHANGED <<row, published, maxAllowed, today, desk, past>>

\* run_scheduler: the date and the queued products ...
SelectQueued ==
  /\ at = "select"
  /\ run' = [Fresh EXCEPT !.day = today, !.batch = {r \in Products : Selectable(r)}]
  /\ Goto("capacity")
  /\ UNCHANGED <<tables, today, desk, past>>

\* ... and four queries for the capacity of posts and reels.
ReadCapacity ==
  LET t == IF run.reads < 2 THEN "POST" ELSE "REEL"
      n == IF run.reads \in {0, 2} THEN Slack(t, run.day) ELSE Room(run.slack[t], t, run.day)
  IN /\ at = "capacity"
     /\ run' = [run EXCEPT !.slack[t] = n, !.reads = @ + 1]
     /\ at' = IF run.reads < 3 THEN "capacity" ELSE "insert"
     /\ UNCHANGED <<tables, today, desk, past>>

\* Mutant: the product keeps its status.
ScheduleRowOnly(k) ==
  /\ row' = [row EXCEPT ![k] = "SCHEDULED"]
  /\ UNCHANGED product

\* The row and its product, in one commit.
ScheduleRow(k) ==
  /\ row' = [row EXCEPT ![k] = "SCHEDULED"]
  /\ product' = [product EXCEPT ![k[1]] = "SCHEDULED"]

\* One selected product after the other, each in a commit of its own.  The
\* handler of IntegrityError reads product.id after the rollback has expired
\* it, which raises MissingGreenlet: the exception ends the cycle.
InsertNext ==
  LET k == NextKey
  IN /\ at = "insert" /\ Selected # {}
     /\ IF Insertable(k)
        THEN /\ ScheduleRow(k)
             /\ run' = [run EXCEPT !.batch = @ \ {k[1]}, !.slack[k[2]] = @ - 1]
             /\ UNCHANGED at
        ELSE /\ Abort
             /\ UNCHANGED <<product, row>>
     /\ UNCHANGED <<published, maxAllowed, today, desk, past>>

EndInsert ==
  /\ at = "insert" /\ Selected = {}
  /\ Goto("publish")
  /\ run' = Fresh
  /\ UNCHANGED <<tables, today, desk, past>>

EndCycle ==
  /\ at = "publish"
  /\ Abort
  /\ UNCHANGED <<tables, today, desk, past>>

-------------------------------------------------------------------------------
(* Publishing a row, in the worker's stage or from the publish button *)

Publishing(k) ==
  /\ row[k] = "SCHEDULED" /\ k[3] <= today
  /\ \/ at = "publish"
     \/ desk.kind = "publish" /\ desk.product = k[1]

\* The dashboard's part of the operation is over.
DeskDone(k) == desk' = IF desk.kind = "publish" /\ desk.product = k[1] THEN Free ELSE desk

Succeed(k) ==
  LET b == <<k[2], k[3]>>
  IN /\ Publishing(k)
     /\ product[k[1]] # "SKIPPED"
     /\ published[b] < maxAllowed[b]
     /\ published' = [published EXCEPT ![b] = @ + 1]
     /\ row' = [row EXCEPT ![k] = "PUBLISHED"]
     /\ product' = [product EXCEPT ![k[1]] = "PUBLISHED"]
     /\ DeskDone(k)
     /\ UNCHANGED <<maxAllowed, today, at, run, past>>

\* A refusal of the safety gate, a permanent error, or the last attempt.
Fail(k) ==
  /\ Publishing(k)
  /\ row' = [row EXCEPT ![k] = "FAILED"]
  /\ product' = [product EXCEPT ![k[1]] = "FAILED"]
  /\ DeskDone(k)
  /\ UNCHANGED <<published, maxAllowed, today, at, run, past>>

\* Who may die at once: in the job worker and dashboard are the same process.
Deaths == IF Concurrent THEN {{"worker"}, {"dashboard"}} ELSE {{"worker", "dashboard"}}

Die(dead) ==
  /\ at' = IF "worker" \in dead THEN "idle" ELSE at
  /\ run' = IF "worker" \in dead THEN Fresh ELSE run
  /\ desk' = IF "dashboard" \in dead THEN Free ELSE desk

\* The process that publishes the row dies after the claim, before or after the
\* slot was taken.
KilledPublishing(k) ==
  LET b == <<k[2], k[3]>>
  IN /\ spent.kills < MaxKills
     /\ Publishing(k)
     /\ \E dead \in Deaths :
          /\ \/ "worker" \in dead /\ at = "publish"
             \/ "dashboard" \in dead /\ desk.kind = "publish" /\ desk.product = k[1]
          /\ Die(dead)
     /\ spent' = [spent EXCEPT !.kills = @ + 1]
     /\ row' = [row EXCEPT ![k] = "PROCESSING"]
     /\ \/ published[b] < maxAllowed[b] /\ published' = [published EXCEPT ![b] = @ + 1]
        \/ UNCHANGED published
     /\ UNCHANGED <<product, maxAllowed, today, peak, revived>>

-------------------------------------------------------------------------------
(* The dashboard *)

\* schedule, publish_now: the product is loaded and its status checked ...
BeginSchedule(r, now) ==
  /\ DeskMay
  /\ product[r] \in Schedulable
  /\ desk' = [kind |-> "limit", product |-> r, now |-> now, day |-> today, slack |-> 0]
  /\ UNCHANGED <<tables, today, at, run, past>>

\* ... remaining_capacity reads the limit ...
DeskLimit ==
  /\ desk.kind = "limit"
  /\ desk' = IF maxAllowed[<<DefaultType, desk.day>>] = NoLimit THEN Free
             ELSE [desk EXCEPT !.kind = "count", !.slack = Slack(DefaultType, desk.day)]
  /\ UNCHANGED <<tables, today, at, run, past>>

\* ... and the active rows ...
DeskCount ==
  /\ desk.kind = "count"
  /\ desk' = IF Room(desk.slack, DefaultType, desk.day) > 0
             THEN [desk EXCEPT !.kind = "insert"] ELSE Free
  /\ UNCHANGED <<tables, today, at, run, past>>

\* ... and the row is inserted, or IntegrityError is answered.  The publish
\* button then publishes it.
DeskInsert ==
  LET k == <<desk.product, DefaultType, desk.day>>
  IN /\ desk.kind = "insert"
     /\ IF Insertable(k)
        THEN /\ ScheduleRow(k)
             /\ desk' = IF desk.now THEN [desk EXCEPT !.kind = "publish"] ELSE Free
        ELSE /\ desk' = Free
             /\ UNCHANGED <<product, row>>
     /\ UNCHANGED <<published, maxAllowed, today, at, run, past>>

\* The row was not published and stays as it is: no room, a transient error,
\* or it is no longer SCHEDULED.
DeskGivesUp ==
  /\ desk.kind = "publish"
  /\ desk' = Free
  /\ UNCHANGED <<tables, today, at, run, past>>

BeginSkip(r) ==
  /\ DeskMay
  /\ product[r] \notin {"PUBLISHED", "SKIPPED"}
  /\ desk' = [kind |-> "skip_select", product |-> r, rows |-> {}]
  /\ UNCHANGED <<tables, today, at, run, past>>

SkipSelect ==
  /\ desk.kind = "skip_select"
  /\ desk' = [desk EXCEPT !.kind = "skip_write", !.rows = ActiveRows(desk.product)]
  /\ UNCHANGED <<tables, today, at, run, past>>

\* Mutant: the rows stay active.
CancelForgotten(rows) == row

Cancel(rows) == [k \in Keys |-> IF k \in rows THEN "CANCELLED" ELSE row[k]]

SkipWrite ==
  /\ desk.kind = "skip_write"
  /\ row' = Cancel(desk.rows)
  /\ product' = [product EXCEPT ![desk.product] = "SKIPPED"]
  /\ desk' = Free
  /\ UNCHANGED <<published, maxAllowed, today, at, run, past>>

BeginRetry(r) ==
  /\ DeskMay
  /\ \A b \in Types \X Days : revived[b] < MaxRetries
  /\ desk' = [kind |-> "retry", product |-> r, status |-> product[r]]
  /\ UNCHANGED <<tables, today, at, run, past>>

\* retry_failed: the failed row (which of several is left open), without a
\* look at the day's capacity; otherwise the failed product.
Retry ==
  LET r == desk.product
      failed == {k \in RowsOf(r) : row[k] = "FAILED"}
  IN /\ desk.kind = "retry"
     /\ \/ \E k \in failed :
             IF \A j \in ActiveRows(r) : j[2] # k[2]
             THEN /\ row' = [row EXCEPT ![k] = "SCHEDULED"]
                  /\ product' = [product EXCEPT ![r] = IF desk.status = "SCHEDULED" THEN @ ELSE "SCHEDULED"]
                  /\ revived' = [revived EXCEPT ![<<k[2], k[3]>>] = @ + 1]
             ELSE UNCHANGED <<row, product, revived>>
        \/ /\ failed = {}
           /\ product' = [product EXCEPT ![r] = IF desk.status = "FAILED" THEN "ELIGIBLE" ELSE @]
           /\ UNCHANGED <<row, revived>>
     /\ desk' = Free
     /\ UNCHANGED <<published, maxAllowed, today, at, run, peak, spent>>

\* set_limit, of the current day.
SetLimit(t, n) ==
  LET b == <<t, today>>
  IN /\ DeskMay
     /\ spent.changes < MaxChanges
     /\ spent' = [spent EXCEPT !.changes = @ + 1]
     /\ maxAllowed' = [maxAllowed EXCEPT ![b] = n]
     /\ peak' = [peak EXCEPT ![b] = IF n > @ THEN n ELSE @]
     /\ UNCHANGED <<product, row, published, today, at, run, desk, revived>>

-------------------------------------------------------------------------------
\* A process dies anywhere else.
Killed ==
  /\ spent.kills < MaxKills
  /\ at # "idle" \/ desk # Free
  /\ spent' = [spent EXCEPT !.kills = @ + 1]
  /\ \E dead \in Deaths : Die(dead)
  /\ UNCHANGED <<tables, today, peak, revived>>

DayPasses ==
  /\ today < LastDay
  /\ today' = today + 1
  /\ UNCHANGED <<tables, at, run, desk, past>>

Cycle ==
  \/ StartCycle \/ EnsureLimits \/ StageFails \/ ReadEligible \/ Enqueue \/ SelectQueued
  \/ ReadCapacity \/ InsertNext \/ EndInsert \/ EndCycle

Attempt == \E k \in Keys : Succeed(k) \/ Fail(k)

FinishOperation ==
  \/ DeskLimit \/ DeskCount \/ DeskInsert \/ DeskGivesUp
  \/ SkipSelect \/ SkipWrite \/ Retry

Operate ==
  \/ FinishOperation
  \/ \E r \in Products, now \in BOOLEAN : BeginSchedule(r, now)
  \/ \E r \in Products : BeginSkip(r) \/ BeginRetry(r)
  \/ \E t \in Types, n \in Limits : SetLimit(t, n)

Next ==
  \/ Cycle \/ Attempt \/ Operate \/ Killed \/ DayPasses
  \/ \E k \in Keys : KilledPublishing(k)

Spec == Init /\ [][Next]_vars

\* The loop of run_forever, or the schedule of the job, starts cycle after
\* cycle, however many updates the owner sends (the job takes a finite batch
\* of them first: SF); each stage ends, and so does an operation once begun.
FairSpec == Spec /\ SF_vars(StartCycle) /\ WF_vars(Cycle) /\ WF_vars(FinishOperation)

-------------------------------------------------------------------------------
(* Properties *)

\* The status of a product and its rows agree, across two tables written by
\* five operations: a SCHEDULED product has exactly one active row, of one
\* type, so it is not published as a post and as a reel, and any other
\* product has none, so a skipped or failed one is not published at all.
OneActiveRow ==
  \A r \in Products :
    Cardinality(ActiveRows(r)) = IF product[r] = "SCHEDULED" THEN 1 ELSE 0

\* A day's maximum is a ceiling already when rows are scheduled: the rows that
\* are active or published never outnumber the largest maximum of their day,
\* except for those a retry put back (remaining_capacity).
NotOverbooked ==
  \A t \in Types, d \in Days :
    Cardinality({k \in RowsOn(t, d) : row[k] \in ActiveStatus \cup {"PUBLISHED"}})
      <= peak[<<t, d>>] + revived[<<t, d>>]

\* Whatever worker and dashboard do to each other, in both deployments: the rows
\* published of a day are never more than its counter says, and the counter never
\* more than the day's maximum has ever been (reserve_slot).  Rows may be booked
\* beyond the maximum by a race; they are not published beyond it.
NeverOverpublished ==
  \A t \in Types, d \in Days :
    /\ Cardinality({k \in RowsOn(t, d) : row[k] = "PUBLISHED"}) <= published[<<t, d>>]
    /\ published[<<t, d>>] <= peak[<<t, d>>]

\* A product never has two active rows of one type, in both deployments: neither a
\* race of worker and dashboard nor a retry gets past the partial unique index.
NoTwins ==
  \A r \in Products : \A j, k \in ActiveRows(r) : j[2] = k[2] => j = k

\* The scheduler never runs into a unique index: what it selected long before
\* is still free when it inserts, across restarts and days (run_scheduler).
NoConflict == at = "insert" /\ Selected # {} => Insertable(NextKey)

\* What the owner skipped, or what is published, only the owner's retry brings
\* back: no stage writes over it with a status it has read before.
FinalForTheWorker ==
  [][\A r \in Products :
       product[r] \in {"SKIPPED", "PUBLISHED"} /\ product'[r] # product[r]
         => desk.kind = "retry"]_vars

\* One product's way through the tables: its status, and its rows but those that
\* were cancelled.
StageOf(s) == IF s \in Schedulable THEN "OPEN" ELSE s
Stage    == [r \in Products |-> StageOf(product[r])]
Bookings == [r \in Products |-> {k \in RowsOf(r) : row[k] \notin {"ABSENT", "CANCELLED"}}]

Life == INSTANCE ProductLife WITH
  Rows <- Keys, Owner <- [k \in Keys |-> k[1]], stage <- Stage, booking <- Bookings

\* A product is booked once in its life, by whoever comes first, published at most
\* once, and reopened in its own booking: all stages and operations together do
\* no more than this, however the scheduled job interleaves them.
ImplementsProductLife == Life!LifeSpec

\* Once the stages before the queue no longer fail, the worker gets as far as
\* publishing cycle after cycle: no row it has left behind, whatever the owner, the
\* day and a kill did meanwhile, makes every later cycle fail before that.
PublisherIsReached == (<>[][~StageFails]_vars) => []<>(at = "publish")
===============================================================================
