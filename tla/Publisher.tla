------------------------------- MODULE Publisher -------------------------------
(***************************************************************************)
(* Publishing POST/REEL rows to Instagram: app/instagram/runner.py and     *)
(* publish_scheduled_post of app/instagram/publisher_service.py, with the  *)
(* dashboard operations that touch the same rows (app/queue/operations.py, *)
(* app/dashboard/bot.py).                                                  *)
(*                                                                         *)
(* Several processes share one Postgres database.  A worker process drains *)
(* the due rows in batches; the dashboard process serves one button press  *)
(* at a time: skip, retry, a new limit, a new mode, or "publish now",      *)
(* which runs the very same publishing routine in the dashboard process.   *)
(*                                                                         *)
(* One action stands for the code between two commits, that is, between    *)
(* two points where another process can see or change the database.        *)
(* Objects loaded by a session keep the values they were loaded with       *)
(* (expire_on_commit=False): seen[a] and op hold such values, and Flush    *)
(* says what an UPDATE of a loaded object writes.                          *)
(*                                                                         *)
(* Rows are SCHEDULED and due from the start, or ABSENT until the          *)
(* dashboard inserts them; how the batch scheduler inserts rows is not the *)
(* subject here.  The order in which a batch takes its rows (scheduled_for *)
(* ASC) is left open.                                                      *)
(***************************************************************************)
EXTENDS Integers, FiniteSets

CONSTANTS
  Workers,      \* processes that run the publishing batch
  Dashboard,    \* the dashboard process
  Posts,        \* ids of scheduled_posts rows
  NoPost,       \* "no row"
  Products,     \* products
  ProductOf,    \* scheduled_posts.product_id
  Buckets,      \* rows of daily_limits: a date and a content type
  BucketOf,     \* the row a post is counted in: its target_date and type
  TypeOf,       \* the content type of such a row
  Limits,       \* values the owner gives to max_allowed
  MaxAttempts,  \* INSTAGRAM_MAX_PUBLISH_ATTEMPTS
  MaxRetries,   \* bound: retries of one row by the owner
  MaxCrashes    \* bound: processes killed

Actors == Workers \cup {Dashboard}

ASSUME ConstantsAssumption ==
  /\ IsFiniteSet(Workers)
  /\ Dashboard \notin Workers
  /\ Posts \subseteq Nat
  /\ IsFiniteSet(Posts)
  /\ NoPost \notin Posts
  /\ ProductOf \in [Posts -> Products]
  /\ BucketOf \in [Posts -> Buckets]
  /\ \A p, q \in Posts :  \* idempotency_key: product, content type, date
       ProductOf[p] = ProductOf[q] /\ BucketOf[p] = BucketOf[q] => p = q
  /\ Limits \subseteq Nat
  /\ MaxAttempts \in Nat \ {0}
  /\ MaxRetries \in Nat
  /\ MaxCrashes \in Nat

\* PENDING is declared by PostPublishStatus but no code writes it.
PostStatus ==
  {"ABSENT", "SCHEDULED", "PROCESSING", "PUBLISHED", "FAILED", "CANCELLED"}

ProductStatus ==
  {"QUEUED", "ELIGIBLE", "SCHEDULED", "PUBLISHED", "FAILED", "SKIPPED"}

ActiveStatus == {"SCHEDULED", "PROCESSING"}  \* ACTIVE_SCHEDULED_POST_STATUSES
NeverPublish == {"SKIPPED"}                  \* _NEVER_PUBLISH_STATUSES, those reached here

Labels == {"idle", "claim", "prepare", "reserve", "revert", "call", "live",
           "release", "record", "insert", "select", "skip_select", "skip_write",
           "retry_write"}

\* Places where the dashboard works for a product.
Operating == {"insert", "select", "skip_select", "skip_write", "retry_write"}

VARIABLES
  \* scheduled_posts, products, published_posts, settings
  status,      \* scheduled_posts.status
  attempts,    \* scheduled_posts.attempt_count
  waiting,     \* the backoff since last_attempt_at has not elapsed
  product,     \* products.status
  ledger,      \* posts with a row in published_posts
  mode,        \* settings["instagram_publish_mode"]
  \* daily_limits
  published,   \* published_count
  maxAllowed,  \* max_allowed
  \* Instagram
  live,        \* how many times the post has been published there
  \* the processes
  pc,          \* where each one is
  cur,         \* the row it is publishing
  todo,        \* the rows its batch still has to try
  seen,        \* what its loaded objects say
  op,          \* the dashboard's operation: product, its loaded status, rows
  \* history, read by properties and bounds only
  lost,        \* publications whose answer never reached published_posts
  orphaned,    \* posts whose process died while it owned a slot
  abandoned,   \* posts whose process died after it had claimed them
  peak,        \* the largest max_allowed so far
  retries,     \* retries of the row by the owner
  crashes      \* processes killed so far

rowVars   == <<status, attempts, waiting, product, ledger>>
limitVars == <<published, maxAllowed, peak>>
procVars  == <<pc, cur, todo, seen, op>>
pastVars  == <<lost, orphaned, abandoned, retries, crashes>>
vars == <<rowVars, mode, limitVars, live, procVars, pastVars>>

Nothing == [attempts |-> 0, product |-> "QUEUED", transient |-> FALSE]
Sights  == [attempts : Nat, product : ProductStatus, transient : BOOLEAN]

NoOp == [product |-> "none", status |-> "QUEUED", rows |-> {}]
-------------------------------------------------------------------------------
(* Helpers *)

PostsOf(r)  == {p \in Posts : ProductOf[p] = r}
PostsIn(b)  == {p \in Posts : BucketOf[p] = b}
Active(b)   == {p \in PostsIn(b) : status[p] \in ActiveStatus}

\* Places where the row is claimed, and where a slot is owned as well.
Claimed(a) == pc[a] \in {"prepare", "reserve", "revert", "call", "live", "release", "record"}
OwnsSlot(a) == pc[a] \in {"call", "live", "release"}

Goto(a, l) == pc' = [pc EXCEPT ![a] = l]

\* The routine returns its PublishOutcome: nothing loaded is kept.
Return(a) ==
  /\ Goto(a, "idle")
  /\ cur' = [cur EXCEPT ![a] = NoPost]
  /\ seen' = [seen EXCEPT ![a] = Nothing]

\* An exception leaves the routine and ends the batch.
Abort(a) ==
  /\ Return(a)
  /\ todo' = [todo EXCEPT ![a] = {}]

\* uq_scheduled_posts_active_product_content_type lets p be active: otherwise
\* the statement raises IntegrityError.
Vacant(p) ==
  \A q \in PostsOf(ProductOf[p]) \ {p} :
    TypeOf[BucketOf[q]] = TypeOf[BucketOf[p]] => status[q] \notin ActiveStatus

\* What the database holds after a flush of an object loaded with `loaded`
\* and now assigned `new`: an unchanged attribute is not written.
Flush(inDB, loaded, new) == IF new = loaded THEN inDB ELSE new

\* remaining_capacity: 0 or less is no capacity.
Remaining(b) == maxAllowed[b] - (Cardinality(Active(b)) + published[b])

\* Mutant: the attempt after the last one is allowed as well.
AttemptsOffByOne(n) == n <= MaxAttempts

\* has_attempts_remaining
HasAttemptsRemaining(n) == n < MaxAttempts

\* The dashboard serves one update at a time.
DashboardFree == pc[Dashboard] = "idle"
-------------------------------------------------------------------------------
TypeOK ==
  /\ status \in [Posts -> PostStatus]
  /\ attempts \in [Posts -> Nat]
  /\ waiting \in [Posts -> BOOLEAN]
  /\ product \in [Products -> ProductStatus]
  /\ ledger \in SUBSET Posts
  /\ mode \in {"REVIEW", "AUTO"}
  /\ published \in [Buckets -> Nat]
  /\ maxAllowed \in [Buckets -> Limits]
  /\ live \in [Posts -> Nat]
  /\ pc \in [Actors -> Labels]
  /\ cur \in [Actors -> Posts \cup {NoPost}]
  /\ \A a \in Actors : Claimed(a) \/ pc[a] = "claim" => cur[a] \in Posts
  /\ todo \in [Actors -> SUBSET Posts]
  /\ seen \in [Actors -> Sights]
  /\ op \in [product : Products \cup {"none"}, status : ProductStatus, rows : SUBSET Posts]
  /\ pc[Dashboard] \in Operating => op.product \in Products
  /\ lost \in [Posts -> Nat]
  /\ orphaned \in SUBSET Posts
  /\ abandoned \in SUBSET Posts
  /\ peak \in [Buckets -> Limits]
  /\ retries \in [Posts -> Nat]
  /\ crashes \in 0 .. MaxCrashes

Init ==
  /\ status \in [Posts -> {"ABSENT", "SCHEDULED"}]
  /\ \A p \in Posts : status[p] = "SCHEDULED" => Vacant(p)
  /\ attempts = [p \in Posts |-> 0]
  /\ waiting = [p \in Posts |-> FALSE]
  /\ product = [r \in Products |->
       IF \E p \in PostsOf(r) : status[p] = "SCHEDULED" THEN "SCHEDULED" ELSE "QUEUED"]
  /\ ledger = {}
  /\ mode = "REVIEW"
  /\ published = [b \in Buckets |-> 0]
  /\ maxAllowed \in [Buckets -> Limits]
  /\ live = [p \in Posts |-> 0]
  /\ pc = [a \in Actors |-> "idle"]
  /\ cur = [a \in Actors |-> NoPost]
  /\ todo = [a \in Actors |-> {}]
  /\ seen = [a \in Actors |-> Nothing]
  /\ op = NoOp
  /\ lost = [p \in Posts |-> 0]
  /\ orphaned = {}
  /\ abandoned = {}
  /\ peak = maxAllowed
  /\ retries = [p \in Posts |-> 0]
  /\ crashes = 0
-------------------------------------------------------------------------------
(* The batch driver, app/instagram/runner.py *)

\* run_publisher: the mode and the due rows are read once; in REVIEW the run
\* ends there.
StartBatch(w) ==
  LET due == {p \in Posts : status[p] = "SCHEDULED"}
  IN /\ pc[w] = "idle" /\ todo[w] = {}
     /\ mode = "AUTO"
     /\ due # {}
     /\ todo' = [todo EXCEPT ![w] = due]
     /\ UNCHANGED <<rowVars, mode, limitVars, live, pc, cur, seen, op, pastVars>>

-------------------------------------------------------------------------------
(* publish_scheduled_post *)

\* Mutant: a row that was attempted once is never due again.
IneligibleOnceTried(p) ==
  p \in ledger \/ status[p] \in {"PUBLISHED", "CANCELLED", "FAILED"} \/ attempts[p] > 0

\* The early returns: a ledger row, a final status, or a backoff not elapsed.
\* PROCESSING is not among them.
Ineligible(p) ==
  \/ p \in ledger
  \/ status[p] \in {"PUBLISHED", "CANCELLED", "FAILED"}
  \/ waiting[p]

PassOver(w, p) ==
  /\ pc[w] = "idle" /\ p \in todo[w]
  /\ Ineligible(p)
  /\ todo' = [todo EXCEPT ![w] = @ \ {p}]
  /\ UNCHANGED <<rowVars, mode, limitVars, live, pc, cur, seen, op, pastVars>>

\* The row is loaded: attempt_count keeps this value to the end.
Load(w, p) ==
  /\ pc[w] = "idle" /\ p \in todo[w]
  /\ ~ Ineligible(p)
  /\ todo' = [todo EXCEPT ![w] = @ \ {p}]
  /\ Goto(w, "claim")
  /\ cur' = [cur EXCEPT ![w] = p]
  /\ seen' = [seen EXCEPT ![w].attempts = attempts[p]]
  /\ UNCHANGED <<rowVars, mode, limitVars, live, op, pastVars>>

\* Mutant: the UPDATE without its condition on the status.
ClaimableAlways(p) == p \in Posts

\* WHERE status IN (PENDING, SCHEDULED)
Claimable(p) == status[p] = "SCHEDULED"

\* _claim_scheduled_post: an atomic conditional UPDATE.
Claim(a) ==
  /\ pc[a] = "claim"
  /\ IF Claimable(cur[a])
     THEN /\ status' = [status EXCEPT ![cur[a]] = "PROCESSING"]
          /\ Goto(a, "prepare")
          /\ UNCHANGED <<cur, seen>>
     ELSE /\ Return(a)
          /\ UNCHANGED status
  /\ UNCHANGED <<attempts, waiting, product, ledger, mode, limitVars, live, todo, op, pastVars>>

\* The dashboard still holds the product that publish_now set to SCHEDULED;
\* a worker loads it now.
LoadedProduct(a) == IF a = Dashboard THEN "SCHEDULED" ELSE product[ProductOf[cur[a]]]

\* check_publish_safety and _load_valid_media: the product's status decides
\* when it is a forbidden one, otherwise caption, source text and media do.
Prepare(a) ==
  /\ pc[a] = "prepare"
  /\ seen' = [seen EXCEPT ![a].product = LoadedProduct(a)]
  /\ \/ Goto(a, "record")
     \/ LoadedProduct(a) \notin NeverPublish /\ Goto(a, "reserve")
  /\ UNCHANGED <<rowVars, mode, limitVars, live, cur, todo, op, pastVars>>

\* Mutant: <= for <.
HasRoomOffByOne(b) == published[b] <= maxAllowed[b]

\* WHERE published_count < max_allowed
HasRoom(b) == published[b] < maxAllowed[b]

\* reserve_slot: an atomic conditional UPDATE.
Reserve(a) ==
  LET b == BucketOf[cur[a]]
  IN /\ pc[a] = "reserve"
     /\ IF HasRoom(b)
        THEN /\ published' = [published EXCEPT ![b] = @ + 1]
             /\ Goto(a, "call")
        ELSE /\ Goto(a, "revert")
             /\ UNCHANGED published
     /\ UNCHANGED <<rowVars, mode, maxAllowed, peak, live, cur, todo, seen, op, pastVars>>

\* Mutant: the row is left as it was claimed.
RevertForgotten(a) ==
  /\ pc[a] = "revert"
  /\ Return(a)
  /\ UNCHANGED <<rowVars, mode, limitVars, live, todo, op, pastVars>>

\* Mutant: a slot is released that was never reserved.
RevertReleases(a) ==
  /\ pc[a] = "revert"
  /\ status' = [status EXCEPT ![cur[a]] = "SCHEDULED"]
  /\ published' = [published EXCEPT ![BucketOf[cur[a]]] = @ - 1]
  /\ Return(a)
  /\ UNCHANGED <<attempts, waiting, product, ledger, mode, maxAllowed, peak, live, todo, op, pastVars>>

\* _revert_to_scheduled, outcome limit_reached: no attempt is recorded.  Of a
\* row that a skip has cancelled meanwhile this makes a SCHEDULED one again,
\* unless the product has another active row by now.
Revert(a) ==
  /\ pc[a] = "revert"
  /\ IF Vacant(cur[a])
     THEN /\ status' = [status EXCEPT ![cur[a]] = "SCHEDULED"]
          /\ Return(a)
          /\ UNCHANGED todo
     ELSE /\ Abort(a)
          /\ UNCHANGED status
  /\ UNCHANGED <<attempts, waiting, product, ledger, mode, limitVars, live, op, pastVars>>

\* media_publish takes effect at Instagram; the answer is not yet here.
GoesLive(a) ==
  /\ pc[a] = "call"
  /\ live' = [live EXCEPT ![cur[a]] = @ + 1]
  /\ Goto(a, "live")
  /\ UNCHANGED <<rowVars, mode, limitVars, cur, todo, seen, op, pastVars>>

\* A timeout or an exception out of the call: transient or not.
CallFails(a, transient) ==
  /\ pc[a] = "call"
  /\ seen' = [seen EXCEPT ![a].transient = transient]
  /\ Goto(a, "release")
  /\ UNCHANGED <<rowVars, mode, limitVars, live, cur, todo, op, pastVars>>

\* The same, after Instagram had published: a connection lost, wait_for
\* expiring, or an answer without an id.
AnswerLost(a, transient) ==
  /\ pc[a] = "live"
  /\ seen' = [seen EXCEPT ![a].transient = transient]
  /\ lost' = [lost EXCEPT ![cur[a]] = @ + 1]
  /\ Goto(a, "release")
  /\ UNCHANGED <<rowVars, mode, limitVars, live, cur, todo, op, orphaned, abandoned, retries, crashes>>

\* The final transaction: the ledger row, the post and its product.  The
\* ledger's UNIQUE(scheduled_post_id) rolls all of it back, slot kept.
Confirm(a) ==
  LET p == cur[a]
      r == ProductOf[p]
  IN /\ pc[a] = "live"
     /\ Return(a)
     /\ IF p \in ledger
        THEN UNCHANGED rowVars
        ELSE /\ ledger' = ledger \cup {p}
             /\ status' = [status EXCEPT ![p] = "PUBLISHED"]
             /\ attempts' = [attempts EXCEPT ![p] = seen[a].attempts + 1]
             /\ product' = [product EXCEPT ![r] = Flush(@, seen[a].product, "PUBLISHED")]
             /\ waiting' = [waiting EXCEPT ![p] = TRUE]
     /\ UNCHANGED <<mode, limitVars, live, todo, op, pastVars>>

\* Mutant: the reservation is not given back.
KeepAfterRelease(n) == n

\* WHERE published_count > 0
SlotsAfterRelease(n) == IF n > 0 THEN n - 1 ELSE n

\* release_slot
Release(a) ==
  LET b == BucketOf[cur[a]]
  IN /\ pc[a] = "release"
     /\ published' = [published EXCEPT ![b] = SlotsAfterRelease(@)]
     /\ Goto(a, "record")
     /\ UNCHANGED <<rowVars, mode, maxAllowed, peak, live, cur, todo, seen, op, pastVars>>

\* Mutant: a final failure counts as done.
FailureIsDone(willRetry) == IF willRetry THEN "SCHEDULED" ELSE "PUBLISHED"

\* Mutant: a transient failure does not give the row back.
FailureKeepsRow(willRetry) == IF willRetry THEN "PROCESSING" ELSE "FAILED"

StatusAfterFailure(willRetry) == IF willRetry THEN "SCHEDULED" ELSE "FAILED"

\* _record_scheduled_post_failure: retry a transient failure while attempts
\* remain, otherwise the row and its product have failed.  IntegrityError
\* rolls all of it back, as for Revert.
Record(a) ==
  LET p == cur[a]
      r == ProductOf[p]
      n == seen[a].attempts + 1
      willRetry == seen[a].transient /\ HasAttemptsRemaining(n)
  IN /\ pc[a] = "record"
     /\ IF willRetry => Vacant(p)
        THEN /\ attempts' = [attempts EXCEPT ![p] = n]
             /\ waiting' = [waiting EXCEPT ![p] = TRUE]
             /\ status' = [status EXCEPT ![p] = StatusAfterFailure(willRetry)]
             /\ product' = [product EXCEPT ![r] =
                              IF willRetry THEN @ ELSE Flush(@, seen[a].product, "FAILED")]
             /\ Return(a)
             /\ UNCHANGED todo
        ELSE /\ Abort(a)
             /\ UNCHANGED <<attempts, waiting, status, product>>
     /\ UNCHANGED <<ledger, mode, limitVars, live, op, pastVars>>

\* Time passes: is_due_for_retry becomes true for the row.
BackoffElapses(p) ==
  /\ waiting[p]
  /\ waiting' = [waiting EXCEPT ![p] = FALSE]
  /\ UNCHANGED <<status, attempts, product, ledger, mode, limitVars, live, procVars, pastVars>>
-------------------------------------------------------------------------------
(* The dashboard *)

\* schedule and publish_now: a product that can be scheduled, and capacity
\* left on the day.
BeginInsert(p) ==
  LET r == ProductOf[p]
  IN /\ DashboardFree
     /\ status[p] = "ABSENT"
     /\ product[r] \in {"QUEUED", "ELIGIBLE"}
     /\ Remaining(BucketOf[p]) > 0
     /\ Goto(Dashboard, "insert")
     /\ op' = [product |-> r, status |-> product[r], rows |-> {p}]
     /\ UNCHANGED <<rowVars, mode, limitVars, live, cur, todo, seen, pastVars>>

\* _create_scheduled_post: the idempotency_key and the index may refuse the
\* row.  For publish_now the callback goes on to publish.
Insert ==
  /\ pc[Dashboard] = "insert"
  /\ \E p \in op.rows :
       IF status[p] = "ABSENT" /\ Vacant(p)
       THEN /\ status' = [status EXCEPT ![p] = "SCHEDULED"]
            /\ product' = [product EXCEPT ![op.product] = "SCHEDULED"]
            /\ \/ Goto(Dashboard, "select") /\ UNCHANGED op
               \/ Goto(Dashboard, "idle") /\ op' = NoOp
       ELSE /\ Goto(Dashboard, "idle")
            /\ op' = NoOp
            /\ UNCHANGED <<status, product>>
  /\ UNCHANGED <<attempts, waiting, ledger, mode, limitVars, live, cur, todo, seen, pastVars>>

\* The callback looks for the product's latest SCHEDULED row, loads it, and
\* publishes it unless an early return applies.
SelectPost ==
  LET queued == {p \in PostsOf(op.product) : status[p] = "SCHEDULED"}
      latest == {p \in queued : \A q \in queued : q <= p}
  IN /\ pc[Dashboard] = "select"
     /\ \/ \E p \in latest :
             /\ ~ Ineligible(p)
             /\ Goto(Dashboard, "claim")
             /\ cur' = [cur EXCEPT ![Dashboard] = p]
             /\ seen' = [seen EXCEPT ![Dashboard].attempts = attempts[p]]
        \/ /\ \A p \in latest : Ineligible(p)
           /\ Goto(Dashboard, "idle")
           /\ UNCHANGED <<cur, seen>>
     /\ op' = NoOp
     /\ UNCHANGED <<rowVars, mode, limitVars, live, todo, pastVars>>

\* The callback loads the product; skip refuses a published or skipped one.
BeginSkip(r) ==
  /\ DashboardFree
  /\ product[r] \notin {"PUBLISHED", "SKIPPED"}
  /\ Goto(Dashboard, "skip_select")
  /\ op' = [product |-> r, status |-> product[r], rows |-> {}]
  /\ UNCHANGED <<rowVars, mode, limitVars, live, cur, todo, seen, pastVars>>

\* _active_scheduled_posts
SkipSelect ==
  /\ pc[Dashboard] = "skip_select"
  /\ op' = [op EXCEPT !.rows = {p \in PostsOf(op.product) : status[p] \in ActiveStatus}]
  /\ Goto(Dashboard, "skip_write")
  /\ UNCHANGED <<rowVars, mode, limitVars, live, cur, todo, seen, pastVars>>

\* The selected rows are cancelled whatever has become of them since.
SkipWrite ==
  /\ pc[Dashboard] = "skip_write"
  /\ status' = [p \in Posts |-> IF p \in op.rows THEN "CANCELLED" ELSE status[p]]
  /\ product' = [product EXCEPT ![op.product] = "SKIPPED"]
  /\ Goto(Dashboard, "idle")
  /\ op' = NoOp
  /\ UNCHANGED <<attempts, waiting, ledger, mode, limitVars, live, cur, todo, seen, pastVars>>

BeginRetry(r) ==
  /\ DashboardFree
  /\ \A p \in PostsOf(r) : retries[p] < MaxRetries
  /\ Goto(Dashboard, "retry_write")
  /\ op' = [product |-> r, status |-> product[r], rows |-> {}]
  /\ UNCHANGED <<rowVars, mode, limitVars, live, cur, todo, seen, pastVars>>

\* Mutant: a published row is offered for a retry as well.
RetryableOrPublished(p) == status[p] \in {"FAILED", "PUBLISHED"}

\* _most_recent_failed_scheduled_post
Retryable(p) == status[p] = "FAILED"

\* retry_failed: the latest failed row goes back to SCHEDULED with its
\* attempt_count and last_attempt_at as they are; without one, a failed
\* product becomes ELIGIBLE again.  IntegrityError leaves both as they were.
\* No other process touches a failed row, so selecting and writing it are one
\* step.
RetryWrite ==
  LET r == op.product
      failed == {p \in PostsOf(r) : Retryable(p)}
  IN /\ pc[Dashboard] = "retry_write"
     /\ Goto(Dashboard, "idle")
     /\ op' = NoOp
     /\ \/ \E p \in failed :
             /\ \A q \in failed : q <= p
             /\ IF Vacant(p)
                THEN /\ status' = [status EXCEPT ![p] = "SCHEDULED"]
                     /\ product' = [product EXCEPT ![r] = Flush(@, op.status, "SCHEDULED")]
                     /\ retries' = [retries EXCEPT ![p] = @ + 1]
                ELSE UNCHANGED <<status, product, retries>>
        \/ /\ failed = {}
           /\ product' = [product EXCEPT ![r] = IF op.status = "FAILED" THEN "ELIGIBLE" ELSE @]
           /\ UNCHANGED <<status, retries>>
     /\ UNCHANGED <<attempts, waiting, ledger, mode, limitVars, live, cur, todo, seen,
                    lost, orphaned, abandoned, crashes>>

\* service.set_limit: no regard to what is already published or scheduled.
SetLimit(b, n) ==
  /\ DashboardFree
  /\ maxAllowed' = [maxAllowed EXCEPT ![b] = n]
  /\ peak' = [peak EXCEPT ![b] = IF n > @ THEN n ELSE @]
  /\ UNCHANGED <<rowVars, mode, published, live, procVars, pastVars>>

\* The setmode button.
SetMode(m) ==
  /\ DashboardFree
  /\ mode' = m
  /\ UNCHANGED <<rowVars, limitVars, live, procVars, pastVars>>

-------------------------------------------------------------------------------
\* A process is killed (the job's time limit, a restart, a power cut) and
\* starts again with nothing: the database keeps what was committed.
Crash(a) ==
  /\ crashes < MaxCrashes
  /\ pc[a] # "idle" \/ todo[a] # {}
  /\ crashes' = crashes + 1
  /\ Return(a)
  /\ todo' = [todo EXCEPT ![a] = {}]
  /\ op' = IF a = Dashboard THEN NoOp ELSE op
  /\ lost' = IF pc[a] = "live" THEN [lost EXCEPT ![cur[a]] = @ + 1] ELSE lost
  /\ orphaned' = IF OwnsSlot(a) THEN orphaned \cup {cur[a]} ELSE orphaned
  /\ abandoned' = IF Claimed(a) THEN abandoned \cup {cur[a]} ELSE abandoned
  /\ UNCHANGED <<rowVars, mode, limitVars, live, retries>>

\* A worker's batch.
Drain(w) == StartBatch(w) \/ \E p \in Posts : PassOver(w, p) \/ Load(w, p)

\* The routine, in the process that runs it.
Publish(a) ==
  \/ Claim(a) \/ Prepare(a) \/ Reserve(a) \/ Revert(a)
  \/ GoesLive(a) \/ Confirm(a) \/ Release(a) \/ Record(a)
  \/ \E transient \in BOOLEAN : CallFails(a, transient) \/ AnswerLost(a, transient)

Operate ==
  \/ \E p \in Posts : BeginInsert(p)
  \/ \E r \in Products : BeginSkip(r) \/ BeginRetry(r)
  \/ Insert \/ SelectPost \/ SkipSelect \/ SkipWrite \/ RetryWrite
  \/ \E b \in Buckets, n \in Limits : SetLimit(b, n)
  \/ \E m \in {"REVIEW", "AUTO"} : SetMode(m)

Next ==
  \/ \E w \in Workers : Drain(w)
  \/ \E a \in Actors : Publish(a) \/ Crash(a)
  \/ Operate
  \/ \E p \in Posts : BackoffElapses(p)

Spec == Init /\ [][Next]_vars

-------------------------------------------------------------------------------
(* Fairness *)

\* A running process takes its next step: every await of the routine ends,
\* because the HTTP client has a timeout and wait_for bounds the whole call,
\* and run_forever starts a batch every interval.  The dashboard need not
\* press buttons, but finishes what it began.  The clock advances.
Fairness ==
  /\ \A w \in Workers : WF_vars(Drain(w) \/ Publish(w))
  /\ WF_vars(Publish(Dashboard) \/ Insert \/ SelectPost \/ SkipSelect \/ SkipWrite \/ RetryWrite)
  /\ \A p \in Posts : WF_vars(BackoffElapses(p))

FairSpec == Spec /\ Fairness

-------------------------------------------------------------------------------
(* Properties *)

Handled(p) == \E a \in Actors : Claimed(a) /\ cur[a] = p

\* The posts whose slot of row b is in use.
SlotOwners(b) ==
  {p \in PostsIn(b) : \/ p \in ledger \cup orphaned
                       \/ \E a \in Actors : OwnsSlot(a) /\ cur[a] = p}

\* Two processes never publish the same row at the same time, although the
\* early checks read the row long before the claim (module docstring of
\* publisher_service.py, "two workers can never both process the same row").
ClaimExclusive ==
  \A a, b \in Actors : Claimed(a) /\ Claimed(b) /\ cur[a] = cur[b] => a = b

\* A row is left in PROCESSING by nobody but a killed process: every path out
\* of publish_scheduled_post writes another status.
ProcessingIsOwned ==
  \A p \in Posts : status[p] = "PROCESSING" => Handled(p) \/ p \in abandoned

\* published_count is exact: it counts the confirmed posts, the calls under
\* way and the slots of killed processes, none of them twice; a retry after a
\* failure never takes a second slot (daily_limit_guard.py).
SlotsAccounted ==
  \A b \in Buckets : published[b] = Cardinality(SlotOwners(b))

\* The posts confirmed for a day and type never exceed the largest maximum the
\* owner gave it, under any interleaving of two publishers, retries, lowered
\* limits and crashes (reserve_slot).
WithinLimit ==
  \A b \in Buckets : Cardinality(ledger \cap PostsIn(b)) <= peak[b]

\* Each time a post goes live it is confirmed, still awaiting its answer, or
\* its answer was lost: the code itself never publishes a post twice.
LiveAccounted ==
  \A p \in Posts :
    live[p] = lost[p] + Cardinality({p} \cap ledger)
                      + Cardinality({a \in Actors : pc[a] = "live" /\ cur[a] = p})

\* Nothing is PUBLISHED, post or product, without a published_posts row and a
\* live Instagram media (module docstring of publisher_service.py, "Nothing is
\* EVER marked PUBLISHED except on a confirmed Instagram media id").
OnlyConfirmedIsPublished ==
  /\ \A p \in Posts : status[p] = "PUBLISHED" => p \in ledger
  /\ \A p \in ledger : live[p] > 0
  /\ \A r \in Products : product[r] = "PUBLISHED" => PostsOf(r) \cap ledger # {}

\* A post that has its published_posts row is never worked on again, even when
\* a stale skip overwrites its status.
ConfirmedIsDone ==
  \A p \in ledger : status[p] \in {"PUBLISHED", "CANCELLED"} /\ ~ Handled(p)

\* attempt_count never passes the maximum by more than the owner's retries,
\* although it is written from a value read before the claim.
AttemptBudget ==
  \A p \in Posts : attempts[p] <= MaxAttempts + retries[p]

\* A row that is CANCELLED while nobody is publishing it stays CANCELLED, also
\* against a process that had read it as SCHEDULED before (skip).
CancelSticks ==
  [][\A p \in Posts : status[p] = "CANCELLED" /\ ~ Handled(p)
                         => status'[p] = "CANCELLED"]_vars

\* The slot discipline of daily_limit_guard.py, with identities instead of a
\* counter.
Pool == INSTANCE SlotPool WITH
  limit <- maxAllowed,
  holders <- {p \in Posts : \E a \in Actors : OwnsSlot(a) /\ cur[a] = p},
  confirmed <- ledger

\* published_count alone implements the pool of identified slots.
ImplementsSlotPool == Pool!PoolSpec

\* A claimed row is given up again: published, failed, cancelled or back in
\* the queue.  Without crashes no row stays in PROCESSING.
ProcessingEnds ==
  \A p \in Posts : status[p] = "PROCESSING" ~> status[p] # "PROCESSING"

\* With capacity for every post, a due row in AUTO mode comes to an end:
\* transient failures are retried after their backoff, but not for ever.
EveryPostEnds ==
  <>[](mode = "AUTO") =>
    \A p \in Posts :
      status[p] = "SCHEDULED" ~> status[p] \in {"PUBLISHED", "FAILED", "CANCELLED"}

-------------------------------------------------------------------------------
(* What the documentation and the tests say, and the code does not do *)

\* README.md: "a scheduled post can have at most one publication, full stop".
AtMostOnePublication == \A p \in Posts : live[p] <= 1

\* tests/test_publisher_service.py, test_max_attempts_exceeded_fails_permanently:
\* a post without attempts left creates no container.
ExhaustedNeverCalled ==
  \A a \in Actors : pc[a] = "call" => HasAttemptsRemaining(attempts[cur[a]])

\* app/instagram/client.py: transient failures are "retried with backoff".
BackoffHonoured ==
  [][\A p \in Posts :
       status[p] = "SCHEDULED" /\ status'[p] = "PROCESSING" => ~ waiting[p]]_vars
===============================================================================
