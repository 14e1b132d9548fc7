# tg-ig-bridge: a TLA+ verification development

The program takes products from Telegram, writes and checks a caption for each,
queues the good ones and publishes them to Instagram within a daily maximum. The
modules here follow a product all the way: the channel scan, the bot's capture, the
stages of the worker, the words of its caption, the queue, and the publishing of posts
and stories, which is modelled most closely because a mistake there is public and
cannot be undone. Almost everywhere one action is the code between two database
commits.

Paths are relative to the repository; `PROJECT.json` maps every definition that
models code to its lines.

## 1. The system

One Postgres database is the only thing the processes share. A `worker` process
(`app/runtime/worker.py`) runs a cycle for ever: default limits, parser, captions,
pipeline (eligibility, queue, scheduler), stories, publisher, retention; one
session per stage, an exception ends the cycle. A `dashboard` process
(`app/dashboard/bot.py`) serves an owner's buttons in Telegram, one update after
another. Under GitHub Actions one job does both in turn (`worker_timed.py`) and may be
killed at its time limit.

Sessions run at READ COMMITTED with `expire_on_commit=False, autoflush=False`
(`app/db/session.py:37-41`). Three consequences shape everything below: an object
keeps the values it was loaded with across other processes' commits; a flush
writes only changed attributes, by primary key, with no version check; a rollback
expires every object, after which reading one (in async code) raises.

| Component | State | Operations | Hard behaviour | What makes it correct |
|---|---|---|---|---|
| Publisher (`app/instagram/publisher_service.py`, `runner.py`) | scheduled_posts.status, attempt_count, last_attempt_at; published_posts | run_publisher, publish_scheduled_post | several publishers; stale reads across the claim; lost answers; kills | one publisher per row; nothing PUBLISHED unconfirmed; confirmed is final; bounded attempts; every row ends |
| Slot guard (`daily_limit_guard.py`) | daily_limits.published_count | reserve_slot, release_slot | a counter standing for identities, under failure | exact counter; maximum never exceeded |
| Stories (`publish_story`, `schedule_stories`) | stories | claim, publish, record; create after a cooldown | no backoff; a read after a rollback | one unfinished story per product; cooldown; no stuck story |
| Scheduler (`app/queue/scheduler.py`) | scheduled_posts rows, daily_limits rows | run_scheduler, ensure_default_daily_limits | capacity read long before the insert | day not over-scheduled; no product twice; every product gets its turn |
| Owner's operations (`app/queue/operations.py`, `app/dashboard/service.py`) | the same rows | schedule, publish_now, skip, retry_failed, reprioritize, set_limit | run beside the worker on rows it has loaded | a skip sticks; a retry revives only what failed |
| Product lifecycle (`app/parsing`, `app/ai`, `app/queue`) | products.status, captions, media | parse, caption, evaluate, enqueue | status written by worker and dashboard | only a captioned, valid, unrejected product reaches the queue |
| Manual capture (`app/telegram/manual_capture.py`) | source_messages, products, media | ingest_forwarded_message | duplicates, albums | one product per message |
| Dashboard loop (`app/dashboard/bot.py`) | settings: offset, awaiting input | run_once, handle_message, handle_callback | crash between effect and offset | every update handled, none lost |
| Channel scan (`app/telegram/scan_*.py`, `ingestion_service.py`) | scan_states, source_messages | scan_channel, determine_scan_window | failure midway, gaps | the cursor never passes an unstored message |
| Retention (`app/media/retention.py`) | media, captions, files | purge_expired_media | competes with retries | nothing needed later is deleted |
| Analytics, API, configuration | reports only | | | rankings agree with their definition |

`PROJECT.json` lists the hazards of this code one by one, each at its line, with the
properties that cover it or the reason why none does.

## 2. What is modelled

| Module | Content |
|---|---|
| `SlotPool` | what the slot guard promises: slots with owners instead of a number |
| `Publisher` | the publishing routine, the batch, the dashboard's operations on the same rows |
| `MCPublisher`, `MCPublisher*.cfg` | instances for TLC |
| `ProductLife` | what happens to one product between queue and Instagram, without the steps |
| `Pipeline` | limits, queue, batch scheduler and publisher in outline, and the owner's operations, over days |
| `MCPipeline`, `MCPipeline*.cfg` | instances for TLC |
| `Stories` | stories, from their creation after a cooldown to the end of publish_story |
| `Scan` | the monitor's passes over a channel, window and cursor |
| `Intake` | the bot's update loop and the worker's stages before the queue |
| `Captions` | what a caption may say: parser, generation, validation, gate |
| `BestTimes` | which hours the analytics recommend |
| `MCStories`, `MCScan`, `MCIntake`, `MCAlgorithms` | instances for TLC |
| `PublisherProofs` | proofs about rows: types, claims, cancellations, attempts, what is live on Instagram |
| `PublisherSlotProofs` | proofs about the counter: exactness, the maximum, the refinement |
| `IntakeProofs` | proofs about captures, questions and content |
| `ScanProofs` | proofs about the cursor of a channel and the messages left out |
| `CaptionsProofs` | proofs about captions, for any vocabulary |
| `StoriesProofs` | proofs about stories: owners, turns, the counter of a day and the pool behind it, skips |
| `PipelineProofs` | proofs about both deployments (types, the ceiling of a day, the index) and about the job: a product and its rows, the day's maximum, `ProductLife` |
| `BestTimesProofs` | proof that a recommended hour is the best one |

### Publisher

*State.* `status`, `attempts`, `product`, `ledger`, `published`, `maxAllowed`, `mode`
are columns of the database. `waiting[p]` abstracts `last_attempt_at`: the backoff of
the last attempt has not elapsed; the clock is the action `BackoffElapses`. `live[p]`
counts how often Instagram has published the post, which the program cannot see.
Each process has a place `pc`, the row `cur` it works on, the rows `todo` its batch
has left, and `seen`, the values its loaded objects still hold; `op` is the
dashboard's half-done operation. `lost`, `orphaned`, `abandoned`, `peak` are history:
only properties read them. A daily_limits row is a *bucket*, and `BucketOf` says in
which one a row is counted (`target_date` at `publisher_service.py:334-335`).

*Grain.* One action is the code between two commits. What a process read before a
commit and uses after it is in `seen` or `op`; `Flush` says what the UPDATE of a loaded
object writes (`product.status = X` is not written when it was loaded as X).

| Code | Actions |
|---|---|
| run_publisher | `StartBatch`, then per row `PassOver` (an early return) or `Load` |
| _claim_scheduled_post | `Claim` |
| check_publish_safety, _load_valid_media | `Prepare` |
| reserve_slot, _revert_to_scheduled, release_slot | `Reserve`, `Revert`, `Release` |
| the Instagram call | `GoesLive`; `CallFails` before it takes effect, `AnswerLost` after |
| _record_scheduled_post_failure, the final commit | `Record`, `Confirm` |
| schedule / publish_now and the publish button | `BeginInsert`, `Insert`, `SelectPost`, then the routine itself |
| skip, retry_failed | `BeginSkip`, `SkipSelect`, `SkipWrite`; `BeginRetry`, `RetryWrite` |
| set_limit, setmode | `SetLimit`, `SetMode` |
| a killed process | `Crash` |

The partial unique index (one active row per product and type) is `Vacant`: `Insert`,
`Revert`, `Record` and `RetryWrite` take their IntegrityError branch when it does not
hold. In `Revert` and `Record` that exception leaves the routine and ends the batch
(`Abort`), which the routine's docstring ("never raised out of a batch run") does not
foresee; the row has been cancelled by a skip and scheduled anew by then, so nothing
is lost but the rest of the batch.

*Left open.* Whether caption, text and media are acceptable (`Prepare` may always
refuse); which error the call ends with; the order of a batch; which limit the owner
picks.

*Abstracted.* Error texts, error rows, logging, caption text, container polling (one
call that takes effect or does not). A product belongs to one row per bucket
(idempotency_key), which is `ConstantsAssumption`. Rows are due from the start; days do
not pass. Products whose status is not one the publisher reads (DISCOVERED ...
VALIDATED) are left out, as are DUPLICATE and REJECTED, which `Prepare`'s refusal covers.

### SlotPool

The module docstring of `daily_limit_guard.py` read as a specification: a publication
takes a slot if the day has room, holds it, and keeps it for good once confirmed or
gives it back; if its process dies the slot is orphaned. `Publisher` implements it with
`holders` = the rows whose process is between reservation and confirmation or release,
`confirmed` = `ledger`. `Stories` implements it too, where a publication is a story with
the day it is counted in: a retry on a later day asks for a slot of that day. The code
keeps none of these identities, only a number, so the refinements say that the number is
enough.

### Pipeline

`Publisher` takes its rows as given; `Pipeline` is where they come from. Its database is
products.status, one row of scheduled_posts per idempotency key (product, type, day),
and daily_limits per type and day. `at` and `run` are the worker's place in its cycle
and what it has read; `desk` is the owner's operation and what it has read.

| Code | Actions |
|---|---|
| ensure_default_daily_limits | `StartCycle`, `EnsureLimits` |
| enqueue_eligible_products | `ReadEligible`, `Enqueue` |
| run_scheduler | `SelectQueued`, `ReadCapacity` (four times), `InsertNext` per row, `EndInsert` |
| the stages before the queue, when one fails | `StageFails` |
| run_publisher, publish button | `Succeed`, `Fail`, `KilledPublishing`; `EndCycle`, `DeskGivesUp` |
| schedule, publish_now | `BeginSchedule`, `DeskLimit`, `DeskCount`, `DeskInsert` |
| skip, retry_failed, set_limit | `BeginSkip`, `SkipSelect`, `SkipWrite`; `BeginRetry`, `Retry`; `SetLimit` |
| a killed process, midnight | `Killed`, `DayPasses` |

`Concurrent` chooses the deployment: docker-compose.yml runs worker and dashboard beside
each other; the job (`app/runtime/worker_once.py`) serves the updates it finds and then
runs the stages, and its concurrency group keeps two jobs apart. `Insertable` is the pair
of unique indexes. An IntegrityError in run_scheduler ends the cycle (`InsertNext`),
because its handler reads an expired object. The parser, the captions and the eligibility
have the same fault in their handlers (`product_service.py:175-181`,
`caption_service.py:99-105`, `eligibility_service.py:123-128`): `StageFails` ends the cycle
before the queue, and may do so for ever. A kill takes one process, or in the job both
(`Deaths`).

run_scheduler first selects products for all it has room for, in memory, then inserts
them one by one. What it selects depends only on what it has read, so `InsertNext`
chooses each product when its turn comes: `Selected` are those that still find a slot,
which only become fewer, and `Foremost` is the order of the query.

`ProductLife` is the abstract specification: an open product is booked, the booking is
published, fails or is dropped, and a failed one is reopened as it was. `Stage` is
products.status with ELIGIBLE and QUEUED as one, `Bookings` the product's rows but the
cancelled ones. It covers what is under `app/queue`, the publisher and the operations, as
`Pipeline` does; a late caption of the owner's (`Intake`, `bot.py:195`) may also put a
product of any status back to VALIDATED, before all this.

Publishing one row is one step here, which is exact in the job and hides in the other
deployment what `Publisher` is about. Hours within a day, what the earlier stages write,
and products before ELIGIBLE are left out.

### Stories

A story is named by its product and the day it was created. The idempotency key also
holds the product's first medium (`scheduler.py:249`), which a product keeps here: the
difference would be a second story on the day the first medium is replaced.
`bucket` is the day whose counter its last reservation used (`target_date` is the day of
`scheduled_for`), `shown` remembers which products each batch may have seen unskipped, and
`stranded`, `orphaned`, `peak` are history.

| Code | Actions |
|---|---|
| schedule_stories | `StartCycle`, `ReadProducts`, `CreateNext` per product |
| run_publisher | `StartBatch`, `DealWithPosts`, then per story `PassOver` or `Load` |
| the claim, the checks, reserve_slot | `ClaimStory`; `Refuse`; `ReserveStory`, or `MeetFullDay` |
| the call and its ends | `GoesLive`, `ConfirmStory`; `ReleaseStory`, `RecordFailure` |
| the owner, retention, time, a killed process | `Review`, `ChangeProduct`, `SetStoryLimit`; `PurgeMedia`; `Tick`; `Killed` |

Posts are one step (`DealWithPosts`): all that matters of them is that they load products
into the session the stories then read from. The early return for exhausted attempts
(`publisher_service.py:472-477`) is never taken: the last failure already wrote FAILED.

### Scan

`posted` is the channel at Telegram, `cursor` its scan_state row, `pass` what one run of
the monitor has loaded and where it is. Passes may overlap (nothing keeps them apart), a
pass may fail or die, and channels are added and switched on and off meanwhile.

| Code | Actions |
|---|---|
| add_channel, enable_channel, disable_channel | `AddChannel`, `EnableChannel`, `DisableChannel` |
| list_channels; determine_scan_window | `StartPass`; `BeginScan`, or `ReadUnloaded` |
| ingest_message; download_message_media | `Ingest`; `Download` |
| scan_channel's last commit; its except branch | `ScanEnds`; `ScanFails` |
| Telegram, time, a killed process | `Post`; `Tick`; `Killed` |

`Flushed` is the UPDATE that writes only the cursor columns whose value changed since they
were loaded: two passes can write one another's halves. `since = None` is a window
without a lower bound. The monitor is started by hand or by cron
(`monitor_runner.py`); the repository's README.md:255 calls it legacy beside the capture
by the bot, in `Intake`, and nothing schedules it.

As it is wired, the monitor does not get as far as a window: list_channels
(`channel_service.py:41-48`) does not load the lazy `channel.scan_state`
(`models/channel.py:55`), and scan_channel reads it before its try
(`scan_service.py:53, 81`), so every pass with an active channel ends there
(`ReadUnloaded`). `Prepared` are the monitors whose session has loaded the scan states;
what is said of windows and cursors is about those, beside any number of the others.

### Intake

Two processes: the bot serves updates in order and saves its offset after each; the worker
runs its stages, each of which selects rows by status once and then deals with them one
by one, whatever they have become. A product has the name of its first message; messages
with the same content share it.

| Code | Actions |
|---|---|
| run_once, the offset | `StartRun`, `SaveOffset`, `EndRun` |
| ingest_forwarded_message | `BeginCapture`, `InsertMessage`, `DownloadFails` or `RecordCapture`, `SendButtons`; `CaptureRaises` |
| type buttons; cancel; another question | `ChooseType`, `AskCaption`; `Cancel`; `AskOther` |
| a press answered with an error; all that asks nothing | `PressFails`; `Look` |
| handle_input | `IdleText`, `TakeCaption`, `TakeOther`, `ClearAwaiting` |
| the stages | `NextStage`, `Parse`, `Caption`, `Evaluate`, `Enqueue`, `Publish`, `Purge` |
| the owner, the monitor; a process that stops | `Send`, `Ingest`; `BotStops`, `WorkerStops` |

`Look` stands for whatever leaves an open question as it is: /start and /menu, the lists
and settings, and the buttons on scheduled rows, whose effects are in `Publisher` and
`Pipeline`. `PressFails` is the except branch of the buttons (`bot.py:373-377`): the update
counts as served, what was committed stays, and so does an earlier question.
`BotStops` is a killed process and also an answer of handle_message that Telegram
refuses, which no try surrounds: either way the run ends ("stopped") and the update is
served again over what was committed, as often as it happens. The job, which serves the
updates and then runs the stages, has a subset of these interleavings. The worker's
`Publish` is an outline; captures and scanned messages are assumed never to have the same
content hash (one hashes a photo, the other a text). Left open: which text is empty, which
files can be deleted, which captions the model writes.

### Captions

A text is a sequence of words; a word is a number or spells a set of keywords, which is
what the regular expressions and the substring search of the code see of it. `ExtractPrice`
is the parser; `Validate` the validator (`PriceLeak`, `UnsupportedNumbers`,
`UnsupportedClaims`, length), `Chosen` the first candidate that passes, `SafeToPublish` the
gate, which sees the caption with the product code appended. A number is found in a text by
its spelling: `Shows` says which spellings a written number contains (12.50 contains
12.50, 12 and 50, but not 12.5), `Canonical` which one Decimal.normalize gives its value,
and `Banned` which of them the validator searches for.

| Code | Actions |
|---|---|
| process_source_message, ingest_forwarded_message | `Parse`, `Capture` |
| process_product | `AskModel`, then `Store` or `Unanswered` |
| handle_input, for a captured product | `WriteCaption` |
| run_scheduler, the caption linked to the post; the claim | `Schedule`; `Claim` |
| check_publish_safety, the caption sent | `Publish` |
| skip; retry_failed | `Skip`; `Retry` |
| purge_expired_media: the list; a product of it | `SelectForPurge`; `Purge` |

Several generators may be waiting for an answer about the same product. The lengths of the
validator are settings (AI_MIN/MAX_CAPTION_LENGTH), those of the gate constants, so they
are separate parameters. Of the post there is only as much as decides which caption the
gate sees, and in what state of the product: eligibility, queue and scheduler are one step
(`Schedule`), a call that fails is left to `Publisher`, cancelled captures to `Intake`.
`is_duplicate_of` and DUPLICATE are never set by the code, so the gate's check of them has no
state to look at.

### BestTimes

Posts go out (`GoOut`) and are measured, one row a day (`Measure`); the report is an
operator over that state (`BestHours`). The ranking of weekdays is the same computation.
Sums are folds over functions of the community modules (`SumFunction`), whose unfolding
has theorems to cite; a mean is compared by cross-multiplication.

## 3. What is checked

| Run | Instance | Properties | States |
|---|---|---|---|
| `publisher_limit` | 1 worker, dashboard; 2 products, 1 bucket; limits 0-1; 2 attempts; 1 crash | `TypeOK`, `SlotsAccounted`, `WithinLimit`, `ImplementsSlotPool` | 1.7 M |
| `publisher_rows` | 2 workers, dashboard; 1 product with 2 rows; limits 0 or 2; 2 attempts; 1 retry; 1 crash | `ClaimExclusive`, `ProcessingIsOwned`, `ConfirmedIsDone`, `OnlyConfirmedIsPublished`, `AttemptBudget`, `LiveAccounted`, `CancelSticks` | 2.3 M |
| `publisher_live` | as above, no crash, capacity for all | `ProcessingEnds`, `EveryPostEnds` | 0.2 M |
| `pipeline_job` | the job; 2 products (post, reel), 2 types, 2 days; limits 0-1; 1 retry per type and day, 1 changed limit, 1 kill | `TypeOK`, `OneActiveRow`, `NotOverbooked`, `NoConflict`, `FinalForTheWorker`, `PublisherIsReached` | 0.4 M |
| `stories` | worker and a runner by hand; 1 product, 2 days; limits 0-1; 2 attempts; cooldown of a day; 1 run by hand, 1 change, 1 kill | `TypeOK`, `ProcessingExplained`, `StoriesTakeTurns`, `StorySlotsExact`, `SkipIsHeeded`, `StoriesEnd` | 0.4 M |
| `scan` | 3 passes at a time, 2 of them prepared; 1 channel, 2 messages, 3 ticks, span of one; 1 failure or kill | `TypeOK`, `CursorHonest`, `OldOnlyIfLeftOut`, `ScanIsComplete` | 2.0 M |
| `intake` | 2 captures (1 taken before), 2 scanned messages, 3 updates or arrivals; any number of failures and interruptions | `TypeOK`, `QueuedHasContent`, `CaptionAnswersItsQuestion`, `CaptureAccounted`, `EveryUpdateIsServed` | 2.0 M |
| `algorithms` | 2 generators, 2 answers of up to 2 captions from 6, 5 source texts, 3 codes, skips, retries and purges; beside it up to 4 posts in 2 hours, 2 days, 2 rates | `TypeOK`, `OneCaption`, `NothingInvented`, `PriceHidden`, `RefusalExplained`, `RecommendationEarned` | 0.6 M |

*Bounds.* `MaxAttempts = 2` gives a first, a last and, through a stale count, an extra
attempt; the code's 5 only repeats the middle. Two rows are the least that compete for
a limit (one bucket) or for a product (one product), and with three publishers on two
rows every pair of steps of the routine can interleave. In
`publisher_rows` the limit is 0 or 2, so that a slot is never what keeps a row from going
live twice. One crash reaches every orphaned
state; each further one only adds another. `MaxRetries` bounds the owner's patience.
In `pipeline_job` the dashboard schedules as POST whatever a product prefers, so two
products compete for posts while one also competes for reels; the second day gives every
product a second key and lets a cycle be overtaken by midnight.
In `stories` one product is enough because stories meet only in the counter, which two
days of one product share just as well (a retry on the second day uses the first day's
counter); one kill strands one story, and two attempts give a first and a last one.
In `scan` an old and a new message, three ticks and a span of one make every phase
(initial, catch-up, incremental) meet a message it leaves out and one it takes, and two
passes are the least that overlap; the third is the monitor as it is.
In `intake` one capture made before we look, with buttons on the owner's screen, lets three
updates be a choice, its text and whatever comes between or after; the contents make a
second capture a duplicate or not. Nothing bounds failures and interruptions there, and
with three updates one can be served, replayed and met by the next. In `algorithms` the vocabulary has every kind of word
the code tells apart (a number with and without three decimals, a currency both lists
know and one only the parser knows, a number whose value is spelled otherwise, an indicator, a filler, a claim, a code that spells a
keyword). Two modules that share nothing are explored together there; a product's life
ends, hence CHECK_DEADLOCK FALSE.

*Fairness* (`publisher_live`). A worker that can take a step takes one: every
await ends, because the HTTP client has a timeout and `wait_for` bounds the call, and
`run_forever` starts a cycle every interval. The dashboard finishes what it began but
need not be used. The clock advances. Nothing is assumed about the outcome of a call,
the mode, or the owner. `EveryPostEnds` needs the mode to stay AUTO and a day with
room for every row: without room a row waits for ever (a hazard of its own). Crashes
are excluded because the code does not recover a row left in PROCESSING.

In `pipeline_job` the stages of a cycle end and an operation once begun ends (weak
fairness). Cycle after cycle starts although the owner may always send another update:
the job takes one finite batch of them and goes on, which is strong fairness of
`StartCycle`. Nothing need be published, and the owner need do nothing. That the
stages before the queue do not fail is no fairness: it is the hypothesis of
`PublisherIsReached`, which speaks of behaviours with finitely many `StageFails`, since a
provider that does not answer ends every cycle.

In `stories` the worker's cycle creates (weak fairness) and a batch that is possible again
and again is started (strong fairness: the owner may switch the mode off, but not for
ever); what a process began it goes on with. Whether a call fails is open: retries end
because attempts are counted. In `scan` nothing is fair, as nothing schedules the monitor:
`ScanIsComplete` says what a scan has achieved when it ends. In `intake` a handler goes on
and the bot is run again after an interruption (docker-compose.yml's
`restart: unless-stopped`, the schedule of the job). That runs are not cut short for ever is
the hypothesis of `EveryUpdateIsServed`, not an assumption: `BotStops` may come again and
again, and then the property says nothing. Nothing is asked of the worker, so it holds
beside a worker that hangs.

Every property has a mutant in `PROJECT.json`: a plausible slip in one definition that
makes TLC find it violated.

### Disagreements found

Four runs are expected to fail; each states what the repository says.

* `publisher_duplicate`: *"a scheduled post can have at most one publication, full
  stop"* (README.md:382-384). A timeout after media_publish took effect is
  retried as a new publication. `LiveAccounted` says that a lost answer is the only way.
* `publisher_exhausted`: test_max_attempts_exceeded_fails_permanently expects a row
  without attempts left to fail before any call; the routine has no such check, and
  retry_failed produces such rows.
* `publisher_backoff`: transient errors are *"retried with backoff"*
  (`app/instagram/client.py`). A publisher that passed the check before another one's
  failure claims the row inside the new backoff, and one attempt is not counted.

* `pipeline_stuck`: *"a single bad provider or row ... does not stop future cycles"*
  (`app/runtime/worker.py:50-52`). The queue stage writes QUEUED over a product the
  dashboard has scheduled since it was read. The scheduler then meets the unique index
  in every cycle, its handler raises, and no cycle reaches the publisher any more; the
  row in the way is itself waiting for the publisher. The job, where nothing writes
  between the two, does not do this (`pipeline_job`); but a stage before the queue that
  fails ends its cycles just the same, and a provider that is down is such a failure.

The other safety properties of `pipeline_job` hold for the job only, for the same reason
(TLC finds each of them violated when the same instance runs both processes): beside
a running worker, a skip can be overwritten by a stage that read the product before it,
a product can be scheduled as a post and as a reel, and two schedulers can share the
last place of a day, which `WithinLimit` keeps from being published.

Met on the way, without a run: *"`published_count` only ever reflects confirmed
publishes"* (README.md:386-388) is false after a killed process, whose slot is never
released (`SlotsAccounted` counts it as orphaned); a row cancelled by skip while its
call is under way still goes live (skip's docstring says "never publish it"). Further:

* *Stories.* The limit_reached path reads `story.scheduled_for` after a rollback has expired
  it (`publisher_service.py:506`): the story stays PROCESSING and no other story of that
  product is ever created. `stranded` counts it; `StoriesEnd` says it is, with kills, the
  only way.
* *Monitor.* Every pass ends at the first active channel, on the lazy `scan_state` (see
  *Scan* above).
* *Scan.* A first scan or a catch-up that finds nothing recent leaves the cursor where it
  was, and the next, incremental, pass has no lower bound: it ingests what was left out as
  too old, contrary to `scan_window.py:8-17` and `config.py:92-94`. `OldOnlyIfLeftOut` is
  weaker than what they say by exactly this case, and says it is the only one.
  The fallback on `last_run_at` cannot be reached. A message stored by a pass that died
  before its download and that has become too old gets no file.
* *Captures.* A capture whose download fails, or that is interrupted after its source
  message was committed, can never be captured again: forwarded anew it is answered as a
  duplicate, and there is no product (`bot.py:136-143` says forwarding again is
  safe). `excused` counts these. If the buttons could not be sent, the product stays
  without type and caption. The worker's parser marks a capture it meets in download as IGNORED.
* *Questions.* After an empty text the bot asks to write again but has forgotten the
  question (`bot.py:186-190` with 119-121); forwarding something without a medium forgets it
  too. A press that fails after the product's type was committed (`bot.py:271-273`) leaves the
  question before it open, and the caption she writes next goes to that other product.
  A late cancel or caption changes the product's status whatever it has become.
* *Answers.* `bot.py:136-143` says that a failure "must NOT block the Telegram update offset";
  the answers of handle_message (102, 106, 122, 146, 162-172, 233) are outside any try, and
  one that Telegram refuses every time, to somebody who has blocked the bot, blocks it.
* *AI failures.* When the provider fails, `caption_service.py:105` reads `product.id` after a
  rollback, which ends the cycle instead of passing the product over: neither queue nor
  publisher are reached while it lasts (`StageFails`), contrary to `worker.py:50-52`.
* *Prices.* The validator does not know two of the parser's units ("دك", "د ك"): of two
  such prices in a source, the one the parser did not pick may be shown; and the one it did
  pick may be, where the merchant's spelling is not Decimal's: of "bag 12.50 دك" only 12.5 is
  searched, so the caption "bag 12.50" passes validator and gate (`PriceHidden` claims
  for such a price only the normalized spelling). "12.500 دك" is
  neither parsed nor taken for a price, and "12,50" is not "12.50", contrary to
  `validator.py:13-20`.
* *Gate.* A captured product has no source text, which the gate requires: it is captioned,
  queued and always refused (the answer at `bot.py:198-203` promises otherwise). A random product code
  may spell a keyword or currency ("KD", "XL", "OFF"), and then the product is refused for
  ever; `tests/test_product_code.py:15-18` excludes only digits. Near the maximal length
  the code makes a validated caption too long.
* *Retention.* A product that failed or was skipped loses its caption after some days; put
  back by retry_failed it is refused for want of it.
* *Generators.* Of two captions selected at once the unique index refuses the second, and
  the IntegrityError ends that run.

## 4. What is proved

For every set of workers, rows, products and buckets, every limit and every bound that
satisfies `ConstantsAssumption`:

| Theorem | Property |
|---|---|
| `TypeCorrect` | `TypeOK` |
| `ClaimIsExclusive`, `NobodyForgetsProcessing`, `ConfirmedIsFinal` | `ClaimExclusive`, `ProcessingIsOwned`, `ConfirmedIsDone` |
| `CancelledForGood` | `CancelSticks` |
| `AttemptsAreBounded` | `AttemptBudget` |
| `CounterIsExact`, `LimitHolds` | `SlotsAccounted`, `WithinLimit` |
| `CounterImplementsPool` | `ImplementsSlotPool` |
| `PublicationsAccounted`, `PublishedIsConfirmed` | `LiveAccounted`, `OnlyConfirmedIsPublished` |

For every set of messages and contents and any number of updates and interruptions
(`IntakeAssumption`):

| Theorem | Property |
|---|---|
| `IntakeTypeOK` | `TypeOK` |
| `QueuedProductsHaveContent` | `QueuedHasContent` |
| `CapturesAccounted` | `CaptureAccounted` |
| `CaptionsAnswerTheirQuestion` | `CaptionAnswersItsQuestion` |

For every set of channels and monitors (prepared or not), every history in order of its dates, span, gap and
number of failures (`ScanAssumption`):

| Theorem | Property |
|---|---|
| `ScanTypeOK` | `TypeOK` |
| `CursorIsHonest` | `CursorHonest` |
| `OldMessagesAreLeftOut`, if `CatchupGap <= InitialSpan` | `OldOnlyIfLeftOut` |
| `ScansAreComplete` | `ScanIsComplete` |

For every vocabulary, length, set of texts and number of generators
(`CaptionsAssumption`):

| Theorem | Property |
|---|---|
| `CaptionsTypeOK` | `TypeOK` |
| `NothingIsInvented`, `PriceStaysHidden` | `NothingInvented`, `PriceHidden` |
| `OneCaptionOnly`, `RefusalsExplained` | `OneCaption`, `RefusalExplained` |

For any number of runners, products, days, attempts and kills, and every limit, cooldown
and day length (`StoriesAssumption`):

| Theorem | Property |
|---|---|
| `StoriesTypeOK` | `TypeOK` |
| `StoriesAreExplained` | `ProcessingExplained` |
| `StoriesAreApart` | `StoriesTakeTurns` |
| `StorySlotsAreExact` | `StorySlotsExact` |
| `SkipsAreHeeded` | `SkipIsHeeded` |
| `StoriesImplementPool` | `ImplementsSlotPool` |

For every set of products, choices, scores, limits, days, retries and kills
(`PipelineAssumption`), in both deployments:

| Theorem | Property |
|---|---|
| `PipelineTypeOK` | `TypeOK` |
| `DayIsNeverOverpublished` | `NeverOverpublished` |
| `ProductHasNoTwins` | `NoTwins` |

and under `~Concurrent`, which is the deployment as a scheduled job and not a restriction
of what happens in it:

| Theorem | Property |
|---|---|
| `JobOneActiveRow` | `OneActiveRow` |
| `JobNotOverbooked` | `NotOverbooked` |
| `JobInsertsFreely` | `NoConflict` |
| `JobFinalForTheWorker` | `FinalForTheWorker` |
| `JobImplementsLife` | `ImplementsProductLife` |

For every finite set of hours, every set of days and rates, and every threshold
(`BestTimesAssumption`):

| Theorem | Property |
|---|---|
| `RecommendationIsEarned` | `RecommendationEarned` |

*Rows.* None of the row properties is inductive by itself: a claim is exclusive because
a row being handled is PROCESSING or CANCELLED and so cannot be claimed, a confirmed
row is not revived because it never returns to SCHEDULED or FAILED, and neither fact
holds without the index, because a skipped row may be written back while the product
has a new one. `Ownership` conjoins these with `OneActive`, the unique index as an invariant.
`AttemptsLeft` adds to `AttemptBudget` what a publisher with a stale count may still
write.

*Slots.* `SlotInv` adds `Capped` to the exact counter: `published[b] <= peak[b]`. Every
step is one of five on the owners of a bucket (reserve, release, confirm, crash, none),
each a lemma over finite cardinalities; `OtherStep` collects the steps that touch no
slot. `PoolStep` maps each step to a step of `SlotPool` or a stutter from the same
lemmas.

*What is live.* `LiveAccounted` needs that a row whose call has taken effect is claimed by
that process alone, so it rests on `Ownership`; the sum of the three terms changes by one
on both sides in each of the steps `GoesLive`, `Confirm` and `AnswerLost`.

*Intake.* `Typed` adds to the types what the owner's buttons, the pending question and the
worker's selection refer to. Each of the other three needs its own strengthening. `Content`:
what a stage selected keeps its content, since only the purge takes content away and it is
the same process. `Traced`: a stored capture is settled or is the one the handler is at,
and so is every captured product; without the second part a duplicate could be answered
from a product whose buttons were never sent. `Question`: the pending question came
with the current update or an earlier one with only cancellations, looks and failed presses
since, and what each handler has made of it when it is done; the current update's caption, if it has one already from an
interrupted attempt, belongs to the pending question or the question is gone.

*Scan.* The id and the date of a cursor may come from two overlapping passes, because an
UPDATE writes only what its pass has changed (`Flushed`). So `Covered` speaks of each by
itself: what is at or below the id, and what is older than the date, was dealt with or was
too old; and what a pass in progress has behind it likewise, or was too old for its own
start. The lower bound of a window leaves out only what is older than the cursor's date or
than the span (`WindowBounds`), and dates are in the order of ids (`Ordered`).
`OldMessagesAreLeftOut` adds `Recent`: what is older than a channel's last success is stored
or was too old for a complete pass, and a pass without a lower bound began within the gap
after such a success, so what is too old for it is older than that success. This needs that an
outage is noticed no later than a message becomes too old, `CatchupGap <= InitialSpan`: 30
minutes and 5 days by default (`src/app/core/config.py:95-100`). With a longer gap the
property is false: an incremental pass stores what has grown old since the last success.
`ScansAreComplete` is read off `Covered`: a pass that ends has all of its channel behind it.

*Captions.* `ShownPassed` is the invariant: what is live is the selected caption with the
code, and passed both checks against the same source; a price that is parsed is the
first of the unit tried first, whose existence (a least element) is
`SmallestExists`. `PriceStaysHidden` and `NothingIsInvented` read it off. `Single` says that
the selected caption is one that passed and that a post has no other, whatever is written or
deleted meanwhile. `Validated` adds to `RefusalExplained` what makes it inductive: a skip
cancels a scheduled post, and is remembered (`skipped`) only for one already claimed, so a
refusal of a scanned product with its caption is one for words or lengths that the code
and its label add (`BuildJudged`).

*Stories.* `Settled` (`AlwaysSettled`) is what every other proof stands on: the types, what
a process has loaded by its place (`Placed`), and that a story in PROCESSING is held by one
process or stranded, never both (`Owned`). Every action is one of four moves of a story
(`Keeps`, `Takes`, `Finishes`, `Strands`), and each of the other theorems has such a
list of its own, so that the argument about sets and numbers is made once per move and not
once per action:
`StoriesTakeTurns` rests on `Turns`, in which two stories of a product that count are in
the order of their days and the earlier one was confirmed a cooldown *before now*; the
property alone does not say why the next one may be created (`Rested`), since it speaks of
two confirmed stories only. No relation between cooldown and
length of a day is assumed. `StorySlotsExact` rests on `Counted` and `Capped`: a story that holds a slot is never loaded again by
anybody, so the day it counts in (`bucket`) cannot change under it. `Heeded` follows a
product through the two places a batch may know it from, the table and its session.
`StoriesImplementPool` uses the invariants of the counter: publications are in bijection
with the stories that own a slot (`bucket` does not change under an owner), so `published`
counts the pool's owners, and the list of moves of a story becomes a list of steps of the
pool or stutters (`SlotsStay`, `Reserves`, `GivesBack`, `KeepsForGood`, `LeavesBehind`).

*Pipeline.* `Typed` adds `Counted`: the results of the second capacity queries are not negative,
which is what makes the insert loop end within the room. `JobInv` says why a product and its
rows agree: `Alone` (worker and dashboard are never under way together, from
`~Concurrent`), `Agree` (one row per product in its life, which is stronger than one active
row: a retry reuses it), and `WorkerHolds` and `DeskHolds` (what each has read is still so
when it writes). `OneActiveRow` and `NoConflict` are read off it, and
`FinalForTheWorker` because no stage holds a skipped or published product. `BookInv` does
the same for numbers: `Within` says which rows fit the day (no more confirmed rows
than the counter says, no more booked ones than the peak and the revivals), and `Reserved` and
`DeskReserved` say at each place between a capacity query and its insert that the rows
about to be inserted still fit. The choice of the next product (`Foremost`) is a CHOOSE over
two keys; that it exists at all is `ForemostIsOne`. With worker and
dashboard side by side (`Concurrent`) TLC finds each of these four properties, and
`ImplementsProductLife`, violated on the instance of `pipeline_job`; `pipeline_stuck` shows
what follows from a lost `NoConflict`. `JobImplementsLife` maps each step with the help of
`Agree`: a scheduled product has the one row that is booked, so the row that a step
touches is the booking.

*Both deployments.* What remains true when worker and dashboard race is what the database
and the counter enforce by themselves. `NeverOverpublished`: a race may book more rows than
a day has places, but every publication first takes a slot, and the invariant `Below`
(published rows below the counter, the counter below the peak) is kept by each of four kinds of
steps on the tables (`TablesMove`: a row is taken, settled or cancelled, or a limit is
set). `NoTwins` is the partial unique index as an invariant, kept by the guard of every
step that makes a row active. A product may still be booked as a post *and* as a reel,
which is why `OneActiveRow` is for the job only.

*Best times.* The invariant says only that rows have their types and that each post that was
measured has a latest one (`Measured`); the work is in the sums. That `SumFunction`, a fold,
adds one element after another (`SumUnfolds`) and that the groups of all hours together are the posts
with a sample (`SumCounts`) are inductions over the number of elements. The library's
induction theorems cannot be used, so each is done by the least number for which the claim
fails (`NoLeastFailure`), whose existence comes from the well-foundedness of `<` on Nat. The
rest is that the latest row of a post exists and is the one the report reads
(`LatestRowIs`, `SamplesSpeak`).

Each of these invariants was checked by TLC, on the instances of section 3, before it was
proved.

Four results are proved beyond what the runs of section 3 list. `ImplementsSlotPool` of
`Stories` was checked on the instance of `stories` (0.4 M states), `ImplementsProductLife`,
`NeverOverpublished` and `NoTwins` on that of `pipeline_job` (0.4 M), the latter two also
with `Concurrent = TRUE` and one product (0.3 M) or one day (2.8 M); with both products and
both days that deployment is too large for a run.

*Model-checked only.* The liveness properties (`ProcessingEnds`, `EveryPostEnds`,
`PublisherIsReached`, `StoriesEnd`, `EveryUpdateIsServed`): fairness
and ENABLED are beyond the proof system used. Every other property of a passing run has
a theorem. What the algorithms of other components compute on sequences (the parser's and the
validator's) is proved as far as it is stated with quantifiers.

## 5. Not modelled

* Wording: prompts, keyboards, texts and statistics of the dashboard, logging. No state
  depends on it.
* The order of things that only an order depends on: scoring and priorities
  (`scoring.py`, `reprioritize`), the hour within a day (`_slot_time`). What is selected
  within a batch is left open instead.
* Titles, old prices and the recognition of "no product" in the parser: any outcome.
* Clients: of Telegram, Instagram and the AI provider only what their callers observe.
  Which HTTP status is a transient error is left open.
* Storage backends: a file is there or not.
* Start-up checks, settings, the HTTP API (which calls channel_service, in `Scan`),
  migrations, connections.
* All stages at the grain of commits in one module: the stages meet in the database at
  products.status, and `Publisher`, `Pipeline`, `Stories` and `Intake` each keep the
  statuses their part writes and take the others' writes as actions of an outline.

## 6. Plan

Done: `SlotPool`, `ProductLife`, `Publisher`, `Pipeline`, `Stories`, `Scan`, `Intake`,
`Captions` and `BestTimes`, each with its proofs.

Left, in this order:

1. `ProductLife` extended to the stages before the queue, so that `Intake` implements it as
   well; this needs the late caption (`bot.py:195`) as a step of its own.
2. Slot times and scoring as operators against a reference definition.
3. Progress of a product that met a full day, with more than two days.
