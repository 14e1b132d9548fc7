-------------------------------- MODULE Intake --------------------------------
(***************************************************************************)
(* From a Telegram message to a queued product: the dashboard bot          *)
(* (app/dashboard/bot.py) serves the owner's updates one after another and *)
(* captures what she forwards (app/telegram/manual_capture.py); the worker *)
(* parses scanned messages (app/parsing), generates captions (app/ai),     *)
(* evaluates and queues products (app/queue) and purges old ones           *)
(* (app/media/retention.py).                                               *)
(*                                                                         *)
(* The bot's offset is saved after an update was handled, so an update     *)
(* whose handling was interrupted is handled again, over what the first    *)
(* attempt left in the database.  Bot and worker are the two processes of  *)
(* docker-compose.yml; the job, which serves the updates and then runs the *)
(* stages, has some of their interleavings.  One action is the code        *)
(* between two commits.  A product is named by its first message.          *)
(***************************************************************************)
EXTENDS Integers, Sequences, FiniteSets

CONSTANTS
  Manual,       \* messages the owner may forward to the bot
  Scanned,      \* messages that come from the channel monitor
  Contents,     \* content hashes that messages may have, of photo or text
  Captured,     \* messages captured before we look
  MaxArrivals   \* bound: updates that come in, and scanned messages

Messages == Manual \cup Scanned

ASSUME IntakeAssumption ==
  /\ Messages \subseteq Nat \ {0}
  /\ Manual \cap Scanned = {}
  /\ Captured \subseteq Manual
  /\ \A f \in Contents :
       /\ DOMAIN f = Messages
       /\ \A m \in Manual, s \in Scanned : f[m] # f[s]
       /\ \A m, n \in Captured : f[m] = f[n] => m = n
  /\ MaxArrivals \in Nat

NoQuestion == 0
Limit      == -1  \* a question about something else: a limit, a search
NoCaption  == 0
Generated  == -1

\* choose, cancel: buttons of a captured product; ask: a button that leads to another
\* question (a limit, a search).  other: /search, or a forward without photo or video.
\* look: what leaves an open question open - /start and /menu, the other buttons (those
\* that change rows are ProductLife's), anything a stranger sends.
Kinds   == {"forward", "choose", "cancel", "ask", "text", "other", "look"}
Updates == [kind : Kinds, of : Messages \cup {0}]

MessageStatus == {"ABSENT", "PENDING", "PROCESSED", "IGNORED", "FAILED"}
ProductStatus ==
  {"NONE", "PARSED", "VALIDATED", "ELIGIBLE", "QUEUED", "PUBLISHED", "FAILED", "REJECTED"}
Terminal      == {"PUBLISHED", "FAILED", "REJECTED"}

\* Between two cycles, or before the first stage of one.
Idle == [at |-> 0, todo |-> {}]

Stages == <<"parse", "caption", "evaluate", "queue", "publish", "purge">>

VARIABLES
  content,    \* content hash of a message
  inbox,      \* the updates the owner has sent, in order
  offset,     \* setting: updates handled
  awaiting,   \* setting: the question the next text answers
  message,    \* source_messages.status
  product,    \* products.status
  preferred,  \* preferred_content_type is set
  media,      \* the product has a photo or video with a file
  caption,    \* its selected caption: the update it came with
  bot,        \* where the handler of update offset + 1 is
  worker,     \* the stage of the cycle and what it has selected
  asked,      \* products whose buttons are on the owner's screen
  excused,    \* history: captures that were interrupted or answered with an error
  failed      \* history: presses of a button that were answered with an error

settings == <<offset, awaiting>>
tables   == <<message, product, preferred, media, caption>>
past     == <<asked, excused, failed>>
vars     == <<content, inbox, settings, tables, bot, worker, past>>

Handling == {"insert", "download", "ask", "question", "answered", "done"}

TypeOK ==
  /\ content \in Contents
  /\ inbox \in Seq(Updates)
  /\ offset \in 0 .. Len(inbox)
  /\ awaiting \in Messages \cup {NoQuestion, Limit}
  /\ message \in [Messages -> MessageStatus]
  /\ product \in [Messages -> ProductStatus]
  /\ \A r \in Messages : product[r] # "NONE" => message[r] # "ABSENT"
  /\ preferred \in [Messages -> BOOLEAN]
  /\ media \in [Messages -> BOOLEAN]
  /\ caption \in [Messages -> {NoCaption, Generated} \cup DOMAIN inbox]
  /\ bot \in {"idle", "stopped", "next"} \cup Handling
  /\ bot \in Handling => offset < Len(inbox)
  /\ worker \in [at : 0 .. Len(Stages), todo : SUBSET Messages]
  /\ asked \subseteq {r \in Manual : product[r] # "NONE"}
  /\ excused \subseteq Manual
  /\ failed \subseteq DOMAIN inbox

Init ==
  /\ content \in Contents
  /\ inbox = <<>>
  /\ offset = 0
  /\ awaiting = NoQuestion
  /\ message = [m \in Messages |-> IF m \in Captured THEN "PROCESSED" ELSE "ABSENT"]
  /\ product = [r \in Messages |-> IF r \in Captured THEN "PARSED" ELSE "NONE"]
  /\ preferred = [r \in Messages |-> FALSE]
  /\ media = [r \in Messages |-> r \in Captured]
  /\ caption = [r \in Messages |-> NoCaption]
  /\ bot = "idle"
  /\ worker = Idle
  /\ asked = Captured
  /\ excused = {}
  /\ failed = {}

-------------------------------------------------------------------------------
(* What comes in *)

Arrivals == Len(inbox) + Cardinality({m \in Scanned : message[m] # "ABSENT"})

\* The monitor stores a message, in the order of their ids: see Scan.
Ingest(m) ==
  /\ Arrivals < MaxArrivals
  /\ message[m] = "ABSENT"
  /\ \A n \in Scanned : n < m => message[n] # "ABSENT"
  /\ message' = [message EXCEPT ![m] = "PENDING"]
  /\ UNCHANGED <<content, inbox, settings, product, preferred, media, caption, bot, worker, past>>

\* She presses the buttons she sees, as often as she likes: a press may wait
\* until the next job, and the buttons are taken away only then.
Send(u) ==
  /\ Arrivals < MaxArrivals
  /\ u.kind = "forward" => u.of \in Manual
  /\ u.kind \in {"choose", "cancel"} => u.of \in asked
  /\ u.kind \notin {"forward", "choose", "cancel"} => u.of = 0
  /\ inbox' = Append(inbox, u)
  /\ UNCHANGED <<content, settings, tables, bot, worker, past>>

-------------------------------------------------------------------------------
(* The update loop *)

Current == inbox[offset + 1]
Subject == Current.of

\* The handler of an update of one of these kinds is at place p.
At(p, kinds) == bot = p /\ offset < Len(inbox) /\ Current.kind \in kinds

\* After the last run, or after one that was cut short.
StartRun ==
  /\ bot \in {"idle", "stopped"}
  /\ bot' = "next"
  /\ UNCHANGED <<content, inbox, settings, tables, worker, past>>

\* getUpdates has no more.
EndRun ==
  /\ bot = "next"
  /\ offset = Len(inbox)
  /\ bot' = "idle"
  /\ UNCHANGED <<content, inbox, settings, tables, worker, past>>

\* Mutant: the offset of the last update of the batch is saved with the first.
SaveBatch ==
  /\ bot = "done"
  /\ offset' = Len(inbox)
  /\ bot' = "next"
  /\ UNCHANGED <<content, inbox, awaiting, tables, worker, past>>

SaveOffset ==
  /\ bot = "done"
  /\ offset' = offset + 1
  /\ bot' = "next"
  /\ UNCHANGED <<content, inbox, awaiting, tables, worker, past>>

-------------------------------------------------------------------------------
(* A forwarded message *)

\* Mutant: a capture leaves an earlier question open.
QuestionAfterForward == awaiting

\* A capture ends whatever the bot was waiting for.
AwaitingAfterForward == NoQuestion

BeginCapture ==
  /\ At("next", {"forward"})
  /\ awaiting' = AwaitingAfterForward
  /\ bot' = "insert"
  /\ UNCHANGED <<content, inbox, offset, tables, worker, past>>

\* Mutant: met by the unique index, the handler leaves the update for the next run.
InsertOrRetry ==
  /\ At("insert", {"forward"})
  /\ IF message[Subject] = "ABSENT"
     THEN message' = [message EXCEPT ![Subject] = "PENDING"] /\ bot' = "download"
     ELSE bot' = "idle" /\ UNCHANGED message
  /\ UNCHANGED <<content, inbox, settings, product, preferred, media, caption, worker, past>>

\* The source message is committed before the download; forwarded again, it
\* meets the unique index and is answered as a duplicate.
InsertMessage ==
  /\ At("insert", {"forward"})
  /\ IF message[Subject] = "ABSENT"
     THEN message' = [message EXCEPT ![Subject] = "PENDING"] /\ bot' = "download"
     ELSE bot' = "done" /\ UNCHANGED message
  /\ UNCHANGED <<content, inbox, settings, product, preferred, media, caption, worker, past>>

DownloadFails ==
  /\ At("download", {"forward"})
  /\ message' = [message EXCEPT ![Subject] = "FAILED"]
  /\ excused' = excused \cup {Subject}
  /\ bot' = "done"
  /\ UNCHANGED <<content, inbox, settings, product, preferred, media, caption, worker>>
  /\ UNCHANGED <<asked, failed>>

\* Products with the content of message m (content_hash is not unique).
SameContent(m) == {r \in Messages : product[r] # "NONE" /\ content[r] = content[m]}

\* Mutant: the buttons are sent for a duplicate as well.
RecordAndAsk ==
  LET m == Subject IN
  /\ At("download", {"forward"})
  /\ message' = [message EXCEPT ![m] = "PROCESSED"]
  /\ bot' = "ask"
  /\ \/ /\ SameContent(m) = {}
        /\ product' = [product EXCEPT ![m] = "PARSED"]
        /\ media' = [media EXCEPT ![m] = TRUE]
     \/ \E r \in SameContent(m) : media' = [media EXCEPT ![r] = TRUE] /\ UNCHANGED product
  /\ UNCHANGED <<content, inbox, settings, preferred, caption, worker, past>>

\* The photo is stored, and belongs to a known product or to a new one.
RecordCapture ==
  LET m == Subject IN
  /\ At("download", {"forward"})
  /\ message' = [message EXCEPT ![m] = "PROCESSED"]
  /\ \/ /\ SameContent(m) = {}
        /\ product' = [product EXCEPT ![m] = "PARSED"]
        /\ media' = [media EXCEPT ![m] = TRUE]
        /\ bot' = "ask"
     \/ \E r \in SameContent(m) :
          /\ media' = [media EXCEPT ![r] = TRUE]
          /\ bot' = "done"
          /\ UNCHANGED product
  /\ UNCHANGED <<content, inbox, settings, preferred, caption, worker, past>>

SendButtons ==
  /\ At("ask", {"forward"})
  /\ asked' = asked \cup {Subject}
  /\ bot' = "done"
  /\ UNCHANGED <<content, inbox, settings, tables, worker, excused, failed>>

\* Any exception of the capture is answered ("forward it again") and passed over.
CaptureRaises ==
  /\ bot \in {"insert", "download"}
  /\ excused' = excused \cup {Subject}
  /\ bot' = "done"
  /\ UNCHANGED <<content, inbox, settings, tables, worker, asked, failed>>

-------------------------------------------------------------------------------
(* A button *)

\* The type and the question are two commits.
ChooseType ==
  /\ At("next", {"choose"})
  /\ preferred' = [preferred EXCEPT ![Subject] = TRUE]
  /\ bot' = "question"
  /\ UNCHANGED <<content, inbox, settings, message, product, media, caption, worker, past>>

AskCaption ==
  /\ At("question", {"choose"})
  /\ awaiting' = Subject
  /\ bot' = "done"
  /\ UNCHANGED <<content, inbox, offset, tables, worker, past>>

\* Whatever the product's status is by now.
Cancel ==
  /\ At("next", {"cancel"})
  /\ product' = [product EXCEPT ![Subject] = "REJECTED"]
  /\ bot' = "done"
  /\ UNCHANGED <<content, inbox, settings, message, preferred, media, caption, worker, past>>

\* Another question; or a forward to be ignored, which ends the question.
AskOther ==
  /\ \/ At("next", {"ask", "other"}) /\ awaiting' = Limit
     \/ At("next", {"other"}) /\ awaiting' = NoQuestion
  /\ bot' = "done"
  /\ UNCHANGED <<content, inbox, offset, tables, worker, past>>

\* Any exception of a press, between its two commits as well, is answered ("try
\* again") and passed over: what was open before stays open.
PressFails ==
  /\ At("next", {"choose", "cancel", "ask"}) \/ At("question", {"choose"})
  /\ failed' = failed \cup {offset + 1}
  /\ bot' = "done"
  /\ UNCHANGED <<content, inbox, settings, tables, worker, asked, excused>>

Look ==
  /\ At("next", {"look"})
  /\ bot' = "done"
  /\ UNCHANGED <<content, inbox, settings, tables, worker, past>>

-------------------------------------------------------------------------------
(* A text *)

\* Nothing was asked: the menu is shown.
IdleText ==
  /\ At("next", {"text"})
  /\ awaiting = NoQuestion
  /\ bot' = "done"
  /\ UNCHANGED <<content, inbox, settings, tables, worker, past>>

\* The owner's caption is selected and passed, unless the product has a selected
\* one: then the unique index refuses, the handler rolls back and says so.
TakeCaption ==
  /\ At("next", {"text"})
  /\ awaiting \in Messages
  /\ caption[awaiting] = NoCaption
  /\ caption' = [caption EXCEPT ![awaiting] = offset + 1]
  /\ product' = [product EXCEPT ![awaiting] = "VALIDATED"]
  /\ bot' = "answered"
  /\ UNCHANGED <<content, inbox, settings, message, preferred, media, worker, past>>

\* A second caption (the index refuses it), an empty text (whether a text is empty
\* is left open), or the answer to another question.
TakeOther ==
  /\ At("next", {"text"})
  /\ awaiting # NoQuestion
  /\ bot' = "answered"
  /\ UNCHANGED <<content, inbox, settings, tables, worker, past>>

\* handle_input always returns True, even when it asked to write again.
ClearAwaiting ==
  /\ bot = "answered"
  /\ awaiting' = NoQuestion
  /\ bot' = "done"
  /\ UNCHANGED <<content, inbox, offset, tables, worker, past>>

\* The process dies, or a message's commit or the last answer to an update fails:
\* nothing handles that, the run ends, and the update stays the next one - for ever,
\* if it is the answer to somebody who has blocked the bot.
BotStops ==
  /\ bot \in {"next"} \cup Handling
  /\ excused' = IF bot \in {"download", "ask"} THEN excused \cup {Subject} ELSE excused
  /\ bot' = "stopped"
  /\ UNCHANGED <<content, inbox, settings, tables, worker, asked, failed>>

-------------------------------------------------------------------------------
(* The worker's stages: each selects by status once, then deals with what it *)
(* has selected, row by row, whatever the rows have become.                   *)

\* process_pending_messages, generate_pending_captions, evaluate_pending_products,
\* enqueue_eligible_products; scheduler and publisher in outline; and
\* purge_expired_media, where old are the products of a certain age.
Selected(stage, old) ==
  CASE stage = "parse"    -> {m \in Messages : message[m] = "PENDING"}
    [] stage = "caption"  -> {r \in Messages : product[r] = "PARSED" /\ ~preferred[r]}
    [] stage = "evaluate" -> {r \in Messages : product[r] = "VALIDATED"}
    [] stage = "queue"    -> {r \in Messages : product[r] = "ELIGIBLE"}
    [] stage = "publish"  -> {r \in Messages : product[r] = "QUEUED"}
    [] stage = "purge"    -> {r \in old : product[r] \in Terminal /\ media[r]}

\* On to a later stage: the ones between have selected nothing when it was their
\* turn (whether they would by now is not asked).
NextStage ==
  /\ worker.todo = {}
  /\ \/ /\ worker.at # 0
        /\ worker' = Idle
     \/ \E i \in worker.at + 1 .. Len(Stages), old \in SUBSET Messages :
          /\ Stages[i] # "purge" => old = {}
          /\ Selected(Stages[i], old) # {}
          /\ worker' = [at |-> i, todo |-> Selected(Stages[i], old)]
  /\ UNCHANGED <<content, inbox, settings, tables, bot, past>>

\* The worker deals with r in this stage (in the order of ids, on which nothing
\* depends here).
Take(stage, r) ==
  /\ r \in worker.todo
  /\ Stages[worker.at] = stage
  /\ worker' = [worker EXCEPT !.todo = @ \ {r}]
  /\ UNCHANGED <<content, inbox, settings, bot, past>>

\* process_source_message.  A capture has no text, and is ignored even while the
\* bot is at work on it.
Parse(m) ==
  /\ Take("parse", m)
  /\ \/ /\ m \in Manual
        /\ message' = [message EXCEPT ![m] = "IGNORED"]
        /\ UNCHANGED <<product, media>>
     \/ /\ m \in Scanned
        /\ message' = [message EXCEPT ![m] = "PROCESSED"]
        /\ \E file \in BOOLEAN :
             \/ /\ SameContent(m) = {}
                /\ product' = [product EXCEPT ![m] = "PARSED"]
                /\ media' = [media EXCEPT ![m] = file]
             \/ \E r \in SameContent(m) :
                  /\ media' = [media EXCEPT ![r] = @ \/ file]
                  /\ UNCHANGED product
  /\ UNCHANGED <<preferred, caption>>

\* process_product: a candidate passed, or all were rejected; without source text
\* nothing is generated.
Caption(r) ==
  /\ Take("caption", r)
  /\ \/ /\ r \in Scanned
        /\ caption' = [caption EXCEPT ![r] = Generated]
        /\ product' = [product EXCEPT ![r] = "VALIDATED"]
     \/ UNCHANGED <<caption, product>>
  /\ UNCHANGED <<message, preferred, media>>

\* Mutant: an owner's caption is enough.
EligibleUnseen(r) == caption[r] # NoCaption

\* The gate of eligibility.py; the status it sees is the one selected.
Eligible(r) == caption[r] # NoCaption /\ media[r]

\* evaluate_product
Evaluate(r) ==
  /\ Take("evaluate", r)
  /\ product' = IF Eligible(r) THEN [product EXCEPT ![r] = "ELIGIBLE"] ELSE product
  /\ UNCHANGED <<message, preferred, media, caption>>

\* One commit for all.
Enqueue ==
  /\ worker.todo # {}
  /\ Stages[worker.at] = "queue"
  /\ product' = [r \in Messages |-> IF r \in worker.todo THEN "QUEUED" ELSE product[r]]
  /\ worker' = [worker EXCEPT !.todo = {}]
  /\ UNCHANGED <<content, inbox, settings, message, preferred, media, caption, bot, past>>

\* What scheduler and publisher make of it in the end (see Pipeline, Publisher).
Publish(r) ==
  /\ Take("publish", r)
  /\ \/ /\ product[r] = "QUEUED"
        /\ \E s \in {"PUBLISHED", "FAILED"} : product' = [product EXCEPT ![r] = s]
     \/ UNCHANGED product
  /\ UNCHANGED <<message, preferred, media, caption>>

\* Media and captions go, unless a file cannot be deleted: then all of them stay.
Purge(r) ==
  /\ Take("purge", r)
  /\ \/ /\ media' = [media EXCEPT ![r] = FALSE]
        /\ caption' = [caption EXCEPT ![r] = NoCaption]
     \/ UNCHANGED <<media, caption>>
  /\ UNCHANGED <<message, product, preferred>>

\* The process dies, or an exception ends the cycle: an AI provider that fails
\* does so, for process_product reads product.id after a rollback.
WorkerStops ==
  /\ worker.at # 0
  /\ worker' = Idle
  /\ UNCHANGED <<content, inbox, settings, tables, bot, past>>

-------------------------------------------------------------------------------
Handle ==
  \/ BeginCapture \/ InsertMessage \/ DownloadFails \/ RecordCapture \/ SendButtons
  \/ ChooseType \/ AskCaption \/ Cancel \/ AskOther \/ Look
  \/ IdleText \/ TakeCaption \/ TakeOther \/ ClearAwaiting
  \/ SaveOffset \/ EndRun

Work ==
  \/ NextStage \/ Enqueue
  \/ \E r \in Messages :
       Parse(r) \/ Caption(r) \/ Evaluate(r) \/ Publish(r) \/ Purge(r)

Next ==
  \/ \E u \in Updates : Send(u)
  \/ \E m \in Scanned : Ingest(m)
  \/ StartRun \/ Handle \/ CaptureRaises \/ PressFails \/ BotStops
  \/ Work \/ WorkerStops

Spec == Init /\ [][Next]_vars

\* A handler that has begun goes on, and the bot runs again after a run (every
\* ten seconds, or when it was restarted).  Nothing is asked of the worker.
FairSpec == Spec /\ WF_vars(Handle) /\ WF_vars(StartRun)

-------------------------------------------------------------------------------
(* Properties *)

\* A product in the queue has a selected caption and a medium, in whatever order
\* it was captioned, cancelled, purged, captured again and captioned anew.
QueuedHasContent ==
  \A r \in Messages :
    product[r] \in {"ELIGIBLE", "QUEUED"} => caption[r] # NoCaption /\ media[r]

\* What leaves a question open when it is handled.
Between == {"cancel", "look"}

\* A capture's caption is a text that the owner wrote after she had chosen that
\* product's type; between the two lie only updates that leave the question open, and
\* presses that she was told had failed (bot.py:261-280, 373-377: such a press does not
\* close the question before it).  No handler that was interrupted and ran again gives a
\* text to another product, or uses it twice.
CaptionAnswersItsQuestion ==
  \A r \in Manual : caption[r] # NoCaption =>
    /\ inbox[caption[r]].kind = "text"
    /\ \E q \in 1 .. caption[r] - 1 :
         /\ inbox[q] = [kind |-> "choose", of |-> r]
         /\ \A i \in q + 1 .. caption[r] - 1 : inbox[i].kind \in Between \/ i \in failed
    /\ \A s \in Manual : caption[s] = caption[r] => s = r

\* A forward that has been served led to the buttons of a product with its photo,
\* unless an attempt at it failed or was interrupted halfway: nothing else that
\* happens to the bot, the worker or the owner's other updates loses a capture.
CaptureAccounted ==
  \A i \in 1 .. offset : inbox[i].kind = "forward" =>
    LET m == inbox[i].of IN
    \/ m \in excused
    \/ \E r \in SameContent(m) : r \in asked \cup excused

\* If runs cease to be cut short, every update is served in the end (finitely many
\* arrive): what the handlers deal with themselves - a message captured before, a download
\* or a capture that fails, a second caption, a press that fails - does not block the
\* queue, though it would fail again each time (bot.py:135-149, 230-234, 373-377).  Answers
\* that cannot be sent do block it: they are sent outside any try.
EveryUpdateIsServed ==
  (<>[](bot # "stopped")) => []<>(offset = Len(inbox))
===============================================================================
