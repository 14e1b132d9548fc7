----------------------------- MODULE IntakeProofs -----------------------------
(***************************************************************************)
(* Proofs about Intake, for any messages and contents, any number of       *)
(* updates, interruptions and cycles.  Typed says what holds of every      *)
(* variable by itself; on it rest three further invariants:                *)
(*                                                                         *)
(*   Content    what the stages have selected keeps its caption and medium *)
(*   Traced     what became of every capture                               *)
(*   Question   which update the bot's question comes from                 *)
(*                                                                         *)
(* Each says what the handler of an update has done by the time it is at a *)
(* given place; an interrupted handler starts again at "next" over it.     *)
(***************************************************************************)
EXTENDS Intake, TLAPS

USE DEF Messages

\* The six stages.
LEMMA StagesAre ==
  /\ Len(Stages) = 6
  /\ Stages[1] = "parse" /\ Stages[2] = "caption" /\ Stages[3] = "evaluate"
  /\ Stages[4] = "queue" /\ Stages[5] = "publish" /\ Stages[6] = "purge"
BY DEF Stages

\* What a stage may select are messages.
LEMMA SelectedTyped ==
  ASSUME NEW stage, NEW old \in SUBSET Messages,
         stage \in {"parse", "caption", "evaluate", "queue", "publish", "purge"}
  PROVE  Selected(stage, old) \subseteq Messages
BY DEF Selected

-------------------------------------------------------------------------------
(* Types *)

\* The initial values have their types.
LEMMA InitTyped == Init => TypeOK
<1> SUFFICES ASSUME Init PROVE TypeOK
  OBVIOUS
<1>1. inbox \in Seq(Updates) /\ Len(inbox) = 0 /\ 0 \in 0 .. Len(inbox)
  BY DEF Init
<1>2. message \in [Messages -> MessageStatus] /\ product \in [Messages -> ProductStatus]
  BY DEF Init, MessageStatus, ProductStatus
<1>3. \A r \in Messages : product[r] # "NONE" => message[r] # "ABSENT"
  BY DEF Init
<1>4. worker \in [at : 0 .. Len(Stages), todo : SUBSET Messages]
  BY StagesAre DEF Init, Idle
<1>5. failed \subseteq DOMAIN inbox
  BY DEF Init
<1>6. asked \subseteq {r \in Manual : product[r] # "NONE"}
  BY IntakeAssumption DEF Init
<1>7. /\ preferred \in [Messages -> BOOLEAN] /\ media \in [Messages -> BOOLEAN]
      /\ caption \in [Messages -> {NoCaption, Generated} \cup DOMAIN inbox]
  BY DEF Init
<1>8. bot = "idle" /\ bot \notin Handling
  BY DEF Init, Handling
<1>9. offset = 0 /\ awaiting = NoQuestion /\ content \in Contents /\ excused = {}
  BY DEF Init
<1> QED
  BY <1>1, <1>2, <1>3, <1>4, <1>5, <1>6, <1>7, <1>8, <1>9 DEF TypeOK

\* A longer inbox is an inbox, and its updates stay where they are.
LEMMA Appended ==
  ASSUME inbox \in Seq(Updates), NEW u \in Updates, inbox' = Append(inbox, u)
  PROVE  /\ inbox' \in Seq(Updates)
         /\ Len(inbox') = Len(inbox) + 1
         /\ \A i \in 1 .. Len(inbox) : inbox'[i] = inbox[i]
BY DEF Updates

\* What comes in keeps the types.
LEMMA ArriveTyped ==
  ASSUME TypeOK, \/ \E u \in Updates : Send(u)
                 \/ \E m \in Scanned : Ingest(m)
  PROVE  TypeOK'
<1>1. ASSUME NEW u \in Updates, Send(u) PROVE TypeOK'
  <2>1. /\ inbox' \in Seq(Updates) /\ Len(inbox') = Len(inbox) + 1
        /\ Len(inbox) \in Nat
        /\ DOMAIN inbox = 1 .. Len(inbox) /\ DOMAIN inbox' = 1 .. Len(inbox')
    BY <1>1, Appended DEF Send, TypeOK
  <2>2. offset \in 0 .. Len(inbox') /\ (bot \in Handling => offset < Len(inbox'))
    BY <2>1 DEF TypeOK
  <2>3. DOMAIN inbox \subseteq DOMAIN inbox'
    BY <2>1
  <2> QED
    BY <1>1, <2>1, <2>2, <2>3 DEF Send, TypeOK, settings, tables, past
<1>2. ASSUME NEW m \in Scanned, Ingest(m) PROVE TypeOK'
  BY <1>2 DEF Ingest, TypeOK, settings, past, MessageStatus
<1> QED
  BY <1>1, <1>2

\* What the current update is about.
LEMMA SubjectTyped ==
  ASSUME inbox \in Seq(Updates), offset \in 0 .. Len(inbox), offset < Len(inbox)
  PROVE  /\ offset + 1 \in DOMAIN inbox
         /\ Current \in Updates
         /\ Current.kind \in Kinds
         /\ Subject \in Messages \cup {0}
<1>1. offset + 1 \in 1 .. Len(inbox) /\ DOMAIN inbox = 1 .. Len(inbox)
  OBVIOUS
<1>2. inbox[offset + 1] \in Updates
  BY <1>1
<1> QED
  BY <1>1, <1>2 DEF Current, Subject, Updates

\* What the owner can send, what the bot asks about, and where the handler of a
\* forward is.
Served ==
  /\ \A i \in DOMAIN inbox :
       inbox[i].kind \in {"forward", "choose", "cancel"} => inbox[i].of \in Manual
  /\ \A i \in DOMAIN inbox :
       inbox[i].kind \in {"choose", "cancel"} => product[inbox[i].of] # "NONE"
  /\ awaiting \in Messages => awaiting \in Manual /\ product[awaiting] # "NONE"
  /\ bot \in {"insert", "download", "ask"} => Current.kind = "forward"
  /\ bot = "answered" => Current.kind = "text"
  /\ bot = "ask" => product[Subject] # "NONE"

\* What the stage has selected.
Selection ==
  /\ worker.at = 0 => worker.todo = {}
  /\ worker.at = 1 => \A r \in worker.todo : message[r] # "ABSENT"
  /\ worker.at > 1 => \A r \in worker.todo : product[r] # "NONE"

Typed == TypeOK /\ Served /\ Selection

\* Updates that arrive go behind the current one.
LEMMA ArriveServed ==
  ASSUME Typed, \/ \E u \in Updates : Send(u)
                \/ \E m \in Scanned : Ingest(m)
  PROVE  Served' /\ Selection'
<1>1. ASSUME NEW u \in Updates, Send(u) PROVE Served' /\ Selection'
  <2>1. /\ inbox' \in Seq(Updates) /\ Len(inbox') = Len(inbox) + 1
        /\ Len(inbox) \in Nat
        /\ DOMAIN inbox = 1 .. Len(inbox) /\ DOMAIN inbox' = 1 .. Len(inbox')
        /\ \A i \in 1 .. Len(inbox) : inbox'[i] = inbox[i]
        /\ inbox'[Len(inbox) + 1] = u
    BY <1>1, Appended DEF Send, Typed, TypeOK
  <2>2. /\ u.kind \in {"forward", "choose", "cancel"} => u.of \in Manual
        /\ u.kind \in {"choose", "cancel"} => product[u.of] # "NONE"
    BY <1>1 DEF Send, Typed, TypeOK
  <2>3. \A i \in DOMAIN inbox' :
          /\ inbox'[i].kind \in {"forward", "choose", "cancel"} => inbox'[i].of \in Manual
          /\ inbox'[i].kind \in {"choose", "cancel"} => product[inbox'[i].of] # "NONE"
    <3> SUFFICES ASSUME NEW i \in 1 .. Len(inbox) + 1
                 PROVE  /\ inbox'[i].kind \in {"forward", "choose", "cancel"} =>
                             inbox'[i].of \in Manual
                        /\ inbox'[i].kind \in {"choose", "cancel"} =>
                             product[inbox'[i].of] # "NONE"
      BY <2>1
    <3>1. CASE i \in 1 .. Len(inbox)
      BY <2>1, <3>1 DEF Typed, Served
    <3>2. CASE i = Len(inbox) + 1
      BY <2>1, <2>2, <3>2
    <3> QED
      BY <2>1, <3>1, <3>2
  <2>4. bot \in Handling => Current' = Current /\ Subject' = Subject
    BY <1>1, <2>1 DEF Send, Current, Subject, Typed, TypeOK, settings
  <2> QED
    BY <1>1, <2>3, <2>4 DEF Send, Typed, TypeOK, Served, Selection, Handling, tables, settings
<1>2. ASSUME NEW m \in Scanned, Ingest(m) PROVE Served' /\ Selection'
  BY <1>2 DEF Ingest, Typed, TypeOK, Served, Selection, Current, Subject, settings
<1> QED
  BY <1>1, <1>2

\* The bot keeps the types.
LEMMA BotTyped ==
  ASSUME Typed, StartRun \/ Handle \/ CaptureRaises \/ PressFails \/ BotStops
  PROVE  Typed'
<1>t. /\ inbox \in Seq(Updates) /\ Len(inbox) \in Nat /\ DOMAIN inbox = 1 .. Len(inbox)
      /\ offset \in 0 .. Len(inbox)
  BY DEF Typed, TypeOK
<1>n. NoQuestion \notin Messages /\ Limit \notin Messages
  BY IntakeAssumption DEF NoQuestion, Limit
<1>s. ASSUME offset < Len(inbox)
      PROVE  /\ offset + 1 \in DOMAIN inbox
             /\ Subject \in Messages \cup {0}
             /\ Current.kind \in {"forward", "choose", "cancel"} => Subject \in Manual
             /\ Current.kind \in {"choose", "cancel"} => product[Subject] # "NONE"
  <2>1. offset + 1 \in DOMAIN inbox /\ Subject \in Messages \cup {0}
    BY <1>s, <1>t, SubjectTyped
  <2> QED
    BY <2>1 DEF Typed, Served, Current, Subject
<1> USE DEF Typed, TypeOK, Served, Selection, Handling, At, Current, Subject,
        settings, tables, past, MessageStatus, ProductStatus
<1>1. ASSUME StartRun PROVE Typed'
  BY <1>1 DEF StartRun
<1>2. ASSUME EndRun PROVE Typed'
  BY <1>2 DEF EndRun
<1>3. ASSUME SaveOffset PROVE Typed'
  BY <1>3, <1>t DEF SaveOffset
<1>4. ASSUME BeginCapture PROVE Typed'
  BY <1>4, <1>n DEF BeginCapture, AwaitingAfterForward
<1>5. ASSUME InsertMessage PROVE Typed'
  BY <1>5, <1>s DEF InsertMessage
<1>6. ASSUME DownloadFails PROVE Typed'
  BY <1>6, <1>s DEF DownloadFails
<1>7. ASSUME RecordCapture PROVE Typed'
  <2>1. Subject \in Messages
    BY <1>7, <1>s DEF RecordCapture
  <2> QED
    BY <1>7, <2>1 DEF RecordCapture
<1>8. ASSUME SendButtons PROVE Typed'
  BY <1>8, <1>s DEF SendButtons
<1>9. ASSUME ChooseType PROVE Typed'
  BY <1>9 DEF ChooseType
<1>10. ASSUME AskCaption PROVE Typed'
  BY <1>10, <1>s DEF AskCaption
<1>11. ASSUME Cancel PROVE Typed'
  <2>1. /\ Subject \in Manual /\ product[Subject] # "NONE"
        /\ product' = [product EXCEPT ![Subject] = "REJECTED"] /\ bot' = "done"
        /\ UNCHANGED <<content, inbox, settings, message, preferred, media, caption, worker, past>>
        /\ offset < Len(inbox)
    BY <1>11, <1>s DEF Cancel
  <2>2. /\ product' \in [Messages -> ProductStatus]
        /\ \A r \in Messages : product'[r] # "NONE" <=> product[r] # "NONE"
    BY <2>1
  <2>3. TypeOK'
    BY <2>1, <2>2
  <2>4. Served' /\ Selection'
    BY <2>1, <2>2
  <2> QED
    BY <2>3, <2>4
<1>12. ASSUME AskOther PROVE Typed'
  BY <1>12, <1>n DEF AskOther
<1>13. ASSUME IdleText PROVE Typed'
  BY <1>13 DEF IdleText
<1>14. ASSUME TakeCaption PROVE Typed'
  <2>1. /\ awaiting \in Manual /\ product[awaiting] # "NONE"
        /\ caption' = [caption EXCEPT ![awaiting] = offset + 1]
        /\ product' = [product EXCEPT ![awaiting] = "VALIDATED"] /\ bot' = "answered"
        /\ UNCHANGED <<content, inbox, settings, message, preferred, media, worker, past>>
        /\ offset < Len(inbox) /\ offset + 1 \in DOMAIN inbox /\ Current.kind = "text"
    BY <1>14, <1>s DEF TakeCaption
  <2>2. /\ product' \in [Messages -> ProductStatus]
        /\ \A r \in Messages : product'[r] # "NONE" <=> product[r] # "NONE"
        /\ caption' \in [Messages -> {NoCaption, Generated} \cup DOMAIN inbox]
    BY <2>1
  <2>3. TypeOK'
    BY <2>1, <2>2
  <2>4. Served' /\ Selection'
    BY <2>1, <2>2
  <2> QED
    BY <2>3, <2>4
<1>15. ASSUME TakeOther PROVE Typed'
  BY <1>15 DEF TakeOther
<1>16. ASSUME ClearAwaiting PROVE Typed'
  BY <1>16, <1>n DEF ClearAwaiting
<1>17. ASSUME CaptureRaises PROVE Typed'
  <2>1. Subject \in Manual /\ offset < Len(inbox) /\ Current.kind = "forward"
    BY <1>17, <1>s DEF CaptureRaises
  <2>2. excused' \subseteq Manual
    BY <1>17, <2>1 DEF CaptureRaises
  <2> QED
    BY <1>17, <2>1, <2>2 DEF CaptureRaises
<1>18. ASSUME BotStops PROVE Typed'
  <2>1. bot \in {"download", "ask"} => Subject \in Manual
    BY <1>18, <1>s DEF BotStops
  <2>2. excused' \subseteq Manual
    BY <1>18, <2>1 DEF BotStops
  <2> QED
    BY <1>18, <2>2 DEF BotStops
<1>19. ASSUME Look PROVE Typed'
  BY <1>19 DEF Look
<1>20. ASSUME PressFails PROVE Typed'
  <2>1. offset + 1 \in DOMAIN inbox
    BY <1>20, <1>s DEF PressFails
  <2> QED
    BY <1>20, <2>1 DEF PressFails
<1> QED
  BY <1>1, <1>2, <1>3, <1>4, <1>5, <1>6, <1>7, <1>8, <1>9, <1>10, <1>11, <1>12, <1>13,
     <1>14, <1>15, <1>16, <1>17, <1>18, <1>19, <1>20 DEF Handle

\* The worker leaves the bot alone: what it must keep is the types, and that a
\* product stays a product.
LEMMA WorkFrame ==
  ASSUME Typed, UNCHANGED <<content, inbox, settings, bot, past>>,
         message' \in [Messages -> MessageStatus],
         product' \in [Messages -> ProductStatus],
         \A r \in Messages : message[r] # "ABSENT" => message'[r] # "ABSENT",
         \A r \in Messages : product[r] # "NONE" => product'[r] # "NONE",
         \A r \in Messages : product'[r] # "NONE" => message'[r] # "ABSENT",
         preferred' \in [Messages -> BOOLEAN],
         media' \in [Messages -> BOOLEAN],
         caption' \in [Messages -> {NoCaption, Generated} \cup DOMAIN inbox],
         worker' \in [at : 0 .. Len(Stages), todo : SUBSET Messages],
         Selection'
  PROVE  Typed'
<1>1. TypeOK'
  BY DEF Typed, TypeOK, settings, past
<1>2. Current' = Current /\ Subject' = Subject
  BY DEF Current, Subject, settings
<1>3. bot \in {"insert", "download", "ask"} => Subject \in Manual
  <2> SUFFICES ASSUME bot \in {"insert", "download", "ask"} PROVE Subject \in Manual
    OBVIOUS
  <2>1. offset + 1 \in DOMAIN inbox
    BY SubjectTyped DEF Typed, TypeOK, Handling
  <2> QED
    BY <2>1 DEF Typed, Served, Current, Subject
<1>4. Served'
  BY <1>2, <1>3 DEF Typed, Served, settings
<1> QED
  BY <1>1, <1>4 DEF Typed

\* A later stage finds what it selects by.
LEMMA NextSelection ==
  ASSUME Typed, NextStage
  PROVE  worker' \in [at : 0 .. Len(Stages), todo : SUBSET Messages] /\ Selection'
<1>t. worker.at \in 0 .. Len(Stages) /\ UNCHANGED <<message, product>>
  BY DEF Typed, TypeOK, NextStage, tables
<1>1. CASE worker' = Idle
  BY <1>1, StagesAre DEF Idle, Selection
<1>2. ASSUME NEW i \in worker.at + 1 .. Len(Stages), NEW old \in SUBSET Messages,
             worker' = [at |-> i, todo |-> Selected(Stages[i], old)]
      PROVE  worker' \in [at : 0 .. Len(Stages), todo : SUBSET Messages] /\ Selection'
  <2>1. i \in 1 .. 6
    BY <1>t, StagesAre
  <2>2. /\ Selected(Stages[i], old) \subseteq Messages
        /\ i = 1 => \A r \in Selected(Stages[i], old) : message[r] # "ABSENT"
        /\ i > 1 => \A r \in Selected(Stages[i], old) : product[r] # "NONE"
    BY <2>1, StagesAre DEF Selected, Terminal
  <2> QED
    BY <1>2, <1>t, <2>1, <2>2, StagesAre DEF Selection
<1> QED
  BY <1>1, <1>2 DEF NextStage

\* The worker keeps the types.
LEMMA WorkTyped ==
  ASSUME Typed, Work \/ WorkerStops
  PROVE  Typed'
<1>t. /\ message \in [Messages -> MessageStatus] /\ product \in [Messages -> ProductStatus]
      /\ \A r \in Messages : product[r] # "NONE" => message[r] # "ABSENT"
      /\ preferred \in [Messages -> BOOLEAN] /\ media \in [Messages -> BOOLEAN]
      /\ caption \in [Messages -> {NoCaption, Generated} \cup DOMAIN inbox]
      /\ worker \in [at : 0 .. Len(Stages), todo : SUBSET Messages]
      /\ \A r \in worker.todo : r \in Messages
      /\ Selection
  BY DEF Typed, TypeOK
<1> USE DEF MessageStatus, ProductStatus, tables, past
<1>1. ASSUME NextStage PROVE Typed'
  BY <1>1, <1>t, NextSelection, WorkFrame DEF NextStage
<1>2. ASSUME Enqueue PROVE Typed'
  <2>1. /\ product' = [r \in Messages |-> IF r \in worker.todo THEN "QUEUED" ELSE product[r]]
        /\ worker' = [worker EXCEPT !.todo = {}]
        /\ UNCHANGED <<content, inbox, settings, message, preferred, media, caption, bot, past>>
        /\ worker.todo # {} /\ Stages[worker.at] = "queue"
    BY <1>2 DEF Enqueue
  <2>2. worker.at = 4 /\ Selection'
    BY <1>t, <2>1, StagesAre DEF Selection
  <2>3. \A r \in worker.todo : product[r] # "NONE"
    BY <1>t, <2>2 DEF Selection
  <2> QED
    BY <1>t, <2>1, <2>2, <2>3, WorkFrame
<1>w. ASSUME NEW stage, NEW r, Take(stage, r),
             \A s \in Messages : message[s] # "ABSENT" => message'[s] # "ABSENT",
             \A s \in Messages : product[s] # "NONE" => product'[s] # "NONE"
      PROVE  /\ worker' \in [at : 0 .. Len(Stages), todo : SUBSET Messages]
             /\ Selection'
             /\ UNCHANGED <<content, inbox, settings, bot, past>>
  BY <1>w, <1>t DEF Take, Selection
<1>r. ASSUME NEW stage \in {"parse", "caption", "evaluate", "publish", "purge"}, NEW r,
             Take(stage, r)
      PROVE  /\ r \in Messages
             /\ stage = "parse" => message[r] # "ABSENT"
             /\ stage # "parse" => product[r] # "NONE"
  <2>1. r \in worker.todo /\ worker.at \in 1 .. 6 /\ Stages[worker.at] = stage
    BY <1>r, <1>t, StagesAre DEF Take, Selection
  <2> QED
    BY <1>r, <1>t, <2>1, StagesAre DEF Selection
<1>3. ASSUME NEW r \in Messages, Parse(r) PROVE Typed'
  <2>1. Take("parse", r) /\ message[r] # "ABSENT" /\ UNCHANGED <<preferred, caption>>
    BY <1>3, <1>r DEF Parse
  <2>2. /\ message' \in [Messages -> MessageStatus]
        /\ \A s \in Messages : message[s] # "ABSENT" => message'[s] # "ABSENT"
        /\ message'[r] # "ABSENT"
    BY <1>3, <1>t DEF Parse
  <2>3. /\ product' \in [Messages -> ProductStatus]
        /\ \A s \in Messages : product[s] # "NONE" => product'[s] # "NONE"
        /\ \A s \in Messages : product'[s] # "NONE" => product[s] # "NONE" \/ s = r
    BY <1>3, <1>t DEF Parse
  <2>4. media' \in [Messages -> BOOLEAN]
    BY <1>3, <1>t DEF Parse
  <2>5. /\ worker' \in [at : 0 .. Len(Stages), todo : SUBSET Messages] /\ Selection'
        /\ UNCHANGED <<content, inbox, settings, bot, past>>
    BY <1>w, <2>1, <2>2, <2>3
  <2> QED
    BY <1>t, <2>1, <2>2, <2>3, <2>4, <2>5, WorkFrame
<1>4. ASSUME NEW r \in Messages, Caption(r) PROVE Typed'
  <2>1. Take("caption", r) /\ product[r] # "NONE" /\ UNCHANGED <<message, preferred, media>>
    BY <1>4, <1>r DEF Caption
  <2>2. /\ caption' \in [Messages -> {NoCaption, Generated} \cup DOMAIN inbox]
        /\ product' \in [Messages -> ProductStatus]
        /\ \A s \in Messages : product'[s] # "NONE" <=> product[s] # "NONE"
    BY <1>4, <1>t, <2>1 DEF Caption
  <2>3. /\ worker' \in [at : 0 .. Len(Stages), todo : SUBSET Messages] /\ Selection'
        /\ UNCHANGED <<content, inbox, settings, bot, past>>
    BY <1>w, <2>1, <2>2
  <2> QED
    BY <1>t, <2>1, <2>2, <2>3, WorkFrame
<1>5. ASSUME NEW r \in Messages, Evaluate(r) PROVE Typed'
  <2>1. /\ Take("evaluate", r) /\ product[r] # "NONE"
        /\ UNCHANGED <<message, preferred, media, caption>>
    BY <1>5, <1>r DEF Evaluate
  <2>2. /\ product' \in [Messages -> ProductStatus]
        /\ \A s \in Messages : product'[s] # "NONE" <=> product[s] # "NONE"
    BY <1>5, <1>t, <2>1 DEF Evaluate
  <2>3. /\ worker' \in [at : 0 .. Len(Stages), todo : SUBSET Messages] /\ Selection'
        /\ UNCHANGED <<content, inbox, settings, bot, past>>
    BY <1>w, <2>1, <2>2
  <2> QED
    BY <1>t, <2>1, <2>2, <2>3, WorkFrame
<1>6. ASSUME NEW r \in Messages, Publish(r) PROVE Typed'
  <2>1. /\ Take("publish", r) /\ product[r] # "NONE"
        /\ UNCHANGED <<message, preferred, media, caption>>
    BY <1>6, <1>r DEF Publish
  <2>2. /\ product' \in [Messages -> ProductStatus]
        /\ \A s \in Messages : product'[s] # "NONE" <=> product[s] # "NONE"
    BY <1>6, <1>t, <2>1 DEF Publish
  <2>3. /\ worker' \in [at : 0 .. Len(Stages), todo : SUBSET Messages] /\ Selection'
        /\ UNCHANGED <<content, inbox, settings, bot, past>>
    BY <1>w, <2>1, <2>2
  <2> QED
    BY <1>t, <2>1, <2>2, <2>3, WorkFrame
<1>7. ASSUME NEW r \in Messages, Purge(r) PROVE Typed'
  <2>1. /\ Take("purge", r) /\ UNCHANGED <<message, product, preferred>>
    BY <1>7 DEF Purge
  <2>2. /\ caption' \in [Messages -> {NoCaption, Generated} \cup DOMAIN inbox]
        /\ media' \in [Messages -> BOOLEAN]
    BY <1>7, <1>t DEF Purge
  <2>3. /\ worker' \in [at : 0 .. Len(Stages), todo : SUBSET Messages] /\ Selection'
        /\ UNCHANGED <<content, inbox, settings, bot, past>>
    BY <1>w, <2>1
  <2> QED
    BY <1>t, <2>1, <2>2, <2>3, WorkFrame
<1>8. ASSUME WorkerStops PROVE Typed'
  <2>1. worker' \in [at : 0 .. Len(Stages), todo : SUBSET Messages] /\ Selection'
    BY <1>8, <1>t, StagesAre DEF WorkerStops, Idle, Selection
  <2> QED
    BY <1>8, <1>t, <2>1, WorkFrame DEF WorkerStops
<1> QED
  BY <1>1, <1>2, <1>3, <1>4, <1>5, <1>6, <1>7, <1>8 DEF Work

\* Initially nothing is asked or served.
LEMMA InitServed == Init => Served /\ Selection
<1> SUFFICES ASSUME Init PROVE Served /\ Selection
  OBVIOUS
<1>1. DOMAIN inbox = {} /\ NoQuestion \notin Messages
  BY IntakeAssumption DEF Init, NoQuestion
<1> QED
  BY <1>1 DEF Init, Served, Selection, Idle

\* Every step keeps the types.
LEMMA NextTyped == Typed /\ [Next]_vars => Typed'
<1> SUFFICES ASSUME Typed, [Next]_vars PROVE Typed'
  OBVIOUS
<1>1. CASE (\E u \in Updates : Send(u)) \/ (\E m \in Scanned : Ingest(m))
  BY <1>1, ArriveTyped, ArriveServed DEF Typed
<1>2. CASE UNCHANGED vars
  BY <1>2 DEF vars, settings, tables, past, Typed, TypeOK, Served, Selection, Current, Subject
<1> QED
  BY <1>1, <1>2, BotTyped, WorkTyped DEF Next

\* All variables keep their types; the bot's buttons and questions are about
\* captured products, and a stage selects what exists (bot.py, worker_runner.py).
THEOREM IntakeTyped == Spec => []Typed
<1>1. Init => Typed
  BY InitTyped, InitServed DEF Typed
<1> QED
  BY <1>1, NextTyped, PTL DEF Spec

\* The type invariant of the intake run.
THEOREM IntakeTypeOK == Spec => []TypeOK
<1>1. Typed => TypeOK
  BY DEF Typed
<1> QED
  BY <1>1, IntakeTyped, PTL

-------------------------------------------------------------------------------
(* What is queued has content *)

\* A stage may find the rows it selected changed, but not in what counts here:
\* only the purge takes content away, and it and the queue stage are one process.
Content ==
  /\ QueuedHasContent
  /\ worker.at = 4 => \A r \in worker.todo : caption[r] # NoCaption /\ media[r]
  /\ worker.at = 6 => \A r \in worker.todo : product[r] \notin {"ELIGIBLE", "QUEUED"}

\* What comes in, and the bot, take no content away, and make no product eligible.
LEMMA BotContent ==
  ASSUME Typed, Content,
         \/ \E u \in Updates : Send(u)
         \/ \E m \in Scanned : Ingest(m)
         \/ StartRun \/ Handle \/ CaptureRaises \/ PressFails \/ BotStops
  PROVE  Content'
<1>t. /\ product \in [Messages -> ProductStatus] /\ media \in [Messages -> BOOLEAN]
      /\ caption \in [Messages -> {NoCaption, Generated} \cup DOMAIN inbox]
      /\ worker.todo \subseteq Messages /\ offset + 1 # NoCaption
  BY DEF Typed, TypeOK, NoCaption
<1>1. /\ worker' = worker
      /\ \A r \in Messages : caption[r] # NoCaption => caption'[r] # NoCaption
      /\ \A r \in Messages : media[r] => media'[r]
      /\ \A r \in Messages : product'[r] \in {"ELIGIBLE", "QUEUED"} => product'[r] = product[r]
  <2> USE <1>t DEF settings, tables, past
  <2>1. CASE \/ \E u \in Updates : Send(u)
             \/ \E m \in Scanned : Ingest(m)
             \/ StartRun \/ CaptureRaises \/ PressFails \/ BotStops
    BY <2>1 DEF Send, Ingest, StartRun, CaptureRaises, PressFails, BotStops
  <2>2. CASE BeginCapture \/ InsertMessage \/ DownloadFails \/ SendButtons \/ ChooseType
             \/ AskCaption \/ AskOther \/ IdleText \/ TakeOther \/ ClearAwaiting
             \/ SaveOffset \/ EndRun \/ Look
    BY <2>2 DEF Look, BeginCapture, InsertMessage, DownloadFails, SendButtons, ChooseType,
         AskCaption, AskOther, IdleText, TakeOther, ClearAwaiting, SaveOffset, EndRun
  <2>3. CASE RecordCapture
    BY <2>3 DEF RecordCapture
  <2>4. CASE Cancel
    BY <2>4 DEF Cancel
  <2>5. CASE TakeCaption
    BY <2>5 DEF TakeCaption
  <2> QED
    BY <2>1, <2>2, <2>3, <2>4, <2>5 DEF Handle
<1> QED
  BY <1>1, <1>t DEF Content, QueuedHasContent

\* The worker queues what it has found complete.
LEMMA WorkContent ==
  ASSUME Typed, Content, Work \/ WorkerStops
  PROVE  Content'
<1>t. /\ product \in [Messages -> ProductStatus] /\ media \in [Messages -> BOOLEAN]
      /\ caption \in [Messages -> {NoCaption, Generated} \cup DOMAIN inbox]
      /\ worker \in [at : 0 .. Len(Stages), todo : SUBSET Messages]
      /\ worker.at = 0 => worker.todo = {}
  BY DEF Typed, TypeOK, Selection
<1> USE DEF Content, QueuedHasContent, tables
<1>1. ASSUME NextStage PROVE Content'
  <2>1. CASE worker' = Idle
    BY <1>1, <2>1 DEF NextStage, Idle
  <2>2. ASSUME NEW i \in worker.at + 1 .. Len(Stages), NEW old \in SUBSET Messages,
               worker' = [at |-> i, todo |-> Selected(Stages[i], old)]
        PROVE  Content'
    <3>1. i \in 1 .. 6
      BY <1>t, StagesAre
    <3>2. /\ i = 4 => \A r \in Selected(Stages[i], old) : r \in Messages /\ product[r] = "ELIGIBLE"
          /\ i = 6 => \A r \in Selected(Stages[i], old) : product[r] \in Terminal
      BY <3>1, StagesAre DEF Selected
    <3> QED
      BY <1>1, <2>2, <3>1, <3>2 DEF NextStage, Terminal
  <2> QED
    BY <1>1, <2>1, <2>2 DEF NextStage
<1>2. ASSUME Enqueue PROVE Content'
  <2>1. worker.at = 4
    BY <1>2, <1>t, StagesAre DEF Enqueue
  <2> QED
    BY <1>2, <1>t, <2>1 DEF Enqueue
<1>r. ASSUME NEW stage \in {"parse", "caption", "evaluate", "publish", "purge"}, NEW r,
             Take(stage, r)
      PROVE  /\ r \in worker.todo /\ r \in Messages /\ worker'.at = worker.at
             /\ worker'.todo \subseteq worker.todo
             /\ worker.at \in 1 .. 6 /\ Stages[worker.at] = stage
  BY <1>r, <1>t, StagesAre DEF Take
<1>3. ASSUME NEW r \in Messages, Parse(r) PROVE Content'
  <2>1. worker'.at = 1 /\ UNCHANGED caption
    BY <1>3, <1>r, StagesAre DEF Parse
  <2>2. /\ \A s \in Messages : product'[s] \in {"ELIGIBLE", "QUEUED"} => product'[s] = product[s]
        /\ \A s \in Messages : media[s] /\ product[s] # "NONE" => media'[s]
    BY <1>3, <1>t DEF Parse, SameContent
  <2> QED
    BY <2>1, <2>2
<1>4. ASSUME NEW r \in Messages, Caption(r) PROVE Content'
  <2>1. worker'.at = 2
    BY <1>4, <1>r, StagesAre DEF Caption
  <2> QED
    BY <1>4, <1>t, <2>1 DEF Caption, Generated, NoCaption
<1>5. ASSUME NEW r \in Messages, Evaluate(r) PROVE Content'
  <2>1. worker'.at = 3
    BY <1>5, <1>r, StagesAre DEF Evaluate
  <2> QED
    BY <1>5, <1>t, <2>1 DEF Evaluate, Eligible
<1>6. ASSUME NEW r \in Messages, Publish(r) PROVE Content'
  <2>1. worker'.at = 5
    BY <1>6, <1>r, StagesAre DEF Publish
  <2> QED
    BY <1>6, <1>t, <2>1 DEF Publish
<1>7. ASSUME NEW r \in Messages, Purge(r) PROVE Content'
  <2>1. worker.at = 6 /\ r \in worker.todo /\ worker'.at = 6 /\ worker'.todo \subseteq worker.todo
    BY <1>7, <1>r, StagesAre DEF Purge
  <2> QED
    BY <1>7, <1>t, <2>1 DEF Purge
<1>8. ASSUME WorkerStops PROVE Content'
  BY <1>8 DEF WorkerStops, Idle
<1> QED
  BY <1>1, <1>2, <1>3, <1>4, <1>5, <1>6, <1>7, <1>8 DEF Work

\* No order of captions, cancellations, purges, repeated captures and second
\* captions queues a product without a caption or without a medium
\* (eligibility.py, queue_service.py, retention.py).
THEOREM QueuedProductsHaveContent == Spec => []QueuedHasContent
<1>1. Init => Content
  BY DEF Init, Content, QueuedHasContent, Idle
<1>2. Typed /\ Content /\ [Next]_vars => Content'
  <2> SUFFICES ASSUME Typed, Content, [Next]_vars PROVE Content'
    OBVIOUS
  <2>1. CASE UNCHANGED vars
    BY <2>1 DEF vars, tables, Content, QueuedHasContent
  <2> QED
    BY <2>1, BotContent, WorkContent DEF Next
<1>3. Content => QueuedHasContent
  BY DEF Content
<1> QED
  BY <1>1, <1>2, <1>3, IntakeTyped, PTL DEF Spec

-------------------------------------------------------------------------------
(* What became of every capture *)

\* The owner has the buttons of a product with m's content, or an excuse.
Settled(m) ==
  \/ m \in excused
  \/ \E r \in SameContent(m) : r \in asked \cup excused

\* Buttons are sent after the commits of the capture: until then the handler
\* itself is what remembers it.
Traced ==
  /\ \A i \in 1 .. offset : inbox[i].kind = "forward" => Settled(inbox[i].of)
  /\ bot = "done" /\ Current.kind = "forward" => Settled(Subject)
  /\ \A m \in Manual :
       message[m] # "ABSENT" => Settled(m) \/ (bot \in {"download", "ask"} /\ m = Subject)
  /\ \A r \in Manual :
       product[r] # "NONE" => r \in asked \cup excused \/ (bot = "ask" /\ r = Subject)

\* What has happened to a capture stays so.
LEMMA SettledKept ==
  ASSUME NEW m, Settled(m), content' = content,
         asked \subseteq asked', excused \subseteq excused',
         \A r \in Messages : product[r] # "NONE" => product'[r] # "NONE"
  PROVE  Settled(m)'
BY DEF Settled, SameContent

\* Steps during which the handler of the current update does not move on.
LEMMA ElsewhereTraced ==
  ASSUME Typed, Traced,
         UNCHANGED <<content, offset, bot, asked, excused>>,
         Len(inbox) <= Len(inbox'),
         \A i \in 1 .. Len(inbox) : inbox'[i] = inbox[i],
         \A m \in Manual : message'[m] # "ABSENT" => message[m] # "ABSENT",
         \A r \in Messages : product[r] # "NONE" => product'[r] # "NONE",
         \A r \in Manual : product'[r] # "NONE" => product[r] # "NONE"
  PROVE  Traced'
<1>1. offset \in 0 .. Len(inbox) /\ Len(inbox) \in Nat /\ (bot \in Handling => offset < Len(inbox))
  BY DEF Typed, TypeOK
<1>2. \A i \in 1 .. offset : inbox'[i] = inbox[i]
  BY <1>1
<1>3. bot \in Handling => Current' = Current /\ Subject' = Subject
  BY <1>1 DEF Current, Subject
<1>4. \A m : Settled(m) => Settled(m)'
  BY SettledKept
<1> QED
  BY <1>2, <1>3, <1>4 DEF Traced, Handling

\* What comes in, and the worker, leave captures alone.
LEMMA OthersTraced ==
  ASSUME Typed, Traced,
         \/ \E u \in Updates : Send(u)
         \/ \E m \in Scanned : Ingest(m)
         \/ Work \/ WorkerStops \/ UNCHANGED vars
  PROVE  Traced'
<1>t. /\ message \in [Messages -> MessageStatus] /\ product \in [Messages -> ProductStatus]
      /\ inbox \in Seq(Updates) /\ Len(inbox) \in Nat
      /\ worker \in [at : 0 .. Len(Stages), todo : SUBSET Messages]
      /\ Selection
      /\ \A r \in Manual : r \in Messages /\ r \notin Scanned
  BY IntakeAssumption DEF Typed, TypeOK
<1> USE DEF settings, tables, past
<1>1. ASSUME NEW u \in Updates, Send(u) PROVE Traced'
  <2>1. /\ Len(inbox') = Len(inbox) + 1 /\ \A i \in 1 .. Len(inbox) : inbox'[i] = inbox[i]
    BY <1>1, <1>t, Appended DEF Send
  <2> QED
    BY <1>1, <1>t, <2>1, ElsewhereTraced DEF Send
<1>2. ASSUME NEW m \in Scanned, Ingest(m) PROVE Traced'
  <2>1. \A n \in Manual : message'[n] = message[n]
    BY <1>2, <1>t DEF Ingest
  <2> QED
    BY <1>2, <1>t, <2>1, ElsewhereTraced DEF Ingest
<1>3. CASE UNCHANGED vars \/ NextStage \/ WorkerStops
  BY <1>3, <1>t, ElsewhereTraced DEF vars, NextStage, WorkerStops
<1>r. ASSUME NEW stage \in {"parse", "caption", "evaluate", "publish", "purge"}, NEW r,
             Take(stage, r)
      PROVE  /\ r \in Messages
             /\ stage = "parse" => message[r] # "ABSENT"
             /\ stage # "parse" => product[r] # "NONE"
             /\ UNCHANGED <<content, inbox, offset, bot, asked, excused>>
  <2>1. r \in worker.todo /\ worker.at \in 1 .. 6 /\ Stages[worker.at] = stage
    BY <1>r, <1>t, StagesAre DEF Take, Selection
  <2> QED
    BY <1>r, <1>t, <2>1, StagesAre DEF Selection, Take
<1>4. ASSUME NEW r \in Messages, Parse(r) PROVE Traced'
  <2>1. message[r] # "ABSENT" /\ UNCHANGED <<content, inbox, offset, bot, asked, excused>>
    BY <1>4, <1>r DEF Parse
  <2>2. \A m \in Manual : message'[m] # "ABSENT" => message[m] # "ABSENT"
    BY <1>4, <1>t, <2>1 DEF Parse
  <2>3. /\ \A s \in Messages : product[s] # "NONE" => product'[s] # "NONE"
        /\ \A s \in Manual : product'[s] # "NONE" => product[s] # "NONE"
    BY <1>4, <1>t DEF Parse
  <2> QED
    BY <1>t, <2>1, <2>2, <2>3, ElsewhereTraced
<1>5. ASSUME NEW r \in Messages, Caption(r) \/ Evaluate(r) \/ Publish(r) \/ Purge(r)
      PROVE  Traced'
  <2>1. /\ UNCHANGED <<content, inbox, offset, bot, asked, excused>>
        /\ UNCHANGED message
    BY <1>5, <1>r DEF Caption, Evaluate, Publish, Purge
  <2>2. product[r] # "NONE"
    BY <1>5, <1>r DEF Caption, Evaluate, Publish, Purge
  <2>3. \A s \in Messages : product'[s] # "NONE" <=> product[s] # "NONE"
    BY <1>5, <1>t, <2>2 DEF Caption, Evaluate, Publish, Purge
  <2> QED
    BY <1>t, <2>1, <2>3, ElsewhereTraced
<1>6. ASSUME Enqueue PROVE Traced'
  <2>1. worker.at = 4 /\ \A r \in worker.todo : product[r] # "NONE"
    BY <1>6, <1>t, StagesAre DEF Enqueue, Selection
  <2>2. \A s \in Messages : product'[s] # "NONE" <=> product[s] # "NONE"
    BY <1>6, <1>t, <2>1 DEF Enqueue
  <2>3. UNCHANGED <<content, inbox, offset, bot, asked, excused, message>>
    BY <1>6 DEF Enqueue
  <2> QED
    BY <1>t, <2>2, <2>3, ElsewhereTraced
<1> QED
  BY <1>1, <1>2, <1>3, <1>4, <1>5, <1>6 DEF Work

\* The bot moves from commit to commit.
LEMMA BotTraced ==
  ASSUME Typed, Traced, StartRun \/ Handle \/ CaptureRaises \/ PressFails \/ BotStops
  PROVE  Traced'
<1>t. /\ message \in [Messages -> MessageStatus] /\ product \in [Messages -> ProductStatus]
      /\ content \in Contents /\ offset \in 0 .. Len(inbox) /\ Len(inbox) \in Nat
      /\ bot \in Handling => offset < Len(inbox)
      /\ Served
      /\ \A r \in Manual : r \in Messages
  BY DEF Typed, TypeOK
<1>c. \A m \in Manual, s \in Scanned : content[m] # content[s]
  BY <1>t, IntakeAssumption
<1>k. ASSUME content' = content, asked \subseteq asked', excused \subseteq excused',
             \A r \in Messages : product[r] # "NONE" => product'[r] # "NONE"
      PROVE  \A m : Settled(m) => Settled(m)'
  BY <1>k, SettledKept
<1>s. ASSUME bot \in {"insert", "download", "ask"}
      PROVE  Subject \in Manual /\ Current.kind = "forward"
  <2>1. offset + 1 \in DOMAIN inbox
    BY <1>s, SubjectTyped DEF Typed, TypeOK, Handling
  <2> QED
    BY <1>s, <2>1, <1>t DEF Served, Current, Subject
<1> USE DEF settings, tables, past, At
\* Handlers that have nothing to do with captures.
<1>1. CASE \/ StartRun \/ EndRun \/ BeginCapture \/ ChooseType \/ AskCaption \/ AskOther
           \/ IdleText \/ TakeOther \/ ClearAwaiting \/ PressFails \/ Look
  <2>1. /\ UNCHANGED <<content, inbox, offset, message, product, asked, excused>>
        /\ bot \notin {"download", "ask"}
        /\ bot' \notin {"download", "ask"}
        /\ bot' = "done" => bot = "answered" \/ Current.kind # "forward"
    BY <1>1 DEF StartRun, EndRun, BeginCapture, ChooseType, AskCaption, AskOther,
         IdleText, TakeOther, ClearAwaiting, PressFails, Look
  <2>2. bot = "answered" => Current.kind # "forward"
    BY <1>t DEF Served
  <2>3. \A m : Settled(m) => Settled(m)'
    BY <2>1, <1>k
  <2>4. Current' = Current /\ Subject' = Subject
    BY <2>1 DEF Current, Subject
  <2> QED
    BY <2>1, <2>2, <2>3, <2>4 DEF Traced
<1>2. ASSUME Cancel \/ TakeCaption PROVE Traced'
  <2>1. /\ UNCHANGED <<content, inbox, offset, message, past>>
        /\ bot = "next" /\ Current.kind # "forward"
        /\ bot' \in {"done", "answered"}
    BY <1>2 DEF Cancel, TakeCaption
  <2>2. \A r \in Messages : product'[r] # "NONE" <=> product[r] # "NONE"
    <3>1. CASE Cancel
      <4>1. offset + 1 \in DOMAIN inbox
        BY <3>1, SubjectTyped DEF Typed, TypeOK, Cancel
      <4>2. product[Subject] # "NONE"
        BY <3>1, <4>1, <1>t DEF Cancel, Served, Current, Subject
      <4> QED
        BY <3>1, <4>2, <1>t DEF Cancel
    <3>2. CASE TakeCaption
      BY <3>2, <1>t DEF TakeCaption, Served
    <3> QED
      BY <1>2, <3>1, <3>2
  <2>3. \A m : Settled(m) => Settled(m)'
    BY <2>1, <2>2, <1>k
  <2>4. Current' = Current /\ Subject' = Subject
    BY <2>1 DEF Current, Subject
  <2> QED
    BY <1>t, <2>1, <2>2, <2>3, <2>4 DEF Traced
<1>3. ASSUME SaveOffset PROVE Traced'
  <2>1. \A m : Settled(m) => Settled(m)'
    BY <1>3, <1>k DEF SaveOffset
  <2>2. ASSUME NEW i \in 1 .. offset + 1, inbox[i].kind = "forward" PROVE Settled(inbox[i].of)
    BY <1>3, <2>2, <1>t DEF SaveOffset, Traced, Current, Subject
  <2> QED
    BY <1>3, <1>t, <2>1, <2>2 DEF SaveOffset, Traced
<1>4. ASSUME InsertMessage PROVE Traced'
  <2>1. \A m : Settled(m) => Settled(m)'
    BY <1>4, <1>k DEF InsertMessage
  <2>2. Subject \in Manual
    BY <1>4, <1>s DEF InsertMessage
  <2>3. Current' = Current /\ Subject' = Subject
    BY <1>4 DEF InsertMessage, Current, Subject
  <2> QED
    BY <1>4, <1>t, <2>1, <2>2, <2>3 DEF InsertMessage, Traced
<1>5. ASSUME DownloadFails PROVE Traced'
  <2>1. \A m : Settled(m) => Settled(m)'
    BY <1>5, <1>k DEF DownloadFails
  <2>2. Current' = Current /\ Subject' = Subject /\ Settled(Subject)'
    BY <1>5 DEF DownloadFails, Current, Subject, Settled
  <2> QED
    BY <1>5, <1>t, <2>1, <2>2 DEF DownloadFails, Traced
<1>6. ASSUME RecordCapture PROVE Traced'
  <2>1. Subject \in Manual /\ bot = "download" /\ UNCHANGED <<content, inbox, offset, past>>
    BY <1>6, <1>s DEF RecordCapture
  <2>2. \A m : Settled(m) => Settled(m)'
    BY <1>6, <1>k, <1>t DEF RecordCapture
  <2>3. Current' = Current /\ Subject' = Subject
    BY <2>1 DEF Current, Subject
  <2>4. \A m \in Manual : message'[m] # "ABSENT" => message[m] # "ABSENT" \/ m = Subject
    BY <1>6, <1>t DEF RecordCapture
  <2>5. CASE product' = [product EXCEPT ![Subject] = "PARSED"] /\ bot' = "ask"
    BY <1>t, <2>1, <2>2, <2>3, <2>4, <2>5 DEF Traced
  <2>6. ASSUME NEW r \in SameContent(Subject), UNCHANGED product, bot' = "done"
        PROVE  Traced'
    <3>1. r \in Manual /\ product[r] # "NONE"
      BY <2>1, <2>6, <1>c DEF SameContent
    <3>2. r \in asked \cup excused
      BY <2>1, <3>1 DEF Traced
    <3>3. Settled(Subject)
      BY <2>6, <3>2 DEF Settled
    <3> QED
      BY <1>t, <2>1, <2>2, <2>3, <2>4, <2>6, <3>3 DEF Traced
  <2> QED
    BY <1>6, <2>5, <2>6 DEF RecordCapture
<1>7. ASSUME SendButtons PROVE Traced'
  <2>1. \A m : Settled(m) => Settled(m)'
    BY <1>7, <1>k DEF SendButtons
  <2>2. Current' = Current /\ Subject' = Subject /\ Subject \in Manual /\ Subject \in asked'
    BY <1>7, <1>s DEF SendButtons, Current, Subject
  <2>3. Subject \in SameContent(Subject)'
    BY <1>7, <1>t, <2>2 DEF SendButtons, SameContent, Served
  <2>4. Settled(Subject)'
    BY <1>7, <2>2, <2>3 DEF SendButtons, Settled, SameContent
  <2> QED
    BY <1>7, <1>t, <2>1, <2>2, <2>4 DEF SendButtons, Traced
<1>8. ASSUME CaptureRaises PROVE Traced'
  <2>1. \A m : Settled(m) => Settled(m)'
    BY <1>8, <1>k DEF CaptureRaises
  <2>2. Current' = Current /\ Subject' = Subject /\ Settled(Subject)'
    BY <1>8 DEF CaptureRaises, Current, Subject, Settled
  <2> QED
    BY <1>8, <1>t, <2>1, <2>2 DEF CaptureRaises, Traced
<1>9. ASSUME BotStops PROVE Traced'
  <2>1. \A m : Settled(m) => Settled(m)'
    BY <1>9, <1>k DEF BotStops
  <2>2. Current' = Current /\ Subject' = Subject
    BY <1>9 DEF BotStops, Current, Subject
  <2>3. bot \in {"download", "ask"} => Subject \in excused' /\ Settled(Subject)'
    BY <1>9, <2>2 DEF BotStops, Settled
  <2> QED
    BY <1>9, <1>t, <2>1, <2>2, <2>3 DEF BotStops, Traced
<1> QED
  BY <1>1, <1>2, <1>3, <1>4, <1>5, <1>6, <1>7, <1>8, <1>9 DEF Handle

\* Every forward that was served led to the buttons of a product with its photo,
\* or an attempt at it met an error that the owner saw or was interrupted, over
\* any replay of updates and whatever the worker does meanwhile (bot.py,
\* manual_capture.py).
THEOREM CapturesAccounted == Spec => []CaptureAccounted
<1>1. Init => Traced
  <2> SUFFICES ASSUME Init PROVE Traced
    OBVIOUS
  <2>1. ASSUME NEW m \in Manual, message[m] # "ABSENT" PROVE Settled(m)
    <3>1. m \in Messages /\ m \in Captured
      BY <2>1 DEF Init
    <3> QED
      BY <3>1 DEF Init, Settled, SameContent
  <2> QED
    BY <2>1 DEF Init, Traced
<1>2. Typed /\ Traced /\ [Next]_vars => Traced'
  BY BotTraced, OthersTraced DEF Next
<1>3. Traced => CaptureAccounted
  BY DEF Traced, CaptureAccounted, Settled
<1> QED
  BY <1>1, <1>2, <1>3, IntakeTyped, PTL DEF Spec

-------------------------------------------------------------------------------
(* Which question a text answers *)

\* Update q chose r's type, and what lies between it and update c leaves that open.
ChosenBefore(q, r, c) ==
  /\ inbox[q] = [kind |-> "choose", of |-> r]
  /\ \A i \in q + 1 .. c - 1 : inbox[i].kind \in Between \/ i \in failed

\* The question came with the current update or an earlier one.
Pending(r) == \E q \in 1 .. offset + 1 : q \in DOMAIN inbox /\ ChosenBefore(q, r, offset + 1)

\* An owner's caption came with update c.
Answered(r, c) ==
  /\ c \in DOMAIN inbox /\ c <= offset + 1
  /\ inbox[c].kind = "text"
  /\ \E q \in 1 .. c - 1 : ChosenBefore(q, r, c)

\* What a handler that is done, or on its way, has made of the question.
Asking ==
  /\ bot \in {"insert", "download", "ask"} => awaiting \notin Messages
  /\ bot = "done" =>
       CASE Current.kind \in Between \/ offset + 1 \in failed -> TRUE
         [] Current.kind = "choose" /\ offset + 1 \notin failed -> awaiting = Subject
         [] OTHER -> awaiting \notin Messages
  /\ bot = "question" => Current.kind = "choose"

Question ==
  /\ Asking
  /\ awaiting \in Messages => Pending(awaiting)
  /\ \A r \in Manual : caption[r] # NoCaption => Answered(r, caption[r])
  /\ \A r, s \in Manual : caption[r] # NoCaption /\ caption[s] = caption[r] => s = r
  /\ \A r \in Manual : caption[r] = offset + 1 => awaiting \notin Messages \/ awaiting = r

\* The inbox only grows behind the updates that a question or a caption is about.
LEMMA OthersQuestion ==
  ASSUME Typed, Question,
         \/ \E u \in Updates : Send(u)
         \/ \E m \in Scanned : Ingest(m)
         \/ Work \/ WorkerStops \/ UNCHANGED vars
  PROVE  Question'
<1>t. /\ inbox \in Seq(Updates) /\ Len(inbox) \in Nat /\ DOMAIN inbox = 1 .. Len(inbox)
      /\ offset \in 0 .. Len(inbox)
      /\ bot \in Handling => offset < Len(inbox)
      /\ caption \in [Messages -> {NoCaption, Generated} \cup DOMAIN inbox]
      /\ worker.todo \subseteq Messages
      /\ \A r \in Manual : r \in Messages /\ r \notin Scanned
  BY IntakeAssumption DEF Typed, TypeOK
<1>1. /\ UNCHANGED <<offset, awaiting, bot, failed>>
      /\ inbox' \in Seq(Updates) /\ Len(inbox') \in Nat /\ DOMAIN inbox' = 1 .. Len(inbox')
      /\ Len(inbox) <= Len(inbox')
      /\ \A i \in 1 .. Len(inbox) : inbox'[i] = inbox[i]
      /\ \A r \in Manual : caption'[r] \in {caption[r], NoCaption}
  <2> USE <1>t DEF settings, tables, past
  <2>1. CASE \E u \in Updates : Send(u)
    BY <2>1, Appended DEF Send
  <2>2. CASE UNCHANGED <<inbox, settings, bot, caption, failed>>
    BY <2>2
  <2>3. CASE \/ \E m \in Scanned : Ingest(m)
             \/ NextStage \/ Enqueue \/ WorkerStops \/ UNCHANGED vars
             \/ \E r \in Messages : Parse(r) \/ Evaluate(r) \/ Publish(r)
    <3>1. UNCHANGED <<inbox, settings, bot, caption, failed>>
      BY <2>3 DEF Ingest, NextStage, Enqueue, WorkerStops, vars, Parse, Evaluate, Publish, Take
    <3> QED
      BY <3>1
  <2>4. ASSUME NEW r \in Messages, Caption(r) \/ Purge(r)
        PROVE  /\ UNCHANGED <<inbox, settings, bot, failed>>
               /\ \A s \in Manual : caption'[s] \in {caption[s], NoCaption}
    BY <2>4 DEF Caption, Purge, Take
  <2> QED
    BY <2>1, <2>3, <2>4 DEF Work
<1>2. bot \in Handling => Current' = Current /\ Subject' = Subject
  BY <1>1, <1>t DEF Current, Subject
<1>3. Asking'
  BY <1>1, <1>2 DEF Question, Asking, Handling
<1>4. awaiting \in Messages => Pending(awaiting)'
  <2> SUFFICES ASSUME awaiting \in Messages PROVE Pending(awaiting)'
    OBVIOUS
  <2>1. PICK q \in 1 .. offset + 1 : q \in DOMAIN inbox /\ ChosenBefore(q, awaiting, offset + 1)
    BY DEF Question, Pending
  <2>2. q \in DOMAIN inbox' /\ ChosenBefore(q, awaiting, offset + 1)'
    BY <1>1, <1>t, <2>1 DEF ChosenBefore
  <2> QED
    BY <1>1, <2>1, <2>2 DEF Pending
<1>5. ASSUME NEW r \in Manual, NEW c, Answered(r, c) PROVE Answered(r, c)'
  <2>1. PICK q \in 1 .. c - 1 : ChosenBefore(q, r, c)
    BY <1>5 DEF Answered
  <2>2. c \in 1 .. Len(inbox) /\ c <= offset + 1 /\ inbox[c].kind = "text"
    BY <1>5, <1>t DEF Answered
  <2>3. ChosenBefore(q, r, c)'
    BY <1>1, <1>t, <2>1, <2>2 DEF ChosenBefore
  <2> QED
    BY <1>1, <1>t, <2>1, <2>2, <2>3 DEF Answered
<1>6. ASSUME NEW r \in Manual, caption'[r] # NoCaption
      PROVE  caption'[r] = caption[r] /\ Answered(r, caption[r])'
  <2>1. caption'[r] = caption[r] /\ Answered(r, caption[r])
    BY <1>1, <1>6 DEF Question
  <2>2. PICK c : c = caption[r]
    OBVIOUS
  <2>3. Answered(r, c)' /\ c = caption'[r]
    BY <1>5, <2>1, <2>2
  <2> QED
    BY <2>1, <2>3 DEF Answered, ChosenBefore
<1>7. ASSUME NEW r \in Manual, caption'[r] = offset + 1 PROVE caption[r] = offset + 1
  BY <1>1, <1>7, <1>t DEF NoCaption
<1> QED
  BY <1>1, <1>3, <1>4, <1>6, <1>7 DEF Question

\* The bot asks, is answered, and forgets the question.
LEMMA BotQuestion ==
  ASSUME Typed, Question, StartRun \/ Handle \/ CaptureRaises \/ PressFails \/ BotStops
  PROVE  Question'
<1>t. /\ inbox \in Seq(Updates) /\ Len(inbox) \in Nat /\ DOMAIN inbox = 1 .. Len(inbox)
      /\ offset \in 0 .. Len(inbox)
      /\ bot \in Handling => offset < Len(inbox)
      /\ awaiting \in Messages \cup {NoQuestion, Limit}
      /\ caption \in [Messages -> {NoCaption, Generated} \cup DOMAIN inbox]
      /\ Served
      /\ \A r \in Manual : r \in Messages
  BY DEF Typed, TypeOK
<1>n. NoQuestion \notin Messages /\ Limit \notin Messages /\ NoCaption = 0
  BY IntakeAssumption DEF NoQuestion, Limit, NoCaption
\* Failed presses stay failed.
<1>f. failed \subseteq failed'
  BY DEF past, Handle, StartRun, EndRun, BeginCapture, InsertMessage, DownloadFails,
     RecordCapture, SendButtons, ChooseType, AskCaption, Cancel, AskOther, PressFails, Look,
     IdleText, TakeCaption, TakeOther, ClearAwaiting, CaptureRaises, BotStops, SaveOffset
<1>h. ASSUME inbox' = inbox, NEW q, NEW r, NEW c, ChosenBefore(q, r, c)
      PROVE  ChosenBefore(q, r, c)'
  BY <1>f, <1>h DEF ChosenBefore
\* A caption that came with an earlier update, or the current one, is not disturbed.
<1>a. ASSUME inbox' = inbox, offset' = offset \/ offset' = offset + 1, NEW r, NEW c, Answered(r, c)
      PROVE  Answered(r, c)'
  BY <1>a, <1>h, <1>t DEF Answered
<1>p. ASSUME inbox' = inbox, offset' = offset, NEW r, Pending(r)
      PROVE  Pending(r)'
  BY <1>p, <1>h DEF Pending
\* Steps that leave question and captions alone.
<1>q. ASSUME UNCHANGED <<inbox, offset, awaiting, caption>>, Asking'
      PROVE  Question'
  <2>1. \A r \in Manual : caption[r] # NoCaption => Answered(r, caption[r])'
    <3>1. \A r \in Manual : caption[r] # NoCaption =>
            Answered(r, caption[r]) /\ caption'[r] = caption[r]
      BY <1>q DEF Question
    <3> QED
      BY <1>q, <1>a, <3>1
  <2>2. awaiting \in Messages => Pending(awaiting)'
    BY <1>q, <1>p DEF Question
  <2> QED
    BY <1>q, <2>1, <2>2 DEF Question
\* Steps that end the question.
<1>z. ASSUME UNCHANGED <<inbox, offset, caption>>, awaiting' \notin Messages, Asking'
      PROVE  Question'
  <2>1. \A r \in Manual : caption[r] # NoCaption => Answered(r, caption[r])'
    <3>1. \A r \in Manual : caption[r] # NoCaption =>
            Answered(r, caption[r]) /\ caption'[r] = caption[r]
      BY <1>z DEF Question
    <3> QED
      BY <1>z, <1>a, <3>1
  <2> QED
    BY <1>z, <2>1 DEF Question
<1> USE DEF settings, tables, past, At
<1>1. CASE \/ StartRun \/ EndRun \/ InsertMessage \/ DownloadFails \/ RecordCapture
           \/ SendButtons \/ ChooseType \/ Cancel \/ IdleText \/ TakeOther
           \/ CaptureRaises \/ PressFails \/ Look \/ BotStops
  <2>1. UNCHANGED <<inbox, offset, awaiting, caption>>
    BY <1>1 DEF PressFails, Look, StartRun, EndRun, InsertMessage, DownloadFails, RecordCapture, SendButtons,
         ChooseType, Cancel, IdleText, TakeOther, CaptureRaises, BotStops
  <2>2. Current' = Current /\ Subject' = Subject
    BY <2>1 DEF Current, Subject
  <2>3. Asking'
    BY <1>1, <1>n, <1>t, <2>1, <2>2 DEF Question, Asking, Served, Between, PressFails, Look,
         StartRun, EndRun, InsertMessage,
         DownloadFails, RecordCapture, SendButtons, ChooseType, Cancel, IdleText,
         TakeOther, CaptureRaises, BotStops
  <2> QED
    BY <1>q, <2>1, <2>3
<1>2. ASSUME BeginCapture PROVE Question'
  <2>1. UNCHANGED <<inbox, offset, caption>> /\ awaiting' \notin Messages /\ bot' = "insert"
    BY <1>2, <1>n DEF BeginCapture, AwaitingAfterForward
  <2> QED
    BY <1>z, <2>1 DEF Asking
<1>3. ASSUME AskOther \/ ClearAwaiting PROVE Question'
  <2>1. /\ UNCHANGED <<inbox, offset, caption>> /\ awaiting' \notin Messages /\ bot' = "done"
        /\ Current.kind \in {"ask", "other", "text"}
    BY <1>3, <1>n, <1>t DEF AskOther, ClearAwaiting, Served
  <2>2. Asking'
    BY <2>1 DEF Asking, Current
  <2> QED
    BY <1>z, <2>1, <2>2
<1>4. ASSUME AskCaption PROVE Question'
  <2>1. /\ UNCHANGED <<inbox, offset, caption>> /\ awaiting' = Subject /\ bot' = "done"
        /\ Current.kind = "choose" /\ offset + 1 \in DOMAIN inbox
    BY <1>4, <1>t DEF AskCaption
  <2>2. Asking'
    BY <2>1 DEF Asking, Current, Subject
  <2>3. Subject \in Messages \cup {0}
    BY <1>t, <2>1, SubjectTyped
  <2>4. Pending(Subject)
    <3>1. Current \in Updates
      BY <1>t, <2>1, SubjectTyped
    <3>2. inbox[offset + 1] = [kind |-> "choose", of |-> Subject]
      BY <2>1, <3>1 DEF Updates, Current, Subject
    <3> QED
      BY <1>t, <2>1, <3>2 DEF Pending, ChosenBefore
  <2>5. Pending(awaiting)'
    BY <2>1, <2>4, <1>p
  <2>6. \A r \in Manual : caption[r] # NoCaption => Answered(r, caption[r])'
    <3>1. \A r \in Manual : caption[r] # NoCaption =>
            Answered(r, caption[r]) /\ caption'[r] = caption[r]
      BY <2>1 DEF Question
    <3> QED
      BY <2>1, <1>a, <3>1
  <2>7. \A r \in Manual : caption[r] # offset + 1
    <3> SUFFICES ASSUME NEW r \in Manual, caption[r] = offset + 1 PROVE FALSE
      OBVIOUS
    <3>1. inbox[offset + 1].kind = "text"
      BY <1>n, <1>t DEF Question, Answered
    <3> QED
      BY <2>1, <3>1 DEF Current
  <2> QED
    BY <2>1, <2>2, <2>5, <2>6, <2>7 DEF Question
<1>5. ASSUME TakeCaption PROVE Question'
  <2> DEFINE r == awaiting
  <2>1. /\ UNCHANGED <<inbox, offset, awaiting>> /\ bot' = "answered"
        /\ r \in Manual /\ r \in Messages /\ caption' = [caption EXCEPT ![r] = offset + 1]
        /\ Current.kind = "text" /\ offset + 1 \in DOMAIN inbox /\ caption[r] = NoCaption
    BY <1>5, <1>t DEF TakeCaption, Served
  <2>2. PICK q \in 1 .. offset + 1 : q \in DOMAIN inbox /\ ChosenBefore(q, r, offset + 1)
    BY <2>1 DEF Question, Pending
  <2>3. q # offset + 1
    BY <2>1, <2>2 DEF ChosenBefore, Current
  <2>4. Answered(r, offset + 1)
    BY <1>t, <2>1, <2>2, <2>3 DEF Answered, Current
  <2>5. \A s \in Manual : caption[s] = offset + 1 => s = r
    BY <2>1 DEF Question
  <2>6. ASSUME NEW s \in Manual, caption'[s] # NoCaption
        PROVE  Answered(s, caption[s])'
    <3>1. PICK c : c = caption'[s]
      OBVIOUS
    <3>2. Answered(s, c)
      BY <2>1, <2>4, <2>6, <3>1, <1>t DEF Question
    <3>3. Answered(s, c)'
      BY <2>1, <1>a, <3>2
    <3> QED
      BY <2>1, <3>1, <3>3 DEF Answered, ChosenBefore
  <2>7. Pending(awaiting)'
    BY <2>1, <2>2, <1>p DEF Pending
  <2>8. Asking'
    BY <2>1 DEF Asking
  <2>9. \A s, u \in Manual : caption'[s] # NoCaption /\ caption'[u] = caption'[s] => u = s
    BY <1>t, <2>1, <2>5 DEF Question
  <2> QED
    BY <1>t, <2>1, <2>5, <2>6, <2>7, <2>8, <2>9 DEF Question
<1>6. ASSUME SaveOffset PROVE Question'
  <2>1. /\ UNCHANGED <<inbox, awaiting, caption>> /\ offset' = offset + 1 /\ bot' = "next"
        /\ bot = "done" /\ offset + 1 \in DOMAIN inbox
    BY <1>6, <1>t DEF SaveOffset, Handling
  <2>2. Asking'
    BY <2>1 DEF Asking
  <2>3. \A r \in Manual : caption[r] # NoCaption => Answered(r, caption[r])'
    <3>1. \A r \in Manual : caption[r] # NoCaption =>
            Answered(r, caption[r]) /\ caption'[r] = caption[r]
      BY <2>1 DEF Question
    <3> QED
      BY <2>1, <1>a, <3>1
  <2>4. \A r \in Manual : caption[r] # offset + 2
    BY <1>n, <1>t DEF Question, Answered
  <2>5. ASSUME awaiting \in Messages PROVE Pending(awaiting)'
    <3>1. CASE Current.kind \in Between \/ offset + 1 \in failed
      <4>1. PICK q \in 1 .. offset + 1 :
              q \in DOMAIN inbox /\ ChosenBefore(q, awaiting, offset + 1)
        BY <2>5 DEF Question, Pending
      <4>2. \A i \in q + 1 .. offset + 1 : inbox[i].kind \in Between \/ i \in failed
        BY <1>t, <3>1, <4>1 DEF ChosenBefore, Current
      <4>3. ChosenBefore(q, awaiting, offset + 2)
        BY <1>t, <4>1, <4>2 DEF ChosenBefore
      <4> QED
        BY <1>t, <2>1, <1>h, <4>1, <4>3 DEF Pending
    <3>2. CASE ~ (Current.kind \in Between \/ offset + 1 \in failed)
      <4>1. Current.kind = "choose" /\ awaiting = Subject
        BY <2>1, <2>5, <3>2 DEF Question, Asking
      <4>2. Current \in Updates
        BY <1>t, <2>1, SubjectTyped
      <4>3. inbox[offset + 1] = [kind |-> "choose", of |-> awaiting]
        BY <4>1, <4>2 DEF Updates, Current, Subject
      <4>4. ChosenBefore(offset + 1, awaiting, offset + 2)
        BY <1>t, <4>3 DEF ChosenBefore
      <4> QED
        BY <1>t, <2>1, <1>h, <4>4 DEF Pending
    <3> QED
      BY <3>1, <3>2
  <2> QED
    BY <1>t, <2>1, <2>2, <2>3, <2>4, <2>5 DEF Question
<1> QED
  BY <1>1, <1>2, <1>3, <1>4, <1>5, <1>6 DEF Handle

\* The caption of a captured product is the text that answered the question about
\* it, and no text is used twice, however often handlers are interrupted and run
\* again (bot.py handle_callback, handle_input; settings awaiting_*, offset).
THEOREM CaptionsAnswerTheirQuestion == Spec => []CaptionAnswersItsQuestion
<1>1. Init => Question
  <2> SUFFICES ASSUME Init PROVE Question
    OBVIOUS
  <2>1. /\ bot = "idle" /\ awaiting \notin Messages /\ offset = 0
        /\ \A r \in Manual : caption[r] = NoCaption /\ NoCaption # offset + 1
    BY IntakeAssumption DEF Init, NoQuestion, NoCaption
  <2> QED
    BY <2>1 DEF Question, Asking
<1>2. Typed /\ Question /\ [Next]_vars => Question'
  BY BotQuestion, OthersQuestion DEF Next
<1>3. Question => CaptionAnswersItsQuestion
  <2> SUFFICES ASSUME Question PROVE CaptionAnswersItsQuestion
    OBVIOUS
  <2> QED
    BY DEF Question, Answered, ChosenBefore, CaptionAnswersItsQuestion
<1> QED
  BY <1>1, <1>2, <1>3, IntakeTyped, PTL DEF Spec

===============================================================================
