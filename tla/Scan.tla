--------------------------------- MODULE Scan ---------------------------------
(***************************************************************************)
(* The monitor of Telegram channels: app/telegram/monitor_runner.py scans  *)
(* every active channel, scan_service.py one of them, scan_window.py says  *)
(* from where, ingestion_service.py stores a message and channel_service.py*)
(* switches channels on and off.                                           *)
(*                                                                         *)
(* A channel is an append-only history of messages, read through Telegram  *)
(* by any number of monitors (nothing keeps two passes from overlapping).  *)
(* The program keeps the messages it has stored and, per channel, a cursor *)
(* that is written only when a pass over the channel has ended.  One       *)
(* action is what happens up to the next commit or the next answer of      *)
(* Telegram.  Times are ticks; a message's number is its position.         *)
(***************************************************************************)
EXTENDS Integers, Sequences, FiniteSets, FiniteSetsExt

CONSTANTS
  Channels,     \* ids of channels
  Monitors,     \* passes that may run at the same time
  Prepared,     \* those whose session holds the channels' scan_state already
  Histories,    \* dates of the messages a channel may have before we look
  Start,        \* the time at which we look
  InitialSpan,  \* TELEGRAM_INITIAL_SCAN_DAYS
  CatchupGap,   \* TELEGRAM_CATCHUP_GAP_MINUTES
  LastId,       \* bound: messages of a channel
  LastTick,     \* bound: time
  MaxFaults     \* bound: failed scans and killed passes

ASSUME ScanAssumption ==
  /\ Channels \subseteq Nat
  /\ IsFiniteSet(Channels)
  /\ Prepared \subseteq Monitors
  /\ Start \in Nat
  /\ LastTick \in Nat
  /\ Start <= LastTick
  /\ InitialSpan \in Nat
  /\ CatchupGap \in Nat
  /\ LastId \in Nat
  /\ MaxFaults \in Nat
  /\ Histories \subseteq Seq(0 .. Start)
  /\ \A s \in Histories :
       /\ Len(s) <= LastId
       /\ \A i, j \in DOMAIN s : i <= j => s[i] <= s[j]

Ids   == 1 .. LastId
Ticks == 0 .. LastTick
None  == -1  \* NULL in a column that holds a time; 0 is NULL for a message id

VARIABLES
  posted,   \* posted[c]: dates of the channel's messages, oldest first
  clock,
  status,   \* channels.status, or UNKNOWN before add_channel
  stored,   \* source_messages: ids of the channel's messages
  files,    \* media.file_path is set: ids of the messages
  cursor,   \* scan_state of the channel
  pass,     \* what a monitor has read and where it is
  without,  \* history: messages for which Telegram had no file
  newest,   \* history: start of the latest pass that ended well
  faults    \* bound

tables  == <<status, stored, files, cursor>>
history == <<without, newest, faults>>
vars    == <<posted, clock, tables, pass, history>>

CursorType ==
  [done : BOOLEAN,                \* initial_scan_completed_at is set
   id : 0 .. LastId,              \* last_processed_message_id
   date : Ticks \cup {None},      \* last_processed_message_date
   success : Ticks \cup {None}]   \* last_success_at

\* A new row of scan_state.
NewCursor == [done |-> FALSE, id |-> 0, date |-> None, success |-> None]

\* at: idle, next (before a channel), read (before the next message), file
\* (before a download); todo: channels left; ch: the channel; now: start of its
\* scan; loaded: its cursor then (last_success_at is not needed again); since: the window;
\* pos: the last message read; id, date: the cursor to write.
Idle == [at |-> "idle", todo |-> {}, ch |-> 0, now |-> 0,
         loaded |-> NewCursor, since |-> None, pos |-> 0, id |-> 0, date |-> None]

TypeOK ==
  /\ posted \in [Channels -> Seq(Ticks)]
  /\ \A c \in Channels : Len(posted[c]) <= LastId
  /\ clock \in Ticks
  /\ status \in [Channels -> {"UNKNOWN", "ACTIVE", "DISABLED"}]
  /\ stored \in [Channels -> SUBSET Ids]
  /\ files \in [Channels -> SUBSET Ids]
  /\ cursor \in [Channels -> CursorType]
  /\ pass \in [Monitors ->
       [at : {"idle", "next", "read", "file"}, todo : SUBSET Channels, ch : Channels \cup {0},
        now : Ticks, loaded : CursorType, since : Int, pos : 0 .. LastId, id : 0 .. LastId,
        date : Ticks \cup {None}]]
  /\ without \in [Channels -> SUBSET Ids]
  /\ newest \in [Channels -> Ticks \cup {None}]
  /\ faults \in 0 .. MaxFaults

Init ==
  /\ posted \in [Channels -> Histories]
  /\ clock = Start
  /\ status = [c \in Channels |-> "UNKNOWN"]
  /\ stored = [c \in Channels |-> {}]
  /\ files = [c \in Channels |-> {}]
  /\ cursor = [c \in Channels |-> NewCursor]
  /\ pass = [m \in Monitors |-> Idle]
  /\ without = [c \in Channels |-> {}]
  /\ newest = [c \in Channels |-> None]
  /\ faults = 0

-------------------------------------------------------------------------------
(* The channel, the clock and the channel's administration *)

Post(c) ==
  /\ Len(posted[c]) < LastId
  /\ posted' = [posted EXCEPT ![c] = Append(@, clock)]
  /\ UNCHANGED <<clock, tables, pass, history>>

Tick ==
  /\ clock < LastTick
  /\ clock' = clock + 1
  /\ UNCHANGED <<posted, tables, pass, history>>

SetStatus(c, s) ==
  /\ status' = [status EXCEPT ![c] = s]
  /\ UNCHANGED <<posted, clock, stored, files, cursor, pass, history>>

\* add_channel: a new row, or the known one switched on again.
AddChannel(c) == status[c] # "ACTIVE" /\ SetStatus(c, "ACTIVE")

\* enable_channel and disable_channel raise NotFoundError for an unknown one.
EnableChannel(c)  == status[c] = "DISABLED" /\ SetStatus(c, "ACTIVE")
DisableChannel(c) == status[c] = "ACTIVE" /\ SetStatus(c, "DISABLED")

-------------------------------------------------------------------------------
(* The window of a scan *)

INITIAL     == "INITIAL"
CATCHUP     == "CATCHUP"
INCREMENTAL == "INCREMENTAL"

\* The gap since the last success.  The code falls back on last_run_at when
\* there was none, but a complete initial scan is a success: see Phase.
WasDown(s, now) == s.success = None \/ now - s.success > CatchupGap

Phase(s, now) ==
  IF ~s.done THEN INITIAL ELSE IF WasDown(s, now) THEN CATCHUP ELSE INCREMENTAL

Floor(now) == now - InitialSpan

\* Mutant: resuming one message too late.
WindowSkipping(s, now) ==
  [min_id |-> IF s.done THEN s.id + 1 ELSE 0,
   since |-> IF Phase(s, now) = INCREMENTAL THEN None ELSE Max({Floor(now), s.date})]

\* Mutant: resuming one message too early.
WindowOverlapping(s, now) ==
  [min_id |-> IF s.done THEN s.id - 1 ELSE 0,
   since |-> IF Phase(s, now) = INCREMENTAL THEN None ELSE Max({Floor(now), s.date})]

\* Mutant: no lower bound but the last message's date.
WindowUnbounded(s, now) ==
  [min_id |-> IF s.done THEN s.id ELSE 0,
   since |-> IF Phase(s, now) = INCREMENTAL THEN None ELSE s.date]

\* determine_scan_window; since = None is no bound: dates are not negative.
Window(s, now) ==
  CASE Phase(s, now) = INITIAL     -> [min_id |-> 0, since |-> Floor(now)]
    [] Phase(s, now) = CATCHUP     -> [min_id |-> s.id, since |-> Max({Floor(now), s.date})]
    [] Phase(s, now) = INCREMENTAL -> [min_id |-> s.id, since |-> None]

\* What iter_messages has still to yield after message pos.
Left(c, pos, since) == {i \in DOMAIN posted[c] : i > pos /\ posted[c][i] >= since}

-------------------------------------------------------------------------------
(* A pass of the monitor *)

Goto(m, rec) == pass' = [pass EXCEPT ![m] = rec]

\* After a channel, whatever became of its scan, comes the next one.
Rest(p) == IF p.todo = {} THEN Idle ELSE [Idle EXCEPT !.at = "next", !.todo = p.todo]

\* list_channels(ACTIVE)
StartPass(m) ==
  /\ pass[m].at = "idle"
  /\ \E c \in Channels : status[c] = "ACTIVE"
  /\ Goto(m, [Idle EXCEPT !.at = "next", !.todo = {c \in Channels : status[c] = "ACTIVE"}])
  /\ UNCHANGED <<posted, clock, tables, history>>

\* channel.scan_state is a lazy relationship that list_channels does not load:
\* reading it raises MissingGreenlet, outside scan_channel's try, and nothing
\* catches it in run_monitor_once.  So ends every pass of monitor_runner.py.
ReadUnloaded(m) ==
  /\ pass[m].at = "next"
  /\ m \notin Prepared
  /\ Goto(m, Idle)
  /\ UNCHANGED <<posted, clock, tables, history>>

\* The next channel by id: its scan_state, and the window.  A caller gets here
\* whose session has loaded the scan_state before.
BeginScan(m) ==
  LET p == pass[m]
      c == Min(p.todo)
      w == Window(cursor[c], clock)
  IN /\ p.at = "next"
     /\ m \in Prepared
     /\ Goto(m, [at |-> "read", todo |-> p.todo \ {c}, ch |-> c, now |-> clock,
                 loaded |-> [cursor[c] EXCEPT !.success = None], since |-> w.since,
                 pos |-> w.min_id, id |-> cursor[c].id, date |-> cursor[c].date])
     /\ UNCHANGED <<posted, clock, tables, history>>

\* A message was dealt with: the cursor to write follows the largest id.
Advanced(p, i) ==
  IF i > p.id
  THEN [p EXCEPT !.at = "read", !.pos = i, !.id = i, !.date = posted[p.ch][i]]
  ELSE [p EXCEPT !.at = "read", !.pos = i]

\* Mutant: the cursor is saved with every message, before its media.
IngestAndSave(m) ==
  LET p == pass[m]
      i == Min(Left(p.ch, p.pos, p.since))
  IN /\ p.at = "read"
     /\ Left(p.ch, p.pos, p.since) # {}
     /\ stored' = [stored EXCEPT ![p.ch] = @ \cup {i}]
     /\ cursor' = [cursor EXCEPT ![p.ch].id = i, ![p.ch].date = posted[p.ch][i]]
     /\ Goto(m, [p EXCEPT !.at = "file", !.pos = i])
     /\ UNCHANGED <<posted, clock, status, files, history>>

\* ingest_message: INSERT ... ON CONFLICT DO NOTHING, with its media rows.
Ingest(m) ==
  LET p == pass[m]
      i == Min(Left(p.ch, p.pos, p.since))
  IN /\ p.at = "read"
     /\ Left(p.ch, p.pos, p.since) # {}
     /\ stored' = [stored EXCEPT ![p.ch] = @ \cup {i}]
     /\ Goto(m, [p EXCEPT !.at = "file", !.pos = i])
     /\ UNCHANGED <<posted, clock, status, files, cursor, history>>

\* download_message_media: a file, which becomes the media row's file_path
\* (again, for a message stored before), or nothing.
Download(m) ==
  LET p == pass[m] IN
  /\ p.at = "file"
  /\ Goto(m, Advanced(p, p.pos))
  /\ \/ /\ files' = [files EXCEPT ![p.ch] = @ \cup {p.pos}]
        /\ UNCHANGED without
     \/ /\ without' = [without EXCEPT ![p.ch] = @ \cup {p.pos}]
        /\ UNCHANGED files
  /\ UNCHANGED <<posted, clock, status, stored, cursor, newest, faults>>

\* Any exception of Telegram or of the file system: the cursor stays as it is
\* (last_run_at and consecutive_failures, which are written, decide nothing).
\* After one of the database the handler's commit raises as well: see Killed.
ScanFails(m) ==
  LET p == pass[m] IN
  /\ p.at \in {"read", "file"}
  /\ faults < MaxFaults
  /\ faults' = faults + 1
  /\ Goto(m, Rest(p))
  /\ UNCHANGED <<posted, clock, tables, without, newest>>

\* The UPDATE of a loaded row writes the columns whose value has changed.
Flushed(p) ==
  [cursor[p.ch] EXCEPT
     !.id = IF p.id = p.loaded.id THEN @ ELSE p.id,
     !.date = IF p.date = p.loaded.date THEN @ ELSE p.date,
     !.success = p.now, !.done = TRUE]

\* Every message of the window was dealt with.
ScanEnds(m) ==
  LET p == pass[m] IN
  /\ p.at = "read"
  /\ Left(p.ch, p.pos, p.since) = {}
  /\ cursor' = [cursor EXCEPT ![p.ch] = Flushed(p)]
  /\ newest' = [newest EXCEPT ![p.ch] = Max({@, p.now})]
  /\ Goto(m, Rest(p))
  /\ UNCHANGED <<posted, clock, status, stored, files, without, faults>>

\* The process dies, or an exception ends the pass; what was committed stays.
Killed(m) ==
  /\ pass[m].at # "idle"
  /\ faults < MaxFaults
  /\ faults' = faults + 1
  /\ Goto(m, Idle)
  /\ UNCHANGED <<posted, clock, tables, without, newest>>

Work(m) ==
  StartPass(m) \/ ReadUnloaded(m) \/ BeginScan(m) \/ Ingest(m) \/ Download(m) \/ ScanEnds(m)

Next ==
  \/ Tick
  \/ \E c \in Channels : Post(c) \/ AddChannel(c) \/ EnableChannel(c) \/ DisableChannel(c)
  \/ \E m \in Monitors : Work(m) \/ ScanFails(m) \/ Killed(m)

Spec == Init /\ [][Next]_vars

-------------------------------------------------------------------------------
(* Properties *)

\* A message of c was too old for a pass that started at time t.
TooOld(c, i, t) == posted[c][i] < t - InitialSpan

\* The cursor of a channel never passes a message that was not dealt with:
\* whatever fails, dies or overlaps, a message at or below it is stored and its
\* file fetched (or Telegram had none), unless it was older than the span of an
\* initial scan when the latest complete pass started.
CursorHonest ==
  \A c \in Channels : \A i \in 1 .. cursor[c].id :
    \/ i \in stored[c] /\ i \in files[c] \cup without[c]
    \/ TooOld(c, i, newest[c])

\* The first scan and a catch-up leave out what is too old, but the cursor only
\* moves to messages that were read: if nothing newer follows, the next pass
\* continues from before them, without a bound.  So an old message is stored
\* only after a complete pass has left it out, never in its place.
OldOnlyIfLeftOut ==
  [][\A m \in Monitors :
       LET p == pass[m]
           i == pass'[m].pos
       IN p.at = "read" /\ pass'[m].at = "file" /\ i \notin stored[p.ch]
            => ~TooOld(p.ch, i, p.now) \/ TooOld(p.ch, i, newest[p.ch])]_vars

\* A scan that ends well has left nothing behind: every message its channel has
\* by then is stored and its file fetched (or Telegram had none), by this scan or
\* an earlier or overlapping one, unless it was too old for a pass.  No window
\* begins above a message that a failed or killed pass has left.
ScanIsComplete ==
  [][\A m \in Monitors :
       LET c == pass[m].ch IN
       ScanEnds(m) => \A i \in DOMAIN posted[c] :
         \/ i \in stored[c] /\ i \in files[c] \cup without[c]
         \/ TooOld(c, i, newest'[c])]_vars
===============================================================================
