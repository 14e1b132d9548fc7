------------------------------ MODULE ScanProofs ------------------------------
(***************************************************************************)
(* Proofs about Scan: for any channels, passes, spans and failures the     *)
(* cursor of a channel never passes a message that was not dealt with.     *)
(*                                                                         *)
(* Two overlapping passes may write one the id and the other the date of   *)
(* a cursor (Flushed), so the two need not belong to the same message.     *)
(* Covered therefore speaks of each by itself: what lies at or below the   *)
(* id, and what is older than the date, was dealt with.                    *)
(* With it, and an outage noticed before messages grow too old, an old     *)
(* message is stored only after a complete pass has left it out (Recent).  *)
(***************************************************************************)
EXTENDS Scan, TLAPS, NaturalsInduction, WellFoundedInduction

\* Nonempty sets of numbers have a least element, which Min chooses.
LEMMA MinIsLeast ==
  ASSUME NEW S \in SUBSET Nat, S # {}
  PROVE  Min(S) \in S /\ \A x \in S : Min(S) <= x
<1> DEFINE Less == {ss \in Nat \X Nat : ss[1] < ss[2]}
<1>1. IsWellFoundedOn(Less, Nat)
  BY NatLessThanWellFounded DEF OpToRel
<1>2. PICK n \in S : \A x \in S : <<x, n>> \notin Less
  <2> HIDE DEF Less
  <2> QED
    BY <1>1, WFMin
<1>3. ASSUME NEW x \in S PROVE n <= x
  <2>1. n \in Nat /\ x \in Nat /\ <<x, n>> \notin Less
    BY <1>2
  <2>2. ~(x < n)
    BY <2>1
  <2> QED
    BY <2>1, <2>2
<1> QED
  BY <1>3 DEF Min

\* The larger of two.
LEMMA MaxOfTwo ==
  ASSUME NEW a \in Int, NEW b \in Int
  PROVE  Max({a, b}) \in {a, b} /\ Max({a, b}) >= a /\ Max({a, b}) >= b
<1>1. \E x \in {a, b} : \A y \in {a, b} : x >= y
  OBVIOUS
<1> QED
  BY <1>1 DEF Max

-------------------------------------------------------------------------------
(* Types *)

\* Message j of c was dealt with, or was too old for a pass that started at t.
Honest(c, j, t) ==
  \/ j \in stored[c] /\ j \in files[c] \cup without[c]
  \/ TooOld(c, j, t)

\* The messages of a channel are in the order of their dates, none of the future.
Ordered ==
  /\ \A c \in Channels : \A i, j \in 1 .. Len(posted[c]) : i <= j => posted[c][i] <= posted[c][j]
  /\ \A c \in Channels : \A i \in 1 .. Len(posted[c]) : posted[c][i] <= clock

\* What a pass has loaded refers to what is there, and to what is known of it.
Placed(p, known) ==
  /\ p.at = "next" => p.todo # {}
  /\ p.at \in {"read", "file"} =>
       /\ p.ch \in Channels
       /\ p.pos <= Len(posted[p.ch])
       /\ p.id <= Len(posted[p.ch])
       /\ p.now <= clock /\ p.date <= clock /\ p.since <= clock
  /\ p.at = "file" => p.pos > 0 /\ p.pos \in known[p.ch]

Typed ==
  /\ TypeOK
  /\ Ordered
  /\ \A c \in Channels : cursor[c].id <= Len(posted[c]) /\ cursor[c].date <= clock
  /\ \A m \in Monitors : Placed(pass[m], stored)

\* The initial state.
LEMMA InitTyped == Init => Typed
<1> SUFFICES ASSUME Init PROVE Typed
  OBVIOUS
<1>1. /\ \A c \in Channels : posted[c] \in Seq(0 .. Start) /\ Len(posted[c]) <= LastId
      /\ posted \in [Channels -> Seq(Ticks)]
  <2>1. \A s \in Histories : s \in Seq(Ticks)
    BY ScanAssumption DEF Ticks
  <2> QED
    BY <2>1, ScanAssumption DEF Init
<1>2. NewCursor \in CursorType
  BY ScanAssumption DEF NewCursor, CursorType
<1>3. Idle \in [at : {"idle", "next", "read", "file"}, todo : SUBSET Channels, ch : Channels \cup {0},
        now : Ticks, loaded : CursorType, since : Int, pos : 0 .. LastId, id : 0 .. LastId,
        date : Ticks \cup {None}]
  BY <1>2, ScanAssumption DEF Idle, Ticks, None
<1>4. TypeOK
  BY <1>1, <1>2, <1>3, ScanAssumption DEF Init, TypeOK, Ticks
<1>5. Ordered
  BY <1>1, ScanAssumption DEF Init, Ordered
<1>6. \A c \in Channels : cursor[c].id <= Len(posted[c]) /\ cursor[c].date <= clock
  BY <1>1, ScanAssumption DEF Init, NewCursor, None
<1>7. \A m \in Monitors : Placed(pass[m], stored)
  BY DEF Init, Placed, Idle
<1> QED
  BY <1>4, <1>5, <1>6, <1>7 DEF Typed

\* Which messages a pass has still to read.
LEMMA LeftOver ==
  ASSUME Typed, NEW c \in Channels, NEW pos \in Nat, NEW since \in Int, Left(c, pos, since) # {}
  PROVE  LET i == Min(Left(c, pos, since)) IN
         /\ i \in 1 .. Len(posted[c]) /\ i > pos /\ posted[c][i] >= since
         /\ \A j \in 1 .. Len(posted[c]) : pos < j /\ j < i => posted[c][j] < since
<1>1. posted[c] \in Seq(Ticks) /\ DOMAIN posted[c] = 1 .. Len(posted[c]) /\ Len(posted[c]) \in Nat
  BY DEF Typed, TypeOK
<1>2. Left(c, pos, since) \in SUBSET Nat
  BY <1>1 DEF Left
<1>3. /\ Min(Left(c, pos, since)) \in Left(c, pos, since)
      /\ \A x \in Left(c, pos, since) : Min(Left(c, pos, since)) <= x
  BY <1>2, MinIsLeast
<1>4. ASSUME NEW j \in 1 .. Len(posted[c]) PROVE posted[c][j] \in Int
  <2>1. posted[c][j] \in Ticks
    BY <1>1
  <2> QED
    BY <2>1 DEF Ticks
<1> DEFINE i == Min(Left(c, pos, since))
<1>5. i \in 1 .. Len(posted[c]) /\ i > pos /\ posted[c][i] >= since
  BY <1>1, <1>3 DEF Left
<1>6. ASSUME NEW j \in 1 .. Len(posted[c]), pos < j, j < i PROVE posted[c][j] < since
  <2>1. j \notin Left(c, pos, since)
    BY <1>1, <1>3, <1>5, <1>6
  <2> QED
    BY <1>1, <1>4, <1>6, <2>1 DEF Left
<1> QED
  BY <1>5, <1>6

\* The record of a pass.
PassType ==
  [at : {"idle", "next", "read", "file"}, todo : SUBSET Channels, ch : Channels \cup {0},
   now : Ticks, loaded : CursorType, since : Int, pos : 0 .. LastId, id : 0 .. LastId,
   date : Ticks \cup {None}]

\* Between two channels nothing is loaded.
LEMMA RestTyped ==
  /\ Idle \in PassType /\ Idle.at = "idle"
  /\ \A p \in PassType :
       /\ Rest(p) \in PassType /\ (\A known : Placed(Rest(p), known)) /\ Rest(p).at \in {"idle", "next"}
<1>1. NewCursor \in CursorType
  BY ScanAssumption DEF NewCursor, CursorType
<1>2. Idle \in PassType /\ Idle.at = "idle"
  BY <1>1, ScanAssumption DEF Idle, Ticks, None, PassType
<1>3. ASSUME NEW p \in PassType
      PROVE  Rest(p) \in PassType /\ (\A known : Placed(Rest(p), known)) /\ Rest(p).at \in {"idle", "next"}
  <2>1. CASE p.todo = {}
    BY <1>2, <2>1 DEF Rest, Placed, Idle
  <2>2. CASE p.todo # {}
    <3>1. Rest(p) = [Idle EXCEPT !.at = "next", !.todo = p.todo] /\ p.todo \subseteq Channels
      BY <2>2 DEF Rest, PassType
    <3> QED
      BY <1>2, <2>2, <3>1 DEF Placed, PassType
  <2> QED
    BY <2>1, <2>2
<1> QED
  BY <1>2, <1>3

\* What the rest of the model keeps of a step in which monitor m moves on.
LEMMA MoveTyped ==
  ASSUME Typed, NEW m \in Monitors,
         pass' = [pass EXCEPT ![m] = pass'[m]],
         pass'[m] \in PassType, Placed(pass'[m], stored'),
         UNCHANGED <<posted, clock, status>>,
         stored' \in [Channels -> SUBSET Ids], files' \in [Channels -> SUBSET Ids],
         \A c \in Channels : stored[c] \subseteq stored'[c],
         cursor' \in [Channels -> CursorType],
         \A c \in Channels : cursor'[c].id <= Len(posted[c]) /\ cursor'[c].date <= clock,
         without' \in [Channels -> SUBSET Ids],
         newest' \in [Channels -> Ticks \cup {None}],
         faults' \in 0 .. MaxFaults
  PROVE  Typed'
<1>1. pass \in [Monitors -> PassType]
  BY DEF Typed, TypeOK, PassType
<1>2. pass' \in [Monitors -> PassType] /\ \A n \in Monitors : n # m => pass'[n] = pass[n]
  BY <1>1
<1>4. TypeOK'
  BY <1>2 DEF Typed, TypeOK, PassType
<1>5. ASSUME NEW n \in Monitors PROVE Placed(pass'[n], stored')
  <2>1. CASE n = m
    BY <2>1
  <2>2. CASE n # m
    <3>1. Placed(pass[n], stored) /\ pass'[n] = pass[n]
      BY <1>2, <2>2 DEF Typed
    <3> QED
      BY <3>1 DEF Placed
  <2> QED
    BY <2>1, <2>2
<1>7. \A n \in Monitors : Placed(pass[n], stored)'
  BY <1>5 DEF Placed
<1>6. Ordered'
  BY DEF Typed, Ordered
<1> QED
  BY <1>4, <1>6, <1>7 DEF Typed

\* Telegram, time and the channel's administration.
LEMMA WorldTyped ==
  ASSUME Typed,
         \/ Tick
         \/ \E c \in Channels : Post(c) \/ AddChannel(c) \/ EnableChannel(c) \/ DisableChannel(c)
         \/ UNCHANGED vars
  PROVE  Typed'
<1> USE DEF tables, history
<1>1. CASE Tick
  <2>1. /\ UNCHANGED <<posted, tables, pass, history>> /\ clock' \in Ticks /\ clock' = clock + 1
        /\ clock \in Ticks
    BY <1>1, ScanAssumption DEF Tick, Typed, TypeOK, Ticks
  <2>2. ASSUME NEW c \in Channels, NEW i \in 1 .. Len(posted[c])
        PROVE  posted[c][i] <= clock + 1
    <3>1. posted[c] \in Seq(Ticks)
      BY DEF Typed, TypeOK
    <3>2. posted[c][i] \in Ticks /\ posted[c][i] <= clock
      BY <3>1 DEF Typed, Ordered
    <3> QED
      BY <2>1, <3>2 DEF Ticks
  <2>3. Ordered'
    BY <2>1, <2>2 DEF Typed, Ordered
  <2>4. TypeOK'
    BY <2>1 DEF Typed, TypeOK
  <2>5. ASSUME NEW m \in Monitors PROVE Placed(pass[m], stored)'
    <3>1. pass[m] \in PassType /\ Placed(pass[m], stored)
      BY DEF Typed, TypeOK, PassType
    <3>2. /\ pass[m].now \in Int /\ pass[m].date \in Int /\ pass[m].since \in Int
          /\ clock \in Int
      BY <2>1, <3>1 DEF PassType, Ticks, None
    <3> QED
      BY <2>1, <3>1, <3>2 DEF Placed, tables
  <2>6. \A c \in Channels : cursor[c].date \in Int
    BY DEF Typed, TypeOK, CursorType, Ticks, None
  <2> QED
    BY <2>1, <2>3, <2>4, <2>5, <2>6 DEF Typed, Ticks
<1>2. ASSUME NEW c \in Channels, Post(c) PROVE Typed'
  <2>1. /\ posted[c] \in Seq(Ticks) /\ Len(posted[c]) \in Nat /\ clock \in Ticks
        /\ posted \in [Channels -> Seq(Ticks)]
    BY DEF Typed, TypeOK
  <2>2. /\ posted' \in [Channels -> Seq(Ticks)]
        /\ posted'[c] = Append(posted[c], clock)
        /\ \A d \in Channels : d # c => posted'[d] = posted[d]
    BY <1>2, <2>1 DEF Post
  <2>3. /\ Len(posted'[c]) = Len(posted[c]) + 1
        /\ posted'[c][Len(posted[c]) + 1] = clock
        /\ \A i \in 1 .. Len(posted[c]) : posted'[c][i] = posted[c][i]
    BY <2>1, <2>2
  <2>4. \A d \in Channels : Len(posted[d]) <= Len(posted'[d]) /\ Len(posted'[d]) <= LastId
    BY <1>2, <2>1, <2>2, <2>3, ScanAssumption DEF Post, Typed, TypeOK
  <2>5. Ordered'
    <3>1. ASSUME NEW d \in Channels, NEW i \in 1 .. Len(posted'[d])
          PROVE  posted'[d][i] <= clock
      BY <1>2, <2>1, <2>2, <2>3, <3>1 DEF Post, Typed, Ordered, Ticks
    <3>2. ASSUME NEW d \in Channels, NEW i \in 1 .. Len(posted'[d]), NEW j \in 1 .. Len(posted'[d]),
                 i <= j
          PROVE  posted'[d][i] <= posted'[d][j]
      <4>1. CASE d = c /\ j = Len(posted[c]) + 1
        BY <2>3, <3>1, <4>1
      <4>2. CASE d = c /\ j # Len(posted[c]) + 1
        BY <2>1, <2>3, <3>2, <4>2 DEF Typed, Ordered
      <4>3. CASE d # c
        BY <2>2, <3>2, <4>3 DEF Typed, Ordered
      <4> QED
        BY <4>1, <4>2, <4>3
    <3> QED
      BY <1>2, <3>1, <3>2 DEF Post, Ordered
  <2>6. /\ \A d \in Channels : cursor[d].id <= Len(posted'[d])
        /\ \A m \in Monitors : Placed(pass[m], stored)'
    <3>1. \A d \in Channels : Len(posted[d]) \in Nat /\ Len(posted'[d]) \in Nat
      BY <2>1, <2>2
    <3>2. /\ \A d \in Channels : cursor[d].id \in Nat
          /\ \A m \in Monitors : pass[m].pos \in Nat /\ pass[m].id \in Nat
      BY DEF Typed, TypeOK, CursorType
    <3> QED
      BY <1>2, <2>4, <3>1, <3>2 DEF Post, Typed, Placed
  <2> QED
    BY <1>2, <2>2, <2>4, <2>5, <2>6 DEF Post, Typed, TypeOK
<1>3. ASSUME NEW c \in Channels, AddChannel(c) \/ EnableChannel(c) \/ DisableChannel(c)
      PROVE  Typed'
  <2>1. /\ status' \in [Channels -> {"UNKNOWN", "ACTIVE", "DISABLED"}]
        /\ UNCHANGED <<posted, clock, stored, files, cursor, pass, history>>
    BY <1>3 DEF AddChannel, EnableChannel, DisableChannel, SetStatus, Typed, TypeOK
  <2>2. TypeOK'
    BY <2>1 DEF Typed, TypeOK
  <2> QED
    BY <2>1, <2>2 DEF Typed, Ordered, Placed
<1>4. CASE UNCHANGED vars
  BY <1>4 DEF vars, Typed, TypeOK, Ordered, Placed
<1> QED
  BY <1>1, <1>2, <1>3, <1>4

\* A window begins at or before the present, and only leaves out what is too old
\* or older than the cursor's date.
LEMMA WindowBounds ==
  ASSUME NEW c \in CursorType, NEW now \in Ticks, c.date <= now
  PROVE  LET w == Window(c, now) IN
         /\ w.min_id \in {0, c.id}
         /\ w.since \in Int /\ w.since <= now
         /\ \A d \in Nat : d < w.since => d < now - InitialSpan \/ d < c.date
<1>1. /\ now \in Int /\ c.date \in Int /\ InitialSpan \in Nat /\ Floor(now) \in Int
      /\ Floor(now) = now - InitialSpan /\ now >= 0
  BY ScanAssumption DEF Ticks, CursorType, None, Floor
<1>2. CASE Phase(c, now) = INITIAL
  BY <1>1, <1>2 DEF Window, INITIAL, CATCHUP, INCREMENTAL
<1>3. CASE Phase(c, now) = CATCHUP
  <2>1. Window(c, now) = [min_id |-> c.id, since |-> Max({Floor(now), c.date})]
    BY <1>3 DEF Window, INITIAL, CATCHUP, INCREMENTAL
  <2>2. Max({Floor(now), c.date}) \in {Floor(now), c.date}
    BY <1>1, MaxOfTwo
  <2> DEFINE s == Max({Floor(now), c.date})
  <2>3. Window(c, now).min_id = c.id /\ Window(c, now).since = s
    BY <2>1
  <2>4. s \in Int /\ s <= now /\ \A d \in Nat : d < s => d < now - InitialSpan \/ d < c.date
    <3> HIDE DEF s
    <3>1. s = Floor(now) \/ s = c.date
      BY <2>2 DEF s
    <3> QED
      BY <1>1, <3>1
  <2> QED
    BY <2>3, <2>4
<1>4. CASE Phase(c, now) = INCREMENTAL
  BY <1>1, <1>4 DEF Window, INITIAL, CATCHUP, INCREMENTAL, None
<1> QED
  BY <1>2, <1>3, <1>4 DEF Phase

\* What a monitor's steps keep.
LEMMA WorkTyped ==
  ASSUME Typed, NEW m \in Monitors, Work(m) \/ ScanFails(m) \/ Killed(m)
  PROVE  Typed'
<1> DEFINE p == pass[m]
<1>t. /\ p \in PassType /\ Placed(p, stored)
      /\ pass \in [Monitors -> PassType]
      /\ posted \in [Channels -> Seq(Ticks)]
      /\ \A c \in Channels : Len(posted[c]) \in Nat /\ Len(posted[c]) <= LastId
      /\ clock \in Ticks
      /\ stored \in [Channels -> SUBSET Ids] /\ files \in [Channels -> SUBSET Ids]
      /\ without \in [Channels -> SUBSET Ids]
      /\ cursor \in [Channels -> CursorType]
      /\ newest \in [Channels -> Ticks \cup {None}] /\ faults \in 0 .. MaxFaults
      /\ \A c \in Channels : cursor[c].id <= Len(posted[c]) /\ cursor[c].date <= clock
  BY DEF Typed, TypeOK, PassType
<1>f. /\ p.at \in {"idle", "next", "read", "file"} /\ p.todo \subseteq Channels
      /\ p.now \in Ticks /\ p.loaded \in CursorType /\ p.since \in Int
      /\ p.pos \in 0 .. LastId /\ p.id \in 0 .. LastId /\ p.date \in Ticks \cup {None}
  BY <1>t DEF PassType
<1> USE DEF tables, history
<1>1. ASSUME StartPass(m) PROVE Typed'
  <2> DEFINE q == [Idle EXCEPT !.at = "next", !.todo = {c \in Channels : status[c] = "ACTIVE"}]
  <2>1. q \in PassType /\ q.at = "next" /\ q.todo # {}
    BY <1>1, RestTyped DEF StartPass, PassType
  <2>2. Placed(q, stored') /\ pass'[m] = q /\ pass' = [pass EXCEPT ![m] = q]
    BY <1>1, <1>t, <2>1 DEF StartPass, Placed, Goto
  <2> HIDE DEF q
  <2> QED
    BY <1>1, <1>t, <2>1, <2>2, MoveTyped DEF StartPass
<1>7. ASSUME ReadUnloaded(m) PROVE Typed'
  <2>1. Idle \in PassType /\ Placed(Idle, stored') /\ pass'[m] = Idle /\ pass' = [pass EXCEPT ![m] = Idle]
    BY <1>7, <1>t, RestTyped DEF ReadUnloaded, Placed, Goto
  <2> QED
    BY <1>7, <1>t, <2>1, MoveTyped DEF ReadUnloaded
<1>2. ASSUME BeginScan(m) PROVE Typed'
  <2> DEFINE c == Min(p.todo)
             w == Window(cursor[c], clock)
             q == [at |-> "read", todo |-> p.todo \ {c}, ch |-> c, now |-> clock,
                   loaded |-> [cursor[c] EXCEPT !.success = None], since |-> w.since,
                   pos |-> w.min_id, id |-> cursor[c].id, date |-> cursor[c].date]
  <2>1. c \in Channels
    <3>1. p.todo \in SUBSET Nat /\ p.todo # {}
      BY <1>2, <1>t, <1>f, ScanAssumption DEF BeginScan, Placed
    <3> QED
      BY <1>f, <3>1, MinIsLeast
  <2>2. cursor[c] \in CursorType /\ cursor[c].date <= clock /\ cursor[c].id <= Len(posted[c])
    BY <1>t, <2>1
  <2>3. w.min_id \in {0, cursor[c].id} /\ w.since \in Int /\ w.since <= clock
    BY <1>t, <2>2, WindowBounds
  <2>4. /\ [cursor[c] EXCEPT !.success = None] \in CursorType
        /\ cursor[c].id \in 0 .. LastId /\ cursor[c].date \in Ticks \cup {None}
    BY <2>2 DEF CursorType
  <2>5. pass'[m] = q /\ pass' = [pass EXCEPT ![m] = q]
    BY <1>2, <1>t DEF BeginScan, Goto
  <2> HIDE DEF c, w
  <2>6. q \in PassType
    BY <1>t, <1>f, <2>1, <2>3, <2>4, ScanAssumption DEF PassType
  <2>7. Placed(q, stored')
    <3>1. UNCHANGED <<posted, clock>>
      BY <1>2 DEF BeginScan
    <3> QED
      BY <1>t, <2>1, <2>2, <2>3, <2>4, <3>1 DEF Placed, Ticks
  <2> HIDE DEF q
  <2> QED
    BY <1>2, <1>t, <2>5, <2>6, <2>7, MoveTyped DEF BeginScan
<1>3. ASSUME Ingest(m) PROVE Typed'
  <2> DEFINE i == Min(Left(p.ch, p.pos, p.since))
             q == [p EXCEPT !.at = "file", !.pos = i]
  <2>1. p.at = "read" /\ p.ch \in Channels /\ p.pos \in Nat
    BY <1>3, <1>t, <1>f DEF Ingest, Placed
  <2>2. i \in 1 .. Len(posted[p.ch])
    BY <1>3, <1>f, <2>1, LeftOver DEF Ingest
  <2>3. /\ stored' = [stored EXCEPT ![p.ch] = @ \cup {i}]
        /\ pass'[m] = q /\ pass' = [pass EXCEPT ![m] = q]
        /\ UNCHANGED <<posted, clock, status, files, cursor, history>>
    BY <1>3, <1>t DEF Ingest, Goto
  <2> HIDE DEF i
  <2>4. i \in Ids /\ i > 0 /\ i <= Len(posted[p.ch]) /\ i \in 0 .. LastId
    <3>1. Len(posted[p.ch]) \in Nat /\ Len(posted[p.ch]) <= LastId
      BY <1>t, <2>1
    <3> QED
      BY <2>2, <3>1, ScanAssumption DEF Ids
  <2>5. q \in PassType
    BY <1>t, <2>4 DEF PassType
  <2>6. /\ stored' \in [Channels -> SUBSET Ids] /\ i \in stored'[p.ch]
        /\ \A c \in Channels : stored[c] \subseteq stored'[c]
    BY <1>t, <2>1, <2>3, <2>4
  <2>7. Placed(q, stored')
    BY <1>t, <2>1, <2>3, <2>4, <2>6 DEF Placed, PassType
  <2> HIDE DEF q
  <2> QED
    BY <1>t, <2>3, <2>5, <2>6, <2>7, MoveTyped
<1>4. ASSUME Download(m) PROVE Typed'
  <2> DEFINE q == Advanced(p, p.pos)
  <2>1. p.at = "file" /\ p.ch \in Channels /\ p.pos \in Ids /\ p.pos \in 1 .. Len(posted[p.ch])
    BY <1>4, <1>t, <1>f, ScanAssumption DEF Download, Placed, Ids
  <2>2. posted[p.ch][p.pos] \in Ticks /\ posted[p.ch][p.pos] <= clock
    <3>1. posted[p.ch] \in Seq(Ticks)
      BY <1>t, <2>1
    <3> QED
      BY <2>1, <3>1 DEF Typed, Ordered
  <2>3. q \in PassType
    BY <1>t, <1>f, <2>1, <2>2 DEF Advanced, PassType
  <2>4. /\ pass'[m] = q /\ pass' = [pass EXCEPT ![m] = q]
        /\ UNCHANGED <<posted, clock, status, stored, cursor, newest, faults>>
    BY <1>4, <1>t DEF Download, Goto
  <2>5. files' \in [Channels -> SUBSET Ids] /\ without' \in [Channels -> SUBSET Ids]
    <3>1. \/ files' = [files EXCEPT ![p.ch] = @ \cup {p.pos}] /\ without' = without
          \/ without' = [without EXCEPT ![p.ch] = @ \cup {p.pos}] /\ files' = files
      BY <1>4 DEF Download
    <3>2. files \in [Channels -> SUBSET Ids] /\ without \in [Channels -> SUBSET Ids]
      BY <1>t
    <3>3. CASE files' = [files EXCEPT ![p.ch] = @ \cup {p.pos}] /\ without' = without
      BY <2>1, <3>2, <3>3
    <3>4. CASE without' = [without EXCEPT ![p.ch] = @ \cup {p.pos}] /\ files' = files
      BY <2>1, <3>2, <3>4
    <3> QED
      BY <3>1, <3>3, <3>4
  <2>6. Placed(q, stored')
    BY <1>t, <1>f, <2>1, <2>2, <2>4 DEF Placed, Advanced, PassType
  <2> HIDE DEF q
  <2> QED
    BY <1>t, <2>3, <2>4, <2>5, <2>6, MoveTyped
<1>5. ASSUME ScanEnds(m) PROVE Typed'
  <2>1. p.ch \in Channels /\ p.id <= Len(posted[p.ch]) /\ p.date <= clock
    BY <1>5, <1>t DEF ScanEnds, Placed
  <2>2. /\ pass'[m] = Rest(p) /\ pass' = [pass EXCEPT ![m] = Rest(p)]
        /\ cursor' = [cursor EXCEPT ![p.ch] = Flushed(p)]
        /\ newest' = [newest EXCEPT ![p.ch] = Max({@, p.now})]
        /\ UNCHANGED <<posted, clock, status, stored, files, without, faults>>
    BY <1>5, <1>t DEF ScanEnds, Goto
  <2>3. /\ Flushed(p) \in CursorType
        /\ Flushed(p).id <= Len(posted[p.ch]) /\ Flushed(p).date <= clock
    BY <1>t, <1>f, <2>1 DEF Flushed, CursorType
  <2>4. Max({newest[p.ch], p.now}) \in Ticks \cup {None}
    <3>1. newest[p.ch] \in Ticks \cup {None} /\ p.now \in Ticks
      BY <1>t, <1>f, <2>1
    <3>2. newest[p.ch] \in Int /\ p.now \in Int
      BY <3>1 DEF Ticks, None
    <3>3. Max({newest[p.ch], p.now}) \in {newest[p.ch], p.now}
      BY <3>2, MaxOfTwo
    <3> QED
      BY <3>1, <3>3
  <2>5. cursor' \in [Channels -> CursorType]
    BY <1>t, <2>1, <2>2, <2>3
  <2>6. \A c \in Channels : cursor'[c].id <= Len(posted[c]) /\ cursor'[c].date <= clock
    BY <1>t, <2>1, <2>2, <2>3
  <2>7. newest' \in [Channels -> Ticks \cup {None}]
    BY <1>t, <2>1, <2>2, <2>4
  <2>8. Rest(p) \in PassType /\ Placed(Rest(p), stored')
    BY <1>t, RestTyped
  <2> QED
    BY <1>t, <2>2, <2>5, <2>6, <2>7, <2>8, MoveTyped
<1>6. ASSUME ScanFails(m) \/ Killed(m) PROVE Typed'
  <2>1. ASSUME NEW q \in {Rest(p), Idle}, Goto(m, q) PROVE Typed'
    <3>1. /\ q \in PassType /\ Placed(q, stored')
          /\ pass'[m] = q /\ pass' = [pass EXCEPT ![m] = q]
      BY <1>t, <2>1, RestTyped DEF Placed, Goto
    <3>2. faults' \in 0 .. MaxFaults /\ UNCHANGED <<posted, clock, tables, without, newest>>
      BY <1>6, <1>t, ScanAssumption DEF ScanFails, Killed
    <3> QED
      BY <1>t, <2>1, <3>1, <3>2, MoveTyped
  <2> QED
    BY <1>6, <2>1 DEF ScanFails, Killed
<1> QED
  BY <1>1, <1>2, <1>3, <1>4, <1>5, <1>6, <1>7 DEF Work

\* Every variable of the scan keeps its type; dates are in order, and what a pass
\* has loaded lies in the past.
THEOREM ScanTyped == Spec => []Typed
<1>1. Typed /\ [Next]_vars => Typed'
  BY WorldTyped, WorkTyped DEF Next
<1> QED
  BY <1>1, InitTyped, PTL DEF Spec

\* The type invariant of the scan run.
THEOREM ScanTypeOK == Spec => []TypeOK
<1>1. Typed => TypeOK
  BY DEF Typed
<1> QED
  BY <1>1, ScanTyped, PTL

-------------------------------------------------------------------------------
(* The cursor *)

\* Messages that pass p relies on: it has read them, or left them out.
Behind(p, j) ==
  \/ j <= p.id
  \/ posted[p.ch][j] < p.date
  \/ posted[p.ch][j] < p.since
  \/ j < p.pos
  \/ p.at = "read" /\ j <= p.pos

\* What lies behind a cursor or a pass was dealt with; a pass in progress may also
\* rely on its own start.
Covered ==
  /\ \A c \in Channels : \A j \in 1 .. Len(posted[c]) :
       j <= cursor[c].id \/ posted[c][j] < cursor[c].date => Honest(c, j, newest[c])
  /\ \A m \in Monitors : pass[m].at \in {"read", "file"} =>
       \A j \in 1 .. Len(posted[pass[m].ch]) :
         Behind(pass[m], j) =>
           Honest(pass[m].ch, j, newest[pass[m].ch]) \/ TooOld(pass[m].ch, j, pass[m].now)

\* Dates are numbers.
LEMMA DatesAreInt ==
  ASSUME Typed, NEW c \in Channels, NEW j \in 1 .. Len(posted[c])
  PROVE  posted[c][j] \in Nat /\ posted[c][j] <= clock
<1>1. posted[c] \in Seq(Ticks)
  BY DEF Typed, TypeOK
<1>2. posted[c][j] \in Ticks
  BY <1>1
<1> QED
  BY <1>2 DEF Typed, Ordered, Ticks

\* What was dealt with stays so.
LEMMA HonestKept ==
  ASSUME Typed, NEW c \in Channels, NEW j \in 1 .. Len(posted[c]), Honest(c, j, newest[c]),
         posted'[c][j] = posted[c][j],
         stored[c] \subseteq stored'[c], files[c] \subseteq files'[c],
         without[c] \subseteq without'[c],
         newest'[c] \in Int, newest[c] <= newest'[c]
  PROVE  Honest(c, j, newest[c])'
<1>1. posted[c][j] \in Nat /\ InitialSpan \in Nat
  BY DatesAreInt, ScanAssumption
<1>2. newest[c] \in Int
  BY DEF Typed, TypeOK, Ticks, None
<1> QED
  BY <1>1, <1>2 DEF Honest, TooOld

\* What a step of monitor m must show.
LEMMA MoveCovered ==
  ASSUME Typed, Covered, NEW m \in Monitors,
         pass' = [pass EXCEPT ![m] = pass'[m]],
         UNCHANGED posted,
         \A c \in Channels : /\ stored[c] \subseteq stored'[c]
                             /\ files[c] \subseteq files'[c]
                             /\ without[c] \subseteq without'[c]
                             /\ newest'[c] \in Int /\ newest[c] <= newest'[c],
         \A c \in Channels : \A j \in 1 .. Len(posted[c]) :
           j <= cursor'[c].id \/ posted[c][j] < cursor'[c].date => Honest(c, j, newest[c])',
         pass'[m].at \in {"read", "file"} =>
           /\ pass'[m].ch \in Channels
           /\ \A j \in 1 .. Len(posted[pass'[m].ch]) :
                Behind(pass'[m], j) =>
                  \/ Honest(pass[m].ch, j, newest[pass[m].ch])'
                  \/ TooOld(pass'[m].ch, j, pass'[m].now)
  PROVE  Covered'
<1>1. pass \in [Monitors -> PassType]
  BY DEF Typed, TypeOK, PassType
<1>2. \A n \in Monitors : n # m => pass'[n] = pass[n]
  BY <1>1
<1>3. ASSUME NEW n \in Monitors, pass'[n].at \in {"read", "file"},
             NEW j \in 1 .. Len(posted[pass'[n].ch]), Behind(pass'[n], j)
      PROVE  \/ Honest(pass[n].ch, j, newest[pass[n].ch])'
             \/ TooOld(pass'[n].ch, j, pass'[n].now)
  <2>1. CASE n = m
    BY <1>3, <2>1
  <2>2. CASE n # m
    <3>1. pass'[n] = pass[n] /\ Placed(pass[n], stored)
      BY <1>2, <2>2 DEF Typed
    <3>2. pass[n].ch \in Channels
      BY <1>3, <3>1 DEF Placed
    <3>3. \/ Honest(pass[n].ch, j, newest[pass[n].ch])
          \/ TooOld(pass[n].ch, j, pass[n].now)
      BY <1>3, <3>1 DEF Covered
    <3>4. CASE Honest(pass[n].ch, j, newest[pass[n].ch])
      <4>1. PICK c \in Channels : c = pass[n].ch
        BY <3>2
      <4>2. Honest(c, j, newest[c]) /\ j \in 1 .. Len(posted[c])
        BY <1>3, <3>1, <3>4, <4>1
      <4>3. Honest(c, j, newest[c])'
        BY <4>2, HonestKept
      <4> QED
        BY <3>1, <4>1, <4>3 DEF Honest, TooOld
    <3> QED
      BY <3>1, <3>3, <3>4
  <2> QED
    BY <2>1, <2>2
<1> QED
  BY <1>3 DEF Covered, Behind, TooOld

\* Telegram, time and the channel's administration: a new message is behind nobody.
LEMMA WorldCovered ==
  ASSUME Typed, Covered,
         \/ Tick
         \/ \E c \in Channels : Post(c) \/ AddChannel(c) \/ EnableChannel(c) \/ DisableChannel(c)
         \/ UNCHANGED vars
  PROVE  Covered'
<1> USE DEF tables, history
<1>1. CASE UNCHANGED <<posted, stored, files, cursor, pass, history>>
  BY <1>1 DEF Covered, Honest, TooOld, Behind
<1>2. ASSUME NEW c \in Channels, Post(c) PROVE Covered'
  <2>1. /\ posted \in [Channels -> Seq(Ticks)] /\ posted[c] \in Seq(Ticks)
        /\ Len(posted[c]) \in Nat /\ clock \in Nat
    BY DEF Typed, TypeOK, Ticks
  <2>2. /\ posted'[c] = Append(posted[c], clock)
        /\ \A d \in Channels : d # c => posted'[d] = posted[d]
        /\ UNCHANGED <<stored, files, cursor, pass, without, newest>>
    BY <1>2, <2>1 DEF Post
  <2>3. /\ Len(posted'[c]) = Len(posted[c]) + 1
        /\ posted'[c][Len(posted[c]) + 1] = clock
        /\ \A i \in 1 .. Len(posted[c]) : posted'[c][i] = posted[c][i]
    BY <2>1, <2>2
  <2>4. ASSUME NEW d \in Channels, NEW j \in 1 .. Len(posted'[d])
        PROVE  \/ j \in 1 .. Len(posted[d]) /\ posted'[d][j] = posted[d][j]
               \/ j > Len(posted[d]) /\ posted'[d][j] = clock
    <3>1. CASE d # c
      BY <2>2, <3>1
    <3>2. CASE d = c /\ j = Len(posted[c]) + 1
      BY <2>1, <2>3, <3>2
    <3>3. CASE d = c /\ j # Len(posted[c]) + 1
      <4>1. j \in 1 .. Len(posted[c])
        BY <2>1, <2>3, <3>3
      <4> QED
        BY <2>3, <3>3, <4>1
    <3> QED
      BY <3>1, <3>2, <3>3
  <2>5. ASSUME NEW d \in Channels, NEW j \in 1 .. Len(posted'[d]),
               j <= cursor[d].id \/ posted'[d][j] < cursor[d].date
        PROVE  Honest(d, j, newest[d])'
    <3>1. cursor[d].id <= Len(posted[d]) /\ cursor[d].date <= clock
      BY DEF Typed
    <3>2. cursor[d].id \in Int /\ cursor[d].date \in Int /\ Len(posted[d]) \in Nat
      BY <2>1 DEF Typed, TypeOK, CursorType, Ticks, None
    <3>3. j \in 1 .. Len(posted[d]) /\ posted'[d][j] = posted[d][j]
      BY <2>1, <2>4, <2>5, <3>1, <3>2
    <3>4. Honest(d, j, newest[d])
      BY <2>5, <3>3 DEF Covered
    <3> QED
      BY <2>2, <3>3, <3>4 DEF Honest, TooOld
  <2>6. ASSUME NEW m \in Monitors, pass[m].at \in {"read", "file"},
               NEW j \in 1 .. Len(posted'[pass[m].ch]), Behind(pass[m], j)'
        PROVE  (Honest(pass[m].ch, j, newest[pass[m].ch]) \/ TooOld(pass[m].ch, j, pass[m].now))'
    <3> DEFINE p == pass[m]
    <3>1. p \in PassType /\ Placed(p, stored)
      BY DEF Typed, TypeOK, PassType
    <3>2. /\ p.ch \in Channels /\ p.pos <= Len(posted[p.ch]) /\ p.id <= Len(posted[p.ch])
          /\ p.now <= clock /\ p.date <= clock /\ p.since <= clock
      BY <2>6, <3>1 DEF Placed
    <3>3. /\ p.pos \in Int /\ p.id \in Int /\ p.date \in Int /\ p.since \in Int
          /\ Len(posted[p.ch]) \in Nat
      BY <2>1, <3>1, <3>2 DEF PassType, Ticks, None
    <3>4. \/ j \in 1 .. Len(posted[p.ch]) /\ posted'[p.ch][j] = posted[p.ch][j]
          \/ j > Len(posted[p.ch]) /\ posted'[p.ch][j] = clock
      BY <2>2, <2>4, <2>6, <3>2
    <3>5. \/ j <= p.id
          \/ posted'[p.ch][j] < p.date
          \/ posted'[p.ch][j] < p.since
          \/ j < p.pos
          \/ p.at = "read" /\ j <= p.pos
      <4>1. pass' = pass
        BY <2>2
      <4> HIDE DEF p
      <4>2. pass'[m] = p
        BY <4>1 DEF p
      <4> QED
        BY <2>6, <4>2 DEF Behind
    <3>6. j \in 1 .. Len(posted[p.ch]) /\ posted'[p.ch][j] = posted[p.ch][j]
      BY <2>1, <2>6, <3>2, <3>3, <3>4, <3>5
    <3>7. Behind(p, j)
      BY <3>5, <3>6 DEF Behind
    <3>8. Honest(p.ch, j, newest[p.ch]) \/ TooOld(p.ch, j, p.now)
      BY <2>6, <3>6, <3>7 DEF Covered
    <3> QED
      BY <2>2, <3>6, <3>8 DEF Honest, TooOld
  <2> QED
    BY <2>2, <2>5, <2>6 DEF Covered
<1>3. CASE Tick
  BY <1>1, <1>3 DEF Tick
<1>4. ASSUME NEW c \in Channels, AddChannel(c) \/ EnableChannel(c) \/ DisableChannel(c)
      PROVE  Covered'
  BY <1>1, <1>4 DEF AddChannel, EnableChannel, DisableChannel, SetStatus
<1> QED
  BY <1>1, <1>2, <1>3, <1>4 DEF vars

\* What a monitor's steps keep.
LEMMA WorkCovered ==
  ASSUME Typed, Typed', Covered, NEW m \in Monitors, Work(m) \/ ScanFails(m) \/ Killed(m)
  PROVE  Covered'
<1> DEFINE p == pass[m]
<1>t. /\ p \in PassType /\ Placed(p, stored)
      /\ pass \in [Monitors -> PassType]
      /\ \A c \in Channels : Len(posted[c]) \in Nat
      /\ clock \in Ticks
      /\ stored \in [Channels -> SUBSET Ids] /\ files \in [Channels -> SUBSET Ids]
      /\ without \in [Channels -> SUBSET Ids]
      /\ cursor \in [Channels -> CursorType]
      /\ newest \in [Channels -> Ticks \cup {None}]
      /\ \A c \in Channels : newest[c] \in Int
  BY DEF Typed, TypeOK, PassType, Ticks, None
<1>f. /\ p.at \in {"idle", "next", "read", "file"} /\ p.todo \subseteq Channels
      /\ p.now \in Int /\ p.loaded \in CursorType /\ p.since \in Int
      /\ p.pos \in Nat /\ p.id \in Nat /\ p.date \in Int
  BY <1>t DEF PassType, Ticks, None
<1>c. \A c \in Channels : \A j \in 1 .. Len(posted[c]) :
        j <= cursor[c].id \/ posted[c][j] < cursor[c].date => Honest(c, j, newest[c])
  BY DEF Covered
<1>d. ASSUME p.at \in {"read", "file"}, NEW j \in 1 .. Len(posted[p.ch]), Behind(p, j)
      PROVE  Honest(p.ch, j, newest[p.ch]) \/ TooOld(p.ch, j, p.now)
  BY <1>d DEF Covered
<1> USE DEF tables, history
<1>1. ASSUME NEW q, pass' = [pass EXCEPT ![m] = q], q.at \in {"idle", "next"},
             UNCHANGED <<posted, stored, files, cursor, without, newest>>
      PROVE  Covered'
  <2>1. pass'[m] = q
    BY <1>1, <1>t
  <2>2. \A c \in Channels : \A j \in 1 .. Len(posted[c]) :
          Honest(c, j, newest[c]) => Honest(c, j, newest[c])'
    BY <1>1 DEF Honest, TooOld
  <2>3. \A c \in Channels : /\ stored[c] \subseteq stored'[c]
                             /\ files[c] \subseteq files'[c]
                             /\ without[c] \subseteq without'[c]
                             /\ newest'[c] \in Int /\ newest[c] <= newest'[c]
    BY <1>1, <1>t
  <2>4. \A c \in Channels : \A j \in 1 .. Len(posted[c]) :
           j <= cursor'[c].id \/ posted[c][j] < cursor'[c].date => Honest(c, j, newest[c])'
    BY <1>1, <1>c, <2>2
  <2>5. pass'[m].at \notin {"read", "file"}
    BY <1>1, <2>1
  <2>6. pass' = [pass EXCEPT ![m] = pass'[m]] /\ UNCHANGED posted
    BY <1>1, <2>1
  <2> QED
    BY <2>3, <2>4, <2>5, <2>6, MoveCovered
<1>2. CASE StartPass(m)
  <2>1. [Idle EXCEPT !.at = "next", !.todo = {c \in Channels : status[c] = "ACTIVE"}].at = "next"
    BY DEF Idle
  <2> QED
    BY <1>1, <1>2, <2>1 DEF StartPass, Goto
<1>3. CASE ScanFails(m)
  BY <1>1, <1>3, <1>t, RestTyped DEF ScanFails, Goto
<1>4. CASE Killed(m) \/ ReadUnloaded(m)
  BY <1>1, <1>4, RestTyped DEF Killed, ReadUnloaded, Goto
<1>5. ASSUME BeginScan(m) PROVE Covered'
  <2> DEFINE c == Min(p.todo)
             w == Window(cursor[c], clock)
  <2>1. c \in Channels
    <3>1. p.todo \in SUBSET Nat /\ p.todo # {}
      BY <1>5, <1>t, <1>f, ScanAssumption DEF BeginScan, Placed
    <3> QED
      BY <1>f, <3>1, MinIsLeast
  <2>2. cursor[c] \in CursorType /\ cursor[c].date <= clock
    BY <1>t, <2>1 DEF Typed
  <2>3. /\ w.min_id \in {0, cursor[c].id}
        /\ \A d \in Nat : d < w.since => d < clock - InitialSpan \/ d < cursor[c].date
    BY <1>t, <2>2, WindowBounds
  <2>4. UNCHANGED <<posted, stored, files, cursor, without, newest>>
    BY <1>5 DEF BeginScan
  <2>5. /\ pass' = [pass EXCEPT ![m] = pass'[m]]
        /\ pass'[m].at = "read" /\ pass'[m].ch = c /\ pass'[m].now = clock
        /\ pass'[m].since = w.since /\ pass'[m].pos = w.min_id
        /\ pass'[m].id = cursor[c].id /\ pass'[m].date = cursor[c].date
    BY <1>5, <1>t DEF BeginScan, Goto
  <2> HIDE DEF c, w
  <2>6. ASSUME NEW j \in 1 .. Len(posted[c]), Behind(pass'[m], j)
        PROVE  Honest(c, j, newest[c]) \/ TooOld(c, j, clock)
    <3>1. /\ posted[c][j] \in Nat /\ cursor[c].id \in Nat /\ j \in Nat /\ j > 0
          /\ clock \in Nat /\ InitialSpan \in Nat
      BY <1>t, <2>1, <2>2, DatesAreInt, ScanAssumption DEF CursorType, Ticks
    <3>2. j <= cursor[c].id \/ posted[c][j] < cursor[c].date \/ posted[c][j] < w.since
      BY <2>3, <2>5, <2>6, <3>1 DEF Behind
    <3>3. \/ j <= cursor[c].id
          \/ posted[c][j] < cursor[c].date
          \/ posted[c][j] < clock - InitialSpan
      BY <2>3, <3>1, <3>2
    <3> QED
      BY <1>c, <2>1, <3>3 DEF TooOld
  <2>7. \A d \in Channels : \A j \in 1 .. Len(posted[d]) :
          Honest(d, j, newest[d]) => Honest(d, j, newest[d])'
    BY <2>4 DEF Honest, TooOld
  <2>8. ASSUME NEW j \in 1 .. Len(posted[pass'[m].ch]), Behind(pass'[m], j)
        PROVE  \/ Honest(pass[m].ch, j, newest[pass[m].ch])'
               \/ TooOld(pass'[m].ch, j, pass'[m].now)
    <3>1. Honest(c, j, newest[c]) \/ TooOld(c, j, clock)
      BY <2>5, <2>6, <2>8
    <3>2. PICK d \in Channels : d = pass'[m].ch
      BY <2>1, <2>5
    <3>3. Honest(d, j, newest[d])' \/ TooOld(d, j, pass'[m].now)
      BY <2>5, <2>7, <2>8, <3>1, <3>2
    <3> QED
      BY <3>2, <3>3 DEF Honest, TooOld
  <2>9. \A d \in Channels : /\ stored[d] \subseteq stored'[d]
                             /\ files[d] \subseteq files'[d]
                             /\ without[d] \subseteq without'[d]
                             /\ newest'[d] \in Int /\ newest[d] <= newest'[d]
    BY <1>t, <2>4
  <2>10. \A d \in Channels : \A j \in 1 .. Len(posted[d]) :
           j <= cursor'[d].id \/ posted[d][j] < cursor'[d].date => Honest(d, j, newest[d])'
    BY <1>c, <2>4, <2>7
  <2>11. /\ pass' = [pass EXCEPT ![m] = pass'[m]] /\ UNCHANGED posted
         /\ pass'[m].ch \in Channels
    BY <2>1, <2>4, <2>5
  <2> QED
    BY <2>8, <2>9, <2>10, <2>11, MoveCovered
<1>6. ASSUME Ingest(m) PROVE Covered'
  <2> DEFINE i == Min(Left(p.ch, p.pos, p.since))
  <2>1. p.at = "read" /\ p.ch \in Channels
    BY <1>6, <1>t DEF Ingest, Placed
  <2>2. /\ i \in 1 .. Len(posted[p.ch]) /\ i > p.pos
        /\ \A j \in 1 .. Len(posted[p.ch]) : p.pos < j /\ j < i => posted[p.ch][j] < p.since
    BY <1>6, <1>f, <2>1, LeftOver DEF Ingest
  <2>3. /\ pass' = [pass EXCEPT ![m] = pass'[m]] /\ pass'[m] = [p EXCEPT !.at = "file", !.pos = i]
        /\ stored' = [stored EXCEPT ![p.ch] = @ \cup {i}]
        /\ UNCHANGED <<posted, files, cursor, without, newest>>
    BY <1>6, <1>t DEF Ingest, Goto
  <2> HIDE DEF i
  <2>4. /\ pass'[m].at = "file" /\ pass'[m].pos = i /\ pass'[m].ch = p.ch
        /\ pass'[m].now = p.now /\ pass'[m].since = p.since
        /\ pass'[m].id = p.id /\ pass'[m].date = p.date
    BY <1>t, <2>3 DEF PassType
  <2>5. \A d \in Channels : stored[d] \subseteq stored'[d]
    BY <1>t, <2>1, <2>3
  <2>6. \A d \in Channels : \A j \in 1 .. Len(posted[d]) :
          Honest(d, j, newest[d]) => Honest(d, j, newest[d])'
    BY <2>3, <2>5 DEF Honest, TooOld
  <2>7. ASSUME NEW j \in 1 .. Len(posted[p.ch]), Behind(pass'[m], j)
        PROVE  Behind(p, j)
    <3>1. \/ j <= p.id
          \/ posted[p.ch][j] < p.date
          \/ posted[p.ch][j] < p.since
          \/ j < i
      BY <2>4, <2>7 DEF Behind
    <3>2. CASE j < i
      <4>1. j <= p.pos \/ posted[p.ch][j] < p.since
        BY <1>f, <2>2, <3>2
      <4> QED
        BY <2>1, <4>1 DEF Behind
    <3> QED
      BY <3>1, <3>2 DEF Behind
  <2>8. ASSUME NEW j \in 1 .. Len(posted[pass'[m].ch]), Behind(pass'[m], j)
        PROVE  \/ Honest(pass[m].ch, j, newest[pass[m].ch])'
               \/ TooOld(pass'[m].ch, j, pass'[m].now)
    <3>1. Honest(p.ch, j, newest[p.ch]) \/ TooOld(p.ch, j, p.now)
      BY <1>d, <2>1, <2>4, <2>7, <2>8
    <3>2. PICK d \in Channels : d = p.ch
      BY <2>1
    <3>3. Honest(d, j, newest[d])' \/ TooOld(d, j, pass'[m].now)
      BY <2>4, <2>6, <2>8, <3>1, <3>2
    <3> QED
      BY <2>4, <3>2, <3>3 DEF Honest, TooOld
  <2>9. \A c \in Channels : /\ stored[c] \subseteq stored'[c]
                             /\ files[c] \subseteq files'[c]
                             /\ without[c] \subseteq without'[c]
                             /\ newest'[c] \in Int /\ newest[c] <= newest'[c]
    BY <1>t, <2>3, <2>5
  <2>10. \A c \in Channels : \A j \in 1 .. Len(posted[c]) :
           j <= cursor'[c].id \/ posted[c][j] < cursor'[c].date => Honest(c, j, newest[c])'
    BY <1>c, <2>3, <2>6
  <2>11. /\ pass' = [pass EXCEPT ![m] = pass'[m]] /\ UNCHANGED posted
         /\ pass'[m].ch \in Channels
    BY <2>1, <2>3, <2>4
  <2> QED
    BY <2>8, <2>9, <2>10, <2>11, MoveCovered
<1>7. ASSUME Download(m) PROVE Covered'
  <2> DEFINE i == p.pos
  <2>1. p.at = "file" /\ p.ch \in Channels /\ i \in stored[p.ch] /\ i > 0
    BY <1>7, <1>t DEF Download, Placed
  <2>2. /\ pass' = [pass EXCEPT ![m] = pass'[m]] /\ pass'[m] = Advanced(p, i)
        /\ UNCHANGED <<posted, stored, cursor, newest>>
    BY <1>7, <1>t DEF Download, Goto
  <2>3. /\ \A d \in Channels : files[d] \subseteq files'[d] /\ without[d] \subseteq without'[d]
        /\ i \in files'[p.ch] \cup without'[p.ch]
    <3>1. \/ files' = [files EXCEPT ![p.ch] = @ \cup {i}] /\ without' = without
          \/ without' = [without EXCEPT ![p.ch] = @ \cup {i}] /\ files' = files
      BY <1>7 DEF Download
    <3> HIDE DEF i
    <3>2. CASE files' = [files EXCEPT ![p.ch] = @ \cup {i}] /\ without' = without
      BY <1>t, <2>1, <3>2
    <3>3. CASE without' = [without EXCEPT ![p.ch] = @ \cup {i}] /\ files' = files
      BY <1>t, <2>1, <3>3
    <3> QED
      BY <3>1, <3>2, <3>3
  <2>4. /\ pass'[m].at = "read" /\ pass'[m].pos = i /\ pass'[m].ch = p.ch
        /\ pass'[m].now = p.now /\ pass'[m].since = p.since
        /\ \/ i > p.id /\ pass'[m].id = i /\ pass'[m].date = posted[p.ch][i]
           \/ pass'[m].id = p.id /\ pass'[m].date = p.date
    BY <1>t, <2>2 DEF Advanced, PassType
  <2>5. i \in 1 .. Len(posted[p.ch])
    BY <1>t, <1>f, <2>1 DEF Placed
  <2>6. \A d \in Channels : \A j \in 1 .. Len(posted[d]) :
          Honest(d, j, newest[d]) => Honest(d, j, newest[d])'
    BY <2>2, <2>3 DEF Honest, TooOld
  <2>7. ASSUME NEW j \in 1 .. Len(posted[p.ch]), Behind(pass'[m], j)
        PROVE  j = i \/ Behind(p, j)
    <3>1. CASE j < i
      BY <3>1 DEF Behind
    <3>2. CASE j > i
      <4>1. posted[p.ch][i] <= posted[p.ch][j]
        BY <2>1, <2>5, <3>2 DEF Typed, Ordered
      <4>2. posted[p.ch][i] \in Nat /\ posted[p.ch][j] \in Nat
        BY <2>1, <2>5, DatesAreInt
      <4>3. \/ j <= p.id
            \/ posted[p.ch][j] < p.date
            \/ posted[p.ch][j] < p.since
        BY <1>f, <2>4, <2>7, <3>2, <4>1, <4>2 DEF Behind
      <4> QED
        BY <4>3 DEF Behind
    <3> QED
      BY <1>f, <3>1, <3>2
  <2>8. ASSUME NEW j \in 1 .. Len(posted[pass'[m].ch]), Behind(pass'[m], j)
        PROVE  \/ Honest(pass[m].ch, j, newest[pass[m].ch])'
               \/ TooOld(pass'[m].ch, j, pass'[m].now)
    <3>2. PICK d \in Channels : d = p.ch
      BY <2>1
    <3>1. CASE j = i
      <4>1. Honest(d, j, newest[d])'
        BY <2>1, <2>2, <2>3, <3>1, <3>2 DEF Honest
      <4> QED
        BY <2>4, <3>2, <4>1 DEF Honest, TooOld
    <3>3. CASE j # i
      <4>1. Honest(p.ch, j, newest[p.ch]) \/ TooOld(p.ch, j, p.now)
        BY <1>d, <2>1, <2>4, <2>7, <2>8, <3>3
      <4>2. Honest(d, j, newest[d])' \/ TooOld(d, j, pass'[m].now)
        BY <2>4, <2>6, <2>8, <3>2, <4>1
      <4> QED
        BY <2>4, <3>2, <4>2 DEF Honest, TooOld
    <3> QED
      BY <3>1, <3>3
  <2>9. \A c \in Channels : /\ stored[c] \subseteq stored'[c]
                            /\ files[c] \subseteq files'[c]
                            /\ without[c] \subseteq without'[c]
                            /\ newest'[c] \in Int /\ newest[c] <= newest'[c]
    BY <1>t, <2>2, <2>3
  <2>10. \A c \in Channels : \A j \in 1 .. Len(posted[c]) :
           j <= cursor'[c].id \/ posted[c][j] < cursor'[c].date => Honest(c, j, newest[c])'
    BY <1>c, <2>2, <2>6
  <2>11. /\ pass' = [pass EXCEPT ![m] = pass'[m]] /\ UNCHANGED posted
         /\ pass'[m].ch \in Channels
    BY <2>1, <2>2, <2>4
  <2> QED
    BY <2>8, <2>9, <2>10, <2>11, MoveCovered
<1>8. ASSUME ScanEnds(m) PROVE Covered'
  <2>1. p.at = "read" /\ p.ch \in Channels
    BY <1>8, <1>t DEF ScanEnds, Placed
  <2>2. /\ pass' = [pass EXCEPT ![m] = pass'[m]] /\ pass'[m] = Rest(p)
        /\ cursor' = [cursor EXCEPT ![p.ch] = Flushed(p)]
        /\ newest' = [newest EXCEPT ![p.ch] = Max({@, p.now})]
        /\ UNCHANGED <<posted, stored, files, without>>
    BY <1>8, <1>t DEF ScanEnds, Goto
  <2>3. pass'[m].at \notin {"read", "file"}
    BY <1>t, <2>2, RestTyped
  <2>4. /\ newest'[p.ch] \in Int /\ newest[p.ch] <= newest'[p.ch] /\ p.now <= newest'[p.ch]
        /\ \A d \in Channels : d # p.ch => newest'[d] = newest[d] /\ cursor'[d] = cursor[d]
        /\ cursor'[p.ch] = Flushed(p)
    <3>1. newest[p.ch] \in Int /\ newest'[p.ch] = Max({newest[p.ch], p.now})
      BY <1>t, <2>1, <2>2
    <3>2. Max({newest[p.ch], p.now}) \in {newest[p.ch], p.now}
      BY <1>f, <3>1, MaxOfTwo
    <3>3. Max({newest[p.ch], p.now}) >= newest[p.ch] /\ Max({newest[p.ch], p.now}) >= p.now
      BY <1>f, <3>1, MaxOfTwo
    <3> QED
      BY <1>t, <1>f, <2>1, <2>2, <3>1, <3>2, <3>3
  <2>5. /\ Flushed(p).id \in {cursor[p.ch].id, p.id}
        /\ Flushed(p).date \in {cursor[p.ch].date, p.date}
    BY <1>t, <2>1 DEF Flushed, CursorType
  <2>6. \A d \in Channels : newest'[d] \in Int /\ newest[d] <= newest'[d]
    BY <1>t, <2>4
  <2>7. ASSUME NEW d \in Channels, NEW j \in 1 .. Len(posted[d]), Honest(d, j, newest[d])
        PROVE  Honest(d, j, newest[d])'
    BY <2>2, <2>6, <2>7, HonestKept
  <2>8. ASSUME NEW d \in Channels, NEW j \in 1 .. Len(posted[d]),
               j <= cursor'[d].id \/ posted[d][j] < cursor'[d].date
        PROVE  Honest(d, j, newest[d])'
    <3>1. CASE j <= cursor[d].id \/ posted[d][j] < cursor[d].date
      BY <1>c, <2>7, <3>1
    <3>2. CASE ~(j <= cursor[d].id \/ posted[d][j] < cursor[d].date)
      <4>1. d = p.ch
        BY <2>4, <2>8, <3>2
      <4>2. j <= p.id \/ posted[d][j] < p.date
        BY <2>4, <2>5, <2>8, <3>2, <4>1
      <4>3. Honest(d, j, newest[d]) \/ TooOld(d, j, p.now)
        BY <1>d, <2>1, <4>1, <4>2 DEF Behind
      <4>4. CASE TooOld(d, j, p.now)
        <5>1. posted[d][j] \in Nat /\ InitialSpan \in Nat
          BY DatesAreInt, ScanAssumption
        <5>2. p.now <= newest'[d] /\ newest'[d] \in Int
          BY <2>4, <4>1
        <5> QED
          BY <1>f, <2>2, <4>4, <5>1, <5>2 DEF Honest, TooOld
      <4> QED
        BY <2>7, <4>3, <4>4
    <3> QED
      BY <3>1, <3>2
  <2>9. \A c \in Channels : /\ stored[c] \subseteq stored'[c]
                            /\ files[c] \subseteq files'[c]
                            /\ without[c] \subseteq without'[c]
                            /\ newest'[c] \in Int /\ newest[c] <= newest'[c]
    BY <2>2, <2>6
  <2>10. pass' = [pass EXCEPT ![m] = pass'[m]] /\ UNCHANGED posted
    BY <2>2
  <2> QED
    BY <2>3, <2>8, <2>9, <2>10, MoveCovered
<1> QED
  BY <1>2, <1>3, <1>4, <1>5, <1>6, <1>7, <1>8 DEF Work

\* What lies behind a cursor or a pass was dealt with, all the time.
LEMMA AlwaysCovered == Spec => []Covered
<1>1. Init => Covered
  <2> SUFFICES ASSUME Init PROVE Covered
    OBVIOUS
  <2>1. \A m \in Monitors : pass[m].at = "idle"
    BY DEF Init, Idle
  <2>2. ASSUME NEW c \in Channels, NEW j \in 1 .. Len(posted[c])
        PROVE  ~(j <= cursor[c].id \/ posted[c][j] < cursor[c].date)
    <3>1. posted[c][j] \in Nat
      BY InitTyped, DatesAreInt
    <3>2. cursor[c].id = 0 /\ cursor[c].date = -1
      BY DEF Init, NewCursor, None
    <3> QED
      BY <3>1, <3>2
  <2> QED
    BY <2>1, <2>2 DEF Covered
<1>2. Typed /\ Typed' /\ Covered /\ [Next]_vars => Covered'
  BY WorldCovered, WorkCovered DEF Next
<1> QED
  BY <1>1, <1>2, ScanTyped, PTL DEF Spec

\* The cursor of a channel never passes a message that was not dealt with, whatever
\* fails, dies or overlaps (ScanService.scan_channel).
THEOREM CursorIsHonest == Spec => []CursorHonest
<1>1. Typed /\ Covered => CursorHonest
  <2> SUFFICES ASSUME Typed, Covered, NEW c \in Channels, NEW i \in 1 .. cursor[c].id
               PROVE  \/ i \in stored[c] /\ i \in files[c] \cup without[c]
                      \/ TooOld(c, i, newest[c])
    BY DEF CursorHonest
  <2>1. cursor[c].id \in Nat /\ Len(posted[c]) \in Nat /\ cursor[c].id <= Len(posted[c])
    BY DEF Typed, TypeOK, CursorType
  <2>2. i \in 1 .. Len(posted[c]) /\ i <= cursor[c].id
    BY <2>1
  <2>3. Honest(c, i, newest[c])
    BY <2>2 DEF Covered
  <2> QED
    BY <2>3 DEF Honest
<1> QED
  BY <1>1, ScanTyped, AlwaysCovered, PTL

\* A scan that ends well leaves no message of its channel behind but those that were
\* too old for a pass (scan_channel, determine_scan_window).
THEOREM ScansAreComplete == Spec => ScanIsComplete
<1> USE DEF tables, history
<1>1. ASSUME Typed, Typed', Covered, NEW m \in Monitors, ScanEnds(m),
             NEW i \in DOMAIN posted[pass[m].ch]
      PROVE  \/ /\ i \in stored[pass[m].ch]
                /\ i \in files[pass[m].ch] \cup without[pass[m].ch]
             \/ TooOld(pass[m].ch, i, newest'[pass[m].ch])
  <2> DEFINE p == pass[m]
             c == pass[m].ch
  <2>0. /\ p \in PassType /\ p.at = "read" /\ c \in Channels /\ newest[c] \in Ticks \cup {None}
        /\ posted[c] \in Seq(Ticks) /\ newest \in [Channels -> Ticks \cup {None}]
    BY <1>1 DEF Typed, TypeOK, PassType, ScanEnds, Placed
  <2>1. /\ i \in 1 .. Len(posted[c]) /\ i \in Nat /\ p.pos \in Nat /\ p.since \in Int /\ p.now \in Int
        /\ newest[c] \in Int
    BY <1>1, <2>0 DEF PassType, Ticks, None
  <2>2. posted[c][i] \in Nat /\ InitialSpan \in Nat
    BY <1>1, <2>0, <2>1, DatesAreInt, ScanAssumption
  <2>3. i \notin Left(c, p.pos, p.since)
    BY <1>1 DEF ScanEnds
  <2>4. Behind(p, i)
    BY <2>0, <2>1, <2>2, <2>3 DEF Left, Behind
  <2>5. Honest(c, i, newest[c]) \/ TooOld(c, i, p.now)
    BY <1>1, <2>0, <2>1, <2>4 DEF Covered
  <2>6. newest'[c] = Max({newest[c], p.now})
    BY <1>1, <2>0 DEF ScanEnds
  <2>7. /\ Max({newest[c], p.now}) \in {newest[c], p.now}
        /\ Max({newest[c], p.now}) >= newest[c] /\ Max({newest[c], p.now}) >= p.now
    BY <2>1, MaxOfTwo
  <2> QED
    BY <2>1, <2>2, <2>5, <2>6, <2>7 DEF Honest, TooOld
<1>2. Typed /\ Typed' /\ Covered =>
        [\A m \in Monitors :
           LET c == pass[m].ch IN
           ScanEnds(m) => \A i \in DOMAIN posted[c] :
             \/ i \in stored[c] /\ i \in files[c] \cup without[c]
             \/ TooOld(c, i, newest'[c])]_vars
  BY <1>1
<1> QED
  BY <1>2, ScanTyped, AlwaysCovered, PTL DEF ScanIsComplete

-------------------------------------------------------------------------------
(* Old messages *)

\* Message j of c is stored, or was too old for a complete pass.
Accounted(c, j) == j \in stored[c] \/ TooOld(c, j, newest[c])

\* A pass leaves out what is too old for it, or began soon after a success.
Bounded(p) ==
  \/ p.since >= p.now - InitialSpan
  \/ \A j \in 1 .. Len(posted[p.ch]) : posted[p.ch][j] < p.now - CatchupGap => Accounted(p.ch, j)

\* Whatever is older than the last success is accounted for.
Recent ==
  /\ \A c \in Channels :
       /\ cursor[c].success <= clock
       /\ \A j \in 1 .. Len(posted[c]) : posted[c][j] < cursor[c].success => Accounted(c, j)
  /\ \A m \in Monitors : pass[m].at \in {"read", "file"} => Bounded(pass[m])

\* What a step may do to the messages: nothing is lost, and what is new is of now.
Grows ==
  \A c \in Channels :
    /\ \A j \in 1 .. Len(posted'[c]) :
         \/ j \in 1 .. Len(posted[c]) /\ posted'[c][j] = posted[c][j]
         \/ posted'[c][j] = clock
    /\ stored[c] \subseteq stored'[c]
    /\ newest'[c] \in Int /\ newest[c] <= newest'[c]

\* What is accounted for stays so.
LEMMA AccountedKept ==
  ASSUME Typed, Grows, NEW c \in Channels, NEW j \in 1 .. Len(posted[c]), Accounted(c, j),
         posted'[c][j] = posted[c][j]
  PROVE  Accounted(c, j)'
<1>1. posted[c][j] \in Nat /\ InitialSpan \in Nat
  BY DatesAreInt, ScanAssumption
<1>2. newest[c] \in Int
  BY DEF Typed, TypeOK, Ticks, None
<1> QED
  BY <1>1, <1>2 DEF Accounted, TooOld, Grows

\* What is new is not older than a time that has come.
LEMMA OlderKept ==
  ASSUME Typed, Grows, NEW c \in Channels, NEW t \in Int, t <= clock,
         \A j \in 1 .. Len(posted[c]) : posted[c][j] < t => Accounted(c, j)
  PROVE  \A j \in 1 .. Len(posted'[c]) : posted'[c][j] < t => Accounted(c, j)'
<1> SUFFICES ASSUME NEW j \in 1 .. Len(posted'[c]), posted'[c][j] < t PROVE Accounted(c, j)'
  OBVIOUS
<1>1. clock \in Int
  BY DEF Typed, TypeOK, Ticks
<1>2. j \in 1 .. Len(posted[c]) /\ posted'[c][j] = posted[c][j]
  BY <1>1 DEF Grows
<1> QED
  BY <1>2, AccountedKept

\* What a pass began with is as true later.
LEMMA BoundedKept ==
  ASSUME Typed, Grows, NEW q \in PassType, q.ch \in Channels, q.now <= clock, Bounded(q)
  PROVE  Bounded(q)'
<1>1. CASE q.since >= q.now - InitialSpan
  BY <1>1 DEF Bounded
<1>2. CASE \A j \in 1 .. Len(posted[q.ch]) : posted[q.ch][j] < q.now - CatchupGap => Accounted(q.ch, j)
  <2> DEFINE t == q.now - CatchupGap
  <2>1. t \in Int /\ t <= clock
    BY ScanAssumption DEF PassType, Ticks, Typed, TypeOK
  <2>2. PICK c \in Channels : c = q.ch
    OBVIOUS
  <2> HIDE DEF t
  <2>3. \A j \in 1 .. Len(posted[c]) : posted[c][j] < t => Accounted(c, j)
    BY <1>2, <2>2 DEF t
  <2>4. \A j \in 1 .. Len(posted'[c]) : posted'[c][j] < t => Accounted(c, j)'
    BY <2>1, <2>3, OlderKept
  <2> QED
    BY <2>2, <2>4 DEF t, Bounded
<1> QED
  BY <1>1, <1>2 DEF Bounded

\* What a step must show.
LEMMA MoveRecent ==
  ASSUME Typed, Recent, Grows, clock <= clock', clock' \in Int,
         \A c \in Channels :
           \/ cursor'[c].success = cursor[c].success
           \/ /\ cursor'[c].success <= clock'
              /\ \A j \in 1 .. Len(posted'[c]) : Accounted(c, j)',
         \A n \in Monitors : pass'[n].at \in {"read", "file"} =>
           \E q \in PassType :
             /\ q.ch \in Channels /\ q.now <= clock /\ Bounded(q)
             /\ pass'[n].ch = q.ch /\ pass'[n].now = q.now /\ pass'[n].since = q.since
  PROVE  Recent'
<1>1. \A c \in Channels : cursor[c].success \in Int /\ clock \in Int
  BY DEF Typed, TypeOK, CursorType, Ticks, None
<1>2. ASSUME NEW c \in Channels
      PROVE  /\ cursor'[c].success <= clock'
             /\ \A j \in 1 .. Len(posted'[c]) : posted'[c][j] < cursor'[c].success => Accounted(c, j)'
  <2>1. CASE cursor'[c].success = cursor[c].success
    <3>1. /\ cursor[c].success <= clock
          /\ \A j \in 1 .. Len(posted[c]) : posted[c][j] < cursor[c].success => Accounted(c, j)
      BY DEF Recent
    <3> DEFINE t == cursor[c].success
    <3>2. \A j \in 1 .. Len(posted'[c]) : posted'[c][j] < t => Accounted(c, j)'
      <4>1. t \in Int /\ t <= clock
        BY <1>1, <3>1
      <4>2. \A j \in 1 .. Len(posted[c]) : posted[c][j] < t => Accounted(c, j)
        BY <3>1
      <4> HIDE DEF t
      <4> QED
        BY <4>1, <4>2, OlderKept
    <3> QED
      BY <1>1, <2>1, <3>1, <3>2
  <2>2. CASE /\ cursor'[c].success <= clock'
             /\ \A j \in 1 .. Len(posted'[c]) : Accounted(c, j)'
    BY <2>2
  <2> QED
    BY <2>1, <2>2
<1>3. ASSUME NEW n \in Monitors, pass'[n].at \in {"read", "file"} PROVE Bounded(pass[n])'
  <2>1. PICK q \in PassType :
          /\ q.ch \in Channels /\ q.now <= clock /\ Bounded(q)
          /\ pass'[n].ch = q.ch /\ pass'[n].now = q.now /\ pass'[n].since = q.since
    BY <1>3
  <2>2. Bounded(q)'
    BY <2>1, BoundedKept
  <2> QED
    BY <2>1, <2>2 DEF Bounded, Accounted, TooOld
<1> QED
  BY <1>2, <1>3 DEF Recent

\* Telegram, time and the channel's administration: what is new is not old.
LEMMA WorldRecent ==
  ASSUME Typed, Recent,
         \/ Tick
         \/ \E c \in Channels : Post(c) \/ AddChannel(c) \/ EnableChannel(c) \/ DisableChannel(c)
         \/ UNCHANGED vars
  PROVE  Recent'
<1> USE DEF tables, history
<1>t. /\ posted \in [Channels -> Seq(Ticks)] /\ clock \in Int
      /\ \A c \in Channels : newest[c] \in Int
  BY DEF Typed, TypeOK, Ticks, None
<1>1. UNCHANGED <<stored, files, cursor, pass, without, newest>> /\ clock <= clock' /\ clock' \in Int
  BY <1>t DEF Tick, Post, AddChannel, EnableChannel, DisableChannel, SetStatus, vars
<1>2. Grows
  <2>1. CASE posted' = posted
    BY <1>1, <1>t, <2>1 DEF Grows
  <2>2. ASSUME NEW c \in Channels, Post(c) PROVE Grows
    <3>1. /\ posted' = [posted EXCEPT ![c] = Append(@, clock)]
          /\ posted[c] \in Seq(Ticks) /\ Len(posted[c]) \in Nat
      BY <1>t, <2>2 DEF Post
    <3>2. /\ posted'[c] = Append(posted[c], clock)
          /\ \A d \in Channels : d # c => posted'[d] = posted[d]
      BY <1>t, <3>1
    <3>3. ASSUME NEW j \in 1 .. Len(posted'[c])
          PROVE  \/ j \in 1 .. Len(posted[c]) /\ posted'[c][j] = posted[c][j]
                 \/ posted'[c][j] = clock
      BY <3>1, <3>2
    <3>4. ASSUME NEW d \in Channels, d # c, NEW j \in 1 .. Len(posted'[d])
          PROVE  j \in 1 .. Len(posted[d]) /\ posted'[d][j] = posted[d][j]
      BY <3>2, <3>4
    <3>5. \A d \in Channels : \A j \in 1 .. Len(posted'[d]) :
            \/ j \in 1 .. Len(posted[d]) /\ posted'[d][j] = posted[d][j]
            \/ posted'[d][j] = clock
      BY <3>3, <3>4
    <3>6. \A d \in Channels : /\ stored[d] \subseteq stored'[d]
                              /\ newest'[d] \in Int /\ newest[d] <= newest'[d]
      BY <1>1, <1>t
    <3> QED
      BY <3>5, <3>6 DEF Grows
  <2> QED
    BY <2>1, <2>2 DEF Tick, AddChannel, EnableChannel, DisableChannel, SetStatus, vars
<1>3. ASSUME NEW n \in Monitors, pass'[n].at \in {"read", "file"}
      PROVE  /\ pass[n] \in PassType /\ pass[n].ch \in Channels /\ pass[n].now <= clock
             /\ Bounded(pass[n]) /\ pass'[n] = pass[n]
  BY <1>1, <1>3 DEF Typed, TypeOK, PassType, Placed, Recent
<1> QED
  BY <1>1, <1>2, <1>3, MoveRecent

\* A pass without a bound began within the gap after a success.
LEMMA WindowRecent ==
  ASSUME NEW c \in CursorType, NEW now \in Ticks
  PROVE  \/ Window(c, now).since >= now - InitialSpan
         \/ c.success # None /\ now - c.success <= CatchupGap
<1>1. /\ now \in Int /\ c.date \in Int /\ c.success \in Int /\ InitialSpan \in Nat /\ CatchupGap \in Nat
      /\ Floor(now) = now - InitialSpan /\ Floor(now) \in Int
  BY ScanAssumption DEF Ticks, CursorType, None, Floor
<1>2. CASE Phase(c, now) = INITIAL
  BY <1>1, <1>2 DEF Window, INITIAL, CATCHUP, INCREMENTAL
<1>3. CASE Phase(c, now) = CATCHUP
  <2>1. Window(c, now) = [min_id |-> c.id, since |-> Max({Floor(now), c.date})]
    BY <1>3 DEF Window, INITIAL, CATCHUP, INCREMENTAL
  <2>2. Max({Floor(now), c.date}) >= Floor(now)
    BY <1>1, MaxOfTwo
  <2> QED
    BY <1>1, <2>1, <2>2
<1>4. CASE Phase(c, now) = INCREMENTAL
  <2>1. c.success # None /\ ~(now - c.success > CatchupGap)
    BY <1>4 DEF Phase, WasDown, INITIAL, CATCHUP, INCREMENTAL
  <2> QED
    BY <1>1, <2>1
<1> QED
  BY <1>2, <1>3, <1>4 DEF Phase

\* A pass that ends has dealt with all messages of its channel or left them out.
LEMMA WorkRecent ==
  ASSUME Typed, Typed', Covered, Recent, NEW m \in Monitors, Work(m) \/ ScanFails(m) \/ Killed(m)
  PROVE  Recent'
<1> USE DEF tables, history
<1> DEFINE p == pass[m]
<1>t. /\ p \in PassType /\ Placed(p, stored) /\ pass \in [Monitors -> PassType]
      /\ posted \in [Channels -> Seq(Ticks)] /\ clock \in Ticks /\ clock \in Int
      /\ stored \in [Channels -> SUBSET Ids] /\ cursor \in [Channels -> CursorType]
      /\ \A c \in Channels : newest[c] \in Int
      /\ newest \in [Channels -> Ticks \cup {None}]
  BY DEF Typed, TypeOK, PassType, Ticks, None
<1>f. p.since \in Int /\ p.now \in Int /\ p.pos \in 0 .. LastId /\ p.todo \subseteq Channels
  BY <1>t DEF PassType, Ticks
<1>u. UNCHANGED <<posted, clock>>
  BY DEF Work, StartPass, ReadUnloaded, BeginScan, Ingest, Download, ScanEnds, ScanFails, Killed
<1>m. pass' = [pass EXCEPT ![m] = pass'[m]]
  BY <1>t DEF Work, StartPass, ReadUnloaded, BeginScan, Ingest, Download, ScanEnds, ScanFails, Killed, Goto
\* The other passes stand where they stood.
<1>o. ASSUME NEW n \in Monitors, n # m, pass'[n].at \in {"read", "file"}
      PROVE  /\ pass[n] \in PassType /\ pass[n].ch \in Channels /\ pass[n].now <= clock
             /\ Bounded(pass[n]) /\ pass'[n] = pass[n]
  <2>1. pass'[n] = pass[n]
    BY <1>t, <1>m, <1>o
  <2> QED
    BY <1>o, <1>t, <2>1 DEF Typed, Placed, Recent
\* So has m, unless it begins with a channel.
<1>s. ASSUME p.at \in {"read", "file"}
      PROVE  p \in PassType /\ p.ch \in Channels /\ p.now <= clock /\ Bounded(p)
  BY <1>s, <1>t DEF Placed, Recent
<1>1. ASSUME UNCHANGED <<stored, cursor, newest>>, pass'[m].at \in {"idle", "next"} PROVE Recent'
  <2>1. Grows
    BY <1>1, <1>t, <1>u DEF Grows
  <2> QED
    BY <1>1, <1>o, <1>t, <1>u, <2>1, MoveRecent
<1>2. CASE StartPass(m)
  <2>1. [Idle EXCEPT !.at = "next", !.todo = {c \in Channels : status[c] = "ACTIVE"}].at = "next"
    BY DEF Idle
  <2> QED
    BY <1>1, <1>2, <1>t, <2>1 DEF StartPass, Goto
<1>3. CASE ScanFails(m)
  BY <1>1, <1>3, <1>t, RestTyped DEF ScanFails, Goto
<1>4. CASE Killed(m) \/ ReadUnloaded(m)
  BY <1>1, <1>4, <1>t, RestTyped DEF Killed, ReadUnloaded, Goto
<1>5. CASE BeginScan(m)
  <2> DEFINE c == Min(p.todo)
             w == Window(cursor[c], clock)
             q == pass'[m]
  <2>1. c \in Channels
    <3>1. p.todo \in SUBSET Nat /\ p.todo # {}
      BY <1>5, <1>t, <1>f, ScanAssumption DEF BeginScan, Placed
    <3> QED
      BY <1>f, <3>1, MinIsLeast
  <2>2. UNCHANGED <<stored, cursor, newest>> /\ q.ch = c /\ q.now = clock /\ q.since = w.since
    BY <1>5, <1>t DEF BeginScan, Goto
  <2>3. q \in PassType
    BY DEF Typed, TypeOK, PassType
  <2>4. \/ w.since >= clock - InitialSpan
        \/ cursor[c].success # None /\ clock - cursor[c].success <= CatchupGap
    <3>1. cursor[c] \in CursorType
      BY <1>t, <2>1
    <3> QED
      BY <1>t, <3>1, WindowRecent
  <2>8. cursor[c].success \in Int
    BY <1>t, <2>1 DEF CursorType, Ticks, None
  <2> HIDE DEF c, w, q
  <2>5. Bounded(q)
    <3>1. CASE w.since >= clock - InitialSpan
      BY <2>2, <3>1 DEF Bounded
    <3>2. CASE clock - cursor[c].success <= CatchupGap
      <4>1. ASSUME NEW j \in 1 .. Len(posted[c]), posted[c][j] < clock - CatchupGap
            PROVE  Accounted(c, j)
        <5>1. posted[c][j] < cursor[c].success
          BY <1>t, <2>1, <2>8, <3>2, <4>1, DatesAreInt, ScanAssumption
        <5> QED
          BY <2>1, <5>1 DEF Recent
      <4> QED
        BY <2>2, <4>1 DEF Bounded
    <3> QED
      BY <2>4, <3>1, <3>2
  <2>6. Grows
    BY <1>t, <1>u, <2>2 DEF Grows
  <2>7. \A n \in Monitors : pass'[n].at \in {"read", "file"} =>
          \E x \in PassType :
            /\ x.ch \in Channels /\ x.now <= clock /\ Bounded(x)
            /\ pass'[n].ch = x.ch /\ pass'[n].now = x.now /\ pass'[n].since = x.since
    <3>1. q.ch \in Channels /\ q.now <= clock
      BY <1>t, <2>1, <2>2
    <3> QED
      BY <1>o, <2>3, <2>5, <3>1 DEF q
  <2> QED
    BY <1>t, <1>u, <2>2, <2>6, <2>7, MoveRecent
<1>6. CASE Ingest(m) \/ Download(m)
  <2>1. p.at \in {"read", "file"} /\ p.ch \in Channels
    BY <1>6, <1>t DEF Ingest, Download, Placed
  <2>2. /\ pass'[m].ch = p.ch /\ pass'[m].now = p.now /\ pass'[m].since = p.since
        /\ UNCHANGED <<cursor, newest>>
    <3>1. CASE Ingest(m)
      <4> DEFINE i == Min(Left(p.ch, p.pos, p.since))
      <4>1. pass'[m] = [p EXCEPT !.at = "file", !.pos = i] /\ UNCHANGED <<cursor, newest>>
        BY <3>1, <1>t DEF Ingest, Goto
      <4> HIDE DEF i
      <4> QED
        BY <1>t, <4>1 DEF PassType
    <3>2. CASE Download(m)
      <4>1. pass'[m] = Advanced(p, p.pos) /\ UNCHANGED <<cursor, newest>>
        BY <3>2, <1>t DEF Download, Goto
      <4> QED
        BY <1>t, <4>1 DEF PassType, Advanced
    <3> QED
      BY <1>6, <3>1, <3>2
  <2>3. \A c \in Channels : stored[c] \subseteq stored'[c]
    <3> DEFINE i == Min(Left(p.ch, p.pos, p.since))
    <3>1. stored' = stored \/ stored' = [stored EXCEPT ![p.ch] = @ \cup {i}]
      BY <1>6 DEF Ingest, Download
    <3> HIDE DEF i
    <3> QED
      BY <1>t, <2>1, <3>1
  <2>4. Grows
    BY <1>t, <1>u, <2>2, <2>3 DEF Grows
  <2>5. \A n \in Monitors : pass'[n].at \in {"read", "file"} =>
          \E x \in PassType :
            /\ x.ch \in Channels /\ x.now <= clock /\ Bounded(x)
            /\ pass'[n].ch = x.ch /\ pass'[n].now = x.now /\ pass'[n].since = x.since
    BY <1>o, <1>s, <2>1, <2>2
  <2> QED
    BY <1>t, <1>u, <2>2, <2>4, <2>5, MoveRecent
<1>7. CASE ScanEnds(m)
  <2>1. p.at = "read" /\ p.ch \in Channels /\ p.now <= clock
    BY <1>7, <1>t DEF ScanEnds, Placed
  <2>2. /\ pass'[m] = Rest(p) /\ stored' = stored
        /\ cursor' = [cursor EXCEPT ![p.ch] = Flushed(p)]
        /\ newest' = [newest EXCEPT ![p.ch] = Max({@, p.now})]
        /\ Left(p.ch, p.pos, p.since) = {}
    BY <1>7, <1>t DEF ScanEnds, Goto
  <2>3. pass'[m].at \notin {"read", "file"}
    BY <1>t, <2>2, RestTyped
  <2>4. /\ newest'[p.ch] \in Int /\ newest[p.ch] <= newest'[p.ch] /\ p.now <= newest'[p.ch]
        /\ \A d \in Channels : d # p.ch => newest'[d] = newest[d] /\ cursor'[d] = cursor[d]
        /\ cursor'[p.ch] = Flushed(p)
    <3>1. newest[p.ch] \in Int /\ newest'[p.ch] = Max({newest[p.ch], p.now})
      BY <1>t, <2>1, <2>2
    <3>2. Max({newest[p.ch], p.now}) \in {newest[p.ch], p.now}
      BY <1>f, <3>1, MaxOfTwo
    <3>3. Max({newest[p.ch], p.now}) >= newest[p.ch] /\ Max({newest[p.ch], p.now}) >= p.now
      BY <1>f, <3>1, MaxOfTwo
    <3> QED
      BY <1>t, <1>f, <2>1, <2>2, <3>1, <3>2, <3>3
  <2>5. Flushed(p).success = p.now
    BY <1>t, <2>1 DEF Flushed, CursorType
  <2>6. Grows
    <3>1. \A d \in Channels : newest'[d] \in Int /\ newest[d] <= newest'[d]
      BY <1>t, <2>4
    <3>2. posted' = posted /\ stored' = stored
      BY <1>u, <2>2
    <3> QED
      BY <3>1, <3>2 DEF Grows
  <2>7. ASSUME NEW c \in Channels, c = p.ch, NEW j \in 1 .. Len(posted[c]) PROVE Accounted(c, j)'
    <3>1. posted[c][j] \in Nat /\ InitialSpan \in Nat /\ j \in Nat
      BY DatesAreInt, ScanAssumption
    <3>2. j <= p.pos \/ posted[c][j] < p.since
      <4>1. DOMAIN posted[c] = 1 .. Len(posted[c])
        BY <1>t
      <4> QED
        BY <1>f, <2>2, <2>7, <3>1, <4>1 DEF Left
    <3>3. Behind(p, j)
      BY <2>1, <2>7, <3>2 DEF Behind
    <3>4. Honest(c, j, newest[c]) \/ TooOld(c, j, p.now)
      BY <2>1, <2>7, <3>3 DEF Covered
    <3>5. newest[c] \in Int /\ newest'[c] \in Int /\ newest[c] <= newest'[c] /\ p.now <= newest'[c]
      BY <1>t, <2>4, <2>7
    <3> QED
      BY <1>f, <1>u, <2>2, <3>1, <3>4, <3>5 DEF Accounted, Honest, TooOld
  <2>8. \A c \in Channels :
          \/ cursor'[c].success = cursor[c].success
          \/ /\ cursor'[c].success <= clock'
             /\ \A j \in 1 .. Len(posted'[c]) : Accounted(c, j)'
    BY <1>u, <2>1, <2>4, <2>5, <2>7
  <2>9. \A n \in Monitors : pass'[n].at \in {"read", "file"} =>
          \E x \in PassType :
            /\ x.ch \in Channels /\ x.now <= clock /\ Bounded(x)
            /\ pass'[n].ch = x.ch /\ pass'[n].now = x.now /\ pass'[n].since = x.since
    BY <1>o, <2>3
  <2> QED
    BY <1>t, <1>u, <2>6, <2>8, <2>9, MoveRecent
<1> QED
  BY <1>2, <1>3, <1>4, <1>5, <1>6, <1>7 DEF Work

\* If an outage is noticed no later than a message becomes too old (30 minutes and 5
\* days by default, config.py:95-100), a message too old for a pass is stored only
\* after a complete pass has left it out, never in its place
\* (determine_scan_window).
THEOREM OldMessagesAreLeftOut == CatchupGap <= InitialSpan => (Spec => OldOnlyIfLeftOut)
<1> SUFFICES ASSUME CatchupGap <= InitialSpan PROVE Spec => OldOnlyIfLeftOut
  OBVIOUS
<1> USE DEF tables, history
<1>1. Init => Recent
  <2> SUFFICES ASSUME Init PROVE Recent
    OBVIOUS
  <2>1. \A m \in Monitors : pass[m].at = "idle"
    BY DEF Init, Idle
  <2>2. ASSUME NEW c \in Channels, NEW j \in 1 .. Len(posted[c])
        PROVE  ~(posted[c][j] < cursor[c].success)
    <3>1. posted[c][j] \in Nat
      BY InitTyped, DatesAreInt
    <3> QED
      BY <3>1 DEF Init, NewCursor, None
  <2>3. \A c \in Channels : cursor[c].success <= clock
    BY ScanAssumption DEF Init, NewCursor, None
  <2> QED
    BY <2>1, <2>2, <2>3 DEF Recent
<1>2. Typed /\ Typed' /\ Covered /\ Recent /\ [Next]_vars => Recent'
  BY WorldRecent, WorkRecent DEF Next
<1>3. ASSUME Typed, Typed', Recent, [Next]_vars, NEW m \in Monitors,
             pass[m].at = "read", pass'[m].at = "file", pass'[m].pos \notin stored[pass[m].ch]
      PROVE  \/ ~TooOld(pass[m].ch, pass'[m].pos, pass[m].now)
             \/ TooOld(pass[m].ch, pass'[m].pos, newest[pass[m].ch])
  <2> DEFINE p == pass[m]
             i == pass'[m].pos
  <2>t. p \in PassType /\ Placed(p, stored) /\ pass \in [Monitors -> PassType]
    BY <1>3 DEF Typed, TypeOK, PassType
  <2>1. Ingest(m)
    <3>1. PICK n \in Monitors : Work(n) \/ ScanFails(n) \/ Killed(n)
      BY <1>3 DEF Next, Tick, Post, AddChannel, EnableChannel, DisableChannel, SetStatus, vars
    <3>2. n = m
      <4>1. pass' = [pass EXCEPT ![n] = pass'[n]]
        BY <2>t, <3>1 DEF Work, StartPass, ReadUnloaded, BeginScan, Ingest, Download, ScanEnds, ScanFails, Killed, Goto
      <4> QED
        BY <1>3, <2>t, <4>1
    <3>3. Rest(p).at # "file" /\ Idle.at # "file"
      BY <2>t, RestTyped
    <3>4. ~ScanEnds(m) /\ ~ScanFails(m) /\ ~Killed(m)
      BY <1>3, <2>t, <3>3 DEF ScanEnds, ScanFails, Killed, Goto
    <3>5. ~StartPass(m) /\ ~ReadUnloaded(m) /\ ~BeginScan(m) /\ ~Download(m)
      BY <1>3 DEF StartPass, ReadUnloaded, BeginScan, Download
    <3> QED
      BY <3>1, <3>2, <3>4, <3>5 DEF Work
  <2>2. p.ch \in Channels /\ p.pos \in Nat /\ p.since \in Int /\ p.now \in Int
    BY <1>3, <2>t DEF Placed, PassType, Ticks
  <2>3. i = Min(Left(p.ch, p.pos, p.since)) /\ Left(p.ch, p.pos, p.since) # {}
    BY <2>1, <2>t DEF Ingest, Goto, PassType
  <2>4. i \in 1 .. Len(posted[p.ch]) /\ posted[p.ch][i] >= p.since
    BY <1>3, <2>2, <2>3, LeftOver
  <2>5. posted[p.ch][i] \in Nat /\ InitialSpan \in Nat /\ CatchupGap \in Nat
    BY <1>3, <2>2, <2>4, DatesAreInt, ScanAssumption
  <2>6. Bounded(p)
    BY <1>3 DEF Recent
  <2> HIDE DEF p, i
  <2>7. CASE p.since >= p.now - InitialSpan
    <3>1. ~TooOld(p.ch, i, p.now)
      BY <2>2, <2>4, <2>5, <2>7 DEF TooOld
    <3> QED
      BY <3>1 DEF p, i
  <2>8. CASE \A j \in 1 .. Len(posted[p.ch]) :
               posted[p.ch][j] < p.now - CatchupGap => Accounted(p.ch, j)
    <3>1. ASSUME TooOld(p.ch, i, p.now) PROVE Accounted(p.ch, i)
      BY <2>2, <2>4, <2>5, <2>8, <3>1 DEF TooOld
    <3>2. i \notin stored[p.ch]
      BY <1>3 DEF p, i
    <3>3. ~TooOld(p.ch, i, p.now) \/ TooOld(p.ch, i, newest[p.ch])
      BY <3>1, <3>2 DEF Accounted
    <3> QED
      BY <3>3 DEF p, i
  <2> QED
    BY <2>6, <2>7, <2>8 DEF Bounded
<1>4. Typed /\ Typed' /\ Recent /\ [Next]_vars =>
        [\A m \in Monitors :
           LET p == pass[m]
               i == pass'[m].pos
           IN p.at = "read" /\ pass'[m].at = "file" /\ i \notin stored[p.ch]
                => ~TooOld(p.ch, i, p.now) \/ TooOld(p.ch, i, newest[p.ch])]_vars
  BY <1>3
<1> QED
  BY <1>1, <1>2, <1>4, ScanTyped, AlwaysCovered, PTL DEF Spec, OldOnlyIfLeftOut
===============================================================================
