------------------------------- MODULE SlotPool -------------------------------
(***************************************************************************)
(* What app/instagram/daily_limit_guard.py promises its callers, without   *)
(* the counter it is built on: every slot of a day's maximum belongs to    *)
(* one publication, which holds it while it runs, keeps it for good once   *)
(* it is confirmed, and otherwise gives it back.  The promise is stated    *)
(* over the identities of the owners; the code keeps only their number     *)
(* (daily_limits.published_count), and Publisher and Stories are shown to  *)
(* implement this module with that number alone.                           *)
(*                                                                         *)
(* A bucket is one row of daily_limits: a date and a content type.         *)
(***************************************************************************)
EXTENDS Integers, FiniteSets

CONSTANTS
  Posts,      \* publications that may ask for a slot
  Buckets,    \* rows of daily_limits
  BucketOf,   \* the row a publication is counted in
  Limits      \* the values max_allowed may be set to

VARIABLES
  limit,      \* limit[b]: max_allowed of b
  holders,    \* publications under way that own a slot
  confirmed,  \* publications confirmed by Instagram
  orphaned    \* publications whose process died while they owned a slot

poolVars == <<limit, holders, confirmed, orphaned>>

Owners == holders \cup confirmed \cup orphaned

\* The slots of row b that are in use.
Taken(b) == {p \in Owners : BucketOf[p] = b}

PoolInit ==
  /\ limit \in [Buckets -> Limits]
  /\ holders = {}
  /\ confirmed = {}
  /\ orphaned = {}

\* reserve_slot returning True: there is room, and p owns nothing yet.
TakeSlot(p) ==
  /\ p \notin Owners
  /\ Cardinality(Taken(BucketOf[p])) < limit[BucketOf[p]]
  /\ holders' = holders \cup {p}
  /\ UNCHANGED <<limit, confirmed, orphaned>>

\* release_slot: only a publication that did not succeed gives its slot back.
GiveBack(p) ==
  /\ p \in holders
  /\ holders' = holders \ {p}
  /\ UNCHANGED <<limit, confirmed, orphaned>>

\* "leave it consumed only on confirmed success"
Keep(p) ==
  /\ p \in holders
  /\ holders' = holders \ {p}
  /\ confirmed' = confirmed \cup {p}
  /\ UNCHANGED <<limit, orphaned>>

\* The process that held the slot died: nobody will give it back.
Orphan(p) ==
  /\ p \in holders
  /\ holders' = holders \ {p}
  /\ orphaned' = orphaned \cup {p}
  /\ UNCHANGED <<limit, confirmed>>

\* The owner changes the maximum, at any time and to any value.
Resize(b, n) ==
  /\ limit' = [limit EXCEPT ![b] = n]
  /\ UNCHANGED <<holders, confirmed, orphaned>>

PoolNext ==
  \/ \E p \in Posts : TakeSlot(p) \/ GiveBack(p) \/ Keep(p) \/ Orphan(p)
  \/ \E b \in Buckets, n \in Limits : Resize(b, n)

PoolSpec == PoolInit /\ [][PoolNext]_poolVars
===============================================================================
