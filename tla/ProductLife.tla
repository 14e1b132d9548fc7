------------------------------ MODULE ProductLife ------------------------------
(***************************************************************************)
(* What the queue, the scheduler, the publisher and the operations of the  *)
(* dashboard do to one product between them, without the steps in which    *)
(* they read and write: an open product gets one booking, a row of         *)
(* scheduled_posts, which is published, fails or is dropped; the owner may *)
(* reopen the same booking after a failure, and what is published stays    *)
(* published.  In the scheduled job Pipeline is shown to implement this.   *)
(***************************************************************************)
CONSTANTS
  Products,  \* ids of products
  Rows,      \* rows of scheduled_posts, by idempotency_key
  Owner      \* the product a row is for

Stages == {"OPEN", "SCHEDULED", "PUBLISHED", "FAILED", "SKIPPED"}

VARIABLES
  stage,    \* products.status; OPEN stands for ELIGIBLE and QUEUED
  booking   \* the rows of a product that may be, or have been, published

lifeVars == <<stage, booking>>

LifeInit ==
  /\ stage = [r \in Products |-> "OPEN"]
  /\ booking = [r \in Products |-> {}]

\* run_scheduler, schedule and publish_now: one row, for a product that has none.
Book(r, k) ==
  /\ stage[r] = "OPEN"
  /\ Owner[k] = r
  /\ stage' = [stage EXCEPT ![r] = "SCHEDULED"]
  /\ booking' = [booking EXCEPT ![r] = {k}]

\* publish_scheduled_post, with either end.
Finish(r, end) ==
  /\ stage[r] = "SCHEDULED"
  /\ end \in {"PUBLISHED", "FAILED"}
  /\ stage' = [stage EXCEPT ![r] = end]
  /\ UNCHANGED booking

\* skip: the booking is cancelled, unless it had failed before.
Drop(r) ==
  /\ stage[r] \in {"OPEN", "SCHEDULED", "FAILED"}
  /\ stage' = [stage EXCEPT ![r] = "SKIPPED"]
  /\ booking' = [booking EXCEPT ![r] = IF stage[r] = "FAILED" THEN @ ELSE {}]

\* retry_failed: the booking that failed, at its same slot.
Reopen(r) ==
  /\ stage[r] \in {"FAILED", "SKIPPED"}
  /\ booking[r] # {}
  /\ stage' = [stage EXCEPT ![r] = "SCHEDULED"]
  /\ UNCHANGED booking

LifeNext ==
  \E r \in Products :
    \/ \E k \in Rows : Book(r, k)
    \/ \E end \in Stages : Finish(r, end)
    \/ Drop(r)
    \/ Reopen(r)

LifeSpec == LifeInit /\ [][LifeNext]_lifeVars
===============================================================================
