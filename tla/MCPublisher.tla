----------------------------- MODULE MCPublisher -----------------------------
(* Instances of Publisher for TLC. *)
EXTENDS Publisher

CONSTANTS r1, r2, b1, b2

\* Two products that compete for one day's limit.
TwoProducts == [p \in Posts |-> IF p = 1 THEN r1 ELSE r2]
OneBucket   == [p \in Posts |-> b1]

\* One product, scheduled for two days.
OneProduct == [p \in Posts |-> r1]
TwoBuckets == [p \in Posts |-> IF p = 1 THEN b1 ELSE b2]

\* Posts only, no reels.
OneType == [b \in Buckets |-> "POST"]

===============================================================================
