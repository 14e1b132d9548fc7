------------------------------ MODULE MCPipeline ------------------------------
(* Instances of Pipeline for TLC. *)
EXTENDS Pipeline

\* The choices the owner can make, one product each; the third has none.
Preferences == [r \in Products |-> IF r = 1 THEN "POST" ELSE IF r = 2 THEN "REEL" ELSE "NULL"]
PostsOnly == [r \in Products |-> "POST"]
Videos    == [r \in Products |-> r = 2]
Equal     == [r \in Products |-> 0]
===============================================================================
