------------------------------- MODULE MCIntake -------------------------------
(* Instances of Intake for TLC. *)
EXTENDS Intake

\* The two captures show one photo, or two; the scanned product is another one.
Photos ==
  {[m \in Messages |-> IF m \in Scanned THEN 0 ELSE 1], [m \in Messages |-> IF m \in Scanned THEN 0 ELSE m]}
===============================================================================
