------------------------------- MODULE MCStories -------------------------------
(* Instances of Stories for TLC. *)
EXTENDS Stories

CONSTANTS worker, runner
===============================================================================
