-------------------------------- MODULE MCScan --------------------------------
(* Instances of Scan for TLC. *)
EXTENDS Scan

\* Nothing yet, one message from long ago, one old and one recent.
Pasts == {<<>>, <<0>>, <<0, Start>>}
===============================================================================
