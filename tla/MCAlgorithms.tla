------------------------------ MODULE MCAlgorithms ------------------------------
(* Instances of Captions and of BestTimes for TLC.  The two share no state: one *)
(* run explores both, each while the other has not begun.                        *)
EXTENDS Captions, BestTimes

CONSTANTS worker, hand

MCInit == Init /\ NothingPublished

MCNext ==
  \/ Next /\ hour = <<>> /\ UNCHANGED reportVars
  \/ Gather /\ status = "NONE" /\ UNCHANGED vars

MCSpec == MCInit /\ [][MCNext]_<<vars, reportVars>>

\* "offer" contains "off"; one code contains a currency, another a claim; "dk" is a
\* unit for the parser that the validator does not list, "dinar" one it lists and
\* the parser takes for ambiguous.
Lexicon ==
  [kd |-> {"kd"}, dk |-> {}, dinar |-> {"dinar"}, price |-> {"price"}, only |-> {},
   off |-> {"off"}, offer |-> {"off"}, new |-> {"new"}, bag |-> {}, ref |-> {},
   QWRTPLMN |-> {}, AKDQQWPT |-> {"kd"}, PTOFFQWM |-> {"off"}]

ParserUnits == <<"dk", "kd">>

\* Decimal writes 12.50 and 12.500 as 12.5; neither contains that.
Written  == {"7", "30", "40", "12.50", "12.500"}
Spelled  == Written \cup {"12", "50", "500", "12.5"}
Decimals == [n \in Written |-> IF n \in {"12.50", "12.500"} THEN "12.5" ELSE n]
Found    == [n \in Written |->
  CASE n = "12.50" -> {n, "12", "50"} [] n = "12.500" -> {n, "12", "500"} [] OTHER -> {n}]

Merchant ==
  {<<"bag", "40", "kd", "30", "kd">>, <<"bag", "40", "dk", "30", "dk">>,
   <<"bag", "7", "price", "only", "30", "kd">>, <<"offer", "bag", "12.50", "dk">>,
   <<"new", "bag", "dinar", "12.500", "7">>}

Model ==
  {<<"bag">>, <<"new", "bag">>, <<"bag", "offer">>, <<"bag", "30">>, <<"bag", "12.50">>,
   <<"new", "bag", "bag", "bag">>}

Owner == {<<"new", "bag">>}
===============================================================================
