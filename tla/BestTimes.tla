-------------------------------- MODULE BestTimes --------------------------------
(***************************************************************************)
(* What the numbers say: the recommendation of an hour to publish in       *)
(* (app/analytics), from the posts and stories that went out and the       *)
(* measurements taken of them.                                             *)
(*                                                                         *)
(* A post is measured on several days, one row of analytics per day; the   *)
(* reports read only its latest row.  They change nothing, so they are     *)
(* operators over the state; the actions are what fills the tables.        *)
(* Hours are those of the time zone of the schedule; ranking the days of   *)
(* the week is the same computation.                                       *)
(***************************************************************************)
EXTENDS Integers, Sequences, FiniteSets, FiniteSetsExt

CONSTANTS
  Hours,       \* hours of a day in which something is published
  Days,        \* metric_date
  Rates,       \* engagement rates
  MinTotal,    \* MIN_TOTAL_SAMPLES
  MinPerHour,  \* MIN_SAMPLES_PER_HOUR
  MaxPosts     \* bound: posts and stories

Unusable == -1  \* a row from which no engagement can be derived

ASSUME BestTimesAssumption ==
  /\ Hours \cup Days \cup Rates \subseteq Nat
  /\ IsFiniteSet(Hours)
  /\ MinTotal \in Nat \ {0}
  /\ MinPerHour \in Nat \ {0}
  /\ MaxPosts \in Nat

VARIABLES
  hour,    \* hour[p]: when p was published
  metrics  \* metrics[p]: the rows of p, by day

reportVars == <<hour, metrics>>

NothingPublished == hour = <<>> /\ metrics = <<>>

\* In the order of the hours: the order of posts decides nothing.
GoOut(h) ==
  /\ Len(hour) < MaxPosts
  /\ hour # <<>> => h >= hour[Len(hour)]
  /\ hour' = Append(hour, h)
  /\ metrics' = Append(metrics, [d \in {} |-> Unusable])

\* The unique index admits one row of a day.
Measure(p, d, rate) ==
  /\ d \notin DOMAIN metrics[p]
  /\ metrics' = [metrics EXCEPT ![p] =
       [e \in DOMAIN @ \cup {d} |-> IF e = d THEN rate ELSE @[e]]]
  /\ UNCHANGED hour

Gather ==
  \/ \E h \in Hours : GoOut(h)
  \/ \E p \in DOMAIN hour, d \in Days, rate \in Rates \cup {Unusable} : Measure(p, d, rate)

ReportSpec == NothingPublished /\ [][Gather]_reportVars

-------------------------------------------------------------------------------
(* The report *)

\* Mutant: the first row instead of the latest.
EarliestRow(rows) == rows[Min(DOMAIN rows)]

LatestRow(rows) == rows[Max(DOMAIN rows)]

\* Posts with a sample: at least one row, and the latest is usable.
Sampled == {p \in DOMAIN hour : DOMAIN metrics[p] # {} /\ LatestRow(metrics[p]) # Unusable}

SamplesAt(h) == {p \in Sampled : hour[p] = h}

Total(h) == SumFunction([p \in SamplesAt(h) |-> LatestRow(metrics[p])])

\* The mean of hour g is above that of hour h.
Above(g, h) ==
  Total(g) * Cardinality(SamplesAt(h)) > Total(h) * Cardinality(SamplesAt(g))

RankedHours ==
  IF Cardinality(Sampled) < MinTotal THEN {}
  ELSE {h \in Hours : Cardinality(SamplesAt(h)) >= MinPerHour}

\* Empty when nothing is learned and the fallback window is returned; the order of
\* the rows chooses among equals.
BestHours == {h \in RankedHours : \A g \in RankedHours : ~Above(g, h)}

-------------------------------------------------------------------------------
(* A property *)

\* The posts of hour h whose last word, on day d of all, is a usable rate.
Speaking(h) ==
  {p \in DOMAIN hour : hour[p] = h /\
     \E d \in DOMAIN metrics[p] :
       metrics[p][d] # Unusable /\ \A e \in DOMAIN metrics[p] : e <= d}

Sum(h) ==
  SumFunction([p \in Speaking(h) |->
                 (CHOOSE row \in {<<d, metrics[p][d]>> : d \in DOMAIN metrics[p]} :
                    \A d \in DOMAIN metrics[p] : d <= row[1])[2]])

\* However often a post is measured, and in whatever order the rows arrive, it counts
\* once, with its newest row, or not at all; an hour is recommended exactly if enough
\* such posts went out in all and in that hour, and no other such hour had a higher
\* mean (analytics_service.py:23-30, best_time_engine.py:7-17).
RecommendationEarned ==
  LET enough == {h \in Hours : Cardinality(Speaking(h)) >= MinPerHour}
      all    == SumFunction([h \in Hours |-> Cardinality(Speaking(h))])
  IN  \A h \in Hours :
        h \in BestHours <=>
          /\ all >= MinTotal
          /\ h \in enough
          /\ \A g \in enough :
               Sum(g) * Cardinality(Speaking(h)) <= Sum(h) * Cardinality(Speaking(g))
===============================================================================
