---------------------------- MODULE CaptionsProofs ----------------------------
(***************************************************************************)
(* Proofs about Captions, for every vocabulary, text, answer and code, any *)
(* number of generators and any bounds:                                    *)
(*                                                                         *)
(*   CaptionsTyped    every column keeps its type                          *)
(*   Shown            what Instagram shows has passed the gate with this   *)
(*                    text and price, and nothing changes those later      *)
(*   Single           the unique index keeps the selected caption single   *)
(*   Validated        what was validated is refused only for what is added *)
(***************************************************************************)
EXTENDS Captions, TLAPS, FiniteSetTheorems, WellFoundedInduction

-------------------------------------------------------------------------------
(* What is on Instagram *)

\* The published text has passed the validator together with its code, against the
\* text and the price that the product still has.
Shown ==
  /\ status = "NONE" => live = NoText
  /\ price = (IF raw = NoText THEN price ELSE ExtractPrice(raw))
  /\ live # NoText =>
       /\ raw # NoText
       /\ Validate(live, raw, price, GateMinLength .. GateMaxLength)

\* Only Parse writes the text, before anything is shown, and only Publish shows.
LEMMA ShownInductive == Shown /\ [Next]_vars => Shown'
<1> SUFFICES ASSUME Shown, [Next]_vars PROVE Shown'
  OBVIOUS
<1> USE DEF source
<1>1. ASSUME NEW text \in Posts, NEW c \in Codes, Parse(text, c) PROVE Shown'
  BY <1>1 DEF Parse, Shown
<1>2. ASSUME Publish PROVE Shown'
  <2>1. UNCHANGED source /\ status' # "NONE"
    BY <1>2 DEF Publish
  <2>2. CASE UNCHANGED live
    BY <2>1, <2>2 DEF Shown, Validate, PriceLeak, UnsupportedNumbers, UnsupportedClaims
  <2>3. ASSUME NEW row \in linked, SafeToPublish(row),
               live' = BuildInstagramCaption(row.text, code)
        PROVE  Shown'
    BY <2>1, <2>3 DEF SafeToPublish, Shown, Validate, PriceLeak, UnsupportedNumbers,
       UnsupportedClaims
  <2> QED
    BY <1>2, <2>2, <2>3 DEF Publish
<1>3. ASSUME UNCHANGED <<raw, price, live>>, status' = "NONE" => status = "NONE" PROVE Shown'
  BY <1>3 DEF Shown, Validate, PriceLeak, UnsupportedNumbers, UnsupportedClaims
<1>4. ASSUME NEW c \in Codes, Capture(c) PROVE Shown'
  BY <1>4, <1>3 DEF Capture
<1>5. ASSUME NEW text \in OwnTexts, WriteCaption(text) PROVE Shown'
  BY <1>5, <1>3 DEF WriteCaption
<1>6. ASSUME NEW g \in Generators, AskModel(g) PROVE Shown'
  BY <1>6, <1>3 DEF AskModel
<1>7. ASSUME NEW g \in Generators, NEW texts, Store(g, texts) PROVE Shown'
  BY <1>7, <1>3 DEF Store
<1>8. ASSUME NEW g \in Generators, Unanswered(g) PROVE Shown'
  BY <1>8, <1>3 DEF Unanswered
<1>9. CASE Schedule \/ Claim \/ Skip \/ Retry \/ SelectForPurge \/ Purge \/ UNCHANGED vars
  BY <1>9, <1>3 DEF Schedule, Claim, Skip, Retry, SelectForPurge, Purge, vars
<1> QED
  BY <1>1, <1>2, <1>4, <1>5, <1>6, <1>7, <1>8, <1>9 DEF Next

\* Nothing is shown before the product has its text, and then only what passed.
THEOREM ShownPassed == Spec => []Shown
<1>1. Init => Shown
  BY DEF Init, Shown
<1> QED
  BY <1>1, ShownInductive, PTL DEF Spec

\* Whatever is shown is word for word in the merchant's text, as far as numbers and
\* claims go, and names no currency (validator.py:20-29, safety.py:97-107).
THEOREM NothingIsInvented == Spec => []NothingInvented
<1>1. Shown => NothingInvented
  <2> SUFFICES ASSUME Shown, live # NoText PROVE NothingInvented
    BY DEF NothingInvented
  <2>1. Validate(live, raw, price, GateMinLength .. GateMaxLength)
    BY DEF Shown
  <2> QED
    BY <2>1 DEF NothingInvented, Validate, PriceLeak, UnsupportedNumbers, UnsupportedClaims
<1> QED
  BY <1>1, ShownPassed, PTL

\* The words beside a number make it a price for the validator.
LEMMA BesideIsEvidence ==
  ASSUME NEW text, NEW i \in DOMAIN text, DOMAIN text = 1 .. Len(text), Len(text) \in Nat,
         text[i] \in Numbers,
         \/ i > 1 /\ text[i - 1] \in Currencies \cup Indicators
         \/ i > 2 /\ text[i - 1] \in Fillers /\ text[i - 2] \in Indicators
         \/ i < Len(text) /\ text[i + 1] \in Currencies
  PROVE  text[i] \in PriceEvidenced(text)
<1>1. CASE i > 1 /\ text[i - 1] \in Currencies \cup Indicators
  BY <1>1 DEF PriceEvidenced, After
<1>2. CASE i > 2 /\ text[i - 1] \in Fillers /\ text[i - 2] \in Indicators
  <2>1. i \in {j \in After(text, Fillers) : j > 2 /\ text[j - 2] \in Indicators}
    BY <1>2 DEF After
  <2> QED
    BY <2>1 DEF PriceEvidenced
<1>3. CASE i < Len(text) /\ text[i + 1] \in Currencies
  BY <1>3 DEF PriceEvidenced, Before
<1> QED
  BY <1>1, <1>2, <1>3

-------------------------------------------------------------------------------
(* Types *)

\* The rows of an answer are rows, and finitely many.
LEMMA RowsTyped ==
  ASSUME IsFiniteSet(captions), NEW texts \in SeqOf(Answers, Candidates) \ {<<>>}
  PROVE  RowsFor(texts) \subseteq Rows /\ IsFiniteSet(RowsFor(texts))
<1>1. PICK m \in 0 .. Candidates : texts \in [1 .. m -> Answers]
  BY DEF SeqOf
<1>2. m \in Nat /\ Cardinality(captions) \in Nat
  BY FS_CardinalityType, CaptionsAssumption
<1> DEFINE row(i) == [text |-> texts[i], version |-> Cardinality(captions) + i,
                      selected |-> i = Chosen(texts), passed |-> Passes(texts[i])]
           f == [i \in 1 .. m |-> row(i)]
<1>3. RowsFor(texts) = {row(i) : i \in 1 .. m}
  BY <1>1 DEF RowsFor
<1>4. ASSUME NEW i \in 1 .. m PROVE row(i) \in Rows
  <2>1. Passes(texts[i]) \in BOOLEAN
    BY DEF Passes, Validate
  <2>2. texts[i] \in Texts
    BY <1>1 DEF Texts
  <2> QED
    BY <1>2, <2>1, <2>2 DEF Rows
<1>5. f \in Surjection(1 .. m, RowsFor(texts))
  BY <1>3 DEF Surjection
<1>6. IsFiniteSet(1 .. m)
  BY <1>2, FS_Interval
<1> QED
  BY <1>3, <1>4, <1>5, <1>6, FS_Surjection

\* What is appended to a text are words.
LEMMA BuildTyped ==
  ASSUME NEW text \in Texts, NEW c \in Codes
  PROVE  /\ BuildInstagramCaption(text, c) \in Seq(Words)
         /\ ToSet(BuildInstagramCaption(text, c)) = ToSet(text) \cup {Label, c}
<1>1. text \in Seq(Words) /\ <<Label, c>> \in Seq(Words)
  BY CaptionsAssumption DEF Words
<1> QED
  BY <1>1 DEF BuildInstagramCaption, ToSet

\* A set of numbers has a smallest one.
LEMMA SmallestExists ==
  ASSUME NEW S \in SUBSET Nat, S # {}
  PROVE  LET m == CHOOSE i \in S : \A j \in S : i <= j
         IN  m \in S /\ \A j \in S : m <= j
<1> DEFINE Less == {ss \in Nat \X Nat : ss[1] < ss[2]}
<1>1. IsWellFoundedOn(Less, Nat)
  BY NatLessThanWellFounded DEF OpToRel
<1>2. PICK x \in S : \A y \in S : ~ (<<y, x>> \in Less)
  <2> HIDE DEF Less
  <2> QED
    BY <1>1, WFMin
<1>3. ASSUME NEW y \in S PROVE x <= y
  <2>1. <<y, x>> \notin Less
    BY <1>2
  <2>2. x \in Nat /\ y \in Nat
    OBVIOUS
  <2>3. ~ (y < x)
    BY <2>1, <2>2
  <2> QED
    BY <2>2, <2>3
<1> QED
  BY <1>3

\* The price of a text is one of its numbers.
LEMMA PriceTyped ==
  ASSUME NEW text \in Posts
  PROVE  ExtractPrice(text) \in Numbers \cup {NoPrice}
<1> DEFINE first(is) == CHOOSE i \in is : \A j \in is : i <= j
           found == {k \in DOMAIN Units : Amounts(text, Units[k]) # {}}
<1>1. text \in Seq(Words)
  BY CaptionsAssumption DEF Texts
<1>2. ASSUME NEW unit PROVE Amounts(text, unit) \in SUBSET Nat /\
                            \A i \in Amounts(text, unit) : text[i] \in Numbers
  BY <1>1 DEF Amounts, Before, After
<1>3. found \in SUBSET Nat
  BY CaptionsAssumption
<1>4. CASE found = {}
  BY <1>4 DEF ExtractPrice
<1>5. CASE found # {}
  <2>1. first(found) \in found
    <3> HIDE DEF found
    <3> QED
      BY <1>3, <1>5, SmallestExists
  <2> DEFINE unit == Units[first(found)]
  <2>2. Amounts(text, unit) # {}
    BY <2>1
  <2>3. first(Amounts(text, unit)) \in Amounts(text, unit)
    <3> HIDE DEF unit
    <3> QED
      BY <1>2, <2>2, SmallestExists
  <2>4. text[first(Amounts(text, unit))] \in Numbers
    BY <1>2, <2>3
  <2> QED
    BY <1>5, <2>4 DEF ExtractPrice
<1> QED
  BY <1>4, <1>5

\* A product is there before anybody writes about it.
Typed ==
  /\ TypeOK
  /\ IsFiniteSet(captions)
  /\ status = "NONE" => ~ manual /\ asked = {} /\ captions = {} /\ post = "NONE"

\* Every step keeps the types.
LEMMA NextTyped == Typed /\ [Next]_vars => Typed'
<1> SUFFICES ASSUME Typed, [Next]_vars PROVE Typed'
  OBVIOUS
<1> USE CaptionsAssumption DEF Typed, TypeOK, ProductStatus, PostStatus, source, owner
<1>1. ASSUME NEW text \in Posts, NEW c \in Codes, Parse(text, c) PROVE Typed'
  BY <1>1, PriceTyped DEF Parse
<1>2. ASSUME NEW c \in Codes, Capture(c) PROVE Typed'
  BY <1>2 DEF Capture
<1>3. ASSUME NEW text \in OwnTexts, WriteCaption(text) PROVE Typed'
  <2> DEFINE row == [text |-> text, version |-> 1, selected |-> TRUE, passed |-> TRUE]
  <2>1. row \in Rows
    BY DEF Rows, Texts
  <2>2. IsFiniteSet(captions \cup {row})
    BY FS_AddElement
  <2>3. status # "NONE" /\ code \in Codes
    BY <1>3 DEF WriteCaption
  <2> QED
    BY <1>3, <2>1, <2>2, <2>3 DEF WriteCaption
<1>4. ASSUME NEW g \in Generators, AskModel(g) PROVE Typed'
  BY <1>4 DEF AskModel
<1>5. ASSUME NEW g \in Generators, NEW texts \in SeqOf(Answers, Candidates) \ {<<>>},
             Store(g, texts)
      PROVE  Typed'
  <2>1. RowsFor(texts) \subseteq Rows /\ IsFiniteSet(captions \cup RowsFor(texts))
    BY RowsTyped, FS_Union
  <2>2. status # "NONE" /\ code \in Codes
    BY <1>5 DEF Store
  <2>3. (captions \cup RowsFor(texts)) \subseteq Rows
    BY <2>1
  <2> HIDE DEF Typed
  <2>4. /\ captions' \in {captions, captions \cup RowsFor(texts)}
        /\ status' \in {status, "VALIDATED"}
        /\ asked' \subseteq asked
        /\ UNCHANGED <<source, post, linked, owner, live, runs>>
    BY <1>5 DEF Store
  <2> QED
    BY <2>1, <2>2, <2>3, <2>4 DEF Typed
<1>6. ASSUME NEW g \in Generators, Unanswered(g) PROVE Typed'
  BY <1>6 DEF Unanswered
<1>7. ASSUME Publish PROVE Typed'
  <2>1. status # "NONE" /\ code \in Codes
    BY <1>7 DEF Publish
  <2>2. ASSUME NEW row \in linked PROVE BuildInstagramCaption(row.text, code) \in Seq(Words)
    <3>1. row.text \in Texts
      BY DEF Rows
    <3> QED
      BY <2>1, <3>1, BuildTyped
  <2>3. live' \in Seq(Words) /\ status' \in {"PUBLISHED", "FAILED"} /\ post' \in PostStatus
    BY <1>7, <2>2 DEF Publish
  <2> QED
    BY <1>7, <2>1, <2>3 DEF Publish
<1>8. CASE Schedule
  <2>1. Selected \subseteq captions
    BY DEF Selected
  <2> QED
    BY <1>8, <2>1 DEF Schedule
<1>9. CASE Claim
  BY <1>9 DEF Claim
<1>10. CASE Skip
  BY <1>10 DEF Skip
<1>11. CASE Retry
  <2>1. status # "NONE"
    BY <1>11 DEF Retry
  <2> QED
    BY <1>11, <2>1 DEF Retry
<1>12. CASE SelectForPurge
  BY <1>12 DEF SelectForPurge
<1>13. CASE Purge
  BY <1>13, FS_EmptySet DEF Purge
<1>14. CASE UNCHANGED vars
  BY <1>14 DEF vars
<1> QED
  BY <1>1, <1>2, <1>3, <1>4, <1>5, <1>6, <1>7, <1>8, <1>9, <1>10, <1>11, <1>12, <1>13,
     <1>14 DEF Next

\* Every column keeps its type, and a product its code (TypeOK).
THEOREM CaptionsTyped == Spec => []Typed
<1>1. Init => Typed
  <2>1. <<>> \in Seq(Words) /\ 0 \in 0 .. MaxRuns
    BY CaptionsAssumption
  <2> QED
    BY <2>1, FS_EmptySet DEF Init, Typed, TypeOK, NoText, ProductStatus, PostStatus
<1> QED
  BY <1>1, NextTyped, PTL DEF Spec

\* The column types alone, as the run checks them.
THEOREM CaptionsTypeOK == Spec => []TypeOK
<1>1. Typed => TypeOK
  BY DEF Typed
<1> QED
  BY <1>1, CaptionsTyped, PTL

-------------------------------------------------------------------------------
(* The price *)

\* No number that stands in the merchant's text as a price is ever shown, in its own
\* spelling or in that of its value (validator.py:13-20, 106-132): it is evidence for the
\* validator, whatever the parser made of it, and the gate has seen the text with its code.
\* The parser's price is not shown in the spelling of its value.
THEOREM PriceStaysHidden == Spec => []PriceHidden
<1>1. Shown /\ Typed => PriceHidden
  <2> SUFFICES ASSUME Shown, Typed PROVE PriceHidden
    OBVIOUS
  <2>1. CASE live = NoText
    BY <2>1 DEF PriceHidden, ShownBy, NumbersOf, ToSet, NoText
  <2>2. CASE live # NoText
    <3>1. ShownBy(live) \cap Banned(raw, price) = {}
      BY <2>2 DEF Shown, Validate, PriceLeak
    <3>2. raw \in Seq(Words) /\ price = ExtractPrice(raw)
      BY <2>2, CaptionsAssumption DEF Shown, Typed, TypeOK, Texts
    <3>3. DOMAIN raw = 1 .. Len(raw) /\ Len(raw) \in Nat
      BY <3>2
    <3>4. ASSUME NEW i \in DOMAIN raw, raw[i] \in Numbers, raw[i] \in PriceEvidenced(raw)
          PROVE  {raw[i], Canonical[raw[i]]} \cap ShownBy(live) = {}
      BY <3>1, <3>4 DEF Banned
    <3>5. ASSUME NEW i \in DOMAIN raw, raw[i] \in Numbers,
                 {raw[i], Canonical[raw[i]]} \cap ShownBy(live) # {}
          PROVE  /\ i > 1 => raw[i - 1] \notin Currencies \cup Indicators
                 /\ i > 2 /\ raw[i - 1] \in Fillers => raw[i - 2] \notin Indicators
                 /\ i < Len(raw) => raw[i + 1] \notin Currencies
      <4>1. raw[i] \notin PriceEvidenced(raw)
        BY <3>4, <3>5
      <4> QED
        BY <3>3, <3>5, <4>1, BesideIsEvidence
    <3>6. ExtractPrice(raw) # NoPrice => Canonical[ExtractPrice(raw)] \notin ShownBy(live)
      BY <3>1, <3>2 DEF Banned
    <3> QED
      BY <3>5, <3>6 DEF PriceHidden
  <2> QED
    BY <2>1, <2>2
<1> QED
  BY <1>1, ShownPassed, CaptionsTyped, PTL

-------------------------------------------------------------------------------
(* One caption *)

\* At most one caption is chosen from an answer, and it has passed.
LEMMA ChosenIsOne ==
  ASSUME NEW texts \in SeqOf(Answers, Candidates) \ {<<>>}
  PROVE  \/ Chosen(texts) = 0 /\ \A row \in RowsFor(texts) : ~ row.selected
         \/ /\ Chosen(texts) > 0
            /\ \E r \in RowsFor(texts) :
                 r.selected /\ r.passed /\ \A row \in RowsFor(texts) : row.selected => row = r
<1>1. PICK m \in 0 .. Candidates : texts \in [1 .. m -> Answers]
  BY DEF SeqOf
<1>2. m \in Nat /\ DOMAIN texts = 1 .. m /\ Len(texts) = m
  BY <1>1, CaptionsAssumption
<1> DEFINE good == {i \in 1 .. Len(texts) : Passes(texts[i])}
           R(i) == [text |-> texts[i], version |-> Cardinality(captions) + i,
                    selected |-> i = Chosen(texts), passed |-> Passes(texts[i])]
<1>3. RowsFor(texts) = {R(i) : i \in 1 .. m}
  BY <1>2 DEF RowsFor
<1>4. \A i \in 1 .. m : R(i).selected <=> i = Chosen(texts)
  OBVIOUS
<1>5. \A i \in 1 .. m : R(i).passed <=> Passes(texts[i])
  OBVIOUS
<1>6. CASE good = {}
  <2>1. Chosen(texts) = 0
    BY <1>6 DEF Chosen, SelectInSeq
  <2> HIDE DEF R
  <2>2. \A i \in 1 .. m : ~ R(i).selected
    BY <2>1, <1>2, <1>4
  <2> QED
    BY <1>3, <2>1, <2>2
<1>7. CASE good # {}
  <2>1. good \in SUBSET Nat
    BY <1>2
  <2>2. Chosen(texts) = CHOOSE i \in good : \A j \in good : i <= j
    BY <1>7 DEF Chosen, SelectInSeq, Min
  <2>3. Chosen(texts) \in good
    <3> HIDE DEF good
    <3> QED
      BY <1>7, <2>1, <2>2, SmallestExists
  <2> DEFINE c == Chosen(texts)
  <2>4. c \in 1 .. m /\ Passes(texts[c]) /\ c > 0
    BY <1>2, <2>3
  <2> HIDE DEF R, c
  <2>5. c = Chosen(texts)
    BY DEF c
  <2>6. R(c) \in RowsFor(texts) /\ R(c).selected /\ R(c).passed
    BY <1>3, <1>4, <1>5, <2>4, <2>5
  <2>7. ASSUME NEW row \in RowsFor(texts), row.selected PROVE row = R(c)
    <3>1. PICK i \in 1 .. m : row = R(i)
      BY <1>3
    <3> QED
      BY <1>4, <2>5, <2>7, <3>1
  <2> QED
    BY <2>4, <2>5, <2>6, <2>7
<1> QED
  BY <1>6, <1>7

\* OneCaption without counting.
Single ==
  /\ \A r, s \in Selected : r = s
  /\ \A r \in Selected : r.passed
  /\ linked \subseteq Selected

\* Two different selected rows are a conflict.
LEMMA TwoConflict ==
  ASSUME NEW r, NEW s, NEW rows, IsFiniteSet(captions \cup rows),
         r \in captions \cup rows, s \in captions \cup rows, r.selected, s.selected, r # s
  PROVE  Conflict(rows)
<1> DEFINE T == {row \in captions \cup rows : row.selected}
<1>1. IsFiniteSet(T) /\ Cardinality(T) \in Nat
  BY FS_Subset, FS_CardinalityType
<1>2. {r, s} \subseteq T
  OBVIOUS
<1>3. Cardinality({r, s}) = 2
  <2>1. IsFiniteSet({r}) /\ Cardinality({r}) = 1
    BY FS_Singleton
  <2> DEFINE R == {r}
  <2>2. s \notin R /\ IsFiniteSet(R) /\ Cardinality(R) = 1
    BY <2>1
  <2> HIDE DEF R
  <2>4. Cardinality(R \cup {s}) = 1 + 1
    BY <2>2, FS_AddElement
  <2>3. {r} \cup {s} = {r, s}
    OBVIOUS
  <2> QED
    BY <2>3, <2>4 DEF R
<1>4. Cardinality({r, s}) <= Cardinality(T)
  BY <1>1, <1>2, FS_Subset
<1> QED
  BY <1>1, <1>3, <1>4 DEF Conflict

\* The answer of a late generator is refused by the index, or selects nothing.
LEMMA StoreSingle ==
  ASSUME Typed, Single, NEW g \in Generators,
         NEW texts \in SeqOf(Answers, Candidates) \ {<<>>}, Store(g, texts)
  PROVE  Single'
<1> DEFINE rows == RowsFor(texts)
<1>1. linked' = linked
  BY DEF Store
<1>2. IsFiniteSet(captions \cup rows)
  BY RowsTyped, FS_Union DEF Typed
<1>3. CASE Conflict(rows)
  BY <1>1, <1>3 DEF Store, Single, Selected
<1>4. CASE ~ Conflict(rows)
  <2>1. captions' = captions \cup rows
    BY <1>4 DEF Store
  <2>2. \A r, s \in Selected' : r = s
    BY <1>2, <1>4, <2>1, TwoConflict DEF Selected
  <2>3. \A r \in rows : r.selected => r.passed
    BY ChosenIsOne
  <2>4. \A r \in Selected' : r.passed
    BY <2>1, <2>3 DEF Single, Selected
  <2>5. linked' \subseteq Selected'
    BY <1>1, <2>1 DEF Single, Selected
  <2> QED
    BY <2>2, <2>4, <2>5 DEF Single
<1> QED
  BY <1>3, <1>4

\* Every step keeps the selected caption single.
LEMMA NextSingle == Typed /\ Single /\ [Next]_vars => Single'
<1> SUFFICES ASSUME Typed, Single, [Next]_vars PROVE Single'
  OBVIOUS
<1>1. ASSUME UNCHANGED captions, linked' \subseteq linked \cup Selected PROVE Single'
  BY <1>1 DEF Single, Selected
<1>2. ASSUME NEW text \in Posts, NEW c \in Codes, Parse(text, c) PROVE Single'
  BY <1>1, <1>2 DEF Parse
<1>3. ASSUME NEW c \in Codes, Capture(c) PROVE Single'
  BY <1>1, <1>3 DEF Capture
<1>4. ASSUME NEW text \in OwnTexts, WriteCaption(text) PROVE Single'
  <2> DEFINE row == [text |-> text, version |-> 1, selected |-> TRUE, passed |-> TRUE]
  <2>1. Selected' = {row} /\ row.passed /\ linked' = linked /\ Selected = {}
    BY <1>4 DEF WriteCaption, Selected
  <2> QED
    BY <2>1 DEF Single
<1>5. ASSUME NEW g \in Generators, AskModel(g) PROVE Single'
  BY <1>1, <1>5 DEF AskModel
<1>6. ASSUME NEW g \in Generators, NEW texts \in SeqOf(Answers, Candidates) \ {<<>>},
             Store(g, texts)
      PROVE  Single'
  BY <1>6, StoreSingle
<1>7. ASSUME NEW g \in Generators, Unanswered(g) PROVE Single'
  BY <1>1, <1>7 DEF Unanswered
<1>8. CASE Schedule \/ Claim \/ Publish \/ Skip \/ Retry \/ SelectForPurge \/ UNCHANGED vars
  BY <1>1, <1>8 DEF Schedule, Claim, Publish, Skip, Retry, SelectForPurge, vars
<1>9. CASE Purge
  BY <1>9 DEF Purge, Single, Selected
<1> QED
  BY <1>2, <1>3, <1>4, <1>5, <1>6, <1>7, <1>8, <1>9 DEF Next

\* The invariant the next theorems rest on.
LEMMA AlwaysSingle == Spec => []Single
<1>1. Init => Single
  BY DEF Init, Single, Selected
<1> QED
  BY <1>1, NextSingle, CaptionsTyped, PTL DEF Spec

\* A product never has two selected captions, the one it has passed, and its post is
\* published with no other, however many generators wait for answers about it and
\* whatever retention deletes (caption_service.py:126-155, bot.py:187-196,
\* retention.py:107-112, captions' unique index).
THEOREM OneCaptionOnly == Spec => []OneCaption
<1>1. Single => OneCaption
  <2> SUFFICES ASSUME Single PROVE Cardinality(Selected) <= 1
    BY DEF Single, OneCaption
  <2>1. CASE Selected = {}
    BY <2>1, FS_EmptySet
  <2>2. CASE Selected # {}
    <3>1. PICK r : Selected = {r}
      BY <2>2 DEF Single
    <3>2. Cardinality({r}) = 1
      BY FS_Singleton
    <3> QED
      BY <3>1, <3>2
  <2> QED
    BY <2>1, <2>2
<1> QED
  BY <1>1, AlwaysSingle, PTL

-------------------------------------------------------------------------------
(* Refusals at the gate *)

Judged(text) == /\ ~ PriceLeak(text, raw, price)
                /\ UnsupportedNumbers(text, raw) = {}
                /\ UnsupportedClaims(text, raw) = {}

\* A scanned product has its text, and its selected caption has been validated
\* against it; a skip cancels a post or is remembered; a refusal is explained.
Validated ==
  /\ status # "NONE" /\ ~ manual => raw # NoText
  /\ ~ manual => \A row \in Selected : Judged(row.text)
  /\ status = "SKIPPED" => post # "SCHEDULED" /\ (post = "PROCESSING" => skipped)
  /\ status = "FAILED" => post = "FAILED"
  /\ RefusalExplained

\* The code and its label add keywords, but no number.
LEMMA BuildJudged ==
  ASSUME NEW text \in Texts, NEW c \in Codes, Judged(text),
         Spells[Label] \cup Spells[c] \subseteq KeywordsOf(raw) \ Currencies
  PROVE  Judged(BuildInstagramCaption(text, c))
<1> DEFINE new == BuildInstagramCaption(text, c)
<1>1. ToSet(new) = ToSet(text) \cup {Label, c}
  BY BuildTyped
<1>2. Label \in DOMAIN Spells /\ c \in DOMAIN Spells
  BY CaptionsAssumption
<1>3. NumbersOf(new) = NumbersOf(text)
  BY <1>1, <1>2, CaptionsAssumption DEF NumbersOf
<1>4. KeywordsOf(new) \subseteq KeywordsOf(text) \cup Spells[Label] \cup Spells[c]
  BY <1>1 DEF KeywordsOf
<1> HIDE DEF new
<1>5. ~ PriceLeak(new, raw, price)
  <2>1. KeywordsOf(new) \cap Currencies = {}
    BY <1>4 DEF Judged, PriceLeak
  <2>2. ShownBy(new) \cap Banned(raw, price) = {}
    BY <1>3 DEF Judged, PriceLeak, ShownBy
  <2> QED
    BY <2>1, <2>2 DEF PriceLeak
<1>6. UnsupportedNumbers(new, raw) = {}
  BY <1>3 DEF Judged, UnsupportedNumbers
<1>7. UnsupportedClaims(new, raw) = {}
  BY <1>4 DEF Judged, UnsupportedClaims
<1> QED
  BY <1>5, <1>6, <1>7 DEF Judged, new

\* What the gate refuses of a validated caption is what it adds itself.
LEMMA RefusalIsExplained ==
  ASSUME Typed, Validated, NEW row \in Selected, row.passed,
         ~ SafeToPublish(row), ~ manual, status # "NONE", status # "SKIPPED"
  PROVE  \/ ~ (Spells[Label] \cup Spells[code] \subseteq KeywordsOf(raw) \ Currencies)
         \/ {Len(row.text), Len(BuildInstagramCaption(row.text, code))}
              \ (GateMinLength .. GateMaxLength) # {}
<1> SUFFICES ASSUME Spells[Label] \cup Spells[code] \subseteq KeywordsOf(raw) \ Currencies,
                    {Len(row.text), Len(BuildInstagramCaption(row.text, code))}
                      \ (GateMinLength .. GateMaxLength) = {}
             PROVE  FALSE
  OBVIOUS
<1>1. row.text \in Texts /\ row.selected /\ code \in Codes
  BY DEF Typed, TypeOK, Selected, Rows
<1>2. Judged(row.text) /\ raw # NoText
  BY DEF Validated
<1>3. Judged(BuildInstagramCaption(row.text, code))
  BY <1>1, <1>2, BuildJudged
<1>4. ASSUME NEW t \in {row.text, BuildInstagramCaption(row.text, code)}
      PROVE  Validate(t, raw, price, GateMinLength .. GateMaxLength)
  BY <1>2, <1>3 DEF Judged, Validate
<1>5. status \notin NeverPublish
  BY DEF NeverPublish, Typed, TypeOK, ProductStatus
<1> QED
  BY <1>1, <1>2, <1>4, <1>5 DEF SafeToPublish

\* Every step keeps the captions validated and the refusals explained.
LEMMA NextValidated == Typed /\ Single /\ Validated /\ [Next]_vars => Validated'
<1> SUFFICES ASSUME Typed, Single, Validated, [Next]_vars PROVE Validated'
  OBVIOUS
<1> USE DEF source, owner
<1>1. ASSUME UNCHANGED source
      PROVE  \A text : Judged(text)' <=> Judged(text)
  BY <1>1 DEF Judged, PriceLeak, UnsupportedNumbers, UnsupportedClaims
<1>2. ASSUME UNCHANGED <<source, captions, post, linked, skipped>>, status' = status
      PROVE  Validated'
  BY <1>1, <1>2 DEF Validated, Selected, RefusalExplained
<1>3. ASSUME NEW text \in Posts, NEW c \in Codes, Parse(text, c) PROVE Validated'
  <2>1. text # NoText
    BY CaptionsAssumption DEF Texts, NoText
  <2>2. captions' = {} /\ status' = "PARSED" /\ raw' = text
    BY <1>3 DEF Parse, Typed
  <2> QED
    BY <2>1, <2>2 DEF Validated, Selected, RefusalExplained
<1>4. ASSUME NEW c \in Codes, Capture(c) PROVE Validated'
  BY <1>4 DEF Capture, Validated, RefusalExplained
<1>5. ASSUME NEW text \in OwnTexts, WriteCaption(text) PROVE Validated'
  BY <1>5 DEF WriteCaption, Validated, RefusalExplained
<1>6. ASSUME NEW g \in Generators, AskModel(g) PROVE Validated'
  BY <1>2, <1>6 DEF AskModel
<1>7. ASSUME NEW g \in Generators, NEW texts \in SeqOf(Answers, Candidates) \ {<<>>},
             Store(g, texts)
      PROVE  Validated'
  <2>1. CASE Conflict(RowsFor(texts))
    BY <1>2, <1>7, <2>1 DEF Store
  <2>2. CASE ~ Conflict(RowsFor(texts))
    <3>1. /\ captions' = captions \cup RowsFor(texts)
          /\ UNCHANGED <<source, post, linked, skipped>>
          /\ status # "NONE" /\ status' \in {status, "VALIDATED"}
      BY <1>7, <2>2 DEF Store, Typed
    <3>2. ASSUME NEW row \in RowsFor(texts), row.selected PROVE Judged(row.text)
      <4>1. row.passed
        BY <3>2, ChosenIsOne
      <4>2. PICK i \in DOMAIN texts :
              row = [text |-> texts[i], version |-> Cardinality(captions) + i,
                     selected |-> i = Chosen(texts), passed |-> Passes(texts[i])]
        BY DEF RowsFor
      <4>3. row.text = texts[i] /\ row.passed = Passes(texts[i])
        BY <4>2
      <4>4. Passes(texts[i])
        BY <4>1, <4>3
      <4> QED
        BY <4>3, <4>4 DEF Passes, Validate, Judged
    <3>3. ~ manual => \A row \in Selected' : Judged(row.text)
      BY <3>1, <3>2 DEF Validated, Selected
    <3>4. RefusalExplained'
      BY <3>1 DEF Validated, RefusalExplained
    <3> QED
      BY <3>1, <1>1, <3>3, <3>4 DEF Validated
  <2> QED
    BY <2>1, <2>2
<1>8. ASSUME NEW g \in Generators, Unanswered(g) PROVE Validated'
  BY <1>2, <1>8 DEF Unanswered
<1>9. CASE Schedule \/ Claim \/ Skip \/ Retry
  <2>1. UNCHANGED <<source, captions>> /\ status # "NONE"
    BY <1>9 DEF Schedule, Claim, Skip, Retry, Typed
  <2>2. (~ manual => \A row \in Selected : Judged(row.text))'
    BY <1>1, <2>1 DEF Validated, Selected
  <2>3. /\ status' = "SKIPPED" => post' # "SCHEDULED" /\ (post' = "PROCESSING" => skipped')
        /\ status' # "FAILED"
    BY <1>9 DEF Schedule, Claim, Skip, Retry, Validated
  <2> QED
    BY <2>1, <2>2, <2>3 DEF Validated, RefusalExplained
<1>10. ASSUME Publish PROVE Validated'
  <2>1. UNCHANGED <<source, captions, linked, owner>> /\ status # "NONE" /\ post = "PROCESSING"
    BY <1>10 DEF Publish, Typed
  <2>2. (~ manual => \A row \in Selected : Judged(row.text))'
    BY <1>1, <2>1 DEF Validated, Selected
  <2>3. CASE status' = "PUBLISHED"
    BY <2>1, <2>2, <2>3 DEF Validated, RefusalExplained
  <2>4. CASE status' = "FAILED" /\ post' = "FAILED" /\ \A row \in linked : ~ SafeToPublish(row)
    <3>1. ASSUME ~ manual, ~ skipped, NEW row \in linked
          PROVE  \/ ~ (Spells[Label] \cup Spells[code] \subseteq KeywordsOf(raw) \ Currencies)
                 \/ {Len(row.text), Len(BuildInstagramCaption(row.text, code))}
                      \ (GateMinLength .. GateMaxLength) # {}
      <4>1. row \in Selected /\ row.passed
        BY <3>1 DEF Single
      <4>2. status # "SKIPPED"
        BY <2>1, <3>1 DEF Validated
      <4> QED
        BY <2>1, <2>4, <3>1, <4>1, <4>2, RefusalIsExplained
    <3>2. RefusalExplained'
      BY <2>1, <3>1 DEF RefusalExplained
    <3> QED
      BY <2>1, <2>2, <2>4, <3>2 DEF Validated
  <2> QED
    BY <1>10, <2>3, <2>4 DEF Publish
<1>11. ASSUME SelectForPurge PROVE Validated'
  BY <1>2, <1>11 DEF SelectForPurge
<1>12. ASSUME Purge PROVE Validated'
  BY <1>12 DEF Purge, Validated, Selected, RefusalExplained
<1>13. CASE UNCHANGED vars
  BY <1>2, <1>13 DEF vars
<1> QED
  BY <1>3, <1>4, <1>5, <1>6, <1>7, <1>8, <1>9, <1>10, <1>11, <1>12, <1>13 DEF Next

\* A caption that was validated against the merchant's text is never refused for its own
\* words at the gate: only for a skip since the claim, for being purged, or for what the
\* gate adds (safety.py:18-25, 69-106).
THEOREM RefusalsExplained == Spec => []RefusalExplained
<1>1. Init => Validated
  BY DEF Init, Validated, Selected, RefusalExplained
<1>2. Validated => RefusalExplained
  BY DEF Validated
<1> QED
  BY <1>1, <1>2, NextValidated, CaptionsTyped, AlwaysSingle, PTL DEF Spec

===============================================================================
