-------------------------------- MODULE Captions --------------------------------
(***************************************************************************)
(* The words on Instagram: how the source text of one product becomes a    *)
(* caption, and what may be in it.                                         *)
(*                                                                         *)
(* The parser reads a price from the text (app/parsing/text_parser.py);    *)
(* the model proposes captions, each checked against the text              *)
(* (app/ai/caption_service.py, validator.py); the publisher appends the    *)
(* product code and checks again (app/instagram/safety.py).  Meanwhile the *)
(* owner may skip the product or retry a failed post (app/queue/           *)
(* operations.py), and retention deletes the captions of finished products *)
(* (app/media/retention.py).                                               *)
(*                                                                         *)
(* A text is a sequence of words.  The regular expressions and substring   *)
(* searches of the code become: which keywords a word contains (Spells),   *)
(* which word stands beside which number, and which spellings of numbers   *)
(* are found in a word (Shows), next to the one that Decimal gives for its *)
(* value (Canonical).                                                      *)
(***************************************************************************)
EXTENDS Integers, Sequences, FiniteSets, SequencesExt

CONSTANTS
  Generators,    \* processes that write captions: the worker, a hand-run caption_runner
  Numbers,       \* words that are numbers
  Thousandths,   \* those with three decimals
  Numerals,      \* spellings of numbers
  Canonical,     \* Decimal.normalize of a number: without zeros at the end, as ASCII
  Shows,         \* the spellings found in a number, no digit before or after them
  Units,         \* words the parser takes for a currency, in the order it tries them
  Currencies,    \* _CURRENCY_TOKENS of the validator, which also knows bare ones
  Indicators,    \* _PRICE_INDICATOR_WORDS
  Fillers,       \* words short enough to stand between an indicator and its number
  Claims,        \* the keywords of CLAIM_CATEGORIES
  Spells,        \* the keywords that a word contains
  Posts,         \* texts of source messages
  Answers,       \* texts the model may return
  OwnTexts,      \* captions the owner may write
  Codes,         \* product codes, as words
  Label,         \* the words before the code
  MinLength, MaxLength,          \* AI_MIN_CAPTION_LENGTH, AI_MAX_CAPTION_LENGTH
  GateMinLength, GateMaxLength,  \* DEFAULT_MIN_LENGTH, DEFAULT_MAX_LENGTH
  Candidates,    \* bound: captions of one answer
  MaxRuns        \* bound: answers of the model

Keywords == Currencies \cup Indicators \cup Claims
Words    == Numbers \cup DOMAIN Spells
Texts    == Posts \cup Answers \cup OwnTexts

ASSUME CaptionsAssumption ==
  /\ Thousandths \subseteq Numbers
  /\ Numbers \subseteq Numerals
  /\ Canonical \in [Numbers -> Numerals]
  /\ Shows \in [Numbers -> SUBSET Numerals]
  /\ \A n \in Numbers : n \in Shows[n]
  /\ DOMAIN Spells \cap Numbers = {}
  /\ Spells \in [DOMAIN Spells -> SUBSET Keywords]
  /\ \A k \in Keywords \cap DOMAIN Spells : k \in Spells[k]
  /\ Units \in Seq(DOMAIN Spells)
  /\ Codes \cup {Label} \subseteq DOMAIN Spells
  /\ Texts \subseteq Seq(Words) \ {<<>>}
  /\ {MinLength, MaxLength, GateMinLength, GateMaxLength, Candidates, MaxRuns} \subseteq Nat

ProductStatus == {"NONE", "PARSED", "VALIDATED", "SCHEDULED", "PUBLISHED", "FAILED", "SKIPPED"}
PostStatus    == {"NONE", "SCHEDULED", "PROCESSING", "PUBLISHED", "FAILED", "CANCELLED"}
Finished      == {"PUBLISHED", "SKIPPED", "FAILED"}

\* Nothing sets DUPLICATE or is_duplicate_of.
NeverPublish == {"DUPLICATE", "REJECTED", "SKIPPED"}

NoText  == <<>>
NoPrice == "none"
NoCode  == "none"

VARIABLES
  raw,       \* source_messages.raw_text
  status,    \* products.status
  price,     \* products.price
  code,      \* products.product_code
  manual,    \* the product was forwarded by the owner
  captions,  \* rows of captions
  post,      \* status of its latest scheduled post
  linked,    \* the caption of that post, if it has one
  skipped,   \* history: the product was skipped since the post was claimed
  purging,   \* retention has selected the product
  asked,     \* generators that wait for the model's answer
  live,      \* what Instagram shows
  runs       \* bound

source == <<raw, price, code, manual>>
owner  == <<skipped, purging>>
vars   == <<source, status, captions, post, linked, owner, asked, live, runs>>

Rows == [text : Texts, version : Nat, selected : BOOLEAN, passed : BOOLEAN]

\* Every column has a value of its type, and a product has a code.
TypeOK ==
  /\ raw \in Posts \cup {NoText}
  /\ status \in ProductStatus
  /\ price \in Numbers \cup {NoPrice}
  /\ code \in (IF status = "NONE" THEN {NoCode} ELSE Codes)
  /\ manual \in BOOLEAN
  /\ captions \subseteq Rows
  /\ post \in PostStatus
  /\ linked \subseteq captions
  /\ skipped \in BOOLEAN
  /\ purging \in BOOLEAN
  /\ asked \subseteq Generators
  /\ live \in Seq(Words)
  /\ runs \in 0 .. MaxRuns

Init ==
  /\ raw = NoText
  /\ status = "NONE"
  /\ price = NoPrice
  /\ code = NoCode
  /\ manual = FALSE
  /\ captions = {}
  /\ post = "NONE"
  /\ linked = {}
  /\ skipped = FALSE
  /\ purging = FALSE
  /\ asked = {}
  /\ live = NoText
  /\ runs = 0

-------------------------------------------------------------------------------
(* Reading a text *)

NumbersOf(text) == ToSet(text) \cap Numbers
ShownBy(text)   == UNION {Shows[n] : n \in NumbersOf(text)}

\* The keywords a text contains, anywhere in it.
KeywordsOf(text) == UNION {Spells[w] : w \in ToSet(text) \cap DOMAIN Spells}

\* Places where a number stands directly before, or after, a word of a set.
Before(text, ws) == {i \in 1 .. Len(text) - 1 : text[i] \in Numbers /\ text[i + 1] \in ws}
After(text, ws)  == {i \in 2 .. Len(text) : text[i] \in Numbers /\ text[i - 1] \in ws}

\* What the parser takes for an amount beside a unit: at most two decimals.
Amounts(text, unit) ==
  LET plain(is) == {i \in is : text[i] \notin Thousandths}
      before    == plain(Before(text, {unit}))
  IN  IF before # {} THEN before ELSE plain(After(text, {unit}))

\* The price: the first amount beside the first unit, in the parser's order of
\* units, that has one.
ExtractPrice(text) ==
  LET found == {k \in DOMAIN Units : Amounts(text, Units[k]) # {}}
      first(is) == CHOOSE i \in is : \A j \in is : i <= j
  IN  IF found = {} THEN NoPrice
      ELSE text[first(Amounts(text, Units[first(found)]))]

\* Mutant: only what the parser found is hidden.
PriceEvidencedNowhere(text) == {}

\* Numbers the validator takes for a price: beside one of its currency words,
\* or shortly after an indicator.
PriceEvidenced(text) ==
  {text[i] : i \in Before(text, Currencies) \cup After(text, Currencies \cup Indicators)}
    \cup {text[i] : i \in {j \in After(text, Fillers) : j > 2 /\ text[j - 2] \in Indicators}}

\* The spellings that must not appear: of what the parser found, as Decimal gives its
\* value, which need not be as the merchant wrote it; of the evidenced numbers, both.
Banned(text, amount) ==
  {Canonical[n] : n \in PriceEvidenced(text) \cup ({amount} \ {NoPrice})}
    \cup PriceEvidenced(text)

PriceLeak(text, original, amount) ==
  \/ KeywordsOf(text) \cap Currencies # {}
  \/ ShownBy(text) \cap Banned(original, amount) # {}

\* Mutant: any claim in the source licenses every claim.
UnsupportedKinds(text, original) ==
  IF KeywordsOf(original) \cap Claims # {} THEN {} ELSE KeywordsOf(text) \cap Claims

UnsupportedNumbers(text, original) == NumbersOf(text) \ NumbersOf(original)
UnsupportedClaims(text, original)  == (KeywordsOf(text) \ KeywordsOf(original)) \cap Claims

Validate(text, original, amount, lengths) ==
  /\ Len(text) \in lengths
  /\ ~PriceLeak(text, original, amount)
  /\ UnsupportedNumbers(text, original) = {}
  /\ UnsupportedClaims(text, original) = {}

BuildInstagramCaption(text, c) == text \o <<Label, c>>

-------------------------------------------------------------------------------
(* A product and its captions *)

Selected == {row \in captions : row.selected}

\* Nothing between the source message and the product is of interest here.
Parse(text, c) ==
  /\ status = "NONE"
  /\ raw' = text
  /\ price' = ExtractPrice(text)
  /\ code' = c
  /\ status' = "PARSED"
  /\ UNCHANGED <<manual, captions, post, linked, owner, asked, live, runs>>

\* Mutant: a forwarded item gets no code.
CaptureWithoutCode(c) ==
  /\ status = "NONE"
  /\ manual' = TRUE
  /\ status' = "PARSED"
  /\ UNCHANGED <<raw, price, code, captions, post, linked, owner, asked, live, runs>>

\* A forwarded item: its words are not read.
Capture(c) ==
  /\ status = "NONE"
  /\ code' = c
  /\ manual' = TRUE
  /\ status' = "PARSED"
  /\ UNCHANGED <<raw, price, captions, post, linked, owner, asked, live, runs>>

\* The owner's own words are not validated, and taken whatever the product's status is
\* by now.  Written twice, they meet the unique index, and nothing is stored.
WriteCaption(text) ==
  /\ manual
  /\ Selected = {}
  /\ captions' = captions \cup
       {[text |-> text, version |-> 1, selected |-> TRUE, passed |-> TRUE]}
  /\ status' = "VALIDATED"
  /\ UNCHANGED <<source, post, linked, owner, asked, live, runs>>

\* A product without text is passed over.
AskModel(g) ==
  /\ g \notin asked
  /\ status = "PARSED"
  /\ raw # NoText
  /\ runs < MaxRuns
  /\ asked' = asked \cup {g}
  /\ runs' = runs + 1
  /\ UNCHANGED <<source, status, captions, post, linked, owner, live>>

\* Mutant: the claims are left to the gate.
PassesButForClaims(text) ==
  Len(text) \in MinLength .. MaxLength /\ ~PriceLeak(text, raw, price)

Passes(text) == Validate(text, raw, price, MinLength .. MaxLength)

\* The first candidate that passes.
Chosen(texts) == SelectInSeq(texts, Passes)

RowsFor(texts) ==
  {[text |-> texts[i], version |-> Cardinality(captions) + i,
    selected |-> i = Chosen(texts), passed |-> Passes(texts[i])] : i \in DOMAIN texts}

\* Mutant: no unique index.
NoConflict(rows) == FALSE

\* uq_captions_one_selected_per_product
Conflict(rows) == Cardinality({row \in captions \cup rows : row.selected}) > 1

\* The answer is stored in one commit, whatever the product has become since the
\* question; if another process has selected a caption meanwhile, the commit
\* raises and the run of this process ends.
Store(g, texts) ==
  /\ g \in asked
  /\ asked' = asked \ {g}
  /\ IF Conflict(RowsFor(texts)) THEN UNCHANGED <<captions, status>>
     ELSE /\ captions' = captions \cup RowsFor(texts)
          /\ status' = IF Chosen(texts) > 0 THEN "VALIDATED" ELSE status
  /\ UNCHANGED <<source, post, linked, owner, live, runs>>

\* No answer, or none that can be read: the handler reads an expired object after
\* its rollback, and the run ends as well.
Unanswered(g) ==
  /\ g \in asked
  /\ asked' = asked \ {g}
  /\ UNCHANGED <<source, status, captions, post, linked, owner, live, runs>>

\* Eligibility, which asks for a caption, queue and scheduler in one: the post gets
\* the caption that is selected now.
Schedule ==
  /\ status = "VALIDATED"
  /\ Selected # {}
  /\ post \notin {"SCHEDULED", "PROCESSING"}
  /\ post' = "SCHEDULED"
  /\ linked' = Selected
  /\ status' = "SCHEDULED"
  /\ UNCHANGED <<source, captions, owner, asked, live, runs>>

\* The publisher looks at the product only afterwards.
Claim ==
  /\ post = "SCHEDULED"
  /\ post' = "PROCESSING"
  /\ skipped' = FALSE
  /\ UNCHANGED <<source, status, captions, linked, purging, asked, live, runs>>

\* The gate checks the product's status, the caption, and the caption with the code,
\* with the lengths the validator has by default.
SafeToPublish(row) ==
  /\ row.selected /\ row.passed
  /\ status \notin NeverPublish
  /\ raw # NoText
  /\ \A t \in {row.text, BuildInstagramCaption(row.text, code)} :
       Validate(t, raw, price, GateMinLength .. GateMaxLength)

\* A call that fails is Publisher's business.
Publish ==
  /\ post = "PROCESSING"
  /\ \/ \E row \in linked :
          /\ SafeToPublish(row)
          /\ status' = "PUBLISHED" /\ post' = "PUBLISHED"
          /\ live' = BuildInstagramCaption(row.text, code)
     \/ /\ \A row \in linked : ~SafeToPublish(row)
        /\ status' = "FAILED" /\ post' = "FAILED"
        /\ UNCHANGED live
  /\ UNCHANGED <<source, captions, linked, owner, asked, runs>>

\* A post that is being published goes on.
Skip ==
  /\ status \notin {"NONE", "PUBLISHED", "SKIPPED"}
  /\ status' = "SKIPPED"
  /\ post' = IF post = "SCHEDULED" THEN "CANCELLED" ELSE post
  /\ skipped' = TRUE
  /\ UNCHANGED <<source, captions, linked, purging, asked, live, runs>>

Retry ==
  /\ post = "FAILED"
  /\ post' = "SCHEDULED"
  /\ status' = "SCHEDULED"
  /\ UNCHANGED <<source, captions, linked, owner, asked, live, runs>>

\* Retention lists the finished products, and deletes later, whatever they have
\* become; scheduled_posts.caption_id is set to null.
SelectForPurge ==
  /\ status \in Finished
  /\ purging' = TRUE
  /\ UNCHANGED <<source, status, captions, post, linked, skipped, asked, live, runs>>

Purge ==
  /\ purging
  /\ captions' = {}
  /\ linked' = {}
  /\ purging' = FALSE
  /\ UNCHANGED <<source, status, post, skipped, asked, live, runs>>

Next ==
  \/ \E text \in Posts, c \in Codes : Parse(text, c)
  \/ \E c \in Codes : Capture(c)
  \/ \E text \in OwnTexts : WriteCaption(text)
  \/ \E g \in Generators :
       \/ AskModel(g)
       \/ \E texts \in SeqOf(Answers, Candidates) \ {<<>>} : Store(g, texts)
       \/ Unanswered(g)
  \/ Schedule \/ Claim \/ Publish \/ Skip \/ Retry
  \/ SelectForPurge \/ Purge

Spec == Init /\ [][Next]_vars

-------------------------------------------------------------------------------
(* Properties *)

\* A product never has two selected captions, and the one it has passed; a post's caption
\* is the selected one.  Whoever is still waiting for an answer about the product cannot add
\* a second one, and neither can the owner, before or after captions were purged
\* (caption_service.py:126-155, bot.py:187-196, retention.py:107-112, captions' unique index).
OneCaption ==
  /\ Cardinality(Selected) <= 1
  /\ \A row \in Selected : row.passed
  /\ linked \subseteq Selected

\* Whatever Instagram shows, product code included, names no currency, no number
\* and makes no claim that is not word for word in the merchant's text
\* (validator.py:20-29, safety.py:97-107).
NothingInvented ==
  live # NoText =>
    /\ KeywordsOf(live) \cap Currencies = {}
    /\ NumbersOf(live) \subseteq NumbersOf(raw)
    /\ KeywordsOf(live) \cap Claims \subseteq KeywordsOf(raw)

\* A number the merchant wrote beside a currency, or behind "price" with at most a
\* short word between, is never shown, as he wrote it or as Decimal gives its value; the
\* price that only the parser recognized, beside a unit that the validator does not know, is
\* not shown in the latter form (validator.py:13-20, 106-132, text_parser.py:43-64).
PriceHidden ==
  /\ \A i \in DOMAIN raw :
       raw[i] \in Numbers /\ {raw[i], Canonical[raw[i]]} \cap ShownBy(live) # {} =>
         /\ i > 1 => raw[i - 1] \notin Currencies \cup Indicators
         /\ i > 2 /\ raw[i - 1] \in Fillers => raw[i - 2] \notin Indicators
         /\ i < Len(raw) => raw[i + 1] \notin Currencies
  /\ ExtractPrice(raw) # NoPrice => Canonical[ExtractPrice(raw)] \notin ShownBy(live)

\* A validated caption of a scanned product is refused at the gate only if the owner has
\* skipped the product since the post was claimed, if the caption was purged, or for what the
\* gate adds: label or code spells a keyword, or the lengths differ.  Its words are judged as
\* they were before (safety.py:18-25, 69-106).
RefusalExplained ==
  status = "FAILED" =>
    \/ manual
    \/ skipped
    \/ linked = {}
    \/ ~(Spells[Label] \cup Spells[code] \subseteq KeywordsOf(raw) \ Currencies)
    \/ \E row \in linked :
         {Len(row.text), Len(BuildInstagramCaption(row.text, code))}
           \ (GateMinLength .. GateMaxLength) # {}

===============================================================================
