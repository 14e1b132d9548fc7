SPECIFICATION MCSpec
CONSTANTS
  worker = worker
  hand = hand
  Generators = {worker, hand}
  Numbers <- Written
  Thousandths = {"12.500"}
  Numerals <- Spelled
  Canonical <- Decimals
  Shows <- Found
  Units <- ParserUnits
  Currencies = {"kd", "dinar"}
  Indicators = {"price"}
  Fillers = {"only", "kd"}
  Claims = {"off", "new"}
  Spells <- Lexicon
  Posts <- Merchant
  Answers <- Model
  OwnTexts <- Owner
  Codes = {"QWRTPLMN", "AKDQQWPT", "PTOFFQWM"}
  Label = "ref"
  MinLength = 1
  MaxLength = 4
  GateMinLength = 2
  GateMaxLength = 5
  Candidates = 2
  MaxRuns = 2
  Hours = {9, 20}
  Days = {1, 2}
  Rates = {1, 3}
  MinTotal = 3
  MinPerHour = 2
  MaxPosts = 4
INVARIANTS
  TypeOK
  OneCaption
  NothingInvented
  PriceHidden
  
  RecommendationEarned
CHECK_DEADLOCK FALSE
