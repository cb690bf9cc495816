CONSTANTS
  MaxSources = 3
  RetryAfters = {0, 30, 60}
  NoRetry = NoRetry
  ZoneOffsets <- MCZoneOffsets
SPECIFICATION FairSpec
CHECK_DEADLOCK FALSE
INVARIANTS
  TypeOK
  Exhaustive
  KeptIsLatest
  TweetsAreKept
  CapturesHaveText
  PdfDatesDegrade
  SpecificExtractorWins
PROPERTY ExtractionEnds
