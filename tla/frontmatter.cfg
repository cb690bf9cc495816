CONSTANT MaxLength = 5
SPECIFICATION MatterSpec
CHECK_DEADLOCK FALSE
INVARIANT QuotesSurvive
