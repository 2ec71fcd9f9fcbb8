SPECIFICATION Spec
CONSTANTS
  Release = {"19.1"}
  Instant = {1, 2, 3}
  MaxPage = 3
CHECK_DEADLOCK FALSE
INVARIANTS QueryJudgedFirst TaxiiSpoken DatesBracketPage
PROPERTIES EveryRequestAnswered
