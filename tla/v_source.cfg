SPECIFICATION Spec
CONSTANTS
  Server = {s}
  Collector = {c}
  Pair = {"A", "B"}
  Unset = Unset
  Blank = Blank
  Environments <- MCFewEnvironments
  MaxFaults = 0
INVARIANT SourceAsGiven
CHECK_DEADLOCK FALSE
