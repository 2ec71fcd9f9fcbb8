SPECIFICATION FairSpec
CONSTANTS
  Server = {s}
  Collector = {c}
  Pair = {"A", "B"}
  Unset = Unset
  Blank = Blank
  Environments <- MCEnvironments
  MaxFaults = 3
INVARIANTS WholePairServed
PROPERTIES EveryProcessComesUp
CHECK_DEADLOCK FALSE
