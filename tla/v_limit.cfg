SPECIFICATION Spec
CONSTANTS
  Absent = Absent
  Garbage = Garbage
  NoLimit = NoLimit
  Stores <- MCStores
  Requests <- MCNoPageRequests
CHECK_DEADLOCK FALSE
INVARIANT NextPageExists
