SPECIFICATION Spec
CONSTANTS
  Absent = Absent
  Garbage = Garbage
  NoLimit = NoLimit
  Stores <- MCStores
  Requests <- MCRequests
CHECK_DEADLOCK FALSE
INVARIANT AddedAfterIsAboutAdding
