SPECIFICATION Spec
CONSTANTS
  enterprise = enterprise
  v1 = v1
  v2 = v2
  Release <- MCRelease
  Caller = {c1, c2}
  Index = Index
  Malformed = Malformed
  AllReleases = AllReleases
  NotCached = NotCached
  Ttl = 1
  Flight = 1
INVARIANTS SourceTypeOK ListedIsFound
PROPERTIES ListingRecent ListingsGrow RepairSeen
CHECK_DEADLOCK FALSE
