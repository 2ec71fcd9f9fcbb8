SPECIFICATION FairSpec
CONSTANTS
  enterprise = enterprise
  v1 = v1
  v2 = v2
  Release <- MCRelease
  Caller = {c1, c2}
  Index = Index
  Malformed = Malformed
  AllReleases = AllReleases
  NotCached = NotCached
  Ttl = 1
  Flight = 0
PROPERTY EventuallyListed
