SPECIFICATION ServingSpec
CONSTANTS
  enterprise = enterprise
  mobile = mobile
  v1 = v1
  v2 = v2
  Collection = {enterprise, mobile}
  Version = {v1, v2}
  NoVersion = NoVersion
  NoPointer = NoPointer
  NoRelease = NoRelease
  Release <- MCRelease
  Modified <- MCModified
  BundleSize <- MCBundleSize
  Part <- MCPart
  Pass = {p1}
  Generation = {g1}
  LegacyId = {}
  MayDelist = FALSE
  MayGarble = FALSE
  HydrateOnBoot = TRUE
  DefaultRoot = DefaultRoot
  NoCollection = NoCollection
  Routable = {v1, v2}
INVARIANTS GuidedNeverTurnedAway AnswerWhole
PROPERTIES DefaultListingWhole
