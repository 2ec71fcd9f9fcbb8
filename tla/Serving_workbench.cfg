SPECIFICATION ServingSpec
CONSTANTS
  enterprise = enterprise
  mobile = mobile
  v1 = v1
  v2 = v2
  Collection = {enterprise}
  Version = {v1, v2}
  NoVersion = NoVersion
  NoPointer = NoPointer
  NoRelease = NoRelease
  Release <- OneCollectionRelease
  Modified <- OneCollectionModified
  BundleSize <- OneCollectionBundleSize
  Part <- MCPart
  Pass = {p1}
  Generation = {g1}
  LegacyId = {}
  MayDelist = TRUE
  MayGarble = FALSE
  HydrateOnBoot = TRUE
  DefaultRoot = DefaultRoot
  NoCollection = NoCollection
  Routable = {v1, v2}
INVARIANTS SteadyNeverTurnedAway SteadyAnswerWhole
