SPECIFICATION Spec
CONSTANTS
  enterprise = enterprise
  mobile = mobile
  v1 = v1
  v2 = v2
  Collection = {enterprise, mobile}
  Version = {v1, v2}
  NoVersion = NoVersion
  NoPointer = NoPointer
  NoRelease = NoRelease
  Release <- OneCollectionRelease
  Modified <- OneCollectionModified
  BundleSize <- OneCollectionBundleSize
  Part <- MCPart
  Pass = {p1, p2}
  Generation = {g1, g2}
  LegacyId = {}
  MayDelist = FALSE
  MayGarble = FALSE
  HydrateOnBoot = FALSE
INVARIANTS MarkerMeansHydrated
