SPECIFICATION FairSpec
CONSTANTS
  enterprise = enterprise
  mobile = mobile
  v1 = v1
  v2 = v2
  Collection = {enterprise, mobile}
  Version = {v1, v2}
  NoVersion = NoVersion
  NoPointer = NoPointer
  NoRelease = NoRelease
  Release <- MCRelease
  Modified <- MCModified
  BundleSize <- MCBundleSize
  Part <- MCPart
  Pass = {p1}
  Generation = {g1}
  LegacyId = {mobile}
  MayDelist = FALSE
  MayGarble = FALSE
  HydrateOnBoot = TRUE
INVARIANTS TypeOK MarkerMeansHydrated PointerDesignatesCommitted
PROPERTIES CommittedReleaseImmutable PointerNeverMovesBack PassLeavesNewest ImplementsCatalog ConvergesToHydrated
