SPECIFICATION Spec
CONSTANTS
  Release = {r1, r2, r3}
  Caller = {c1}
  Page = Page
  Undefined = Undefined
  AllReleases = AllReleases
PROPERTIES ListingWasTrue BundleWasTrue
