SPECIFICATION FairSpec
CONSTANTS
  Absent = Absent
  Garbage = Garbage
  NoLimit = NoLimit
  Stores <- MCStores
  Requests <- MCRequests
INVARIANTS WalkIsAnswer TiesStayInPlace NextPageExists EnvelopeIsSelection ManifestListsEnvelope ListedIsRetrievable
PROPERTIES WalkEnds
CHECK_DEADLOCK FALSE
