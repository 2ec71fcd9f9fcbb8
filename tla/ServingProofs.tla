---------------------------- MODULE ServingProofs ----------------------------
(***************************************************************************)
(* Theorems about Serving: what a client is answered while the collector   *)
(* works underneath, for every set of collections, releases and parts.     *)
(* The collector's own invariants are those of HydrationProofs.            *)
(***************************************************************************)
EXTENDS Serving, HydrationProofs

\* The client does not touch the database: a behaviour with clients is a
\* behaviour of the collector.
LEMMA ServingIsHydration == ServingSpec => Spec
<1>1. ServingInit => Init
  BY DEF ServingInit
<1>2. [ServingNext]_all => [Next]_vars
  BY DEF ServingNext, all
<1> QED
  BY <1>1, <1>2, PTL DEF ServingSpec, Spec

-----------------------------------------------------------------------------
(***************************************************************************)
(* Types, and what the client's request holds where.                       *)
(***************************************************************************)
AnyVersioned == [id : Collection, version : Version \cup {NoVersion}]

LEMMA ListedReleases ==
  ASSUME TypeOK
  PROVE  /\ ListReleases \subseteq Version
         /\ \A v \in ListReleases :
              \E c \in Collection : Marked([id |-> c, version |-> v])
<1> SUFFICES ASSUME NEW d \in docs, ~Legacy(d)
             PROVE  /\ d.release.version \in Version
                    /\ d.release.id \in Collection
                    /\ d.release = [id |-> d.release.id, version |-> d.release.version]
  BY DEF ListReleases, Marked
<1>1. d.release \in Release
  BY DEF TypeOK, Doc, AnyRelease, LegacyRelease, Legacy
<1> QED
  BY <1>1, SourceAssumption

LEMMA MarkedListed ==
  ASSUME NEW c, NEW v \in Version, Marked([id |-> c, version |-> v])
  PROVE  v \in ListReleases
<1>1. PICK d \in docs : d.release = [id |-> c, version |-> v]
  BY DEF Marked
<1>2. ~Legacy(d)
  BY <1>1, MarkerAssumption DEF Legacy
<1> QED
  BY <1>1, <1>2 DEF ListReleases

LEMMA ResolvedIsOne ==
  ASSUME TypeOK, NEW c \in Collection, NEW rt \in Root, NEW r \in Resolved(c, rt)
  PROVE  /\ r \in AnyVersioned
         /\ Resolved(c, rt) = {r}
         /\ r.id = c
         /\ rt # DefaultRoot => r.version = rt
         /\ rt = DefaultRoot => r.version = pointers[c]
<1>1. CASE rt # DefaultRoot
  BY <1>1 DEF Resolved, Root, AnyVersioned
<1>2. CASE rt = DefaultRoot
  BY <1>2 DEF Resolved, TypeOK, AnyVersioned
<1> QED
  BY <1>1, <1>2

\* The steps that ask for the list of collections, and what it shows.
LEMMA ListingSteps ==
  ASSUME TypeOK, ServingTypeOK, Position, UNCHANGED vars, steady' \in BOOLEAN,
         Discover \/ Preset \/ RequestCollections \/ AnswerCollections
  PROVE  ServingTypeOK' /\ Position'
<1>1. CASE Discover
  BY <1>1, ListedReleases DEF Discover, ServingTypeOK, Position, Root, Chosen
<1>2. CASE Preset
  BY <1>2 DEF Preset, ServingTypeOK, Position, Chosen
<1>3. CASE RequestCollections
  <2>1. CASE step' = "unknownRoot" /\ UNCHANGED <<guided, root, collection, scope, got>>
    BY <1>3, <2>1 DEF RequestCollections, ServingTypeOK, Position, Chosen
  <2>2. CASE /\ step' = "listing" /\ UNCHANGED <<guided, root, collection, got>>
             /\ scope' = UNION {Resolved(c, root) : c \in Collection}
    <3>1. \A r \in scope' : r \in AnyVersioned /\ (root # DefaultRoot => r.version = root)
      BY <2>2, ResolvedIsOne DEF ServingTypeOK
    <3> QED
      BY <1>3, <2>2, <3>1 DEF RequestCollections, ServingTypeOK, Position, Chosen, AnyVersioned
  <2> QED
    BY <1>3, <2>1, <2>2 DEF RequestCollections, Become
<1>4. CASE AnswerCollections
  BY <1>4 DEF AnswerCollections, ServingTypeOK, Position, Chosen
<1> QED
  BY <1>1, <1>2, <1>3, <1>4

LEMMA RequestOneStep ==
  ASSUME TypeOK, ServingTypeOK, Position, UNCHANGED vars, steady' \in BOOLEAN,
         NEW kind \in {"lookup", "objects"}, RequestOne(kind)
  PROVE  ServingTypeOK' /\ Position'
<1>1. CASE step' \in {"unknownRoot", "unknownCollection"}
           /\ UNCHANGED <<guided, root, collection, scope, got>>
  BY <1>1 DEF RequestOne, ServingTypeOK, Position, Chosen
<1>2. CASE /\ Resolved(collection, root) # {}
           /\ scope' = Resolved(collection, root)
           /\ step' = kind
           /\ UNCHANGED <<guided, root, collection, got>>
  <2>1. collection \in Collection
    BY DEF RequestOne, Position, Chosen
  <2>2. PICK r \in Resolved(collection, root) : TRUE
    BY <1>2
  <2>3. /\ r \in AnyVersioned /\ scope' = {r} /\ r.id = collection
        /\ root # DefaultRoot => r.version = root
    BY <1>2, <2>1, <2>2, ResolvedIsOne DEF ServingTypeOK
  <2>4. ServingTypeOK'
    BY <1>2, <2>3 DEF RequestOne, ServingTypeOK, AnyVersioned
  <2>5. Position'
    BY <1>2, <2>1, <2>3 DEF RequestOne, Position, Chosen, AnyVersioned
  <2> QED
    BY <2>4, <2>5
<1> QED
  BY <1>1, <1>2 DEF RequestOne, Become

LEMMA AnswerSteps ==
  ASSUME TypeOK, ServingTypeOK, Position, UNCHANGED vars, steady' \in BOOLEAN,
         AnswerCollection \/ StreamObjects \/ AnswerObjects \/ ClientRestarts
  PROVE  ServingTypeOK' /\ Position'
<1>1. CASE AnswerCollection
  BY <1>1 DEF AnswerCollection, ServingTypeOK, Position, Chosen
<1>2. CASE StreamObjects
  <2>1. PICK r \in AnyVersioned : scope = {r}
    BY <1>2 DEF StreamObjects, Position, Chosen, AnyVersioned
  <2>2. ASSUME NEW k \in Part PROVE Stored(k) \in Nat
    BY <2>1 DEF Stored, TypeOK
  <2> QED
    BY <1>2, <2>2 DEF StreamObjects, ServingTypeOK, Position, Chosen
<1>3. CASE AnswerObjects
  BY <1>3 DEF AnswerObjects, Become, ServingTypeOK, Position, Chosen
<1>4. CASE ClientRestarts
  BY <1>4 DEF ClientRestarts, ServingTypeOK, Position, Chosen, Root, NothingRead
<1> QED
  BY <1>1, <1>2, <1>3, <1>4

LEMMA ServingTypeStep ==
  ASSUME TypeOK, ServingTypeOK, Position, [ServingNext]_all
  PROVE  ServingTypeOK' /\ Position'
<1>1. CASE UNCHANGED client
  <2>1. steady' \in BOOLEAN
    BY DEF ServingNext, ServingTypeOK, all
  <2> QED
    BY <1>1, <2>1 DEF client, ServingTypeOK, Position, Chosen
<1>2. CASE ClientStep /\ UNCHANGED vars /\ steady' = (steady \/ ClientRestarts)
  BY <1>2, ListingSteps, RequestOneStep, AnswerSteps DEF ClientStep, ServingTypeOK
<1> QED
  BY <1>1, <1>2 DEF ServingNext, all

\* The client's variables stay in their types.
THEOREM ServingTypeCorrect == ServingSpec => [](TypeOK /\ ServingTypeOK /\ Position)
<1>1. ServingInit => ServingTypeOK /\ Position
  BY DEF ServingInit, ClientIdle, ServingTypeOK, Position, Root, NothingRead, Chosen
<1>2. TypeOK /\ (ServingTypeOK /\ Position) /\ [ServingNext]_all => (ServingTypeOK /\ Position)'
  BY ServingTypeStep
<1> QED
  BY <1>1, <1>2, ServingIsHydration, TypeCorrect, PTL DEF ServingSpec

-----------------------------------------------------------------------------
(***************************************************************************)
(* What a pinned root has shown stays.                                     *)
(***************************************************************************)
ReleasesKept == \A d \in docs : ~Legacy(d) => d \in docs'

LEMMA MarkedKept ==
  ASSUME ReleasesKept, NEW r, r.version # NoVersion, Marked(r)
  PROVE  Marked(r)'
BY DEF ReleasesKept, Marked, Legacy

\* Under a client the database stands still; the client moves on.
LEMMA PinnedClient ==
  ASSUME TypeOK, ServingTypeOK, Position, UNCHANGED vars, ClientStep, guided => PinnedHolds
  PROVE  (guided => PinnedHolds)'
<1> SUFFICES ASSUME guided', root' # DefaultRoot
             PROVE  /\ ReleaseExists(root)'
                    /\ step' = "listing" => \E r \in scope' : Marked(r)'
                    /\ step' \in Chosen => Marked([id |-> collection, version |-> root])'
  BY DEF PinnedHolds, Chosen
<1>1. \A r : Marked(r)' <=> Marked(r)
  BY DEF vars, db, Marked
<1>2. \A rt : ReleaseExists(rt)' <=> ReleaseExists(rt)
  BY DEF vars, db, ReleaseExists, ListReleases, Legacy
<1>3. CASE Discover
  BY <1>2, <1>3 DEF Discover, ReleaseExists, Chosen
<1>4. CASE Preset \/ ClientRestarts
  BY <1>4 DEF Preset, ClientRestarts
<1>5. CASE RequestCollections
  <2>1. ReleaseExists(root) /\ root' = root /\ guided
    BY <1>5 DEF RequestCollections, Become, PinnedHolds
  <2>2. ASSUME step' = "listing" PROVE \E r \in scope' : Marked(r)
    <3>1. scope' = UNION {Resolved(c, root) : c \in Collection}
      BY <1>5, <2>2 DEF RequestCollections, Become
    <3>2. PICK c \in Collection : Marked([id |-> c, version |-> root])
      BY <2>1, ListedReleases DEF ReleaseExists
    <3>3. [id |-> c, version |-> root] \in Resolved(c, root)
      BY <2>1 DEF Resolved
    <3> QED
      BY <3>1, <3>2, <3>3
  <2> QED
    BY <1>1, <1>2, <1>5, <2>1, <2>2 DEF RequestCollections, Become, Chosen
<1>6. CASE AnswerCollections
  <2>1. root' = root /\ guided /\ step = "listing"
    BY <1>6 DEF AnswerCollections
  <2>2. ASSUME step' = "chosen" PROVE Marked([id |-> collection', version |-> root])
    <3>1. PICK r \in scope : Marked(r) /\ collection' = r.id
      BY <1>6, <2>2 DEF AnswerCollections
    <3>2. r = [id |-> r.id, version |-> root]
      BY <2>1, <3>1 DEF Position, ServingTypeOK
    <3> QED
      BY <3>1, <3>2
  <2>3. step' \in {"chosen", "emptyListing"}
    BY <1>6 DEF AnswerCollections
  <2> QED
    BY <1>1, <1>2, <2>1, <2>2, <2>3 DEF PinnedHolds, Chosen
<1>7. CASE RequestOne("lookup") \/ RequestOne("objects") \/ AnswerCollection \/ StreamObjects
           \/ AnswerObjects
  <2>1. UNCHANGED <<guided, root, collection>> /\ step \in Chosen /\ step' # "listing"
    BY <1>7 DEF RequestOne, AnswerCollection, StreamObjects, AnswerObjects, Become, Chosen
  <2> QED
    BY <1>1, <1>2, <2>1 DEF PinnedHolds
<1> QED
  BY <1>3, <1>4, <1>5, <1>6, <1>7 DEF ClientStep

LEMMA PinnedCollector ==
  ASSUME ServingTypeOK, Position, UNCHANGED client, ReleasesKept, PinnedHolds
  PROVE  PinnedHolds'
<1> SUFFICES ASSUME root # DefaultRoot
             PROVE  /\ ReleaseExists(root)'
                    /\ step = "listing" => \E r \in scope : Marked(r)'
                    /\ step \in Chosen => Marked([id |-> collection, version |-> root])'
  BY DEF PinnedHolds, client, Chosen
<1>1. root # NoVersion
  BY MarkerAssumption DEF ServingTypeOK, Root
<1>2. ReleaseExists(root)'
  BY DEF PinnedHolds, ReleaseExists, ListReleases, ReleasesKept, Legacy, client
<1>3. ASSUME step = "listing" PROVE \E r \in scope : Marked(r)'
  BY <1>1, <1>3, MarkedKept DEF PinnedHolds, Position
<1>4. ASSUME step \in Chosen PROVE Marked([id |-> collection, version |-> root])'
  BY <1>1, <1>4, MarkedKept DEF PinnedHolds, client
<1> QED
  BY <1>2, <1>3, <1>4
-----------------------------------------------------------------------------
(***************************************************************************)
(* What has been read of a release stays what is stored of it.             *)
(***************************************************************************)
LEMMA ReadClient ==
  ASSUME TypeOK, ServingTypeOK, Position, UNCHANGED vars, ClientStep,
         NEW r \in scope' \cap Release, r \in scope => ReadOf(r)
  PROVE  ReadOf(r)'
<1>1. objects' = objects
  BY DEF vars, db
<1>2. CASE ~(AnswerObjects \/ StreamObjects)
  <2>1. got' = NothingRead
    BY <1>2 DEF Position, ClientStep, Discover, Preset, RequestCollections, AnswerCollections,
                RequestOne, AnswerCollection, ClientRestarts, Become
  <2> QED
    BY <2>1 DEF ReadOf, NothingRead
<1>3. CASE AnswerObjects
  BY <1>1, <1>3 DEF AnswerObjects, Become, ReadOf
<1>4. CASE StreamObjects
  <2>1. scope = {r} /\ ReadOf(r)
    BY <1>4 DEF StreamObjects, Position, Chosen
  <2>2. \A k \in Part : Stored(k) = objects[r][k]
    BY <2>1 DEF Stored
  <2> QED
    BY <1>1, <1>4, <2>1, <2>2 DEF StreamObjects, ReadOf, ServingTypeOK
<1> QED
  BY <1>2, <1>3, <1>4

LEMMA ReadCollector ==
  ASSUME NEW r, UNCHANGED client, objects'[r] = objects[r], ReadOf(r)
  PROVE  ReadOf(r)'
BY DEF ReadOf, client

-----------------------------------------------------------------------------
(***************************************************************************)
(* The GitHub source.                                                      *)
(***************************************************************************)

\* Only a request on the default root reads pointers, and it gets committed
\* releases.
LEMMA ScopeClient ==
  ASSUME TypeOK, ServingTypeOK, Position, PointerDesignatesCommitted, UNCHANGED vars, ClientStep,
         root = DefaultRoot => \A r \in scope : r.version \in Version => Marked(r)
  PROVE  root' = DefaultRoot => \A r \in scope' : r.version \in Version => Marked(r)'
<1> SUFFICES ASSUME root' = DefaultRoot, NEW r \in scope', r.version \in Version
             PROVE  Marked(r)
  BY DEF vars, db, Marked
<1>1. CASE r \in scope
  BY <1>1 DEF ClientStep, Discover, Preset, RequestCollections, AnswerCollections, RequestOne,
              AnswerCollection, StreamObjects, AnswerObjects, ClientRestarts, Become, Position
<1>2. CASE r \notin scope
  <2>1. PICK c \in Collection : r \in Resolved(c, root) /\ root = DefaultRoot
    BY <1>2 DEF ClientStep, Discover, Preset, RequestCollections, AnswerCollections, RequestOne,
                AnswerCollection, StreamObjects, AnswerObjects, ClientRestarts, Become, Position,
                Chosen
  <2>2. r.id = c /\ r.version = pointers[c] /\ r \in AnyVersioned
    BY <2>1, ResolvedIsOne DEF ServingTypeOK
  <2>3. r = [id |-> c, version |-> pointers[c]]
    BY <2>2 DEF AnyVersioned
  <2> QED
    BY <2>2, <2>3 DEF PointerDesignatesCommitted
<1> QED
  BY <1>1, <1>2

LEMMA GuidedClient ==
  ASSUME TypeOK, ServingTypeOK, Position, GuidedInv, PointerDesignatesCommitted,
         UNCHANGED vars, ClientStep
  PROVE  GuidedInv'
<1>1. (guided => PinnedHolds)'
  BY PinnedClient DEF GuidedInv
<1>2. root' = DefaultRoot => \A r \in scope' : r.version \in Version => Marked(r)'
  BY ScopeClient DEF GuidedInv
<1>3. ASSUME guided' \/ root' = DefaultRoot, NEW r \in scope' \cap Release
      PROVE  ReadOf(r)'
  <2>1. ASSUME r \in scope PROVE guided \/ root = DefaultRoot
    BY <1>3, <2>1
       DEF ClientStep, Discover, Preset, RequestCollections, AnswerCollections, RequestOne,
           AnswerCollection, StreamObjects, AnswerObjects, ClientRestarts, Become, Position
  <2> QED
    BY <2>1, ReadClient DEF GuidedInv
<1> QED
  BY <1>1, <1>2, <1>3 DEF GuidedInv

LEMMA GuidedCollector ==
  ASSUME GitHub, TypeOK, OnePassInv, GitHubInv, ServingTypeOK, Position, GuidedInv,
         UNCHANGED client, [Next]_vars
  PROVE  GuidedInv'
<1>1. ReleasesKept
  BY CommittedKept DEF ReleasesKept
<1>2. (guided => PinnedHolds)'
  BY <1>1, PinnedCollector DEF GuidedInv, client
<1>3. ASSUME root = DefaultRoot, NEW r \in scope, r.version \in Version
      PROVE  Marked(r)'
  BY <1>1, <1>3, MarkedKept, MarkerAssumption DEF GuidedInv
<1>4. ASSUME guided \/ root = DefaultRoot, NEW r \in scope \cap Release
      PROVE  ReadOf(r)'
  <2>1. CASE step \notin {"objects", "answered"}
    BY <2>1 DEF Position, client, NothingRead, ReadOf
  <2>2. CASE step \in {"objects", "answered"}
    <3>1. r.version \in Version /\ r.version # NoVersion
      BY SourceAssumption, MarkerAssumption
    <3>2. Marked(r)
      <4>1. CASE root = DefaultRoot
        BY <3>1, <4>1 DEF GuidedInv
      <4>2. CASE root # DefaultRoot
        <5>1. r.id = collection /\ r.version = root
          BY <2>2, <4>2 DEF Position, Chosen
        <5>2. r = [id |-> collection, version |-> root]
          BY <5>1, SourceAssumption
        <5> QED
          BY <1>4, <2>2, <4>2, <5>2 DEF GuidedInv, PinnedHolds, Chosen
      <4> QED
        BY <4>1, <4>2
    <3>3. objects'[r] = objects[r]
      BY <3>1, <3>2, CommittedKept DEF Marked, Legacy
    <3> QED
      BY <1>4, <3>3, ReadCollector DEF GuidedInv
  <2> QED
    BY <2>1, <2>2
<1> QED
  BY <1>2, <1>3, <1>4 DEF GuidedInv, client

LEMMA GuidedInductive ==
  ASSUME GitHub
  PROVE  ServingSpec => []((TypeOK /\ OnePassInv /\ GitHubInv)
                           /\ (ServingTypeOK /\ Position) /\ GuidedInv)
<1>1. ServingInit => GuidedInv
  BY DEF ServingInit, ClientIdle, GuidedInv, PinnedHolds
<1>2. ASSUME TypeOK, OnePassInv, GitHubInv, ServingTypeOK, Position, GuidedInv, [ServingNext]_all
      PROVE  GuidedInv'
  <2>1. CASE ClientStep /\ UNCHANGED vars
    BY <1>2, <2>1, GuidedClient DEF GitHubInv
  <2>2. CASE UNCHANGED client /\ [Next]_vars
    BY <1>2, <2>2, GuidedCollector
  <2> QED
    BY <1>2, <2>1, <2>2 DEF ServingNext, all
<1>3. (TypeOK /\ OnePassInv /\ GitHubInv) /\ (ServingTypeOK /\ Position) /\ GuidedInv
        /\ [ServingNext]_all => GuidedInv'
  BY <1>2
<1> QED
  BY <1>1, <1>3, ServingIsHydration, ServingTypeCorrect, GitHubInductive, PTL DEF ServingSpec

\* An answer of many reads is one release, each object once.
THEOREM AnswersAreWhole ==
  ASSUME GitHub
  PROVE  ServingSpec => []AnswerWhole
<1>1. ASSUME TypeOK, GitHubInv, ServingTypeOK, Position, GuidedInv,
             step = "answered", guided \/ root = DefaultRoot, NEW r \in scope \cap Release
      PROVE  got = Bundle(r)
  <2>1. r.version \in Version /\ r.version # NoVersion
    BY SourceAssumption, MarkerAssumption
  <2>2. Marked(r)
    <3>1. CASE root = DefaultRoot
      BY <1>1, <2>1, <3>1 DEF GuidedInv
    <3>2. CASE root # DefaultRoot
      <4>1. r.id = collection /\ r.version = root
        BY <1>1, <3>2 DEF Position, Chosen
      <4>2. r = [id |-> collection, version |-> root]
        BY <4>1, SourceAssumption
      <4> QED
        BY <1>1, <3>2, <4>2 DEF GuidedInv, PinnedHolds, Chosen
    <3> QED
      BY <3>1, <3>2
  <2>3. objects[r] = Bundle(r)
    BY <1>1, <2>1, <2>2 DEF GitHubInv, MarkerMeansHydrated, Hydrated, Marked, Legacy
  <2>4. \A k \in Part : got[k] = Bundle(r)[k]
    BY <1>1, <2>3 DEF GuidedInv, ReadOf, Position
  <2> QED
    BY <1>1, <2>4 DEF ServingTypeOK, Bundle, FirstParts
<1>2. (TypeOK /\ OnePassInv /\ GitHubInv) /\ (ServingTypeOK /\ Position) /\ GuidedInv
        => AnswerWhole
  BY <1>1 DEF AnswerWhole
<1> QED
  BY <1>2, GuidedInductive, PTL

\* The default listing shows a document for every pointer it has read.
THEOREM DefaultListingIsWhole ==
  ASSUME GitHub
  PROVE  ServingSpec => DefaultListingWhole
<1>1. (TypeOK /\ OnePassInv /\ GitHubInv) /\ (ServingTypeOK /\ Position) /\ GuidedInv
        /\ [ServingNext]_all =>
        [AnswerCollections /\ root = DefaultRoot =>
           \A r \in scope : r.version \in Version => Marked(r)]_all
  BY DEF GuidedInv
<1> QED
  BY <1>1, GuidedInductive, PTL DEF ServingSpec, DefaultListingWhole
-----------------------------------------------------------------------------
(***************************************************************************)
(* A database the collector itself has made: it holds no legacy document.  *)
(* Every version can be a root.                                            *)
(***************************************************************************)
NoLegacy == LegacyId = {}
AllRoutable == Routable = Version

LEMMA MarkedIsRelease ==
  ASSUME NoLegacy, TypeOK, NEW r, Marked(r)
  PROVE  r \in Release /\ r.version \in Version /\ r.version # NoVersion
<1>1. r \in Release
  BY DEF Marked, TypeOK, Doc, AnyRelease, LegacyRelease, NoLegacy
<1> QED
  BY <1>1, SourceAssumption, MarkerAssumption

LEMMA KeptClient ==
  ASSUME NoLegacy, TypeOK, ServingTypeOK, Position, PointerKept, UNCHANGED vars, ClientStep
  PROVE  PointerKept'
<1> SUFFICES ASSUME guided', root' = DefaultRoot
             PROVE  /\ step' = "listing" =>
                         \A r \in scope' : r.version \in Version => pointers[r.id] \in Version
                    /\ step' \in {"chosen", "lookup"} => pointers[collection'] \in Version
                    /\ step' = "lookup" => \A r \in scope' : r.version \in Version
  BY DEF PointerKept, vars, db
<1>1. CASE Discover \/ Preset \/ ClientRestarts \/ StreamObjects \/ AnswerObjects
           \/ RequestOne("objects")
  BY <1>1 DEF Discover, Preset, ClientRestarts, StreamObjects, AnswerObjects, RequestOne, Become,
              PointerKept
<1>2. CASE RequestCollections
  <2>1. ASSUME step' = "listing", NEW r \in scope'
        PROVE  r.version = pointers[r.id]
    <3>1. root = DefaultRoot /\ \E c \in Collection : r \in Resolved(c, root)
      BY <1>2, <2>1 DEF RequestCollections, Become
    <3> QED
      BY <3>1, ResolvedIsOne DEF ServingTypeOK
  <2> QED
    BY <1>2, <2>1 DEF RequestCollections, Become
<1>3. CASE AnswerCollections
  BY <1>3, MarkedIsRelease DEF AnswerCollections, PointerKept
<1>4. CASE RequestOne("lookup")
  <2>1. guided /\ root = DefaultRoot /\ step = "chosen" /\ collection' = collection
    BY <1>4 DEF RequestOne, Become
  <2>2. ASSUME step' = "lookup", NEW r \in scope'
        PROVE  r.version = pointers[collection]
    <3>1. r \in Resolved(collection, root) /\ collection \in Collection
      BY <1>4, <2>1, <2>2 DEF RequestOne, Become, Position, Chosen
    <3> QED
      BY <2>1, <3>1, ResolvedIsOne DEF ServingTypeOK
  <2> QED
    BY <1>4, <2>1, <2>2 DEF RequestOne, Become, PointerKept
<1>5. CASE AnswerCollection
  BY <1>5 DEF AnswerCollection, PointerKept
<1> QED
  BY <1>1, <1>2, <1>3, <1>4, <1>5 DEF ClientStep

LEMMA KeptCollector ==
  ASSUME GitHub, NoLegacy, TypeOK, GitHubInv, ServingTypeOK, Position, PointerKept,
         UNCHANGED client, [Next]_vars
  PROVE  PointerKept'
<1>1. ASSUME NEW c \in Collection, pointers[c] \in Version
      PROVE  pointers'[c] \in Version
  <2>1. CASE pointers' = pointers
    BY <1>1, <2>1
  <2>2. CASE \E r \in NewestReleases : pointers' = [pointers EXCEPT ![r.id] = r.version]
    <3>1. PICK r \in NewestReleases : pointers' = [pointers EXCEPT ![r.id] = r.version]
      BY <2>2
    <3>2. Marked(r)
      BY DEF NewestReleases, Marked
    <3> QED
      BY <1>1, <3>1, <3>2, MarkedIsRelease DEF TypeOK
  <2> QED
    BY <1>1, <2>1, <2>2, PointerMoves
<1>2. \A r \in scope : r.id \in Collection
  BY DEF ServingTypeOK
<1>3. step \in {"chosen", "lookup"} => collection \in Collection
  BY DEF Position, Chosen
<1> QED
  BY <1>1, <1>2, <1>3 DEF PointerKept, client

LEMMA TurnedAwayClient ==
  ASSUME NoLegacy, AllRoutable, TypeOK, ServingTypeOK, Position, GuidedInv, PointerKept,
         GuidedNeverTurnedAway, UNCHANGED vars, ClientStep
  PROVE  GuidedNeverTurnedAway'
<1> SUFFICES ASSUME guided'
             PROVE  /\ step' \notin {"unknownRoot", "unknownCollection"}
                    /\ step' = "emptyListing" => root' = DefaultRoot
  BY DEF GuidedNeverTurnedAway
<1>1. CASE Discover \/ Preset \/ ClientRestarts \/ StreamObjects \/ AnswerObjects
  BY <1>1 DEF Discover, Preset, ClientRestarts, StreamObjects, AnswerObjects, Become,
              GuidedNeverTurnedAway
<1>2. guided => RootFound(root)
  BY ListedReleases
     DEF GuidedInv, PinnedHolds, RootFound, ServingTypeOK, Root, AllRoutable
<1>3. CASE RequestCollections
  BY <1>2, <1>3 DEF RequestCollections, Become
<1>4. CASE AnswerCollections
  BY <1>4 DEF AnswerCollections, GuidedInv, PinnedHolds
<1>5. CASE RequestOne("lookup") \/ RequestOne("objects")
  <2>1. guided /\ step = "chosen"
    BY <1>5 DEF RequestOne, Become
  <2>2. Resolved(collection, root) # {}
    BY <2>1, MarkerAssumption DEF PointerKept, Resolved
  <2> QED
    BY <1>2, <1>5, <2>1, <2>2 DEF RequestOne
<1>6. CASE AnswerCollection
  <2>1. guided /\ step = "lookup"
    BY <1>6 DEF AnswerCollection
  <2>2. PICK r \in AnyVersioned :
          scope = {r} /\ r.id = collection /\ (root # DefaultRoot => r.version = root)
    BY <2>1 DEF Position, Chosen, AnyVersioned
  <2>3. Marked(r)
    <3>1. CASE root = DefaultRoot
      BY <2>1, <2>2, <3>1 DEF GuidedInv, PointerKept
    <3>2. CASE root # DefaultRoot
      <4>1. r = [id |-> collection, version |-> root]
        BY <2>2, <3>2 DEF AnyVersioned
      <4> QED
        BY <2>1, <3>2, <4>1 DEF GuidedInv, PinnedHolds, Chosen
    <3> QED
      BY <3>1, <3>2
  <2> QED
    BY <1>6, <2>2, <2>3 DEF AnswerCollection
<1> QED
  BY <1>1, <1>3, <1>4, <1>5, <1>6 DEF ClientStep

\* Whatever discovery advertises and a listing names can be asked for
\* afterwards, however the collector moves on in between.
THEOREM GuidedClientServed ==
  ASSUME GitHub, NoLegacy, AllRoutable
  PROVE  ServingSpec => []GuidedNeverTurnedAway
<1> DEFINE Inv == PointerKept /\ GuidedNeverTurnedAway
<1>1. ServingInit => Inv
  BY DEF ServingInit, ClientIdle, PointerKept, GuidedNeverTurnedAway
<1>2. ASSUME TypeOK, GitHubInv, ServingTypeOK, Position, GuidedInv, Inv, [ServingNext]_all
      PROVE  Inv'
  <2>1. CASE ClientStep /\ UNCHANGED vars
    BY <1>2, <2>1, KeptClient, TurnedAwayClient
  <2>2. CASE UNCHANGED client /\ [Next]_vars
    BY <1>2, <2>2, KeptCollector DEF GuidedNeverTurnedAway, client
  <2> QED
    BY <1>2, <2>1, <2>2 DEF ServingNext, all
<1>3. (TypeOK /\ OnePassInv /\ GitHubInv) /\ (ServingTypeOK /\ Position) /\ GuidedInv
        /\ Inv /\ [ServingNext]_all => Inv'
  BY <1>2
<1> QED
  BY <1>1, <1>3, GuidedInductive, PTL DEF ServingSpec
-----------------------------------------------------------------------------
(***************************************************************************)
(* Any source: a client during whose walk nothing was removed.             *)
(***************************************************************************)

\* A pass computes its pointers from documents and removes none before they
\* are written.
LEMMA PointsAtMarkedStep ==
  ASSUME NoOverlap, TypeOK, PointsAtMarked, [Next]_vars
  PROVE  PointsAtMarked'
<1> SUFFICES ASSUME NEW q \in Pass, pc'[q] = "point", NEW r \in latest'[q]
             PROVE  Marked(r)'
  BY DEF PointsAtMarked
<1>1. ASSUME pc[q] = "point", docs \subseteq docs', latest'[q] \subseteq latest[q]
      PROVE  Marked(r)'
  BY <1>1 DEF PointsAtMarked, Marked
<1>2. CASE AggregateLatest(q)
  <2>1. r \in NewestReleases
    BY <1>2 DEF AggregateLatest, TypeOK
  <2> QED
    BY <1>2, <2>1 DEF AggregateLatest, NewestReleases, Marked, db
<1>3. CASE PointLatest(q)
  BY <1>1, <1>3 DEF PointLatest, TypeOK
<1>4. CASE ~AggregateLatest(q) /\ ~PointLatest(q)
  <2>1. ASSUME NEW p \in Pass, PassStep(p)
        PROVE  FALSE
    <3>1. p = q
      BY DEF NoOverlap
    <3> QED
      BY <1>4, <2>1, <3>1
         DEF PassStep, ListSource, SkipHydrated, BeginRelease, ClearLeftovers, FetchBundle,
             BundleMissing, InsertObjects, CommitRelease, LeaveRelease, ScanOrphans,
             DropLegacyDocument, DeleteOrphanObjects, DeleteOrphanDocument, DropPointers,
             EndPass, TypeOK
  <2>2. ASSUME NEW p \in Pass, FetchNoBundle(p) \/ HydrateFails(p) \/ AbortPass(p)
        PROVE  FALSE
    <3>1. p = q
      BY DEF NoOverlap
    <3> QED
      BY <2>2, <3>1 DEF FetchNoBundle, HydrateFails, LeaveRelease, AbortPass, EndPass, TypeOK
  <2>3. CASE Crash
    BY <2>3 DEF Crash
  <2>4. ASSUME NEW p \in Pass, StartPass(p)
        PROVE  FALSE
    BY <2>4 DEF StartPass, NoOverlap, TypeOK
  <2>5. CASE UNCHANGED <<docs, locals>>
    BY <1>1, <2>5 DEF locals
  <2> QED
    BY <2>1, <2>2, <2>3, <2>4, <2>5
       DEF Next, Boot, Tick, Fault, SourceChange, Publish, Delist, vars, db
<1> QED
  BY <1>2, <1>3, <1>4

LEMMA DesignatingKept ==
  ASSUME TypeOK, PointsAtMarked, [Next]_vars, NothingRemoved, NEW c \in Collection
  PROVE  /\ pointers'[c] = pointers[c] \/ Designating(c)'
         /\ Designating(c) => Designating(c)'
<1>0. \A r : Marked(r) => Marked(r)'
  BY DEF NothingRemoved, Marked
<1>1. ASSUME pointers'[c] # pointers[c]
      PROVE  Designating(c)'
  <2>1. PICK p \in Pass : PointLatest(p) \/ DropPointers(p)
    BY <1>1
       DEF Next, Boot, Tick, StartPass, SourceChange, Publish, Delist, vars, db, Fault, Crash,
           FetchNoBundle, HydrateFails, LeaveRelease, AbortPass, PassStep, ListSource,
           SkipHydrated, BeginRelease, ClearLeftovers, FetchBundle, BundleMissing, InsertObjects,
           CommitRelease, AggregateLatest, ScanOrphans, DropLegacyDocument,
           DeleteOrphanObjects, DeleteOrphanDocument
  <2>2. CASE DropPointers(p)
    <3>1. pointers'[c] = NoPointer
      BY <1>1, <2>2 DEF DropPointers
    <3> QED
      BY <1>1, <3>1 DEF NothingRemoved
  <2>3. CASE PointLatest(p)
    <3>1. PICK r \in latest[p] : pointers' = [pointers EXCEPT ![r.id] = r.version]
      BY <2>3 DEF PointLatest
    <3>2. r \in AnyRelease /\ Marked(r)
      BY <2>3 DEF PointLatest, PointsAtMarked, TypeOK
    <3>3. r.id = c /\ pointers'[c] = r.version
      BY <1>1, <3>1 DEF TypeOK
    <3>4. r = [id |-> c, version |-> pointers'[c]]
      BY <3>2, <3>3, SourceAssumption DEF AnyRelease, LegacyRelease
    <3> QED
      BY <1>0, <3>2, <3>4 DEF Designating, Marked
  <2> QED
    BY <2>1, <2>2, <2>3
<1>2. ASSUME pointers'[c] = pointers[c], Designating(c)
      PROVE  Designating(c)'
  BY <1>0, <1>2 DEF Designating, Marked
<1> QED
  BY <1>1, <1>2

LEMMA SteadyCollector ==
  ASSUME TypeOK, PointsAtMarked, ServingTypeOK, Position, SteadyInv, UNCHANGED client,
         [Next]_vars, steady' = (steady /\ NothingRemoved)
  PROVE  SteadyInv'
<1> SUFFICES ASSUME guided, steady, NothingRemoved
             PROVE  SteadyInv'
  BY DEF SteadyInv, client
<1>0. \A r : Marked(r) => Marked(r)'
  BY DEF NothingRemoved, Marked
<1>1. PinnedHolds'
  BY PinnedCollector DEF SteadyInv, ReleasesKept, NothingRemoved
<1>2. ASSUME root = DefaultRoot
      PROVE  /\ step = "listing" =>
                  \A r \in scope : pointers'[r.id] = r.version \/ Designating(r.id)'
             /\ step \in {"chosen", "lookup"} => Designating(collection)'
  <2>1. ASSUME step = "listing", NEW r \in scope
        PROVE  pointers'[r.id] = r.version \/ Designating(r.id)'
    <3>1. r.id \in Collection
      BY DEF ServingTypeOK
    <3> QED
      BY <1>2, <2>1, <3>1, DesignatingKept DEF SteadyInv
  <2>2. ASSUME step \in {"chosen", "lookup"}
        PROVE  Designating(collection)'
    <3>1. collection' = collection /\ collection \in Collection /\ Designating(collection)
      BY <1>2, <2>2 DEF SteadyInv, Position, Chosen, client
    <3> QED
      BY <3>1, DesignatingKept DEF Designating
  <2> QED
    BY <2>1, <2>2
<1>3. step \in {"lookup", "objects", "answered"} => \A r \in scope : Marked(r)'
  BY <1>0 DEF SteadyInv
<1>4. ASSUME NEW r \in scope \cap Release
      PROVE  ReadOf(r)'
  <2>1. CASE step \notin {"objects", "answered"}
    BY <2>1 DEF Position, client, NothingRead, ReadOf
  <2>2. CASE step \in {"objects", "answered"}
    <3>1. r.version # NoVersion
      BY SourceAssumption, MarkerAssumption
    <3>2. objects'[r] = objects[r]
      BY <2>2, <3>1 DEF SteadyInv, Marked, NothingRemoved, Legacy
    <3> QED
      BY <3>2, ReadCollector DEF SteadyInv
  <2> QED
    BY <2>1, <2>2
<1> QED
  BY <1>1, <1>2, <1>3, <1>4 DEF SteadyInv, client, Designating

LEMMA SteadyClient ==
  ASSUME TypeOK, ServingTypeOK, Position, SteadyInv, UNCHANGED vars, ClientStep,
         steady' = (steady \/ ClientRestarts)
  PROVE  SteadyInv'
<1>1. CASE ClientRestarts
  BY <1>1 DEF ClientRestarts, SteadyInv, PinnedHolds
<1>2. CASE ~ClientRestarts
  <2> SUFFICES ASSUME guided', steady
               PROVE  SteadyInv'
    BY <1>2 DEF SteadyInv
  <2>0. guided /\ PinnedHolds
    BY <1>2 DEF ClientStep, Discover, Preset, RequestCollections, AnswerCollections, RequestOne,
                AnswerCollection, StreamObjects, AnswerObjects, Become, SteadyInv
  <2>1. PinnedHolds'
    BY <2>0, PinnedClient
  <2>2. \A c : Designating(c)' <=> Designating(c)
    BY DEF Designating, Marked, vars, db
  <2>3. \A r : Marked(r)' <=> Marked(r)
    BY DEF Marked, vars, db
  <2>4. ASSUME root' = DefaultRoot, step' = "listing", NEW r \in scope'
        PROVE  pointers'[r.id] = r.version
    <3>1. root = DefaultRoot /\ \E c \in Collection : r \in Resolved(c, root)
      BY <1>2, <2>4 DEF ClientStep, Discover, Preset, RequestCollections, AnswerCollections,
                        RequestOne, AnswerCollection, StreamObjects, AnswerObjects, Become
    <3> QED
      BY <3>1, ResolvedIsOne DEF ServingTypeOK, vars, db
  <2>5. ASSUME root' = DefaultRoot, step' \in {"chosen", "lookup"}
        PROVE  Designating(collection')
    <3>1. CASE AnswerCollections
      <4>1. root = DefaultRoot /\ step = "listing"
        BY <2>5, <3>1 DEF AnswerCollections
      <4>2. PICK r \in scope : Marked(r) /\ collection' = r.id
        BY <2>5, <3>1 DEF AnswerCollections
      <4>3. r = [id |-> r.id, version |-> r.version]
        BY <4>2 DEF ServingTypeOK
      <4> QED
        BY <2>0, <4>1, <4>2, <4>3 DEF SteadyInv, Designating
    <3>2. CASE ~AnswerCollections
      BY <1>2, <2>0, <2>5, <3>2
         DEF ClientStep, Discover, Preset, RequestCollections, RequestOne, AnswerCollection,
             StreamObjects, AnswerObjects, Become, SteadyInv
    <3> QED
      BY <3>1, <3>2
  <2>6. ASSUME step' \in {"lookup", "objects", "answered"}, NEW r \in scope'
        PROVE  Marked(r)
    <3>1. CASE step = "chosen"
      <4>1. root' = root /\ collection \in Collection /\ r \in Resolved(collection, root)
        BY <2>6, <3>1
           DEF ClientStep, Discover, Preset, RequestCollections, AnswerCollections, RequestOne,
               AnswerCollection, StreamObjects, AnswerObjects, Become, ClientRestarts, Position,
               Chosen
      <4>2. /\ r \in AnyVersioned /\ r.id = collection
            /\ r.version = IF root = DefaultRoot THEN pointers[collection] ELSE root
        BY <4>1, ResolvedIsOne DEF ServingTypeOK
      <4>3. r = [id |-> collection, version |-> r.version]
        BY <4>2 DEF AnyVersioned
      <4>4. CASE root = DefaultRoot
        BY <2>0, <3>1, <4>2, <4>3, <4>4 DEF SteadyInv, Designating
      <4>5. CASE root # DefaultRoot
        BY <2>0, <3>1, <4>2, <4>3, <4>5 DEF PinnedHolds, Chosen
      <4> QED
        BY <4>4, <4>5
    <3>2. CASE step # "chosen"
      BY <2>0, <2>6, <3>2
         DEF ClientStep, Discover, Preset, RequestCollections, AnswerCollections, RequestOne,
             AnswerCollection, StreamObjects, AnswerObjects, Become, ClientRestarts, SteadyInv
    <3> QED
      BY <3>1, <3>2
  <2>7. ASSUME NEW r \in scope' \cap Release
        PROVE  ReadOf(r)'
    BY <2>0, ReadClient DEF SteadyInv
  <2> QED
    BY <2>1, <2>2, <2>3, <2>4, <2>5, <2>6, <2>7 DEF SteadyInv
<1> QED
  BY <1>1, <1>2

LEMMA SteadyInductive ==
  ASSUME NoOverlap
  PROVE  ServingSpec => []((TypeOK /\ ServingTypeOK /\ Position) /\ SteadyInv)
<1>1. ServingInit => SteadyInv /\ PointsAtMarked
  BY DEF ServingInit, Init, ClientIdle, SteadyInv, PinnedHolds, PointsAtMarked
<1>2. ASSUME TypeOK, PointsAtMarked, ServingTypeOK, Position, SteadyInv, [ServingNext]_all
      PROVE  (SteadyInv /\ PointsAtMarked)'
  <2>1. PointsAtMarked'
    <3>1. [Next]_vars
      BY <1>2 DEF ServingNext, all
    <3> QED
      BY <1>2, <3>1, PointsAtMarkedStep
  <2>2. CASE ClientStep /\ UNCHANGED vars /\ steady' = (steady \/ ClientRestarts)
    BY <1>2, <2>1, <2>2, SteadyClient
  <2>3. CASE Next /\ UNCHANGED client /\ steady' = (steady /\ NothingRemoved)
    BY <1>2, <2>1, <2>3, SteadyCollector
  <2>4. CASE UNCHANGED all
    BY <2>1, <2>4, <1>2
       DEF all, client, vars, db, SteadyInv, PinnedHolds, Chosen, ReleaseExists, ListReleases,
           Legacy, Marked, Designating, ReadOf
  <2> QED
    BY <1>2, <2>2, <2>3, <2>4 DEF ServingNext
<1>3. (TypeOK /\ ServingTypeOK /\ Position) /\ (SteadyInv /\ PointsAtMarked) /\ [ServingNext]_all
        => (SteadyInv /\ PointsAtMarked)'
  BY <1>2
<1> QED
  BY <1>1, <1>3, ServingTypeCorrect, PTL DEF ServingSpec

\* Unless something was removed during its walk, a guided client gets the
\* whole of one release or nothing of it, from a source that delists too.
THEOREM SteadyAnswersAreWhole ==
  ASSUME NoOverlap
  PROVE  ServingSpec => []SteadyAnswerWhole
<1>1. ASSUME MarkedAllOrNothing, TypeOK, ServingTypeOK, Position, SteadyInv,
             step = "answered", guided, steady, NEW r \in scope \cap Release
      PROVE  got \in {NoObjects, Bundle(r)}
  <2>1. r.version # NoVersion
    BY SourceAssumption, MarkerAssumption
  <2>2. objects[r] \in {NoObjects, Bundle(r)}
    BY <1>1, <2>1 DEF SteadyInv, Marked, MarkedAllOrNothing, Legacy
  <2>3. \A k \in Part : got[k] = objects[r][k]
    BY <1>1 DEF SteadyInv, ReadOf, Position
  <2>4. got = objects[r]
    BY <1>1, <2>3 DEF ServingTypeOK, TypeOK
  <2> QED
    BY <2>2, <2>4
<1>2. MarkedAllOrNothing /\ ((TypeOK /\ ServingTypeOK /\ Position) /\ SteadyInv)
        => SteadyAnswerWhole
  BY <1>1 DEF SteadyAnswerWhole
<1> QED
  BY <1>2, SteadyInductive, ServingIsHydration, NeverPartlyMarked, PTL
LEMMA SteadyFound ==
  ASSUME AllRoutable, TypeOK, ServingTypeOK, Position, SteadyInv, SteadyNeverTurnedAway,
         UNCHANGED vars, ClientStep, steady' = (steady \/ ClientRestarts)
  PROVE  SteadyNeverTurnedAway'
<1>1. CASE ClientRestarts
  BY <1>1 DEF ClientRestarts, SteadyNeverTurnedAway
<1>2. CASE ~ClientRestarts
  <2> SUFFICES ASSUME guided', steady
               PROVE  step' \notin {"unknownRoot", "unknownCollection"}
    BY <1>2 DEF SteadyNeverTurnedAway
  <2>0. guided /\ PinnedHolds
    BY <1>2 DEF ClientStep, Discover, Preset, RequestCollections, AnswerCollections, RequestOne,
                AnswerCollection, StreamObjects, AnswerObjects, Become, SteadyInv
  <2>1. RootFound(root)
    BY <2>0, ListedReleases DEF PinnedHolds, RootFound, ServingTypeOK, Root, AllRoutable
  <2>2. step = "chosen" => Resolved(collection, root) # {}
    <3> SUFFICES ASSUME step = "chosen", root = DefaultRoot
                 PROVE  pointers[collection] # NoPointer
      BY DEF Resolved
    <3>1. PICK d \in docs : d.release = [id |-> collection, version |-> pointers[collection]]
      BY <2>0 DEF SteadyInv, Designating, Marked
    <3>2. d.release.version \in Version \cup {NoVersion}
      BY SourceAssumption DEF TypeOK, Doc, AnyRelease, LegacyRelease
    <3> QED
      BY <3>1, <3>2, MarkerAssumption
  <2>3. CASE AnswerCollection
    <3>1. \E r \in scope : Marked(r)
      BY <2>0, <2>3 DEF AnswerCollection, SteadyInv, Position, Chosen
    <3> QED
      BY <2>3, <3>1 DEF AnswerCollection
  <2>4. CASE ~AnswerCollection
    BY <1>2, <2>0, <2>1, <2>2, <2>4
       DEF ClientStep, Discover, Preset, RequestCollections, AnswerCollections, RequestOne,
           StreamObjects, AnswerObjects, Become, SteadyNeverTurnedAway
  <2> QED
    BY <2>3, <2>4
<1> QED
  BY <1>1, <1>2

\* ... and it is never turned away.
THEOREM SteadyClientServed ==
  ASSUME NoOverlap, AllRoutable
  PROVE  ServingSpec => []SteadyNeverTurnedAway
<1>1. ServingInit => SteadyNeverTurnedAway
  BY DEF ServingInit, ClientIdle, SteadyNeverTurnedAway
<1>2. ASSUME TypeOK, ServingTypeOK, Position, SteadyInv, SteadyNeverTurnedAway, [ServingNext]_all
      PROVE  SteadyNeverTurnedAway'
  BY <1>2, SteadyFound DEF ServingNext, all, client, SteadyNeverTurnedAway
<1>3. ((TypeOK /\ ServingTypeOK /\ Position) /\ SteadyInv) /\ SteadyNeverTurnedAway
        /\ [ServingNext]_all => SteadyNeverTurnedAway'
  BY <1>2
<1> QED
  BY <1>1, <1>3, SteadyInductive, PTL DEF ServingSpec
=============================================================================
