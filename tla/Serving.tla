------------------------------- MODULE Serving -------------------------------
(***************************************************************************)
(* The API server over the collector's database: one TAXII client walks    *)
(* from discovery to a collection listing to the objects of a collection,  *)
(* while Hydration goes on (and crashes) underneath.  The server keeps no  *)
(* state between requests; each database query of a request is one step,   *)
(* so the collector moves between any two of them.                         *)
(*                                                                         *)
(* A client that follows what the server tells it is "guided"; one that    *)
(* has a root and a collection id in its configuration is not.             *)
(***************************************************************************)
EXTENDS Hydration

CONSTANTS
  DefaultRoot,    \* the latest-tracking root; a version names a pinned root
  NoCollection,
  Routable        \* versions whose root segment RELEASE_SEGMENT_PATTERN accepts

ASSUME RootAssumption ==
  /\ DefaultRoot \notin Version
  /\ NoCollection \notin Collection
  /\ Routable \subseteq Version

VARIABLES
  step,           \* where the client is
  guided,         \* whether it follows the server's own answers
  root,           \* the API root it uses
  collection,     \* the collection it has chosen
  scope,          \* releases the query of the current request is limited to
  got,            \* the copies of each part its objects request has returned
  steady          \* history: has the collector removed nothing since the client started

client == <<step, guided, root, collection, scope, got>>
all == <<vars, client, steady>>

Root == Version \cup {DefaultRoot}

Unread == -1
NothingRead == [k \in Part |-> Unread]

ClientIdle ==
  /\ step = "start"
  /\ guided = TRUE
  /\ root = DefaultRoot
  /\ collection = NoCollection
  /\ scope = {}
  /\ got = NothingRead

ServingInit == Init /\ ClientIdle /\ steady = TRUE

\* DiscoveryService.discover: the default root, and a pinned root for every
\* release some document carries (listReleases leaves legacy documents out).
ListReleases == {d.release.version : d \in {e \in docs : ~Legacy(e)}}

\* Only the releases some pointer designates are known.
ReleasePointedAt(v) == \E c \in Collection : pointers[c] = v

\* ReleaseService.releaseExists: some collection has a document of the version.
ReleaseExists(v) == v \in ListReleases

\* ReleaseParamPipe: undefined (the default root) passes.
RootFound(rt) == rt = DefaultRoot \/ (rt \in Routable /\ ReleaseExists(rt))

\* The newest release of the source instead of the pointer's.
ResolvedFromSource(c, rt) ==
  IF rt # DefaultRoot THEN {[id |-> c, version |-> rt]}
  ELSE {r \in NewestAdvertised : r.id = c}

\* ReleaseService.resolveLatestVersion; a pinned root needs no pointer.
Resolved(c, rt) ==
  IF rt # DefaultRoot THEN {[id |-> c, version |-> rt]}
  ELSE IF pointers[c] = NoPointer THEN {} ELSE {[id |-> c, version |-> pointers[c]]}

Become(s) == step' = s /\ UNCHANGED <<guided, root, collection, scope, got>>

(***************************************************************************)
(* The requests.                                                           *)
(***************************************************************************)
Discover ==
  /\ step = "start"
  /\ \E rt \in ListReleases \cup {DefaultRoot} : root' = rt
  /\ step' = "rooted"
  /\ UNCHANGED <<guided, collection, scope, got>>

\* A client configured with a root and a collection id.
Preset ==
  /\ step = "start"
  /\ guided' = FALSE
  /\ \E rt \in Root, c \in Collection : root' = rt /\ collection' = c
  /\ step' = "chosen"
  /\ UNCHANGED <<scope, got>>

\* GET collections/, first query: the pipe's on a pinned root, the pointers'
\* on the default root.
RequestCollections ==
  /\ step = "rooted"
  /\ \/ /\ RootFound(root)
        /\ scope' = UNION {Resolved(c, root) : c \in Collection}
        /\ step' = "listing"
        /\ UNCHANGED <<guided, root, collection, got>>
     \/ /\ ~RootFound(root)
        /\ Become("unknownRoot")

\* GET collections/, second query: the documents in scope.
AnswerCollections ==
  /\ step = "listing"
  /\ \/ /\ \E r \in scope : Marked(r) /\ collection' = r.id
        /\ step' = "chosen"
     \/ /\ \A r \in scope : ~Marked(r)
        /\ UNCHANGED collection
        /\ step' = "emptyListing"
  /\ scope' = {}
  /\ UNCHANGED <<guided, root, got>>

\* GET collections/{id}/ or collections/{id}/objects/: the pipe, then the
\* release the request is scoped to.
RequestOne(kind) ==
  /\ step = "chosen"
  /\ \/ /\ ~RootFound(root)
        /\ Become("unknownRoot")
     \/ /\ RootFound(root)
        /\ Resolved(collection, root) = {}
        /\ Become("unknownCollection")
     \/ /\ RootFound(root)
        /\ Resolved(collection, root) # {}
        /\ scope' = Resolved(collection, root)
        /\ step' = kind
        /\ UNCHANGED <<guided, root, collection, got>>

\* CollectionRepository.findOne: the document of the scoped release, or 404.
\* A client that finds it goes on to the objects.
AnswerCollection ==
  /\ step = "lookup"
  /\ step' = IF \E r \in scope : Marked(r) THEN "chosen" ELSE "unknownCollection"
  /\ scope' = {}
  /\ UNCHANGED <<guided, root, collection, got>>

\* ObjectRepository.findByCollectionId: the cursor delivers the parts one by
\* one, each as it is stored by then, and looks at no marker.  Objects of one
\* batch share their createdAt, so no order of the parts is relied on.
Stored(k) == IF scope \subseteq Release THEN objects[CHOOSE r \in scope : TRUE][k] ELSE 0

StreamObjects ==
  /\ step = "objects"
  /\ \E k \in Part : got[k] = Unread /\ got' = [got EXCEPT ![k] = Stored(k)]
  /\ UNCHANGED <<step, guided, root, collection, scope>>

AnswerObjects ==
  /\ step = "objects"
  /\ \A k \in Part : got[k] # Unread
  /\ Become("answered")

ClientRestarts ==
  /\ step \in {"answered", "emptyListing", "unknownRoot", "unknownCollection"}
  /\ step' = "start"
  /\ guided' = TRUE
  /\ root' = DefaultRoot
  /\ collection' = NoCollection
  /\ scope' = {}
  /\ got' = NothingRead

ClientStep ==
  \/ Discover \/ Preset \/ RequestCollections \/ AnswerCollections
  \/ RequestOne("lookup") \/ RequestOne("objects") \/ AnswerCollection
  \/ StreamObjects \/ AnswerObjects \/ ClientRestarts

\* No committed release loses its document or its objects, no collection its
\* pointer.
NothingRemoved ==
  /\ \A d \in docs : d \in docs' /\ (~Legacy(d) => objects'[d.release] = objects[d.release])
  /\ \A c \in Collection : pointers'[c] = NoPointer => pointers[c] = NoPointer

ServingNext ==
  \/ ClientStep /\ UNCHANGED vars /\ steady' = (steady \/ ClientRestarts)
  \/ Next /\ UNCHANGED client /\ steady' = (steady /\ NothingRemoved)

ServingSpec == ServingInit /\ [][ServingNext]_all

(***************************************************************************)
(* Properties.                                                             *)
(***************************************************************************)
ServingTypeOK ==
  /\ step \in {"start", "rooted", "listing", "chosen", "lookup", "objects", "answered",
               "emptyListing", "unknownRoot", "unknownCollection"}
  /\ guided \in BOOLEAN
  /\ root \in Root
  /\ collection \in Collection \cup {NoCollection}
  /\ scope \subseteq [id : Collection, version : Version \cup {NoVersion}]
  /\ got \in [Part -> Nat \cup {Unread}]
  /\ steady \in BOOLEAN

\* Whatever discovery advertises and a listing names can be asked for
\* afterwards: no 404, however the collector has moved on in between.
GuidedNeverTurnedAway ==
  guided => /\ step \notin {"unknownRoot", "unknownCollection"}
            /\ step = "emptyListing" => root = DefaultRoot

\* A guided client, and any client of the default root, receives each object
\* of one release exactly once, though the answer takes many reads.
AnswerWhole ==
  step = "answered" /\ (guided \/ root = DefaultRoot) =>
    \A r \in scope \cap Release : got = Bundle(r)

\* The default listing shows a document for every pointer it has read,
\* although pointers and documents are read by two queries.
DefaultListingWhole ==
  [][AnswerCollections /\ root = DefaultRoot =>
       \A r \in scope : r.version \in Version => Marked(r)]_all

\* From a source that delists, too: unless the collector has removed something
\* since it started, a guided client is never turned away, ...
SteadyNeverTurnedAway ==
  guided /\ steady => step \notin {"unknownRoot", "unknownCollection"}

\* ... and it receives the whole of one release, or nothing of it (a release
\* being swept when it started); never a part.
SteadyAnswerWhole ==
  step = "answered" /\ guided /\ steady =>
    \A r \in scope \cap Release : got \in {NoObjects, Bundle(r)}

(***************************************************************************)
(* Why the properties hold: the inductive invariants of ServingProofs.     *)
(***************************************************************************)
Chosen == {"chosen", "lookup", "objects", "answered"}

\* Where the client is says what its request holds.
Position ==
  /\ step \in {"start", "rooted", "chosen"} => scope = {}
  /\ step \notin {"objects", "answered"} => got = NothingRead
  /\ step = "answered" => \A k \in Part : got[k] # Unread
  /\ step \in Chosen => collection \in Collection
  /\ step = "listing" /\ root # DefaultRoot => \A r \in scope : r.version = root
  /\ step \in Chosen \ {"chosen"} =>
       \E r \in [id : Collection, version : Version \cup {NoVersion}] :
         scope = {r} /\ r.id = collection /\ (root # DefaultRoot => r.version = root)

\* What a pinned root has shown a guided client is still there.
PinnedHolds ==
  root # DefaultRoot =>
    /\ ReleaseExists(root)
    /\ step = "listing" => \E r \in scope : Marked(r)
    /\ step \in Chosen => Marked([id |-> collection, version |-> root])

\* What a client has received so far of r.
ReadOf(r) == \A k \in Part : got[k] \in {Unread, objects[r][k]}

\* For a source that never delists.  A release found through a pointer is
\* committed, and nothing of it changes while it is read.
GuidedInv ==
  /\ guided => PinnedHolds
  /\ root = DefaultRoot => \A r \in scope : r.version \in Version => Marked(r)
  /\ guided \/ root = DefaultRoot => \A r \in scope \cap Release : ReadOf(r)

\* Without legacy documents a collection that was listed keeps its pointer.
PointerKept ==
  guided /\ root = DefaultRoot =>
    /\ step = "listing" =>
         \A r \in scope : r.version \in Version => pointers[r.id] \in Version
    /\ step \in {"chosen", "lookup"} => pointers[collection] \in Version
    /\ step = "lookup" => \A r \in scope : r.version \in Version

\* For any source: a pass points only at documents it has seen and cannot have
\* removed yet, ...
PointsAtMarked == \A p \in Pass : pc[p] = "point" => \A r \in latest[p] : Marked(r)

\* ... so that a pointer either stays where the client has read it or moves to
\* a committed release, and what a steady client was shown stays.
Designating(c) == Marked([id |-> c, version |-> pointers[c]])

SteadyInv ==
  guided /\ steady =>
    /\ PinnedHolds
    /\ root = DefaultRoot =>
         /\ step = "listing" =>
              \A r \in scope : pointers[r.id] = r.version \/ Designating(r.id)
         /\ step \in {"chosen", "lookup"} => Designating(collection)
    /\ step \in {"lookup", "objects", "answered"} => \A r \in scope : Marked(r)
    /\ \A r \in scope \cap Release : ReadOf(r)

(***************************************************************************)
(* What the documentation says of the roots, beyond that.                  *)
(***************************************************************************)

\* USAGE.md, "Use the Discovery Endpoint to enumerate the available API
\* roots": a root that discovery has advertised is found.
AdvertisedRootFound == guided => step # "unknownRoot"

\* USAGE.md, a pinned root is "immutable": what it serves for a collection
\* does not change while the root is there.
PinnedRootImmutable ==
  [][\A r \in Release : ReleaseExists(r.version) /\ ReleaseExists(r.version)' =>
       objects'[r] = objects[r]]_all
=============================================================================
