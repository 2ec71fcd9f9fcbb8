------------------------------ MODULE Hydration ------------------------------
(***************************************************************************)
(* The collector: HydrateService (src/src/hydrate/hydrate.service.ts)      *)
(* copies every (collection, release) pair its STIX source advertises into *)
(* MongoDB, keeps one latest-release pointer per collection and removes    *)
(* the pairs the source no longer advertises.                              *)
(*                                                                         *)
(* A pass is one call of findAndStoreTaxiiResources.  The boot pass runs   *)
(* inside onModuleInit, before cron jobs are mounted; a cron tick starts a *)
(* pass whether or not the previous one has ended, so passes may overlap   *)
(* (|Pass| bounds how many).  Each await of the code is one step here:     *)
(* everything another pass, a crash or a reader can observe in between is  *)
(* a state.                                                                *)
(*                                                                         *)
(* The objects of a bundle are abstracted to its parts 1..BundleSize[r],   *)
(* inserted in order; objects[r][k] counts the copies of part k that are   *)
(* stored under release r (nothing makes them unique in the database).     *)
(***************************************************************************)
EXTENDS Integers, FiniteSets

CONSTANTS
  Collection,     \* ids of x-mitre-collection objects
  Version,        \* release version strings
  NoVersion,      \* the missing version of a pre-per-release document
  NoPointer,      \* no latest-release pointer document
  NoRelease,      \* no release being hydrated
  Release,        \* the (collection, version) pairs the source may advertise
  Modified,       \* publication timestamp of each release
  BundleSize,     \* number of parts of each release's bundle
  Part,           \* an interval 1..n that holds the parts of every bundle
  Pass,           \* passes that may be in progress at once
  Generation,     \* what tells a document from an earlier one of its release
  LegacyId,       \* collections that may start with a legacy document
  MayDelist,      \* does the source delist releases (Workbench) or not (GitHub)
  MayGarble,      \* may a response be a body that is no bundle, or no proper listing
  HydrateOnBoot   \* options.hydrateOnBoot

LegacyRelease == [id : LegacyId, version : {NoVersion}]
AnyRelease == Release \cup LegacyRelease

ASSUME SourceAssumption ==
  /\ Release \subseteq [id : Collection, version : Version]
  /\ IsFiniteSet(Release)
  /\ LegacyId \subseteq Collection
  /\ Modified \in [Release -> Nat]

ASSUME BundleAssumption ==
  /\ Part \subseteq Nat \ {0}
  /\ BundleSize \in [Release -> Nat]
  /\ \A r \in Release : 1 .. BundleSize[r] \subseteq Part

ASSUME PassAssumption == IsFiniteSet(Pass)

ASSUME MarkerAssumption ==
  /\ NoVersion \notin Version
  /\ NoPointer \notin Version \cup {NoVersion}
  /\ NoRelease \notin Release \cup [Part -> Nat]
  /\ MayDelist \in BOOLEAN
  /\ MayGarble \in BOOLEAN
  /\ HydrateOnBoot \in BOOLEAN

VARIABLES
  source,         \* the releases the source advertises now
  docs,           \* the taxii-collection documents (commit markers)
  objects,        \* copies of each part stored under each release
  pointers,       \* the latest-release pointer of each collection
  process,        \* the collector process: "down", "booting" or "up"
  pc,             \* where each pass is
  listed,         \* the listing the pass read when it started
  todo,           \* its releases the hydration loop has not reached
  current,        \* the release being hydrated
  inserted,       \* how many parts of its bundle are written
  latest,         \* pointers computed and not yet written
  orphans,        \* scanned documents still to be removed
  doomed          \* the document whose objects have just been deleted

db == <<docs, objects, pointers>>
locals == <<pc, listed, todo, current, inserted, latest, orphans, doomed>>
vars == <<source, db, process, locals>>

(***************************************************************************)
(* Documents.  A unique index on (id, release.version) allows one document *)
(* per release; the generation stands for its _id, which a document        *)
(* created later for the same release does not share.                      *)
(***************************************************************************)
Doc == [release : AnyRelease, gen : Generation]

Legacy(d) == d.release.version = NoVersion

Marked(r) == \E d \in docs : d.release = r

\* The first n parts of a bundle, once each; the whole bundle of a release.
FirstParts(n) == [k \in Part |-> IF k <= n THEN 1 ELSE 0]
NoObjects == FirstParts(0)
Bundle(r) == FirstParts(BundleSize[r])
Hydrated(r) == objects[r] = Bundle(r)

\* Where a pass has a release in hand.
Hydrating == {"clear", "fetch", "insert", "empty"}

FreshGenerations(r) ==
  Generation \ {d.gen : d \in {e \in docs \cup UNION {orphans[p] \cup doomed[p] : p \in Pass} :
                                 e.release = r}}

\* release.modified, which every release is taken to have: what safeDate puts
\* in the place of a missing or invalid one, the time of the hydration, is left
\* out.  A legacy document has none: it sorts after every other.
ModifiedOf(r) == IF r.version = NoVersion THEN -1 ELSE Modified[r]

\* The newest of what the source advertises, hydrated or not.
NewestAdvertised ==
  {r \in source : \A s \in source : s.id = r.id => Modified[s] <= Modified[r]}

\* The sort order of the aggregate reversed.
OldestReleases ==
  LET present == {d.release : d \in docs}
  IN  {r \in present : \A s \in present : s.id = r.id => ModifiedOf(s) >= ModifiedOf(r)}

NewestReleases ==
  LET present == {d.release : d \in docs}
  IN  {r \in present : \A s \in present : s.id = r.id => ModifiedOf(s) <= ModifiedOf(r)}

(***************************************************************************)
(* Life of the collector process.                                          *)
(***************************************************************************)
Init ==
  /\ source \in SUBSET Release
  /\ docs \in {ds \in SUBSET [release : LegacyRelease, gen : Generation] :
                 \A d, e \in ds : d.release = e.release => d = e}
  /\ objects = [r \in Release |-> NoObjects]
  /\ pointers = [c \in Collection |-> NoPointer]
  /\ process = "down"
  /\ pc = [p \in Pass |-> "idle"]
  /\ listed = [p \in Pass |-> {}]
  /\ todo = [p \in Pass |-> {}]
  /\ current = [p \in Pass |-> NoRelease]
  /\ inserted = [p \in Pass |-> 0]
  /\ latest = [p \in Pass |-> {}]
  /\ orphans = [p \in Pass |-> {}]
  /\ doomed = [p \in Pass |-> {}]

StartPass(p) ==
  /\ pc[p] = "idle"
  /\ pc' = [pc EXCEPT ![p] = "list"]
  /\ UNCHANGED <<source, db, listed, todo, current, inserted, latest, orphans, doomed>>

\* onModuleInit: with hydrateOnBoot the boot pass runs before the cron starts.
Boot ==
  /\ process = "down"
  /\ \/ /\ HydrateOnBoot
        /\ process' = "booting"
        /\ \E p \in Pass : StartPass(p)
     \/ /\ ~HydrateOnBoot
        /\ process' = "up"
        /\ UNCHANGED <<source, db, locals>>

\* Cron tick: a new pass starts although another may still be running.
Tick(p) ==
  /\ process = "up"
  /\ StartPass(p)
  /\ UNCHANGED process

\* The pass returns or throws; after the boot pass the cron jobs are mounted.
EndPass(p) ==
  /\ process' = "up"
  /\ pc' = [pc EXCEPT ![p] = "idle"]
  /\ listed' = [listed EXCEPT ![p] = {}]
  /\ todo' = [todo EXCEPT ![p] = {}]
  /\ current' = [current EXCEPT ![p] = NoRelease]
  /\ inserted' = [inserted EXCEPT ![p] = 0]
  /\ latest' = [latest EXCEPT ![p] = {}]
  /\ orphans' = [orphans EXCEPT ![p] = {}]
  /\ doomed' = [doomed EXCEPT ![p] = {}]

Crash ==
  /\ process # "down"
  /\ process' = "down"
  /\ pc' = [p \in Pass |-> "idle"]
  /\ listed' = [p \in Pass |-> {}]
  /\ todo' = [p \in Pass |-> {}]
  /\ current' = [p \in Pass |-> NoRelease]
  /\ inserted' = [p \in Pass |-> 0]
  /\ latest' = [p \in Pass |-> {}]
  /\ orphans' = [p \in Pass |-> {}]
  /\ doomed' = [p \in Pass |-> {}]
  /\ UNCHANGED <<source, db>>

(***************************************************************************)
(* findAndStoreTaxiiResources, first half: list the source, then           *)
(* hydrateRelease for every pair of the listing.  An exception ends the    *)
(* release, not the pass.                                                  *)
(***************************************************************************)
ListSource(p) ==
  /\ pc[p] = "list"
  /\ pc' = [pc EXCEPT ![p] = "hydrate"]
  /\ listed' = [listed EXCEPT ![p] = source]
  /\ todo' = [todo EXCEPT ![p] = source]
  /\ UNCHANGED <<source, db, process, current, inserted, latest, orphans, doomed>>

\* The exists query finds the commit marker: the release is not downloaded.
SkipHydrated(p) ==
  /\ pc[p] = "hydrate"
  /\ \E r \in todo[p] :
       /\ Marked(r)
       /\ todo' = [todo EXCEPT ![p] = @ \ {r}]
  /\ UNCHANGED <<source, db, process, pc, listed, current, inserted, latest, orphans, doomed>>

\* Without the exists query.
BeginAnyRelease(p) ==
  /\ pc[p] = "hydrate"
  /\ \E r \in todo[p] :
       /\ current' = [current EXCEPT ![p] = r]
       /\ todo' = [todo EXCEPT ![p] = @ \ {r}]
  /\ pc' = [pc EXCEPT ![p] = "clear"]
  /\ UNCHANGED <<source, db, process, listed, inserted, latest, orphans, doomed>>

BeginRelease(p) ==
  /\ pc[p] = "hydrate"
  /\ \E r \in todo[p] :
       /\ ~Marked(r)
       /\ current' = [current EXCEPT ![p] = r]
       /\ todo' = [todo EXCEPT ![p] = @ \ {r}]
  /\ pc' = [pc EXCEPT ![p] = "clear"]
  /\ UNCHANGED <<source, db, process, listed, inserted, latest, orphans, doomed>>

\* Without the deleteMany.
KeepLeftovers(p) ==
  /\ pc[p] = "clear"
  /\ pc' = [pc EXCEPT ![p] = "fetch"]
  /\ UNCHANGED <<source, db, process, listed, todo, current, inserted, latest, orphans, doomed>>

ClearLeftovers(p) ==
  /\ pc[p] = "clear"
  /\ objects' = [objects EXCEPT ![current[p]] = NoObjects]
  /\ pc' = [pc EXCEPT ![p] = "fetch"]
  /\ UNCHANGED <<source, docs, pointers, process, listed, todo, current, inserted, latest,
                 orphans, doomed>>

FetchBundle(p) ==
  /\ pc[p] = "fetch"
  /\ current[p] \in source
  /\ pc' = [pc EXCEPT ![p] = "insert"]
  /\ UNCHANGED <<source, db, process, listed, todo, current, inserted, latest, orphans, doomed>>

InsertObjects(p) ==
  /\ pc[p] = "insert"
  /\ inserted[p] < BundleSize[current[p]]
  /\ inserted' = [inserted EXCEPT ![p] = @ + 1]
  /\ objects' = [objects EXCEPT ![current[p]][inserted[p] + 1] = @ + 1]
  /\ UNCHANGED <<source, docs, pointers, process, pc, listed, todo, current, latest, orphans,
                 doomed>>

\* A 200 whose body has no objects: bundle.objects ?? [] is empty.
FetchNoBundle(p) ==
  /\ MayGarble
  /\ pc[p] = "fetch"
  /\ pc' = [pc EXCEPT ![p] = "empty"]
  /\ UNCHANGED <<source, db, process, listed, todo, current, inserted, latest, orphans, doomed>>

\* Back to the loop of the pass, whether the release was committed or failed.
LeaveRelease(p) ==
  /\ pc' = [pc EXCEPT ![p] = "hydrate"]
  /\ current' = [current EXCEPT ![p] = NoRelease]
  /\ inserted' = [inserted EXCEPT ![p] = 0]
  /\ UNCHANGED <<source, objects, pointers, process, listed, latest, orphans, doomed>>

\* The marker written before the objects.
CommitReleaseFirst(p) ==
  /\ pc[p] = "insert"
  /\ ~Marked(current[p])
  /\ \E g \in FreshGenerations(current[p]) :
       docs' = docs \cup {[release |-> current[p], gen |-> g]}
  /\ UNCHANGED todo
  /\ LeaveRelease(p)

\* The marker, written last.  The unique index rejects a second one, and the
\* exception of that create is caught like any other failure of the release.
CommitRelease(p) ==
  /\ \/ pc[p] = "insert" /\ inserted[p] = BundleSize[current[p]]
     \/ pc[p] = "empty"
  /\ \/ /\ ~Marked(current[p])
        /\ \E g \in FreshGenerations(current[p]) :
             docs' = docs \cup {[release |-> current[p], gen |-> g]}
     \/ /\ Marked(current[p])
        /\ UNCHANGED docs
  /\ UNCHANGED todo
  /\ LeaveRelease(p)

\* The source has delisted the release since it was listed: 404.
BundleMissing(p) ==
  /\ pc[p] = "fetch"
  /\ current[p] \notin source
  /\ UNCHANGED <<docs, todo>>
  /\ LeaveRelease(p)

\* The source or the database rejects a call made for one release.
HydrateFails(p) ==
  /\ \/ /\ pc[p] = "hydrate"
        /\ \E r \in todo[p] : todo' = [todo EXCEPT ![p] = @ \ {r}]
     \/ /\ pc[p] \in Hydrating
        /\ UNCHANGED todo
  /\ UNCHANGED docs
  /\ LeaveRelease(p)

(***************************************************************************)
(* updateLatestReleasePointers: one aggregate over the documents, then one *)
(* upsert per collection.                                                  *)
(***************************************************************************)
AggregateLatest(p) ==
  /\ pc[p] = "hydrate"
  /\ todo[p] = {}
  /\ \E chosen \in SUBSET NewestReleases :
       /\ \A r, s \in chosen : r.id = s.id => r = s
       /\ \A n \in NewestReleases : \E r \in chosen : r.id = n.id
       /\ latest' = [latest EXCEPT ![p] = chosen]
  /\ pc' = [pc EXCEPT ![p] = "point"]
  /\ UNCHANGED <<source, db, process, listed, todo, current, inserted, orphans, doomed>>

\* The whole release stored where its version belongs.
PointLatestRelease(p) ==
  /\ pc[p] = "point"
  /\ \E r \in latest[p] :
       /\ pointers' = [pointers EXCEPT ![r.id] = r]
       /\ latest' = [latest EXCEPT ![p] = @ \ {r}]
  /\ UNCHANGED <<source, docs, objects, process, pc, listed, todo, current, inserted, orphans,
                 doomed>>

PointLatest(p) ==
  /\ pc[p] = "point"
  /\ \E r \in latest[p] :
       /\ pointers' = [pointers EXCEPT ![r.id] = r.version]
       /\ latest' = [latest EXCEPT ![p] = @ \ {r}]
  /\ UNCHANGED <<source, docs, objects, process, pc, listed, todo, current, inserted, orphans,
                 doomed>>

(***************************************************************************)
(* removeOrphanedReleases: scan the documents, remove each one that the    *)
(* listing of this pass does not hold (its objects first), then drop the   *)
(* pointers of collections the listing does not mention.                   *)
(***************************************************************************)
\* Every document taken for an orphan; legacy documents overlooked.
OrphanedAll(p) == docs
OrphanedButLegacy(p) == {d \in docs : ~Legacy(d) /\ d.release \notin listed[p]}

Orphaned(p) == {d \in docs : Legacy(d) \/ d.release \notin listed[p]}

\* An upsert that fails is only logged, and the pass goes on.
ScanOrphansRegardless(p) ==
  /\ pc[p] = "point"
  /\ orphans' = [orphans EXCEPT ![p] = Orphaned(p)]
  /\ latest' = [latest EXCEPT ![p] = {}]
  /\ pc' = [pc EXCEPT ![p] = "sweep"]
  /\ UNCHANGED <<source, db, process, listed, todo, current, inserted, doomed>>

ScanOrphans(p) ==
  /\ pc[p] = "point"
  /\ latest[p] = {}
  /\ orphans' = [orphans EXCEPT ![p] = Orphaned(p)]
  /\ pc' = [pc EXCEPT ![p] = "sweep"]
  /\ UNCHANGED <<source, db, process, listed, todo, current, inserted, latest, doomed>>

\* A document without a version: only the document goes, never its objects.
DropLegacyDocument(p) ==
  /\ pc[p] = "sweep"
  /\ doomed[p] = {}
  /\ \E d \in orphans[p] :
       /\ Legacy(d)
       /\ docs' = docs \ {d}
       /\ orphans' = [orphans EXCEPT ![p] = @ \ {d}]
  /\ UNCHANGED <<source, objects, pointers, process, pc, listed, todo, current, inserted, latest,
                 doomed>>

DeleteOrphanObjects(p) ==
  /\ pc[p] = "sweep"
  /\ doomed[p] = {}
  /\ \E d \in orphans[p] :
       /\ ~Legacy(d)
       /\ objects' = [objects EXCEPT ![d.release] = NoObjects]
       /\ doomed' = [doomed EXCEPT ![p] = {d}]
       /\ orphans' = [orphans EXCEPT ![p] = @ \ {d}]
  /\ UNCHANGED <<source, docs, pointers, process, pc, listed, todo, current, inserted, latest>>

DeleteOrphanDocument(p) ==
  /\ pc[p] = "sweep"
  /\ doomed[p] # {}
  /\ docs' = docs \ doomed[p]
  /\ doomed' = [doomed EXCEPT ![p] = {}]
  /\ UNCHANGED <<source, objects, pointers, process, pc, listed, todo, current, inserted, latest,
                 orphans>>

\* The pointers of collections the listing no longer mentions are kept.
KeepPointers(p) ==
  /\ pc[p] = "sweep"
  /\ orphans[p] = {}
  /\ doomed[p] = {}
  /\ EndPass(p)
  /\ UNCHANGED <<source, db>>

DropPointers(p) ==
  /\ pc[p] = "sweep"
  /\ orphans[p] = {}
  /\ doomed[p] = {}
  /\ pointers' = [c \in Collection |->
                    IF \E r \in listed[p] : r.id = c THEN pointers[c] ELSE NoPointer]
  /\ EndPass(p)
  /\ UNCHANGED <<source, docs, objects>>

\* An exception outside the per-release try/catch ends the pass; so does one
\* inside its catch block, which reads the stix of an element that may have none.
AbortPass(p) ==
  /\ \/ pc[p] \in {"list", "point", "sweep"}
     \/ pc[p] = "hydrate" /\ (todo[p] = {} \/ MayGarble)
  /\ EndPass(p)
  /\ UNCHANGED <<source, db>>

(***************************************************************************)
(* The source publishes releases; a Workbench curator may also delete one. *)
(***************************************************************************)
Publish(r) ==
  /\ r \notin source
  /\ source' = source \cup {r}
  /\ UNCHANGED <<db, process, locals>>

Delist(r) ==
  /\ MayDelist
  /\ r \in source
  /\ source' = source \ {r}
  /\ UNCHANGED <<db, process, locals>>

PassStep(p) ==
  \/ ListSource(p) \/ SkipHydrated(p) \/ BeginRelease(p) \/ ClearLeftovers(p)
  \/ FetchBundle(p) \/ BundleMissing(p) \/ InsertObjects(p) \/ CommitRelease(p)
  \/ AggregateLatest(p) \/ PointLatest(p) \/ ScanOrphans(p) \/ DropLegacyDocument(p)
  \/ DeleteOrphanObjects(p) \/ DeleteOrphanDocument(p) \/ DropPointers(p)

Fault == Crash \/ \E p \in Pass : FetchNoBundle(p) \/ HydrateFails(p) \/ AbortPass(p)

SourceChange == \E r \in Release : Publish(r) \/ Delist(r)

Next ==
  \/ Boot
  \/ \E p \in Pass : Tick(p) \/ PassStep(p)
  \/ Fault
  \/ SourceChange

Spec == Init /\ [][Next]_vars

(***************************************************************************)
(* Fairness: the event loop keeps running whatever awaits, the scheduler   *)
(* keeps ticking and the supervisor restarts the process.  Faults and      *)
(* changes of the source are not fair; they are assumed to cease (from     *)
(* some point on every step is a normal one), since otherwise no sync can  *)
(* be expected to catch up.                                                *)
(***************************************************************************)
Fairness ==
  /\ WF_vars(Boot)
  /\ \A p \in Pass : WF_vars(Tick(p)) /\ WF_vars(PassStep(p))

EventuallyCalm == <>[][Boot \/ \E p \in Pass : Tick(p) \/ PassStep(p)]_vars

FairSpec == Spec /\ Fairness /\ EventuallyCalm

(***************************************************************************)
(* Properties.                                                             *)
(***************************************************************************)
TypeOK ==
  /\ source \subseteq Release
  /\ docs \subseteq Doc
  /\ objects \in [Release -> [Part -> Nat]]
  /\ pointers \in [Collection -> Version \cup {NoVersion, NoPointer}]
  /\ process \in {"down", "booting", "up"}
  /\ pc \in [Pass -> {"idle", "list", "hydrate", "point", "sweep"} \cup Hydrating]
  /\ listed \in [Pass -> SUBSET Release]
  /\ todo \in [Pass -> SUBSET Release]
  /\ current \in [Pass -> Release \cup {NoRelease}]
  /\ \A p \in Pass : pc[p] \in Hydrating => current[p] \in Release
  /\ inserted \in [Pass -> Nat]
  /\ latest \in [Pass -> SUBSET AnyRelease]
  /\ orphans \in [Pass -> SUBSET Doc]
  /\ doomed \in [Pass -> SUBSET {d \in Doc : ~Legacy(d)}]

\* "Its presence means the release is fully hydrated" (the commit marker of
\* taxii-collection.schema.ts): every part stored, once.
MarkerMeansHydrated == \A d \in docs : ~Legacy(d) => Hydrated(d.release)

\* A pointer never designates a release that is not committed.
PointerDesignatesCommitted ==
  \A c \in Collection :
    pointers[c] \in Version => Marked([id |-> c, version |-> pointers[c]])

\* A committed release is never removed, rewritten or written to again:
\* "immutable; ideal for pinning" for a source that never delists.
CommittedReleaseImmutable ==
  [][\A d \in docs : ~Legacy(d) => d \in docs' /\ objects'[d.release] = objects[d.release]]_vars

\* The default root only ever moves to a release published later.
PointerNeverMovesBack ==
  [][\A c \in Collection :
       pointers[c] \in Version /\ pointers'[c] # pointers[c] =>
         /\ pointers'[c] \in Version
         /\ Modified[[id |-> c, version |-> pointers[c]]]
              <= Modified[[id |-> c, version |-> pointers'[c]]]]_vars

\* A pass that runs to its end leaves every collection that has a committed
\* release with its default root at the newest one ("the newest fully hydrated
\* release"), whatever failed in this pass and crashed before it: not at an older
\* one, not at a legacy document, and not nowhere.
PassLeavesNewest ==
  [][\A p \in Pass : DropPointers(p) =>
       \A d \in docs : ~Legacy(d) =>
         \E r \in NewestReleases : r.id = d.release.id /\ pointers'[r.id] = r.version]_vars

\* Even when releases are delisted and the sweep is interrupted, a marked
\* release holds its whole bundle or nothing: never a part of it.
MarkedAllOrNothing ==
  \A d \in docs : ~Legacy(d) => objects[d.release] \in {NoObjects, Bundle(d.release)}

\* While a pass works from a listing, nothing it lists and has committed is
\* deleted or written to.
ListedReleaseUntouched ==
  [][\A p \in Pass : \A r \in listed[p] :
       Marked(r) => Marked(r)' /\ objects'[r] = objects[r]]_vars

\* A pass that runs to its end leaves no document its listing lacks.
PassLeavesOnlyListed ==
  [][\A p \in Pass : DropPointers(p) =>
       \A d \in docs : ~Legacy(d) /\ d.release \in listed[p]]_vars

\* Once faults and changes cease, the documents are the releases the source
\* lists, each pointer the newest release of its collection.
InSync ==
  /\ {d.release : d \in docs} = source
  /\ \A c \in Collection :
       LET own == {r \in source : r.id = c}
       IN  IF own = {} THEN pointers[c] = NoPointer
           ELSE \E r \in own : /\ pointers[c] = r.version
                              /\ \A s \in own : Modified[s] <= Modified[r]

ConvergesToSource == <>[]InSync

\* ... and every one of them is fully hydrated.
ConvergesToHydrated == <>[](\A r \in source : Hydrated(r))

(***************************************************************************)
(* Why the properties hold: the inductive invariants of HydrationProofs.   *)
(***************************************************************************)

\* One release is hydrated at a time, it has no marker yet, and from the
\* clearing of its leftovers on its objects are what the pass has inserted.
Progress(p) ==
  /\ pc[p] \in Hydrating => ~Marked(current[p])
  /\ pc[p] \in {"fetch", "empty"} => objects[current[p]] = NoObjects
  /\ pc[p] = "insert" => objects[current[p]] = FirstParts(inserted[p])
  /\ pc[p] # "insert" => inserted[p] = 0

\* What is being removed has no objects any more.
Removal(p) ==
  /\ \A d \in doomed[p] : objects[d.release] = NoObjects
  /\ pc[p] # "sweep" => doomed[p] = {}

OnePassInv ==
  /\ \A p \in Pass : Progress(p) /\ Removal(p)
  /\ MarkedAllOrNothing

\* While nothing but the sweep removes documents, its scan holds all that the
\* listing lacks and nothing that it has.
Scanned(p) == orphans[p] \cup doomed[p]

SweepInv ==
  \A p \in Pass :
    /\ pc[p] # "sweep" => Scanned(p) = {}
    /\ \A d \in Scanned(p) : Legacy(d) \/ d.release \notin listed[p]
    /\ pc[p] = "sweep" =>
         \A d \in docs : d \in Scanned(p) \/ (~Legacy(d) /\ d.release \in listed[p])

\* The listing a pass works from holds every committed release, so that only
\* legacy documents are ever orphans, and the pointers it has computed are
\* still those of the newest documents when it writes them.
ListingCovers(p) ==
  /\ listed[p] \subseteq source
  /\ todo[p] \subseteq listed[p]
  /\ pc[p] \in Hydrating => current[p] \in listed[p]
  /\ pc[p] # "empty"
  /\ pc[p] \notin {"idle", "list"} => \A d \in docs : Legacy(d) \/ d.release \in listed[p]
  /\ pc[p] = "point" => latest[p] \subseteq NewestReleases
  /\ \A d \in orphans[p] : Legacy(d)
  /\ doomed[p] = {}

\* From the aggregate on, a default root is at the newest release of its
\* collection, or the pass has yet to move it there.
AtNewest(c) == \E r \in NewestReleases : r.id = c /\ pointers[c] = r.version

PointersFollow(p) ==
  pc[p] \in {"point", "sweep"} =>
    \A d \in docs : ~Legacy(d) =>
      \/ AtNewest(d.release.id)
      \/ pc[p] = "point" /\ \E r \in latest[p] : r.id = d.release.id

FollowInv == \A p \in Pass : PointersFollow(p)

GitHubInv ==
  /\ \A d \in docs : Legacy(d) \/ d.release \in source
  /\ \A p \in Pass : ListingCovers(p)
  /\ MarkerMeansHydrated
  /\ PointerDesignatesCommitted

(***************************************************************************)
(* The catalog clients see: a release is what its marker makes visible, a  *)
(* default root what its pointer designates (a pointer left by a legacy    *)
(* document designates nothing).                                           *)
(***************************************************************************)
Catalog == INSTANCE ReleaseCatalog WITH
  Whole <- [r \in Release |-> Bundle(r)],
  Unavailable <- NoRelease,
  NoDefault <- NoPointer,
  content <- [r \in Release |-> IF Marked(r) THEN objects[r] ELSE NoRelease],
  default <- [c \in Collection |-> IF pointers[c] \in Version THEN pointers[c] ELSE NoPointer]

\* "An atomic cutover to new releases": for a source that never delists and
\* passes that do not overlap, every crash and failure included.
ImplementsCatalog == Catalog!Spec

(***************************************************************************)
(* What the comments of the code claim beyond that.                        *)
(***************************************************************************)

\* The marker's "presence means the release is fully hydrated", at least
\* whenever a pass has run to its end.
PassLeavesMarkedHydrated ==
  [][\A p \in Pass : DropPointers(p) => MarkerMeansHydrated']_vars

\* A pass that runs to its end leaves each pointer on a "fully hydrated"
\* release: one that the same pass has not removed.
PassLeavesPointersCommitted ==
  [][\A p \in Pass : DropPointers(p) => PointerDesignatesCommitted']_vars

\* The pointer is "flipped only after a release is fully hydrated": the one it
\* designates is not one that a pass is still writing.
PointedAtIsComplete ==
  \A p \in Pass : pc[p] \in Hydrating =>
    pointers[current[p].id] # current[p].version

\* The sweep is "a no-op for the GitHub source": no release goes away.
GitHubNeverSwept == [][\A d \in docs : ~Legacy(d) => d \in docs']_vars

\* What disappears from the source is "hard-deleted" in the end, objects too.
DelistedLeavesNothing == <>[](\A r \in Release \ source : objects[r] = NoObjects)

(***************************************************************************)
(* What is left of it when passes overlap.                                 *)
(***************************************************************************)

\* Every pass clears a release before it inserts: a part is stored at most
\* once for each pass that may be in progress.
CopiesBounded ==
  \A r \in Release, k \in Part : objects[r][k] <= Cardinality(Pass)

\* Why: a pass that has cleared r and not yet inserted its part k is one copy
\* short of the bound.
StillToInsert(r, k) ==
  {p \in Pass : pc[p] \in {"fetch", "insert"} /\ current[p] = r /\ inserted[p] < k}

OverlapInv ==
  \A r \in Release, k \in Part :
    objects[r][k] + Cardinality(StillToInsert(r, k)) <= Cardinality(Pass)
=============================================================================
