# TLA+ specifications of the ATT&CK Workbench TAXII 2.1 server

These modules model the server in `src/` (NestJS, TypeScript, MongoDB): the collector that copies ATT&CK releases
into the database, the API servers that answer TAXII clients from it, and how both come up. TLC checks them on small
instances; TLAPS proves every safety property that a passing run checks, for every instance (Proofs says under which
hypotheses). Liveness is checked by TLC only.

Run TLC on `M.tla` with the configuration of a run (`PROJECT.json` lists them), e.g.
`tlc -config Hydration_github.cfg MCHydration.tla`, and the proofs with `tlapm` on the modules named
`...Proofs`.

## The system

```
 GitHub (index.json, bundles)  or  ATT&CK Workbench
        | HTTP, cached (GitHub)
   collector process (1)          pass at boot, then on every cron tick
        | writes                  documents, objects, latest-release pointers
     MongoDB
        | reads
   API server processes (4)       stateless, every request a few queries
        | HTTP
   TAXII clients
```

| component | state | operations | what is hard | what makes it correct |
| --- | --- | --- | --- | --- |
| `HydrateService` (`hydrate/`) | `taxii-collection` documents (commit markers), objects, pointers in MongoDB; the progress of a pass in its stack | boot pass, cron pass: list, hydrate each release, recompute pointers, remove orphans | every `await` is a point where the process may crash, a request fail, another pass run; no lock between passes | a marked release is whole and stays so; pointers designate marked releases and only move forward; after faults the database matches the source |
| `MitreAttackRepository` (`stix/providers/mitre-attack`) | a map from URL to body and expiry | list releases, fetch a bundle | concurrent requests for one URL, stale and malformed bodies | listings are recent and do not shrink; the bundle is that of the release asked for |
| `WorkbenchRepository` | none | the same, against a Workbench that deletes versions | releases vanish between listing and fetching; every kind of failure must stay distinguishable from an empty listing, since what a listing lacks is deleted | a listing or bundle is one the Workbench held during the call |
| `ReleaseService`, `ReleaseParamPipe`, `DiscoveryService`, `RootController` | none | discovery, root information, resolution of a pinned or the default root | checked in one query, used in another | what is advertised is found; the default root is one release |
| `CollectionRepository`, `ObjectRepository` | none | list, find, stream | two queries, or a cursor, over a database that changes | an answer is of one whole release |
| `FilterService`, `ObjectService`, `ParseMatchQueryParamPipe` | none | version, type, id, spec_version, added_after filters | keyword/date combinations, two implementations (list and stream), defaults applied in the database | the answer is exactly the selection |
| `PaginationService` | none (`next` is a page number) | pages of envelopes, manifests, versions | order not total, boundaries | a walk over the pages is the answer |
| `main.ts`, `hydrate.ts`, `config/` | the environment as read at start, two key files | validate, read, connect, load the keys, listen or fall back | half a pair from a variable and half from a file, a file replaced between two reads, a process that dies at every start | a documented key pair is served whole; every process comes up |
| request pipeline (`common/`) | the request object | content negotiation, decorators and pipes in parallel, date headers, exception filter | which failure wins | every request is answered, and rightly |

Collector and servers share nothing but the database; the servers keep nothing between requests. The collector is
deployed as one process (`ecosystem.config.js`), so only its own passes compete.

## The modules

| module | models | checked with |
| --- | --- | --- |
| `ReleaseCatalog` | what the collector promises clients of a source that never delists (service comment): releases appear whole, stay, the default root cuts over | refined by `Hydration` (`ImplementsCatalog`) |
| `Hydration` | `HydrateService`: one action per `await` of a pass; boot, ticks, crash, failures; the source | `MCHydration` |
| `HydrationProofs`, `SourceCacheProofs`, `WorkbenchSourceProofs`, `BootstrapProofs`, `ServingProofs`, `RequestProofs` | theorems about the module so named | TLAPS |
| `PagingProofs` | theorems about `Query` and `Paging` | TLAPS |
| `FoldFacts` | no code: what a left fold over a sequence computes, by induction | TLAPS |
| `SourceCache` | `MitreAttackRepository`: `fetchHttp` and its cache, listing, finding a bundle, several callers | `MCSourceCache` |
| `WorkbenchSource` | `WorkbenchRepository`: `fetchHttp` and its mapping of failures, listing, bundle, curators at work meanwhile | `WorkbenchSource` itself |
| `Serving` | one client from discovery to the objects, query by query, `EXTENDS Hydration` with the collector running underneath | `MCServing` |
| `Query` | filters, version selection, database queries, pages, as operators | through `Paging` |
| `Paging` | a client that walks the pages of one answer while ties are reordered and the default root cuts over | `MCPaging` |
| `Bootstrap` | configuration and start of servers and collector, beside an operator and a process manager | `MCBootstrap` |
| `Request` | negotiation, parameters, handler outcome, headers, errors of one request | `Request` itself |

### Hydration

`docs` are the collection documents, `objects[r][k]` how many copies of part `k` of the bundle of release `r` are
stored, `pointers` the latest-release pointers, `source` what the source advertises. The bundle of a release is
abstracted to parts (a part stands for a batch of the insertion loop). Everything a pass keeps in local variables is
a function of the pass: `pc`, `listed`, `todo`, `current`, `inserted`, `latest`, `orphans`, `doomed`. Correspondence
with `hydrate.service.ts`:

| action | code |
| --- | --- |
| `Boot`, `Tick` | `onModuleInit` 51-113 (cron is mounted after the boot pass), `@Cron` 329 |
| `ListSource` | 332-344 |
| `SkipHydrated`, `BeginRelease` | 196-201, the marker check |
| `ClearLeftovers`, `FetchBundle`, `BundleMissing`, `InsertObjects`, `CommitRelease` | 205-228, one `await` each |
| `FetchNoBundle` | 217, `bundle.objects ?? []` of a 200 answer that is no bundle; only with `MayGarble` |
| `HydrateFails` | the catch of 349-355: the pass goes on |
| `AbortPass` | an exception outside it: the pass ends. With `MayGarble` also one thrown inside the catch, whose message (351) reads `stix` of a listing element that has none |
| `AggregateLatest`, `PointLatest` | 242-267 |
| `ScanOrphans`, `DropLegacyDocument`, `DeleteOrphanObjects`, `DeleteOrphanDocument`, `DropPointers` | 283-320 |
| `Crash` | the process dies; nothing but the database survives |
| `Publish`, `Delist` | the source; `Delist` only with `MayDelist` (Workbench) |

A document has a generation, standing for its `_id`: `deleteOne({_id})` of a stale scan must not remove a document
created since. `source` is the source as `getCollections` shows it; that such a view never loses a release for a
GitHub source is what `SourceCache` checks (`ListingsGrow`), for passes that do not overlap.

### Serving

Every database query of a request is one step. A *guided* client takes root and collection from the server's own
answers; another is configured with them. `got` counts the copies of each part its object request has streamed.
`steady` remembers whether the collector has removed anything since the client started: from a source that delists,
what a client may rely on is stated for clients that no removal has overtaken (`SteadyNeverTurnedAway`,
`SteadyAnswerWhole`).

### SourceCache

Time is counted in ticks of one cache time unit: `Ttl` is the lifetime of an entry, `Flight` the longest a request
may take (a bound of the model, the code sets none), `age` and `sound` count up to their sum, after which the
properties do not distinguish. `overlapped` remembers that two index requests were under way at once.

### WorkbenchSource

A call is one HTTP request, so its steps are `Ask` (201-212), the answer (`Answer`, or `Misbehave` for an error, a
redirect, no answer, or a proxy's page) and `Return`, which applies `FetchHttp` (48-117: data, an exception, or
`undefined` where the catch block falls off its end) and `Outcome` (what `getCollections` 214-216 and
`getCollectionBundle` 222-233 make of it). `during` remembers every state of the Workbench since the call was made.

### Query and Paging

Objects are records of small integers and names; a timestamp is an instant and whether it was written with
milliseconds. Every loop of `filter.service.ts` over an array is a fold: `Kept` is `Array.prototype.filter`, `OnceEach` the
insertion order of a `Map` or `Set`, `SortByVersion` a stable sort. `Results` is the set of answers an endpoint may give
(ties in `createdAt` may come in any order, and each page is a new query); the variable `answers` holds that set for the
store of the moment, so that TLC works it out once and not at every page: each page takes its answer from it anew.
`Selected` defines the intended answer without grouping or sorting, over the whole store (`Candidates`).
A filter has a `form` beside its values: `match[version]` may be present and empty (`blank`: no version filter at all, and
not the defaulted `last`, `ParseMatchQueryParamPipe` 51-57) or repeat a keyword (`twice`: `last,last` is not the latest-only
case of `ObjectService` 21-24). `PagingAssumption` says what a release looks like: finite,
with dates that compare, and no two objects of one id and version, which is what identifies an object in a STIX bundle. A
release that overlapping passes have committed twice (`overlapping_passes`) is no such store.

### Request

A request is a record of what the code distinguishes: its route, the parts of the Accept header as
`parseAcceptHeader` splits them, its root, its query. Nest starts all parameters of a handler together
(`Promise.all`, the last argument first) and the first to fail decides: decorators fail while extracting, pipes a microtask
later, the release pipe last, and its database lookup goes on after the request has been answered (`awaiting`). A request is
exempt from negotiation when its URL ends with `/health/ping`, which that of a ping need not (a query string, a slash) and
that of another request may. `CommitRelease` and `RemoveRelease` are what the collector does to collection documents
meanwhile (`hydrate.service.ts` 227-228, 310-316). The handler's findings are arbitrary here.

### Bootstrap

An environment is a record of the variables a property tells apart; `Configuration` is `configuration.ts` 5-32,
`Rejected` its schema (34-144), which names variables without the `TAXII_` prefix and so judges those of other
programs. `Start` reads and validates, `Connect` is `NestFactory.create`, `Collect` the collector's `onModuleInit`.
`LoadKey` and `LoadCertificate` (`main.ts` 80-91, `taxii-config.service.ts` 107-128) read one half each, and
`ReplaceFile` may fall between them; `FallBack` is the catch block (99-106). `sound` remembers whether the process had
a pair, in one of the two documented ways, all the while it loaded one.

## Runs

| run | instance | shows |
| --- | --- | --- |
| `hydration_github` | 3 releases of 2 collections, bundles of 2 and 1 parts, a legacy document, one pass at a time | all properties of the collector for a source that never delists, refinement, convergence |
| `hydration_workbench` | 2 releases of 1 collection, a legacy document, a source that delists and may answer with bodies that are no bundle | what remains of them, and convergence |
| `hydration_overlap` | 2 releases of 1 collection, two passes that overlap, no delisting | what overlapping passes still keep: a part is stored at most once per pass, documents and pointers converge |
| `serving_github` | as `hydration_github` without the legacy document, 2 roots + default | a client beside the collector |
| `serving_workbench` | 2 releases of 1 collection, a source that delists and relists | a client beside a collector that removes releases |
| `paging` | 7 stores of up to 4 object versions, 30 filters, limits 1, 2 and none, all four endpoints; 16,499 states | selection and walks; every walk ends |
| `source_cache` | 2 releases, 2 callers, TTL and flight of one tick | cache: staleness, listings that never shrink |
| `source_live` | the same, flight within a tick (the liveness graph of the larger one takes too long) | every caller ends up listing the index |
| `workbench_source` | 3 releases, one call at a time (calls share nothing) | no failure passes for a listing or a bundle |
| `bootstrap` | 1 server, the collector, 2 key pairs, 7 environments, 3 faults | keys and start |
| `request` | every request shape, one release, pages of up to 3 dates | pipeline |
| `overlapping_passes` | as `hydration_overlap` | a counterexample to the commit marker's promise, see below |

Two releases of one collection are the least that can be ordered, cut over and orphaned; a second collection sharing
a version is what pinned roots are about; two parts are the least a crash can separate; two passes are the least that
overlap. The legacy document exercises the branch for documents without a version. Three object versions, stamped in
another order than their versions, and a second object with the same stamp give every keyword a different answer.
Three faults are enough for a change of both files and a death between them. The bounds are `Generation` (documents
that exist at once per release, one per pass), `Flight` (no timeout is set in the code) and `MaxFaults`.

The properties, by what could go wrong: leftovers of a crash (`MarkerMeansHydrated`, `MarkedAllOrNothing`), deletion
by a stale scan or listing (`CommittedReleaseImmutable`, `ListedReleaseUntouched`, `PassLeavesOnlyListed`), pointers
from a stale aggregate (`PointerDesignatesCommitted`, `PointerNeverMovesBack`, `PassLeavesNewest`), overlapping passes (`CopiesBounded`),
no progress (`ConvergesToSource`, `ConvergesToHydrated`, `EventuallyListed`, `WalkEnds`, `EveryProcessComesUp`,
`EveryRequestAnswered`), torn reads (`AnswerWhole`, `DefaultListingWhole`, `GuidedNeverTurnedAway`,
`SteadyAnswerWhole`, `SteadyNeverTurnedAway`), stale caches (`ListingRecent`, `ListingsGrow`, `ListedIsFound`,
`RepairSeen`), failures taken for data (`ListingWasTrue`, `BundleWasTrue`), wrong selections (`EnvelopeIsSelection`,
`ManifestListsEnvelope`, `ListedIsRetrievable`), lost or repeated items (`WalkIsAnswer`, `TiesStayInPlace`,
`NextPageExists`), mixed or unused keys (`WholePairServed`), races of parameters (`QueryJudgedFirst`),
headers (`DatesBracketPage`, `TaxiiSpoken`). `PROJECT.json` names for each a change of the code that breaks it.

Type invariants are run for `Hydration` and `SourceCache`, whose proofs rest on them most; `ServingTypeOK`,
`PagingTypeOK`, `RequestTypeOK`, `BootTypeOK` and `WorkbenchTypeOK`, like the inductive invariants, hold on the same
instances (add them to a configuration's `INVARIANTS`; Proofs says which invariant belongs to which run).

### Disagreements between code and documentation

The run `overlapping_passes` ends in a counterexample to `taxii-collection.schema.ts:64-66`, that a document's
"presence means the release is fully hydrated": while the first pass inserts the objects of a release, the second, begun by
the next tick, finds no marker; the first creates it; and the second pass's `deleteMany` (206), meant for leftovers, then
removes what the first has inserted. The marked release is empty until the second pass has inserted its objects again, and
stays so if its download fails or the process dies. (In longer interleavings both insert and the marked release holds
objects twice: the unique index rejects the second marker only.) `findings` quotes both sides. The other statements of
comments and documents that the code was found not to keep have a configuration each, in which TLC finds the
counterexample too, but for those listed after the table:

| configuration | module | statement | what happens |
| --- | --- | --- | --- |
| `v_marked.cfg` | `MCHydration` | `taxii-collection.schema.ts:65`, the marker; `hydrate.service.ts:28-30`, a crash is retried | a crash between the deletions of an orphan (311, 315), then a relisting, leaves a marker without objects that no pass repairs |
| `v_garbled.cfg` | `MCHydration` | the marker again | a 200 answer without `objects` is committed as an empty release (217) and never fetched again |
| `v_dangling.cfg` | `MCHydration` | `hydrate.service.ts:237`, "at the newest fully hydrated release" | pointers are written (357) before orphans are removed (358): a pass ends with a pointer to what it has just deleted |
| `v_relisted.cfg` | `MCHydration` | `release-pointer.schema.ts:11-12`, "clients never observe a partially-written release" | a pointer left on a removed release designates it while it is hydrated again |
| `v_leak.cfg` | `MCHydration` | `hydrate.service.ts:33`, "hard-deleted" | objects of a release delisted half way through its hydration have no document and are never found (278) |
| `v_swept.cfg` | `MCHydration` | `hydrate.service.ts:274`, "a no-op for the GitHub source" | a pass with an older listing sweeps what an overlapping one has hydrated since (283) |
| `v_pinned.cfg` | `MCServing` | `USAGE.md:24`, a pinned root is "Immutable" | it exists once one collection has the version, and serves the others' objects while they are inserted |
| `v_roots.cfg` | `MCServing` | `USAGE.md:30`, enumerate the available roots by discovery | roots such as `attack-11.0-beta` are advertised and refused by the route pattern |
| `v_manifest.cfg` | `MCPaging` | `USAGE.md:405`, `match[version]` on manifests | `first`, and `last` with another value, are ignored |
| `v_latest.cfg` | `MCPaging` | `USAGE.md:405`, without a version "only the latest version for each object matching the remainder of the request" | the newest version is chosen first (`object.repository.ts:41`), the other filters then apply to it: an older version that matches is not returned |
| `v_added.cfg` | `MCPaging` | `USAGE.md:394`, `added_after` is "not in any way related to dates or times in a STIX object" | it is compared with the object's `created` (`filter.service.ts:256`) |
| `v_spec.cfg` | `MCPaging` | `USAGE.md:403`, without `spec_version` "only the latest specification version" | an absent `spec_version` filters nothing |
| `v_timestamp.cfg` | `MCPaging` | `timestamp.query.decorator.ts:5`, "is a valid date" | the condition (14) is inverted: a valid `added_after` is answered 400 |
| `v_limit.cfg` | `MCPaging` | `pagination.service.ts:28`, "determines if this page exists" | limit 0 announces empty pages for ever |
| `v_plain.cfg` | `MCBootstrap` | `SETUP.md:43`, the port "when HTTPS is disabled" | with HTTPS enabled and no usable keys the server listens there in plain HTTP (as `main.ts:100` says) |
| `v_source.cfg` | `MCBootstrap` | `configuration.ts:86`, the data sources allowed | the schema names variables without `TAXII_`, so any other value passes and means the Workbench |
| `v_contact.cfg` | `MCBootstrap` | `SETUP.md:49`, the contact advertised by discovery | the getter (80) reads `app.contact`, which nobody registers |
| `v_prefix.cfg` | `MCBootstrap` | `SETUP.md:46`, `/api/v21/` | with that value discovery advertises `/api/v21//attack-...` |

Seen while modelling, without a configuration: the end-to-end test expects 406 for a foreign media type where the
code answers 400; an unsupported version after `"; "` is accepted; a repeated `limit` is answered 500; `SETUP.md`
(156-159) contradicts itself on whether variables or files hold the keys first; `TAXII_APP_ADDRESS` is never passed
to `listen`; `template.env` sets `TAXII_CONTACT`, which nothing reads.

## Fairness

`Boot`, each `Tick` and each pass's steps are weakly fair: the process manager restarts the collector, the scheduler
keeps its schedule, and the event loop resumes whatever awaits. The last includes that MongoDB and the source answer
or fail: the code sets no HTTP timeout, so against a server that accepts connections and never answers a pass would
hang (and with it, at boot, the cron job); this is listed as a hazard. Faults and changes of the source are not fair
and are assumed to cease (`EventuallyCalm`): convergence speaks of what the collector does when left alone. `Request`
assumes the same of the server's steps. In `SourceCache` time passes, requests are answered, and callers list again
and again (each cron pass begins with it; strongly fair, since a bundle request may stand in between); failures,
restarts and publications cease and the index is well-formed in the end. In `Paging` the client goes on asking. In
`Bootstrap` the process manager starts what has died and a process that runs goes on; faults are bounded. `Serving`
and `WorkbenchSource` are checked for safety only.

## Proofs

Every invariant and every action property of a passing run is a theorem, and so is the refinement `ImplementsCatalog`. TLC
checked each first, and each inductive invariant too, on the instance of the run named with it. The argument of
each module follows; `Spec` stands for that of the module.

### The collector

`HydrationProofs`, for any collections, releases, bundles, faults and legacy documents:

| theorem | states | under |
| --- | --- | --- |
| `TypeCorrect` | `[]TypeOK` | |
| `CopiesAreBounded` | `[]CopiesBounded`, with any number of overlapping passes | |
| `NeverPartlyMarked` | `[]MarkedAllOrNothing` | `NoOverlap` |
| `NewestIsDefault` | `PassLeavesNewest` | `GitHub` |
| `ListedIsUntouched`, `OnlyListedIsLeft` | `ListedReleaseUntouched`, `PassLeavesOnlyListed` | `NoOverlap` |
| `MarkerCorrect`, `PointerCorrect` | `[]MarkerMeansHydrated`, `[]PointerDesignatesCommitted` | `GitHub` |
| `ReleaseImmutable`, `PointerForward` | `CommittedReleaseImmutable`, `PointerNeverMovesBack` | `GitHub` |
| `Refinement` | `ImplementsCatalog` | `GitHub` |

`NoOverlap` says two passes are never in progress together (`|Pass| = 1`), `GitHub` adds that the source never
delists and always answers with a bundle. The assumptions are needed: `overlapping_passes`, `v_swept.cfg`,
`v_marked.cfg` and `v_garbled.cfg` refute the properties without them.

The argument for one pass has layers. `OnePassInv` says, of the release being hydrated, that it has no marker and that its
objects are exactly the first `inserted` parts once its leftovers are cleared, and of a release being removed that
its objects are gone before its document: so a document is only created over a whole bundle, and what else happens to
marked objects is their complete removal. It is inductive for one pass, delisting or not. `SweepInv` follows a sweep: what
has been scanned and not yet removed is what the pass does not list, and every document it does not list has been
scanned. So nothing listed is removed, and nothing else is left when the pass comes to its last step; a scan
that an overlapping pass makes stale breaks both. `GitHubInv` adds that every
committed release is in the listing of the pass (the source only grows and the listing is read when no hydration has
yet happened), hence that only legacy documents are orphans, and that pointers still to be written designate the
newest documents. `FollowInv` adds what the aggregate has not missed: once pointers are being written, every committed
release's collection is at its newest or still to be written, and while nothing is left to write the sweep takes no
committed release away and no other pass commits one. It is not enough that pointers never move back: a pass could leave
one where it was. It rests on a collection having a newest release, for which the releases must be finitely many
(`SourceAssumption`). From these, steps that touch documents, objects or pointers are `CommitRelease` (an `Appear` of the
catalog), `PointLatest` (a `CutOver`, or a change no client sees when it is a legacy one) or stutters.

With overlapping passes what is left is `OverlapInv`: the copies of a part, and the passes that have cleared its
release and not yet inserted it, are together at most as many as there are passes. Clearing a release takes all
copies away, and each insertion turns one such pass into one copy, so crashes and retries do not add up.

Checked by TLC: `OnePassInv` and `SweepInv` on `hydration_workbench`, `GitHubInv` and `FollowInv` on `hydration_github`,
`OverlapInv` on `hydration_overlap`.

### The sources

`SourceCacheProofs`, for any releases, number of callers, time to live and flight time:

| theorem | states |
| --- | --- |
| `SourceTypeCorrect` | `[]SourceTypeOK` |
| `CacheHoldsListings` | `[]CacheInv` |
| `ListedFound` | `[]ListedIsFound` |
| `BundleIsAsked` | `BundleAsked`: a bundle request ends at the release it was made for |
| `ListingsOnlyGrow` | `ListingsGrow`, what `Hydration` assumes of a GitHub source |
| `ListingsRecent` | `ListingRecent`: how stale a listing can be |
| `RepairsSeen` | `RepairSeen`: how long a body that is no index is served |

The assumptions are `ModifiedIdentifies` (two releases of a collection differ in their timestamp, as the code's
comment says), `TimeAssumption` (naturals, the TTL not zero) and `BodyAssumption` (the model's marks are no data).
`CacheInv` is the strengthening of the first four: unless index requests have overlapped, at most one is under way, and
then the cache holds no index, so it is never overwritten by an older body; hence every well-formed index in the cache or on
its way holds every listing any caller has had. The last two need no such condition. `RecentInv` measures what
a body may lack: a release missing from a body on its way is no older than the time the body has travelled, and one
missing from the cache no older than that plus the time the entry has been kept, which `Ttl + Flight` bounds
together. It holds however many bodies overtake each other, as each is bounded by its own age. TLC checked both on
`source_cache`.

`WorkbenchSourceProofs` proves `ListingsAreTrue` (`ListingWasTrue`) and `BundlesAreTrue`
(`BundleWasTrue`) under `BodyAssumption`. `AnswersInv` carries what the Workbench held when it answered to the
moment the call returns; a lemma (`OutcomeOf`) goes through every status that `fetchHttp` distinguishes and shows that
none but 2xx ends as a listing or a bundle. TLC checked `AnswersInv` on `workbench_source`.

### Serving

`ServingProofs`, for any collector underneath, any client and any roots (`ServingSpec`):

| theorem | states | under |
| --- | --- | --- |
| `ServingTypeCorrect` | `[](TypeOK /\ ServingTypeOK /\ Position)` | |
| `AnswersAreWhole` | `[]AnswerWhole` | `GitHub` |
| `DefaultListingIsWhole` | `DefaultListingWhole` | `GitHub` |
| `GuidedClientServed` | `[]GuidedNeverTurnedAway` | `GitHub`, `NoLegacy`, `AllRoutable` |
| `SteadyAnswersAreWhole` | `[]SteadyAnswerWhole` | `NoOverlap` |
| `SteadyClientServed` | `[]SteadyNeverTurnedAway` | `NoOverlap`, `AllRoutable` |

As `ServingSpec` implies the collector's `Spec` (`ServingIsHydration`), the collector's invariants hold under every client.
`Position` ties the step of a client to what its request holds. `GuidedInv` says that what the server has
shown a client is there when it comes back: `PinnedHolds` for the releases of a pinned root, a committed release for
each pointer that has been read, and `ReadOf`, that what the client has streamed of a release agrees with what is
stored. The last is why a cursor that reads in many batches yields a whole release: what it reads is marked, and marked
objects do not change. `PointerKept` adds that a collection once listed keeps a pointer, which a legacy document in
the database can spoil (`NoLegacy`: the database is one this collector has made); `AllRoutable` says that the root
pattern accepts every version (`v_roots.cfg` refutes the property without it).

A source that delists gives no such invariant: the pointer a client follows may dangle. What is inductive is
relative to the client: `SteadyInv` speaks of what a client has been shown while nothing has been removed since it
started, and says of a pointer that it is either still the one the client has read or designates a committed release.
That a pointer never moves to a release already removed is `PointsAtMarked`: a pass removes documents only after it has
written all pointers.

Checked by TLC: `GuidedInv` and `PointerKept` on `serving_github` (403,904 states), `PointsAtMarked` and `SteadyInv` on
`serving_workbench` (2.4 million), and all but `PointerKept` with a legacy document too.

### Requests

`RequestProofs`, for any releases, dates and length of page:

| theorem | states |
| --- | --- |
| `RequestTypeCorrect` | `[]RequestTypeOK` |
| `QueryIsJudgedFirst` | `[]QueryJudgedFirst` |
| `TaxiiIsSpoken` | `[]TaxiiSpoken` |
| `DatesBracket` | `[]DatesBracketPage` |

`RequestInv` adds `Waiting` (a lookup is on its way only when the request waits for it or has been answered without it)
and `Passed` (what comes past the parameters has no fault in its query) to the properties themselves. That
the headers bracket the dates is an induction over the page, see `FoldFacts`: the bound so far is one of the dates, and
stays where it is when the head has none (all comparisons with `NaN` are false). TLC checked `RequestInv` on
`request` (240,849 states).

### Queries and pages

`PagingProofs`, for any stores and requests that satisfy `PagingAssumption`:

| theorem | states | under |
| --- | --- | --- |
| `PagingTypeCorrect` | `[]PagingTypeOK` | |
| `EnvelopesAreSelections` | `[]EnvelopeIsSelection` | |
| `ManifestIsEnvelope` | `[]ManifestListsEnvelope` | |
| `ListedIsReturned` | `[]ListedIsRetrievable` | |
| `PagesExist` | `[]NextPageExists` | `PositiveLimits` |
| `WalkInductive` | `[]WalkInv` | `PositiveLimits` |
| `WalksAreAnswers` | `[]WalkIsAnswer` | `PositiveLimits` |
| `TiesStay` | `[]TiesStayInPlace` | `PositiveLimits` |

`PositiveLimits` says that no request has a limit of zero or less; `v_limit.cfg` shows what happens otherwise.

The first half is about operators. `Lists(s, S)` says that a sequence holds each element of a set once, and each fold of the
filter is shown to list a set: `Kept` the elements kept, in their order; `OnceEach` the elements; `SortByVersion` the same
elements, ascending; `Picked` those of a group that the version filter wants; `ApplyVersionFilter` the union over the
groups (`FilterLists`). With `AnswersList`, an answer lists what is selected of the rows read, and by `NewestSelected` that is,
where the database has reduced the rows to the newest, the selected objects of the store that are newest.

The second half is about the walk. All answers to a request have the same length (`SameLength`), so a page number means the
same boundary in each of them: `Bounded` says that the page a walk is told of begins inside every answer. `Followed` says
that what was received agrees with the prefix of *each* answer in the stamps, which is what remains when the order
of ties changes at every page. That two answers agree in their stamps (`AnswersAgree`) follows, where nothing is
regrouped, from a lemma about two ascending lists of one set (`SameKeys`, by pigeonhole on the elements below a
place); where ties are absent there is only one order (`OneOrder`). TLC checked `WalkInv` on `paging`.

Two of the properties turned out to be too strong when their proofs failed, and TLC then found the case. `TiesStayInPlace` did not hold of requests
that regroup: two objects of one millisecond that change places take the later versions of one of them along, so a page
boundary can move an object out of its millisecond; `Regroups` names these requests. And the manifest does
not list objects in the order of the envelope when several exact versions of one object are asked
for (the envelope gives them as asked, `filter.service.ts:326-332`, the manifest as stamped), so
`ManifestListsEnvelope` compares the objects always and the order unless the request regroups. The instance of `paging` now contains both cases.

### Start of a server

`BootstrapProofs` proves `BootTypeCorrect` and `WholePair` (`[]WholePairServed`) for any environments and any
bound on faults, under `MarksAssumption` (an unset or blank variable is no key). By `KeysInv` a server that had a usable
pair all the while cannot be in the catch block: the half it has loaded and the half it will read belong to that pair,
as a file replaced in between ends the `sound` of pairs given by files, and no variable of its own can change. TLC
checked `KeysInv` on `bootstrap`.

### Induction over folds

`FoldFacts` states the rule of loop invariants once: what holds of the base, and is kept when one more element is
combined, holds of the fold (the lemma `FoldInduction`). The rule speaks of every loop body and every invariant, and a theorem
cannot have an operator for a parameter here; so both are constants of the module, and each use is an
`INSTANCE FoldFacts WITH Combine <- ..., Holds <- ...`. Induction itself (`NatSetInduction`) is derived from the
well-foundedness of `<`, with a set in place of the predicate. This is why the filters are folds, and neither recursive
operators nor `SelectSeq` and `SortSeq`, of which the prover knows nothing.

### Only model-checked

Liveness, as fairness and `ENABLED` are beyond the prover: `ConvergesToSource`, `ConvergesToHydrated`, `EventuallyListed`,
`WalkEnds`, `EveryProcessComesUp`, `EveryRequestAnswered`. The statements refuted by the configurations named `v_...`
are, of course, no theorems.

## Not modelled, and why

Serialisation to snake case (the only serialisation registered: `TaxiiSerializerInterceptor` has no user), DTO
copying, OpenAPI, logging: no state and no control that a property could be about. Of the configuration, the variables
that are only passed on (logging, CORS, body size, the MongoDB URI). Index creation (idempotent, before the first
pass). Methods of the repositories nobody calls (`getStixBundle`, `getAllStixObjects`, `getAnObject`). The contents of bundles beyond their parts. HTTP server
concerns below the handlers (body parsing, CORS, TLS handshakes). Assumed of the environment: the source does not republish a
release under the same version, two releases of a collection differ in `modified`, GitHub's CDN does not serve an
older `index.json` after a newer one, objects have a `created` date in `Query` (in `Request` they may lack one).

## Plan

Done: the collector, alone and with overlapping passes, the catalog it refines, both sources, configuration and start,
serving from either source, queries and pages, requests; every safety property of the runs is a theorem. Next, in this
order:

1. Lemmas towards liveness that need no fairness: for `Hydration` and `Paging`, a natural number that no step of a
   pass or a walk increases and every one but the last decreases, so that only the fairness is left to TLC.
2. Overlapping passes: an invariant for documents and pointers (they converge, but which properties hold at every
   step beside `CopiesBounded`).
3. `ManifestIsEnvelope` for the order of regrouped answers: which orders the two can differ in.
