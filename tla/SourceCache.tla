----------------------------- MODULE SourceCache -----------------------------
(***************************************************************************)
(* The GitHub source (MitreAttackRepository): one collection index and one *)
(* bundle per release, fetched over HTTP through an in-memory cache.       *)
(* Hydration's passes are its callers: a pass lists every release, then    *)
(* asks for the bundles of that listing, and each of these requests reads  *)
(* the index again.  Passes may overlap, and share the cache.              *)
(*                                                                         *)
(* Time is counted in ticks.  An index body is the set of releases it      *)
(* lists, or Malformed; the body of the bundle of r is {r}.                *)
(***************************************************************************)
EXTENDS Integers

CONSTANTS
  Release,        \* records [id, version, modified]
  Caller,         \* calls that may be in progress at once
  Index,          \* the URL of index.json; a bundle's URL is its release
  Malformed,      \* a 200 response that is no collection index
  AllReleases,    \* the goal of getCollections(undefined, 'all')
  NotCached,      \* no cache entry
  Ttl,            \* cacheTtlMs, in ticks
  Flight          \* longest time a request is under way; no timeout is set

\* "Each release of a collection is uniquely identified by its modified
\* timestamp in the collection index."
ASSUME ModifiedIdentifies ==
  \A r, s \in Release : r.id = s.id /\ r.modified = s.modified => r = s

ASSUME TimeAssumption == Ttl \in Nat \ {0} /\ Flight \in Nat

ASSUME BodyAssumption ==
  /\ Index \notin Release /\ AllReleases \notin Release
  /\ \A data \in SUBSET Release : data # Malformed
  /\ \A data \in (SUBSET Release) \cup {Malformed}, left \in 1 .. Ttl :
       NotCached # [data |-> data, left |-> left]

VARIABLES
  published,      \* the releases index.json lists
  age,            \* how long each has been listed, up to Old
  sound,          \* how long index.json has been well-formed, up to Old, or Broken
  cache,          \* by URL: the body and the time it has left
  pc,             \* the resource each call is fetching: "index" or "bundle"
  goal,           \* what it wants
  http,           \* its HTTP request: "none", "sent" or "served"
  flown,          \* how long that request has been under way
  body,           \* the response on its way
  outcome,        \* how the caller's last call ended
  listing,        \* the last listing the caller got
  overlapped      \* history: have two requests for the index overlapped

upstream == <<published, age, sound>>
request == <<http, flown, body>>
answer == <<outcome, listing>>
vars == <<upstream, cache, pc, goal, request, answer, overlapped>>

Url == Release \cup {Index}
Goal == Release \cup {AllReleases}
Old == Ttl + Flight
Broken == -1

UrlOf(c) == IF pc[c] = "index" THEN Index ELSE goal[c]

Init ==
  /\ published \in SUBSET Release
  /\ age = [r \in Release |-> 0]
  /\ sound = Old
  /\ cache = [u \in Url |-> NotCached]
  /\ pc = [c \in Caller |-> "idle"]
  /\ goal = [c \in Caller |-> AllReleases]
  /\ http = [c \in Caller |-> "none"]
  /\ flown = [c \in Caller |-> 0]
  /\ body = [c \in Caller |-> {}]
  /\ outcome = [c \in Caller |-> "none"]
  /\ listing = [c \in Caller |-> {}]
  /\ overlapped = FALSE

(***************************************************************************)
(* The publisher, and time.                                                *)
(***************************************************************************)
Publish(r) ==
  /\ r \notin published
  /\ published' = published \cup {r}
  /\ UNCHANGED <<age, sound, cache, pc, goal, request, answer, overlapped>>

\* index.json is pushed in a malformed state, or repaired.
BreakIndex ==
  /\ sound' = IF sound = Broken THEN 0 ELSE Broken
  /\ UNCHANGED <<published, age, cache, pc, goal, request, answer, overlapped>>

\* An entry that never expires.
AgedNever(entry) == entry

\* An entry is used as long as expiresAt > Date.now(); once expired it is as
\* good as deleted, though the Map keeps it until its URL is fetched again.
Aged(entry) == IF entry.left = 1 THEN NotCached ELSE [entry EXCEPT !.left = @ - 1]

Older(n) == IF n < Old THEN n + 1 ELSE Old

Tick ==
  /\ \A c \in Caller : http[c] # "none" => flown[c] < Flight
  /\ age' = [r \in Release |-> IF r \in published THEN Older(age[r]) ELSE 0]
  /\ sound' = IF sound = Broken THEN Broken ELSE Older(sound)
  /\ flown' = [c \in Caller |-> IF http[c] = "none" THEN 0 ELSE flown[c] + 1]
  /\ cache' = [u \in Url |-> IF cache[u] = NotCached THEN NotCached ELSE Aged(cache[u])]
  /\ UNCHANGED <<published, pc, goal, http, body, answer, overlapped>>

(***************************************************************************)
(* What a call makes of the index: getCollections lists all of it,         *)
(* findCollectionById and getCollectionBundle look one release up by id    *)
(* and modified timestamp.                                                 *)
(***************************************************************************)
\* No validation of the body.
AnyIndex(data) == TRUE

ValidIndex(data) == data # Malformed

\* Only the most recent release of each collection ('latest', the default).
LatestOnly(data) ==
  {r \in data : \A s \in data : s.id = r.id => s.modified <= r.modified}

ListAll(data) == data

\* Look only at the most recent release.
MatchInLatest(data, r) == {s \in LatestOnly(data) : s.id = r.id /\ s.modified = r.modified}

Match(data, r) == {s \in data : s.id = r.id /\ s.modified = r.modified}

(***************************************************************************)
(* The end of a call, and the two ends of a fetch.                         *)
(***************************************************************************)
EndCall(c, how) ==
  /\ pc' = [pc EXCEPT ![c] = "idle"]
  /\ outcome' = [outcome EXCEPT ![c] = how]
  /\ goal' = [goal EXCEPT ![c] = AllReleases]

\* The call goes on with the body that fetchHttp has returned.
Deliver(c, data) ==
  \/ /\ pc[c] = "index" /\ ~ValidIndex(data)
     /\ EndCall(c, "notIndex")
     /\ UNCHANGED listing
  \/ /\ pc[c] = "index" /\ ValidIndex(data) /\ goal[c] = AllReleases
     /\ EndCall(c, "listing")
     /\ listing' = [listing EXCEPT ![c] = ListAll(data)]
  \/ /\ pc[c] = "index" /\ ValidIndex(data) /\ goal[c] # AllReleases
     /\ Match(data, goal[c]) = {}
     /\ EndCall(c, "notInIndex")
     /\ UNCHANGED listing
  \/ /\ pc[c] = "index" /\ ValidIndex(data) /\ goal[c] # AllReleases
     /\ \E r \in Match(data, goal[c]) : goal' = [goal EXCEPT ![c] = r]
     /\ pc' = [pc EXCEPT ![c] = "bundle"]
     /\ UNCHANGED answer
  \/ /\ pc[c] = "bundle"
     /\ EndCall(c, "bundle")
     /\ UNCHANGED listing

EndRequest(c) ==
  /\ http' = [http EXCEPT ![c] = "none"]
  /\ flown' = [flown EXCEPT ![c] = 0]
  /\ body' = [body EXCEPT ![c] = {}]

(***************************************************************************)
(* getCollections(undefined, 'all') and getCollectionBundle, whose         *)
(* collection and timestamp come from the caller's listing.                *)
(***************************************************************************)
Ask(c, g) ==
  /\ pc[c] = "idle"
  /\ g \in {AllReleases} \cup listing[c]
  /\ goal' = [goal EXCEPT ![c] = g]
  /\ pc' = [pc EXCEPT ![c] = "index"]
  /\ outcome' = [outcome EXCEPT ![c] = "none"]
  /\ UNCHANGED <<upstream, cache, request, listing, overlapped>>

(***************************************************************************)
(* fetchHttp.                                                              *)
(***************************************************************************)
Fresh(u) == cache[u] # NotCached

FetchCached(c) ==
  /\ pc[c] # "idle" /\ http[c] = "none"
  /\ Fresh(UrlOf(c))
  /\ Deliver(c, cache[UrlOf(c)].data)
  /\ UNCHANGED <<upstream, cache, request, overlapped>>

SendRequest(c) ==
  /\ pc[c] # "idle" /\ http[c] = "none"
  /\ ~Fresh(UrlOf(c))
  /\ http' = [http EXCEPT ![c] = "sent"]
  /\ overlapped' = (overlapped \/ \E d \in Caller \ {c} :
                                    pc[c] = "index" /\ pc[d] = "index" /\ http[d] # "none")
  /\ UNCHANGED <<upstream, cache, pc, goal, flown, body, answer>>

\* The server answers with what it holds at that moment.
Serve(c) ==
  /\ http[c] = "sent"
  /\ http' = [http EXCEPT ![c] = "served"]
  /\ body' = [body EXCEPT ![c] = IF pc[c] = "bundle" THEN {goal[c]}
                                 ELSE IF sound = Broken THEN Malformed ELSE published]
  /\ UNCHANGED <<upstream, cache, pc, goal, flown, answer, overlapped>>

ReceiveResponse(c) ==
  /\ http[c] = "served"
  /\ cache' = [cache EXCEPT ![UrlOf(c)] = [data |-> body[c], left |-> Ttl]]
  /\ Deliver(c, body[c])
  /\ EndRequest(c)
  /\ UNCHANGED <<upstream, overlapped>>

\* 4xx, 5xx, no response, or an error in setting the request up: each throws,
\* and nothing is cached.  After any other status fetchHttp returns undefined,
\* which the caller cannot use either.
RequestFails(c) ==
  /\ http[c] # "none"
  /\ EndCall(c, "failed")
  /\ EndRequest(c)
  /\ UNCHANGED <<upstream, cache, listing, overlapped>>

\* The collector process restarts: cache and calls are gone.
Restart ==
  /\ cache' = [u \in Url |-> NotCached]
  /\ pc' = [c \in Caller |-> "idle"]
  /\ goal' = [c \in Caller |-> AllReleases]
  /\ http' = [c \in Caller |-> "none"]
  /\ flown' = [c \in Caller |-> 0]
  /\ body' = [c \in Caller |-> {}]
  /\ outcome' = [c \in Caller |-> "none"]
  /\ listing' = [c \in Caller |-> {}]
  /\ overlapped' = FALSE
  /\ UNCHANGED upstream

CallStep(c) == FetchCached(c) \/ SendRequest(c) \/ Serve(c) \/ ReceiveResponse(c)

Next ==
  \/ \E r \in Release : Publish(r)
  \/ BreakIndex
  \/ Tick
  \/ \E c \in Caller : (\E g \in Goal : Ask(c, g)) \/ CallStep(c) \/ RequestFails(c)
  \/ Restart

Spec == Init /\ [][Next]_vars

(***************************************************************************)
(* Fairness: time passes, requests are answered, and every caller goes on  *)
(* listing (each cron pass begins with it, and asks for finitely many      *)
(* bundles).  Failures, restarts and publications are assumed to cease,    *)
(* and index.json to be well-formed in the end.                            *)
(***************************************************************************)
Fairness ==
  /\ WF_vars(Tick)
  /\ \A c \in Caller : WF_vars(CallStep(c)) /\ SF_vars(Ask(c, AllReleases))

EventuallyCalm ==
  /\ <>[][Tick \/ \E c \in Caller : CallStep(c) \/ \E g \in Goal : Ask(c, g)]_vars
  /\ <>[](sound # Broken)

FairSpec == Spec /\ Fairness /\ EventuallyCalm

(***************************************************************************)
(* Properties.                                                             *)
(***************************************************************************)
Body == (SUBSET Release) \cup {Malformed}

SourceTypeOK ==
  /\ published \subseteq Release
  /\ age \in [Release -> 0 .. Old]
  /\ sound \in {Broken} \cup 0 .. Old
  /\ cache \in [Url -> {NotCached} \cup [data : Body, left : 1 .. Ttl]]
  /\ pc \in [Caller -> {"idle", "index", "bundle"}]
  /\ goal \in [Caller -> Goal]
  /\ http \in [Caller -> {"none", "sent", "served"}]
  /\ flown \in [Caller -> 0 .. Flight]
  /\ body \in [Caller -> Body]
  /\ outcome \in [Caller -> {"none", "listing", "bundle", "notIndex", "notInIndex",
                             "failed"}]
  /\ listing \in [Caller -> Body \ {Malformed}]
  /\ overlapped \in BOOLEAN

Ends(c, how) == pc[c] # "idle" /\ pc'[c] = "idle" /\ outcome'[c] = how

\* A listing misses no release that has been out for longer than the cache
\* keeps a body and a request is under way.
ListingRecent ==
  [][\A c \in Caller : Ends(c, "listing") => {r \in published : age[r] = Old} \subseteq listing'[c]]_vars

\* No listing lacks a release that an earlier one had (removeOrphanedReleases
\* would delete it), unless two index requests have overlapped: then the
\* slower, older response replaces the newer one in the cache.
ListingsGrow ==
  [][\A c, d \in Caller : Ends(c, "listing") /\ ~overlapped => listing[d] \subseteq listing'[c]]_vars

\* Nor is a release that has been listed missing from the index when its
\* bundle is asked for.
ListedIsFound == \A c \in Caller : outcome[c] = "notInIndex" => overlapped

\* Why: what a call may still be given, from the cache or by a response on its
\* way, holds every listing so far.  While index requests do not overlap, one
\* is under way only when the cache has no index, so that the cache is never
\* overwritten with an older body.
AskingIndex(c) == pc[c] = "index" /\ http[c] # "none"
IndexBodies ==
  {data \in {body[d] : d \in {e \in Caller : pc[e] = "index" /\ http[e] = "served"}}
             \cup {entry.data : entry \in {cache[Index]} \ {NotCached}} : ValidIndex(data)}

CacheInv ==
  /\ \A c \in Caller :
       /\ pc[c] = "idle" => http[c] = "none" /\ goal[c] = AllReleases
       /\ pc[c] = "bundle" => goal[c] # AllReleases
       /\ goal[c] # AllReleases => goal[c] \in listing[c]
       /\ listing[c] \subseteq published
  /\ \A data \in IndexBodies : data \subseteq published
  /\ ~overlapped =>
       /\ \A c, d \in Caller : AskingIndex(c) /\ AskingIndex(d) => c = d
       /\ \A c \in Caller : AskingIndex(c) => cache[Index] = NotCached
       /\ \A c \in Caller, data \in IndexBodies : listing[c] \subseteq data
  /\ ListedIsFound

\* A body of index.json that the server gave n ticks ago lacks only releases
\* listed since, and is malformed only if it has not been repaired for longer.
NoOlder(data, n) ==
  IF ValidIndex(data) THEN \A r \in published \ data : age[r] <= n ELSE sound <= n

RecentInv ==
  /\ \A r \in Release \ published : age[r] = 0
  /\ \A c \in Caller : pc[c] = "index" /\ http[c] = "served" => NoOlder(body[c], flown[c])
  /\ cache[Index] # NotCached => NoOlder(cache[Index].data, Old - cache[Index].left)

\* The bundle fetched is that of the listed release asked for.
BundleAsked ==
  [][\A c \in Caller : pc[c] = "index" /\ pc'[c] = "bundle" => goal'[c] = goal[c]]_vars

\* A body that is no index is cached like any other, but makes no call fail
\* for longer than that once index.json is repaired.
RepairSeen == [][\A c \in Caller : Ends(c, "notIndex") => sound < Old]_vars

\* In the end every caller's listing is what index.json lists, whatever was
\* cached before, overlapping requests included.
EventuallyListed == \A c \in Caller : <>[](listing[c] = published)
=============================================================================
