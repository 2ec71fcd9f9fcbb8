-------------------------- MODULE SourceCacheProofs --------------------------
(***************************************************************************)
(* Theorems about SourceCache, for every set of releases, every number of  *)
(* passes that share the cache, and every lifetime of its entries.         *)
(***************************************************************************)
EXTENDS SourceCache, TLAPS

\* A well-formed body is a set of releases.
LEMMA ValidBody ==
  ASSUME NEW data \in Body, ValidIndex(data)
  PROVE  data \in SUBSET Release
BY DEF Body, ValidIndex

\* What a call leaves when it ends, and what it is given, is of its type.
LEMMA DeliverType ==
  ASSUME SourceTypeOK, NEW c \in Caller, NEW data \in Body, Deliver(c, data)
  PROVE  /\ pc' \in [Caller -> {"idle", "index", "bundle"}]
         /\ goal' \in [Caller -> Goal]
         /\ outcome' \in [Caller -> {"none", "listing", "bundle", "notIndex", "notInIndex",
                                     "failed"}]
         /\ listing' \in [Caller -> Body \ {Malformed}]
<1> USE DEF SourceTypeOK
<1>1. AllReleases \in Goal /\ Release \subseteq Goal
  BY DEF Goal
<1>2. CASE pc[c] = "index" /\ ValidIndex(data) /\ goal[c] = AllReleases
  <2>1. listing' = [listing EXCEPT ![c] = data] /\ EndCall(c, "listing")
    BY <1>2 DEF Deliver, ListAll
  <2>2. data \in Body \ {Malformed}
    BY <1>2 DEF ValidIndex
  <2> QED
    BY <1>1, <2>1, <2>2 DEF EndCall
<1>3. CASE /\ pc[c] = "index" /\ ValidIndex(data) /\ goal[c] # AllReleases
           /\ Match(data, goal[c]) # {}
  <2>1. PICK r \in Match(data, goal[c]) : goal' = [goal EXCEPT ![c] = r]
    BY <1>3 DEF Deliver
  <2>2. r \in Release
    BY <1>3, <2>1, ValidBody DEF Match
  <2> QED
    BY <1>1, <1>3, <2>1, <2>2 DEF Deliver, answer
<1>4. CASE pc[c] = "index" /\ (ValidIndex(data) => goal[c] # AllReleases /\ Match(data, goal[c]) = {})
  <2>1. UNCHANGED listing /\ (EndCall(c, "notIndex") \/ EndCall(c, "notInIndex"))
    BY <1>4 DEF Deliver
  <2> QED
    BY <1>1, <2>1 DEF EndCall
<1>5. CASE pc[c] # "index"
  BY <1>1, <1>5 DEF Deliver, EndCall
<1> QED
  BY <1>2, <1>3, <1>4, <1>5

\* The url of a call that is not idle is one the cache knows.
LEMMA UrlType ==
  ASSUME SourceTypeOK, CacheInv, NEW c \in Caller, pc[c] # "idle"
  PROVE  /\ UrlOf(c) \in Url
         /\ pc[c] = "index" => UrlOf(c) = Index
         /\ pc[c] # "index" => UrlOf(c) \in Release
<1>1. pc[c] \in {"index", "bundle"} /\ goal[c] \in Goal
  BY DEF SourceTypeOK
<1>2. pc[c] = "bundle" => goal[c] # AllReleases
  BY DEF CacheInv
<1>3. CASE pc[c] = "index"
  BY <1>3 DEF UrlOf, Url
<1>4. CASE pc[c] = "bundle"
  <2>1. UrlOf(c) = goal[c] /\ goal[c] \in Release
    BY <1>1, <1>2, <1>4 DEF UrlOf, Goal
  <2> QED
    BY <1>4, <2>1 DEF Url
<1> QED
  BY <1>1, <1>3, <1>4

LEMMA TypeInit == Init => SourceTypeOK
<1> SUFFICES ASSUME Init PROVE SourceTypeOK
  OBVIOUS
<1>1. 0 \in 0 .. Old /\ Old \in 0 .. Old /\ 0 \in 0 .. Flight
  BY TimeAssumption DEF Old
<1>2. {} \in Body \ {Malformed} /\ AllReleases \in Goal
  BY BodyAssumption DEF Body, Goal
<1> QED
  BY <1>1, <1>2 DEF Init, SourceTypeOK

\* Time passes: ages and lifetimes stay in their ranges.
LEMMA TickType ==
  ASSUME SourceTypeOK, Tick
  PROVE  SourceTypeOK'
<1> USE TimeAssumption DEF SourceTypeOK
<1>1. age' \in [Release -> 0 .. Old] /\ sound' \in {Broken} \cup 0 .. Old
  <2>1. \A n \in 0 .. Old : Older(n) \in 0 .. Old
    BY DEF Older, Old
  <2>2. 0 \in 0 .. Old
    BY DEF Old
  <2> QED
    BY <2>1, <2>2 DEF Tick
<1>2. flown' \in [Caller -> 0 .. Flight]
  BY DEF Tick
<1>3. cache' \in [Url -> {NotCached} \cup [data : Body, left : 1 .. Ttl]]
  <2>1. ASSUME NEW entry \in [data : Body, left : 1 .. Ttl]
        PROVE  Aged(entry) \in {NotCached} \cup [data : Body, left : 1 .. Ttl]
    BY DEF Aged
  <2> QED
    BY <2>1 DEF Tick
<1> QED
  BY <1>1, <1>2, <1>3 DEF Tick, answer

LEMMA RestartType ==
  ASSUME SourceTypeOK, Restart
  PROVE  SourceTypeOK'
<1>1. published' \subseteq Release /\ age' \in [Release -> 0 .. Old] /\ sound' \in {Broken} \cup 0 .. Old
  BY DEF SourceTypeOK, Restart, upstream
<1>2. {} \in Body \ {Malformed} /\ 0 \in 0 .. Flight /\ AllReleases \in Goal
  BY TimeAssumption, BodyAssumption DEF Body, Goal
<1> QED
  BY <1>1, <1>2 DEF SourceTypeOK, Restart

LEMMA TypeStep ==
  ASSUME SourceTypeOK, CacheInv, [Next]_vars
  PROVE  SourceTypeOK'
<1> USE DEF SourceTypeOK
<1>1. CASE \E r \in Release : Publish(r)
  BY <1>1 DEF Publish, request, answer
<1>2. CASE BreakIndex
  BY <1>2, TimeAssumption DEF BreakIndex, request, answer, Old, Broken
<1>3. CASE Tick
  BY <1>3, TickType
<1>4. CASE Restart
  BY <1>4, RestartType
<1>5. ASSUME NEW c \in Caller, NEW g \in Goal, Ask(c, g)
      PROVE  SourceTypeOK'
  BY <1>5 DEF Ask, upstream, request
<1>6. ASSUME NEW c \in Caller, FetchCached(c)
      PROVE  SourceTypeOK'
  <2>1. cache[UrlOf(c)].data \in Body
    BY <1>6, UrlType DEF FetchCached, Fresh
  <2>2. Deliver(c, cache[UrlOf(c)].data) /\ UNCHANGED <<upstream, cache, request, overlapped>>
    BY <1>6 DEF FetchCached
  <2> QED
    BY <2>1, <2>2, DeliverType DEF upstream, request
<1>7. ASSUME NEW c \in Caller, SendRequest(c)
      PROVE  SourceTypeOK'
  BY <1>7 DEF SendRequest, upstream, answer
<1>8. ASSUME NEW c \in Caller, Serve(c)
      PROVE  SourceTypeOK'
  <2>1. pc[c] = "bundle" => goal[c] \in Release
    BY DEF CacheInv, Goal
  <2>2. body' \in [Caller -> Body]
    BY <1>8, <2>1 DEF Serve, Body
  <2> QED
    BY <1>8, <2>2 DEF Serve, upstream, answer
<1>9. ASSUME NEW c \in Caller, ReceiveResponse(c)
      PROVE  SourceTypeOK'
  <2>1. pc[c] # "idle" /\ UrlOf(c) \in Url
    BY <1>9, UrlType DEF ReceiveResponse, CacheInv
  <2>2. cache' \in [Url -> {NotCached} \cup [data : Body, left : 1 .. Ttl]]
    BY <1>9, <2>1, TimeAssumption DEF ReceiveResponse
  <2>3. Deliver(c, body[c]) /\ EndRequest(c) /\ UNCHANGED <<upstream, overlapped>>
    BY <1>9 DEF ReceiveResponse
  <2> QED
    BY <2>2, <2>3, DeliverType, TimeAssumption DEF EndRequest, upstream, Body
<1>10. ASSUME NEW c \in Caller, RequestFails(c)
       PROVE  SourceTypeOK'
  BY <1>10, TimeAssumption DEF RequestFails, EndCall, EndRequest, upstream, Goal, Body
<1>11. CASE UNCHANGED vars
  BY <1>11 DEF vars, upstream, request, answer
<1> QED
  BY <1>1, <1>2, <1>3, <1>4, <1>5, <1>6, <1>7, <1>8, <1>9, <1>10, <1>11 DEF Next, CallStep

-----------------------------------------------------------------------------
(***************************************************************************)
(* The invariant.                                                          *)
(***************************************************************************)

\* A well-formed index body that is in the cache, or on its way to a call.
Given(data) ==
  /\ ValidIndex(data)
  /\ \/ \E d \in Caller : pc[d] = "index" /\ http[d] = "served" /\ data = body[d]
     \/ cache[Index] # NotCached /\ data = cache[Index].data

LEMMA BodiesAreGiven ==
  /\ \A data : data \in IndexBodies <=> Given(data)
  /\ \A data : data \in IndexBodies' <=> Given(data)'
BY DEF IndexBodies, Given

\* The parts of CacheInv: each call by itself, and what calls share.
CallInv(c) ==
  /\ pc[c] = "idle" => http[c] = "none" /\ goal[c] = AllReleases
  /\ pc[c] = "bundle" => goal[c] # AllReleases
  /\ goal[c] # AllReleases => goal[c] \in listing[c]
  /\ listing[c] \subseteq published

SharedInv ==
  ~overlapped =>
    /\ \A c, d \in Caller : AskingIndex(c) /\ AskingIndex(d) => c = d
    /\ \A c \in Caller : AskingIndex(c) => cache[Index] = NotCached
    /\ \A c \in Caller, data \in IndexBodies : listing[c] \subseteq data

LEMMA InvParts ==
  /\ CacheInv <=> /\ \A c \in Caller : CallInv(c)
                  /\ \A data \in IndexBodies : data \subseteq published
                  /\ SharedInv
                  /\ ListedIsFound
  /\ CacheInv' <=> /\ \A c \in Caller : CallInv(c)'
                   /\ \A data \in IndexBodies' : data \subseteq published'
                   /\ SharedInv'
                   /\ ListedIsFound'
BY DEF CacheInv, CallInv, SharedInv

\* The release a lookup finds in a body is the one the call asked for.
LEMMA MatchIsGoal ==
  ASSUME SourceTypeOK, NEW c \in Caller, goal[c] # AllReleases,
         NEW data \in Body, ValidIndex(data), NEW r \in Match(data, goal[c])
  PROVE  r = goal[c]
<1>1. r \in Release /\ r.id = goal[c].id /\ r.modified = goal[c].modified
  BY ValidBody DEF Match
<1>2. goal[c] \in Release
  BY DEF SourceTypeOK, Goal
<1> QED
  BY <1>1, <1>2, ModifiedIdentifies

\* What a call has been given is in no conflict with what it has listed, and
\* becomes its listing only as a whole.
LEMMA DeliverInv ==
  ASSUME SourceTypeOK, CacheInv, NEW c \in Caller, NEW data \in Body,
         Deliver(c, data), pc[c] = "index" /\ ValidIndex(data) => data \in IndexBodies,
         http'[c] = "none", \A d \in Caller \ {c} : http'[d] = http[d],
         UNCHANGED <<published, overlapped>>
  PROVE  /\ \A d \in Caller : CallInv(d)'
         /\ ListedIsFound'
         /\ pc' = [pc EXCEPT ![c] = "idle"] \/ pc' = [pc EXCEPT ![c] = "bundle"]
         /\ \/ listing' = listing
            \/ data \in IndexBodies /\ pc[c] = "index" /\ listing' = [listing EXCEPT ![c] = data]
<1>1. /\ pc \in [Caller -> {"idle", "index", "bundle"}] /\ goal \in [Caller -> Goal]
      /\ listing \in [Caller -> Body \ {Malformed}]
      /\ outcome \in [Caller -> {"none", "listing", "bundle", "notIndex", "notInIndex", "failed"}]
  BY DEF SourceTypeOK
<1>2. /\ \A d \in Caller : CallInv(d)
      /\ \A d \in IndexBodies : d \subseteq published
      /\ SharedInv /\ ListedIsFound
  BY InvParts
<1>3. ASSUME NEW how \in {"notIndex", "bundle"}, EndCall(c, how), UNCHANGED listing
      PROVE  (\A d \in Caller : CallInv(d)') /\ ListedIsFound'
             /\ pc' = [pc EXCEPT ![c] = "idle"]
  BY <1>1, <1>2, <1>3 DEF EndCall, CallInv, ListedIsFound
<1>4. CASE pc[c] = "index" /\ ValidIndex(data) /\ goal[c] = AllReleases
  <2>1. EndCall(c, "listing") /\ listing' = [listing EXCEPT ![c] = data]
    BY <1>4 DEF Deliver, ListAll
  <2>2. data \in IndexBodies /\ data \subseteq published
    BY <1>2, <1>4
  <2> QED
    BY <1>1, <1>2, <1>4, <2>1, <2>2 DEF EndCall, CallInv, ListedIsFound
<1>5. CASE /\ pc[c] = "index" /\ ValidIndex(data) /\ goal[c] # AllReleases
           /\ Match(data, goal[c]) = {}
  <2>1. EndCall(c, "notInIndex") /\ UNCHANGED listing
    BY <1>5 DEF Deliver
  <2>2. overlapped
    <3>1. goal[c] \in listing[c] /\ goal[c] \notin data
      BY <1>2, <1>5 DEF CallInv, Match
    <3> QED
      BY <1>2, <1>5, <3>1 DEF SharedInv
  <2> QED
    BY <1>1, <1>2, <2>1, <2>2 DEF EndCall, CallInv, ListedIsFound
<1>6. CASE /\ pc[c] = "index" /\ ValidIndex(data) /\ goal[c] # AllReleases
           /\ Match(data, goal[c]) # {}
  <2>1. PICK r \in Match(data, goal[c]) : goal' = [goal EXCEPT ![c] = r]
    BY <1>6 DEF Deliver
  <2>2. pc' = [pc EXCEPT ![c] = "bundle"] /\ UNCHANGED <<listing, outcome>>
    BY <1>6 DEF Deliver, answer
  <2>3. goal' = goal
    BY <1>1, <1>6, <2>1, MatchIsGoal
  <2> QED
    BY <1>1, <1>2, <1>6, <2>2, <2>3 DEF CallInv, ListedIsFound
<1>7. CASE pc[c] = "index" /\ ~ValidIndex(data)
  BY <1>3, <1>7 DEF Deliver
<1>8. CASE pc[c] # "index"
  BY <1>3, <1>8 DEF Deliver
<1> QED
  BY <1>4, <1>5, <1>6, <1>7, <1>8

LEMMA InvInit == Init => CacheInv
<1> SUFFICES ASSUME Init PROVE CacheInv
  OBVIOUS
<1>1. \A data : ~Given(data)
  BY DEF Init, Given, Url
<1>2. IndexBodies = {}
  BY <1>1, BodiesAreGiven
<1> QED
  BY <1>2 DEF Init, CacheInv, ListedIsFound, AskingIndex

LEMMA FetchCachedInv ==
  ASSUME SourceTypeOK, CacheInv, NEW c \in Caller, FetchCached(c)
  PROVE  CacheInv'
<1>1. /\ pc[c] # "idle" /\ http[c] = "none" /\ Fresh(UrlOf(c))
      /\ Deliver(c, cache[UrlOf(c)].data)
      /\ UNCHANGED <<published, cache, http, body, overlapped>>
  BY DEF FetchCached, upstream, request
<1>2. cache[UrlOf(c)].data \in Body
  BY <1>1, UrlType DEF SourceTypeOK, Fresh
<1>3. pc[c] = "index" => UrlOf(c) = Index
  BY DEF UrlOf
<1>4. pc[c] = "index" /\ ValidIndex(cache[UrlOf(c)].data) => cache[UrlOf(c)].data \in IndexBodies
  BY <1>1, <1>3, BodiesAreGiven DEF Given, Fresh
<1>5. /\ \A d \in Caller : CallInv(d)'
      /\ ListedIsFound'
      /\ pc' = [pc EXCEPT ![c] = "idle"] \/ pc' = [pc EXCEPT ![c] = "bundle"]
      /\ \/ listing' = listing
         \/ /\ pc[c] = "index" /\ cache[Index].data \in IndexBodies
            /\ listing' = [listing EXCEPT ![c] = cache[Index].data]
  BY <1>1, <1>2, <1>3, <1>4, DeliverInv
<1>6. \A data \in IndexBodies' : data \in IndexBodies
  BY <1>1, <1>5, BodiesAreGiven DEF Given, ValidIndex, SourceTypeOK
<1>7. \A d \in Caller : AskingIndex(d)' => AskingIndex(d)
  BY <1>1, <1>5 DEF AskingIndex, SourceTypeOK
<1>8. SharedInv'
  <2> SUFFICES ASSUME ~overlapped'
               PROVE  \A d \in Caller, data \in IndexBodies' : listing'[d] \subseteq data
    BY <1>1, <1>7, InvParts DEF SharedInv
  <2>1. ~overlapped /\ \A d \in Caller, data \in IndexBodies : listing[d] \subseteq data
    BY <1>1, InvParts DEF SharedInv
  <2>2. CASE listing' = listing
    BY <1>6, <2>1, <2>2
  <2>3. CASE pc[c] = "index" /\ listing' = [listing EXCEPT ![c] = cache[Index].data]
    <3>1. cache[Index] # NotCached
      BY <1>1, <1>3, <2>3 DEF Fresh
    <3>2. \A d \in Caller : ~AskingIndex(d)
      BY <2>1, <3>1, InvParts DEF SharedInv
    <3>3. \A data \in IndexBodies : data = cache[Index].data
      BY <3>2, BodiesAreGiven DEF Given, AskingIndex
    <3> QED
      BY <1>6, <2>1, <2>3, <3>3 DEF SourceTypeOK
  <2> QED
    BY <1>5, <2>2, <2>3
<1> QED
  BY <1>1, <1>5, <1>6, <1>8, InvParts

LEMMA ReceiveResponseInv ==
  ASSUME SourceTypeOK, CacheInv, NEW c \in Caller, ReceiveResponse(c)
  PROVE  CacheInv'
<1>1. /\ http[c] = "served" /\ Deliver(c, body[c])
      /\ cache' = [cache EXCEPT ![UrlOf(c)] = [data |-> body[c], left |-> Ttl]]
      /\ http' = [http EXCEPT ![c] = "none"] /\ body' = [body EXCEPT ![c] = {}]
      /\ UNCHANGED <<published, overlapped>>
  BY DEF ReceiveResponse, EndRequest, upstream
<1>2. pc[c] # "idle" /\ body[c] \in Body
  BY <1>1 DEF SourceTypeOK, CacheInv
<1>3. /\ UrlOf(c) \in Url
      /\ pc[c] = "index" => UrlOf(c) = Index
      /\ pc[c] # "index" => UrlOf(c) # Index
  BY <1>2, UrlType, BodyAssumption
<1>4. pc[c] = "index" /\ ValidIndex(body[c]) => body[c] \in IndexBodies
  BY <1>1, BodiesAreGiven DEF Given
<1>5. http'[c] = "none" /\ \A d \in Caller \ {c} : http'[d] = http[d]
  BY <1>1 DEF SourceTypeOK
<1>6. /\ \A d \in Caller : CallInv(d)'
      /\ ListedIsFound'
      /\ pc' = [pc EXCEPT ![c] = "idle"] \/ pc' = [pc EXCEPT ![c] = "bundle"]
      /\ \/ listing' = listing
         \/ /\ body[c] \in IndexBodies /\ pc[c] = "index"
            /\ listing' = [listing EXCEPT ![c] = body[c]]
  BY <1>1, <1>2, <1>4, <1>5, DeliverInv
<1>7. \A d \in Caller : AskingIndex(d)' => AskingIndex(d) /\ d # c
  BY <1>5, <1>6 DEF AskingIndex, SourceTypeOK
<1>8. Index \in Url /\ cache \in [Url -> {NotCached} \cup [data : Body, left : 1 .. Ttl]]
  BY DEF SourceTypeOK, Url
<1>9. cache'[Index] = IF pc[c] = "index" THEN [data |-> body[c], left |-> Ttl] ELSE cache[Index]
  BY <1>1, <1>3, <1>8
<1>10. \A data \in IndexBodies' : data \in IndexBodies
  <2> SUFFICES ASSUME NEW data, Given(data)'
               PROVE  Given(data)
    BY BodiesAreGiven
  <2>1. ASSUME NEW d \in Caller, pc'[d] = "index" /\ http'[d] = "served" /\ data = body'[d]
        PROVE  pc[d] = "index" /\ http[d] = "served" /\ data = body[d]
    BY <1>1, <1>5, <1>6, <2>1 DEF SourceTypeOK
  <2>2. CASE cache'[Index] # NotCached /\ data = cache'[Index].data
    BY <1>1, <1>9, <2>2 DEF Given, ValidIndex
  <2> QED
    BY <2>1, <2>2 DEF Given, ValidIndex
<1>11. SharedInv'
  <2> SUFFICES ASSUME ~overlapped'
               PROVE  /\ \A d \in Caller : AskingIndex(d)' => cache'[Index] = NotCached
                      /\ \A d \in Caller, data \in IndexBodies' : listing'[d] \subseteq data
    BY <1>1, <1>7, InvParts DEF SharedInv
  <2>1. /\ ~overlapped /\ \A d \in Caller, data \in IndexBodies : listing[d] \subseteq data
        /\ \A d, e \in Caller : AskingIndex(d) /\ AskingIndex(e) => d = e
        /\ \A d \in Caller : AskingIndex(d) => cache[Index] = NotCached
    BY <1>1, InvParts DEF SharedInv
  <2>2. CASE pc[c] = "index"
    <3>1. AskingIndex(c)
      BY <1>1, <2>2 DEF AskingIndex
    <3>2. \A d \in Caller : ~AskingIndex(d)'
      BY <1>7, <2>1, <3>1
    <3>3. \A data \in IndexBodies' : data = body[c]
      BY <1>9, <2>2, <3>2, BodiesAreGiven DEF Given, AskingIndex
    <3> QED
      BY <1>6, <1>10, <2>1, <3>2, <3>3 DEF SourceTypeOK
  <2>3. CASE pc[c] # "index"
    BY <1>6, <1>7, <1>9, <1>10, <2>1, <2>3
  <2> QED
    BY <2>2, <2>3
<1> QED
  BY <1>1, <1>6, <1>10, <1>11, InvParts

\* The steps that deliver nothing.
LEMMA QuietInv ==
  ASSUME SourceTypeOK, CacheInv,
         \A d \in Caller : CallInv(d)',
         listing' = listing, ListedIsFound', overlapped' = overlapped,
         published \subseteq published',
         cache'[Index] = NotCached \/ (/\ cache[Index] # NotCached /\ cache'[Index] # NotCached
                                       /\ cache'[Index].data = cache[Index].data),
         \A d \in Caller : AskingIndex(d)' => AskingIndex(d),
         \A d \in Caller : pc'[d] = "index" /\ http'[d] = "served" =>
                             \/ pc[d] = "index" /\ http[d] = "served" /\ body'[d] = body[d]
                             \/ body'[d] = Malformed \/ body'[d] = published
  PROVE  CacheInv'
<1>1. \A data \in IndexBodies' : data \in IndexBodies \/ data = published
  BY BodiesAreGiven DEF Given, ValidIndex
<1>2. \A d \in Caller : listing[d] \subseteq published
  BY InvParts DEF CallInv
<1>3. \A data \in IndexBodies' : data \subseteq published'
  BY <1>1, InvParts
<1>4. SharedInv'
  BY <1>1, <1>2, InvParts DEF SharedInv, AskingIndex
<1> QED
  BY <1>3, <1>4, InvParts

LEMMA SendRequestInv ==
  ASSUME SourceTypeOK, CacheInv, NEW c \in Caller, SendRequest(c)
  PROVE  CacheInv'
<1>1. /\ pc[c] # "idle" /\ http[c] = "none" /\ cache[UrlOf(c)] = NotCached
      /\ http' = [http EXCEPT ![c] = "sent"]
      /\ overlapped' = (overlapped \/ \E d \in Caller \ {c} :
                          pc[c] = "index" /\ pc[d] = "index" /\ http[d] # "none")
      /\ UNCHANGED <<published, cache, pc, goal, body, outcome, listing>>
  BY DEF SendRequest, Fresh, upstream, answer
<1>2. \A data \in IndexBodies' : data \in IndexBodies
  BY <1>1, BodiesAreGiven DEF Given, ValidIndex, SourceTypeOK
<1>3. \A d \in Caller : AskingIndex(d)' <=> AskingIndex(d) \/ (d = c /\ pc[c] = "index")
  BY <1>1 DEF AskingIndex, SourceTypeOK
<1>4. (\A d \in Caller : CallInv(d)') /\ ListedIsFound'
  BY <1>1, InvParts DEF CallInv, ListedIsFound, SourceTypeOK
<1>5. SharedInv'
  <2> SUFFICES ASSUME ~overlapped'
               PROVE  /\ \A d, e \in Caller : AskingIndex(d)' /\ AskingIndex(e)' => d = e
                      /\ \A d \in Caller : AskingIndex(d)' => cache[Index] = NotCached
    BY <1>1, <1>2, InvParts DEF SharedInv
  <2>1. /\ ~overlapped
        /\ pc[c] = "index" => \A d \in Caller : AskingIndex(d) => d = c
    BY <1>1 DEF AskingIndex
  <2>2. pc[c] = "index" => cache[Index] = NotCached
    BY <1>1 DEF UrlOf
  <2> QED
    BY <1>3, <2>1, <2>2, InvParts DEF SharedInv
<1> QED
  BY <1>1, <1>2, <1>4, <1>5, InvParts

LEMMA InvStep ==
  ASSUME SourceTypeOK, CacheInv, [Next]_vars
  PROVE  CacheInv'
<1> Index \in Url
  BY DEF Url
<1>1. CASE \E r \in Release : Publish(r)
  <2>1. /\ published \subseteq published'
        /\ UNCHANGED <<cache, pc, goal, http, body, outcome, listing, overlapped>>
    BY <1>1 DEF Publish, request, answer
  <2> QED
    BY <2>1, QuietInv, InvParts DEF CallInv, ListedIsFound, AskingIndex
<1>2. CASE BreakIndex
  <2>1. UNCHANGED <<published, cache, pc, goal, http, body, outcome, listing, overlapped>>
    BY <1>2 DEF BreakIndex, request, answer
  <2> QED
    BY <2>1, QuietInv, InvParts DEF CallInv, ListedIsFound, AskingIndex
<1>3. CASE Tick
  <2>1. /\ UNCHANGED <<published, pc, goal, http, body, outcome, listing, overlapped>>
        /\ cache'[Index] = IF cache[Index] = NotCached THEN NotCached ELSE Aged(cache[Index])
    BY <1>3 DEF Tick, answer
  <2>2. cache'[Index] = NotCached \/ (/\ cache[Index] # NotCached /\ cache'[Index] # NotCached
                                      /\ cache'[Index].data = cache[Index].data)
    BY <2>1 DEF Aged, SourceTypeOK
  <2> QED
    BY <2>1, <2>2, QuietInv, InvParts DEF CallInv, ListedIsFound, AskingIndex
<1>4. CASE Restart
  <2>1. \A data : ~Given(data)'
    BY <1>4 DEF Restart, Given
  <2>2. IndexBodies' = {}
    BY <2>1, BodiesAreGiven
  <2> QED
    BY <1>4, <2>2 DEF Restart, CacheInv, ListedIsFound, AskingIndex
<1>5. ASSUME NEW c \in Caller, NEW g \in Goal, Ask(c, g)
      PROVE  CacheInv'
  <2>1. /\ pc[c] = "idle" /\ g \in {AllReleases} \cup listing[c]
        /\ goal' = [goal EXCEPT ![c] = g] /\ pc' = [pc EXCEPT ![c] = "index"]
        /\ outcome' = [outcome EXCEPT ![c] = "none"]
        /\ UNCHANGED <<published, cache, http, body, listing, overlapped>>
    BY <1>5 DEF Ask, upstream, request
  <2>2. http[c] = "none"
    BY <2>1 DEF CacheInv
  <2>3. (\A d \in Caller : CallInv(d)') /\ ListedIsFound'
    BY <2>1, InvParts DEF CallInv, ListedIsFound, SourceTypeOK
  <2>4. \A d \in Caller : /\ AskingIndex(d)' => AskingIndex(d)
                          /\ pc'[d] = "index" /\ http'[d] = "served" =>
                               pc[d] = "index" /\ http[d] = "served"
    BY <2>1, <2>2 DEF AskingIndex, SourceTypeOK
  <2> QED
    BY <2>1, <2>3, <2>4, QuietInv
<1>6. ASSUME NEW c \in Caller, Serve(c)
      PROVE  CacheInv'
  <2>1. /\ http[c] = "sent" /\ http' = [http EXCEPT ![c] = "served"]
        /\ body' = [body EXCEPT ![c] = IF pc[c] = "bundle" THEN {goal[c]}
                                       ELSE IF sound = Broken THEN Malformed ELSE published]
        /\ UNCHANGED <<published, cache, pc, goal, outcome, listing, overlapped>>
    BY <1>6 DEF Serve, upstream, answer
  <2>2. (\A d \in Caller : CallInv(d)') /\ ListedIsFound'
    BY <2>1, InvParts DEF CallInv, ListedIsFound, SourceTypeOK
  <2>3. \A d \in Caller : /\ AskingIndex(d)' => AskingIndex(d)
                          /\ pc'[d] = "index" /\ http'[d] = "served" =>
                               \/ pc[d] = "index" /\ http[d] = "served" /\ body'[d] = body[d]
                               \/ body'[d] = Malformed \/ body'[d] = published
    BY <2>1 DEF AskingIndex, SourceTypeOK
  <2> QED
    BY <2>1, <2>2, <2>3, QuietInv
<1>7. ASSUME NEW c \in Caller, RequestFails(c)
      PROVE  CacheInv'
  <2>1. /\ pc' = [pc EXCEPT ![c] = "idle"] /\ goal' = [goal EXCEPT ![c] = AllReleases]
        /\ outcome' = [outcome EXCEPT ![c] = "failed"]
        /\ http' = [http EXCEPT ![c] = "none"] /\ body' = [body EXCEPT ![c] = {}]
        /\ UNCHANGED <<published, cache, listing, overlapped>>
    BY <1>7 DEF RequestFails, EndCall, EndRequest, upstream
  <2>2. (\A d \in Caller : CallInv(d)') /\ ListedIsFound'
    BY <2>1, InvParts DEF CallInv, ListedIsFound, SourceTypeOK
  <2>3. \A d \in Caller : /\ AskingIndex(d)' => AskingIndex(d)
                          /\ pc'[d] = "index" /\ http'[d] = "served" =>
                               pc[d] = "index" /\ http[d] = "served" /\ body'[d] = body[d]
    BY <2>1 DEF AskingIndex, SourceTypeOK
  <2> QED
    BY <2>1, <2>2, <2>3, QuietInv
<1>8. CASE UNCHANGED vars
  <2>1. UNCHANGED <<published, cache, pc, goal, http, body, outcome, listing, overlapped>>
    BY <1>8 DEF vars, upstream, request, answer
  <2> QED
    BY <2>1, QuietInv, InvParts DEF CallInv, ListedIsFound, AskingIndex
<1> QED
  BY <1>1, <1>2, <1>3, <1>4, <1>5, <1>6, <1>7, <1>8,
     FetchCachedInv, SendRequestInv, ReceiveResponseInv DEF Next, CallStep

LEMMA Invariance == Spec => [](SourceTypeOK /\ CacheInv)
<1>1. Init => SourceTypeOK /\ CacheInv
  BY TypeInit, InvInit
<1>2. SourceTypeOK /\ CacheInv /\ [Next]_vars => (SourceTypeOK /\ CacheInv)'
  BY TypeStep, InvStep
<1> QED
  BY <1>1, <1>2, PTL DEF Spec

-----------------------------------------------------------------------------
(***************************************************************************)
(* The steps the action properties are about.                              *)
(***************************************************************************)

\* Only a delivery ends a call with a listing or because of the index, or moves
\* it on to its bundle.
LEMMA Deliveries ==
  ASSUME SourceTypeOK, CacheInv, [Next]_vars, NEW c \in Caller,
         \/ Ends(c, "listing") \/ Ends(c, "notIndex")
         \/ pc[c] = "index" /\ pc'[c] = "bundle"
  PROVE  \/ FetchCached(c)
         \/ ReceiveResponse(c)
<1> USE DEF SourceTypeOK, Ends
<1>1. CASE (\E r \in Release : Publish(r)) \/ BreakIndex \/ Tick
  BY <1>1 DEF Publish, BreakIndex, Tick
<1>2. CASE Restart
  BY <1>2 DEF Restart
<1>3. ASSUME NEW d \in Caller, NEW g \in Goal, Ask(d, g)
      PROVE  FALSE
  BY <1>3 DEF Ask
<1>4. ASSUME NEW d \in Caller, SendRequest(d) \/ Serve(d)
      PROVE  FALSE
  BY <1>4 DEF SendRequest, Serve
<1>5. ASSUME NEW d \in Caller, RequestFails(d)
      PROVE  FALSE
  BY <1>5 DEF RequestFails, EndCall
<1>6. ASSUME NEW d \in Caller, NEW data, Deliver(d, data)
      PROVE  d = c
  <2>1. \E s \in {"idle", "bundle"} : pc' = [pc EXCEPT ![d] = s]
    BY <1>6 DEF Deliver, EndCall
  <2> QED
    BY <2>1
<1>7. ASSUME NEW d \in Caller, FetchCached(d) \/ ReceiveResponse(d)
      PROVE  d = c
  BY <1>6, <1>7 DEF FetchCached, ReceiveResponse
<1>8. CASE UNCHANGED vars
  BY <1>8 DEF vars
<1> QED
  BY <1>1, <1>2, <1>3, <1>4, <1>5, <1>7, <1>8 DEF Next, CallStep

\* The body it delivers.
LEMMA DeliveredBody ==
  ASSUME SourceTypeOK, CacheInv, NEW c \in Caller, FetchCached(c) \/ ReceiveResponse(c)
  PROVE  \E data \in Body : /\ Deliver(c, data)
                            /\ pc[c] = "index" /\ ValidIndex(data) => data \in IndexBodies
<1>1. CASE FetchCached(c)
  <2>1. /\ pc[c] # "idle" /\ cache[UrlOf(c)] # NotCached
        /\ Deliver(c, cache[UrlOf(c)].data)
    BY <1>1 DEF FetchCached, Fresh
  <2>2. cache[UrlOf(c)].data \in Body /\ (pc[c] = "index" => UrlOf(c) = Index)
    BY <2>1, UrlType DEF SourceTypeOK
  <2>3. pc[c] = "index" /\ ValidIndex(cache[UrlOf(c)].data) => cache[UrlOf(c)].data \in IndexBodies
    BY <2>1, <2>2, BodiesAreGiven DEF Given
  <2> QED
    BY <2>1, <2>2, <2>3
<1>2. CASE ReceiveResponse(c)
  <2>1. http[c] = "served" /\ Deliver(c, body[c]) /\ body[c] \in Body
    BY <1>2 DEF ReceiveResponse, SourceTypeOK
  <2>2. pc[c] = "index" /\ ValidIndex(body[c]) => body[c] \in IndexBodies
    BY <2>1, BodiesAreGiven DEF Given
  <2> QED
    BY <2>1, <2>2
<1> QED
  BY <1>1, <1>2

LEMMA GrowStep ==
  ASSUME SourceTypeOK, CacheInv, [Next]_vars, NEW c \in Caller, NEW d \in Caller,
         Ends(c, "listing"), ~overlapped
  PROVE  listing[d] \subseteq listing'[c]
<1>1. PICK data \in Body : /\ Deliver(c, data)
                           /\ pc[c] = "index" /\ ValidIndex(data) => data \in IndexBodies
  BY Deliveries, DeliveredBody
<1>2. ASSUME NEW how, EndCall(c, how)
      PROVE  how = "listing"
  BY <1>2 DEF EndCall, Ends, SourceTypeOK
<1>3. pc'[c] # "bundle"
  BY DEF Ends
<1>4. pc[c] = "index" /\ ValidIndex(data) /\ listing' = [listing EXCEPT ![c] = data]
  BY <1>1, <1>2, <1>3 DEF Deliver, ListAll, SourceTypeOK
<1>5. listing[d] \subseteq data
  BY <1>1, <1>4, InvParts DEF SharedInv
<1> QED
  BY <1>4, <1>5 DEF SourceTypeOK

LEMMA AskedStep ==
  ASSUME SourceTypeOK, CacheInv, [Next]_vars, NEW c \in Caller,
         pc[c] = "index", pc'[c] = "bundle"
  PROVE  goal'[c] = goal[c]
<1>1. PICK data \in Body : Deliver(c, data)
  BY Deliveries, DeliveredBody
<1>2. ASSUME NEW how, EndCall(c, how)
      PROVE  FALSE
  BY <1>2 DEF EndCall, SourceTypeOK
<1>3. PICK r \in Match(data, goal[c]) : goal' = [goal EXCEPT ![c] = r]
  BY <1>1, <1>2 DEF Deliver
<1>4. ValidIndex(data) /\ goal[c] # AllReleases
  BY <1>1, <1>2 DEF Deliver
<1> QED
  BY <1>3, <1>4, MatchIsGoal DEF SourceTypeOK

-----------------------------------------------------------------------------
(***************************************************************************)
(* How old a body may be that a call is given.                             *)
(***************************************************************************)
LEMMA OldType == /\ Old \in Nat /\ Flight < Old
                 /\ \A n \in 1 .. Ttl : Old - n \in Nat /\ Flight <= Old - n /\ Old - n < Old
BY TimeAssumption DEF Old

LEMMA NoOlderQuiet ==
  ASSUME NEW data, NEW n, UNCHANGED <<published, age, sound>>, NoOlder(data, n)
  PROVE  NoOlder(data, n)'
BY DEF NoOlder

\* What the publisher does now no body given before can show.
LEMMA NoOlderPublisher ==
  ASSUME SourceTypeOK, RecentInv, (\E r \in Release : Publish(r)) \/ BreakIndex,
         NEW data, NEW n \in Nat, NoOlder(data, n)
  PROVE  NoOlder(data, n)'
<1>1. CASE \E r \in Release : Publish(r)
  <2>1. PICK r \in Release : r \notin published /\ published' = published \cup {r}
    BY <1>1 DEF Publish
  <2>2. age[r] = 0 /\ UNCHANGED <<age, sound>>
    BY <1>1, <2>1 DEF Publish, RecentInv
  <2> QED
    BY <2>1, <2>2 DEF NoOlder
<1>2. CASE BreakIndex
  <2>1. sound' \in {0, Broken} /\ UNCHANGED <<published, age>>
    BY <1>2 DEF BreakIndex
  <2> QED
    BY <2>1 DEF NoOlder, Broken
<1> QED
  BY <1>1, <1>2

LEMMA NoOlderTick ==
  ASSUME SourceTypeOK, Tick, NEW data, NEW n \in Nat, NoOlder(data, n)
  PROVE  NoOlder(data, n + 1)'
<1>1. \A m \in 0 .. Old : Older(m) <= m + 1 /\ Older(m) \in Int
  BY OldType DEF Older
<1>2. published' = published /\ published \subseteq Release
  BY DEF Tick, SourceTypeOK
<1>3. ASSUME ValidIndex(data), NEW r \in published \ data
      PROVE  age'[r] <= n + 1
  <2>1. age'[r] = Older(age[r]) /\ age[r] \in 0 .. Old /\ age[r] <= n
    BY <1>2, <1>3 DEF Tick, SourceTypeOK, NoOlder
  <2> QED
    BY <1>1, <2>1, OldType
<1>4. ASSUME ~ValidIndex(data)
      PROVE  sound' <= n + 1
  <2>1. CASE sound = Broken
    BY <2>1 DEF Tick, Broken
  <2>2. CASE sound # Broken
    <3>1. sound' = Older(sound) /\ sound \in 0 .. Old /\ sound <= n
      BY <1>4, <2>2 DEF Tick, SourceTypeOK, NoOlder
    <3> QED
      BY <1>1, <3>1, OldType
  <2> QED
    BY <2>1, <2>2
<1> QED
  BY <1>2, <1>3, <1>4 DEF NoOlder, ValidIndex

LEMMA NoOlderMonotone ==
  ASSUME SourceTypeOK, NEW data, NEW n \in Nat, NEW m \in Nat, n <= m, NoOlder(data, n)
  PROVE  NoOlder(data, m)
<1>1. sound \in Int /\ \A r \in published : age[r] \in Int
  BY OldType DEF SourceTypeOK, Broken
<1> QED
  BY <1>1 DEF NoOlder

LEMMA RecentTick ==
  ASSUME SourceTypeOK, RecentInv, Tick
  PROVE  RecentInv'
<1>1. \A r \in Release \ published' : age'[r] = 0
  BY DEF Tick
<1>2. ASSUME NEW c \in Caller, pc'[c] = "index", http'[c] = "served"
      PROVE  NoOlder(body[c], flown[c])'
  <2>1. PICK data, n : data = body[c] /\ n = flown[c]
    OBVIOUS
  <2>2. /\ n \in Nat /\ NoOlder(data, n)
        /\ flown'[c] = n + 1 /\ body'[c] = data
    BY <1>2, <2>1 DEF Tick, SourceTypeOK, RecentInv
  <2>3. NoOlder(data, n + 1)'
    BY <2>2, NoOlderTick
  <2> QED
    BY <2>2, <2>3
<1>3. ASSUME cache'[Index] # NotCached
      PROVE  NoOlder(cache[Index].data, Old - cache[Index].left)'
  <2> PICK e : e = cache[Index]
    OBVIOUS
  <2>1. e # NotCached /\ cache'[Index] = Aged(e)
    BY <1>3 DEF Tick, Url
  <2>2. e \in [data : Body, left : 1 .. Ttl]
    BY <2>1 DEF SourceTypeOK, Url
  <2>3. cache'[Index].data = e.data /\ cache'[Index].left = e.left - 1
    BY <1>3, <2>1, <2>2 DEF Aged
  <2>4. Old - e.left \in Nat /\ NoOlder(e.data, Old - e.left)
    BY <2>1, <2>2, OldType DEF RecentInv
  <2>5. NoOlder(e.data, Old - e.left + 1)'
    BY <2>4, NoOlderTick
  <2>6. Old - (e.left - 1) = Old - e.left + 1
    BY <2>2, OldType
  <2> QED
    BY <2>3, <2>5, <2>6
<1> QED
  BY <1>1, <1>2, <1>3 DEF RecentInv

\* Bodies stay what they are; the calls and the cache entry that hold one hold
\* it since, or got it from where it was.
LEMMA RecentQuiet ==
  ASSUME SourceTypeOK, RecentInv, UNCHANGED upstream,
         \A c \in Caller : pc'[c] = "index" /\ http'[c] = "served" =>
            /\ pc[c] = "index" /\ http[c] = "served"
            /\ body'[c] = body[c] /\ flown'[c] = flown[c],
         cache'[Index] \in {NotCached, cache[Index]}
  PROVE  RecentInv'
BY DEF RecentInv, upstream, NoOlder

LEMMA RecentReceive ==
  ASSUME SourceTypeOK, CacheInv, RecentInv, NEW c \in Caller, ReceiveResponse(c)
  PROVE  RecentInv'
<1>1. /\ http[c] = "served" /\ EndRequest(c) /\ Deliver(c, body[c]) /\ UNCHANGED upstream
      /\ cache' = [cache EXCEPT ![UrlOf(c)] = [data |-> body[c], left |-> Ttl]]
  BY DEF ReceiveResponse
<1>2. pc[c] # "idle"
  BY <1>1 DEF CacheInv
<1>3. \E s \in {"idle", "bundle"} : pc' = [pc EXCEPT ![c] = s]
  BY <1>1 DEF Deliver, EndCall
<1>4. ASSUME NEW d \in Caller, pc'[d] = "index", http'[d] = "served"
      PROVE  NoOlder(body[d], flown[d])'
  <2>1. /\ pc[d] = "index" /\ http[d] = "served"
        /\ body'[d] = body[d] /\ flown'[d] = flown[d]
    BY <1>1, <1>3, <1>4 DEF EndRequest, SourceTypeOK
  <2> QED
    BY <1>1, <2>1 DEF RecentInv, upstream, NoOlder
<1>5. ASSUME cache'[Index] # NotCached
      PROVE  NoOlder(cache[Index].data, Old - cache[Index].left)'
  <2>1. CASE pc[c] = "index"
    <3>1. cache'[Index] = [data |-> body[c], left |-> Ttl]
      BY <1>1, <1>2, <2>1, UrlType DEF SourceTypeOK
    <3>2. flown[c] \in Nat /\ flown[c] <= Old - Ttl /\ Old - Ttl \in Nat
      BY OldType, TimeAssumption DEF SourceTypeOK
    <3>3. NoOlder(body[c], Old - Ttl)
      BY <1>1, <2>1, <3>2, NoOlderMonotone DEF RecentInv
    <3> QED
      BY <1>1, <3>1, <3>3 DEF upstream, NoOlder
  <2>2. CASE pc[c] # "index"
    <3>1. cache'[Index] = cache[Index]
      BY <1>1, <1>2, <2>2, UrlType, BodyAssumption DEF SourceTypeOK, Url
    <3> QED
      BY <1>1, <1>5, <3>1 DEF RecentInv, upstream, NoOlder
  <2> QED
    BY <2>1, <2>2
<1>6. \A r \in Release \ published' : age'[r] = 0
  BY <1>1 DEF RecentInv, upstream
<1> QED
  BY <1>4, <1>5, <1>6 DEF RecentInv

LEMMA RecentStep ==
  ASSUME SourceTypeOK, CacheInv, RecentInv, [Next]_vars
  PROVE  RecentInv'
<1>1. CASE (\E r \in Release : Publish(r)) \/ BreakIndex
  <2>1. UNCHANGED <<cache, pc, http, flown, body, age>> /\ published \subseteq published'
    BY <1>1 DEF Publish, BreakIndex, request
  <2>2. ASSUME NEW c \in Caller, pc[c] = "index", http[c] = "served"
        PROVE  NoOlder(body[c], flown[c])'
    <3>1. PICK data, n : data = body[c] /\ n = flown[c]
      OBVIOUS
    <3>2. n \in Nat /\ NoOlder(data, n)
      BY <2>2, <3>1 DEF SourceTypeOK, RecentInv
    <3>3. NoOlder(data, n)'
      BY <1>1, <3>2, NoOlderPublisher
    <3> QED
      BY <2>1, <3>1, <3>3
  <2>3. ASSUME cache[Index] # NotCached
        PROVE  NoOlder(cache[Index].data, Old - cache[Index].left)'
    <3>1. PICK data, n : data = cache[Index].data /\ n = Old - cache[Index].left
      OBVIOUS
    <3>2. cache[Index].left \in 1 .. Ttl
      BY <2>3 DEF SourceTypeOK, Url
    <3>3. n \in Nat /\ NoOlder(data, n)
      BY <2>3, <3>1, <3>2, OldType DEF RecentInv
    <3>4. NoOlder(data, n)'
      BY <1>1, <3>3, NoOlderPublisher
    <3> QED
      BY <2>1, <3>1, <3>4
  <2>4. \A r \in Release \ published' : age'[r] = 0
    BY <2>1 DEF RecentInv
  <2> QED
    BY <2>1, <2>2, <2>3, <2>4 DEF RecentInv
<1>2. CASE Restart
  BY <1>2, RecentQuiet DEF Restart, Url
<1>3. ASSUME NEW c \in Caller, NEW g \in Goal, Ask(c, g)
      PROVE  RecentInv'
  <2>1. http[c] = "none"
    BY <1>3 DEF Ask, CacheInv
  <2> QED
    BY <1>3, <2>1, RecentQuiet DEF Ask, request, SourceTypeOK
<1>4. ASSUME NEW c \in Caller, FetchCached(c)
      PROVE  RecentInv'
  <2>1. \E s \in {"idle", "bundle"} : pc' = [pc EXCEPT ![c] = s]
    BY <1>4 DEF FetchCached, Deliver, EndCall
  <2> QED
    BY <1>4, <2>1, RecentQuiet DEF FetchCached, request, SourceTypeOK
<1>5. ASSUME NEW c \in Caller, SendRequest(c)
      PROVE  RecentInv'
  BY <1>5, RecentQuiet DEF SendRequest, SourceTypeOK
<1>6. ASSUME NEW c \in Caller, Serve(c)
      PROVE  RecentInv'
  <2>1. ASSUME NEW d \in Caller, pc'[d] = "index", http'[d] = "served"
        PROVE  NoOlder(body[d], flown[d])'
    <3>1. CASE d = c
      <4>1. body'[d] = (IF sound = Broken THEN Malformed ELSE published) /\ flown'[d] \in Nat
        BY <1>6, <2>1, <3>1 DEF Serve, SourceTypeOK
      <4>2. UNCHANGED <<published, age, sound>> /\ published # Malformed
        BY <1>6, BodyAssumption DEF Serve, upstream, SourceTypeOK
      <4>3. CASE sound = Broken
        BY <4>1, <4>2, <4>3 DEF NoOlder, ValidIndex, Broken
      <4>4. CASE sound # Broken
        BY <4>1, <4>2, <4>4 DEF NoOlder, ValidIndex
      <4> QED
        BY <4>3, <4>4
    <3>2. CASE d # c
      BY <1>6, <2>1, <3>2 DEF Serve, upstream, RecentInv, NoOlder, SourceTypeOK
    <3> QED
      BY <3>1, <3>2
  <2> QED
    BY <1>6, <2>1 DEF Serve, upstream, RecentInv, NoOlder
<1>7. ASSUME NEW c \in Caller, RequestFails(c)
      PROVE  RecentInv'
  BY <1>7, RecentQuiet DEF RequestFails, EndCall, EndRequest, SourceTypeOK
<1>8. CASE UNCHANGED vars
  BY <1>8, RecentQuiet DEF vars, request
<1> QED
  BY <1>1, <1>2, <1>3, <1>4, <1>5, <1>6, <1>7, <1>8, RecentTick, RecentReceive
     DEF Next, CallStep

LEMMA RecentInvariance == Spec => [](SourceTypeOK /\ CacheInv /\ RecentInv)
<1>1. Init => RecentInv
  BY DEF Init, RecentInv, Url
<1>2. (SourceTypeOK /\ CacheInv) /\ RecentInv /\ [Next]_vars => RecentInv'
  BY RecentStep
<1> QED
  BY <1>1, <1>2, Invariance, PTL DEF Spec

\* The body that ends a call was given less than Old ago.
LEMMA DeliveredRecent ==
  ASSUME SourceTypeOK, CacheInv, RecentInv, [Next]_vars, NEW c \in Caller,
         Ends(c, "listing") \/ Ends(c, "notIndex")
  PROVE  \E data \in Body, n \in Nat : /\ pc[c] = "index" /\ Deliver(c, data)
                                       /\ n < Old /\ NoOlder(data, n)
<1>1. pc[c] = "index"
  <2>1. ASSUME NEW data, Deliver(c, data), pc[c] = "bundle"
        PROVE  FALSE
    BY <2>1 DEF Deliver, EndCall, Ends, SourceTypeOK
  <2> QED
    BY <2>1, Deliveries DEF FetchCached, ReceiveResponse, Ends, SourceTypeOK
<1>2. CASE FetchCached(c)
  <2> DEFINE e == cache[Index]
  <2>1. e # NotCached /\ Deliver(c, e.data)
    BY <1>1, <1>2 DEF FetchCached, Fresh, UrlOf
  <2>2. e.data \in Body /\ e.left \in 1 .. Ttl
    BY <2>1 DEF SourceTypeOK, Url
  <2>3. Old - e.left \in Nat /\ Old - e.left < Old /\ NoOlder(e.data, Old - e.left)
    BY <2>1, <2>2, OldType DEF RecentInv
  <2> QED
    BY <1>1, <2>1, <2>2, <2>3
<1>3. CASE ReceiveResponse(c)
  <2>1. http[c] = "served" /\ Deliver(c, body[c]) /\ body[c] \in Body
    BY <1>3 DEF ReceiveResponse, SourceTypeOK
  <2>2. flown[c] \in Nat /\ flown[c] < Old
    BY OldType, TimeAssumption DEF SourceTypeOK
  <2> QED
    BY <1>1, <2>1, <2>2 DEF RecentInv
<1> QED
  BY <1>2, <1>3, Deliveries

LEMMA RecentListing ==
  ASSUME SourceTypeOK, CacheInv, RecentInv, [Next]_vars, NEW c \in Caller, Ends(c, "listing")
  PROVE  {r \in published : age[r] = Old} \subseteq listing'[c]
<1>1. PICK data \in Body, n \in Nat : /\ pc[c] = "index" /\ Deliver(c, data)
                                      /\ n < Old /\ NoOlder(data, n)
  BY DeliveredRecent
<1>2. ASSUME NEW how, EndCall(c, how)
      PROVE  how = "listing"
  BY <1>2 DEF EndCall, Ends, SourceTypeOK
<1>3. pc'[c] # "bundle"
  BY DEF Ends
<1>4. ValidIndex(data) /\ listing' = [listing EXCEPT ![c] = data]
  BY <1>1, <1>2, <1>3 DEF Deliver, ListAll, SourceTypeOK
<1>5. listing'[c] = data
  BY <1>4 DEF SourceTypeOK
<1> QED
  BY <1>1, <1>4, <1>5, OldType DEF NoOlder

LEMMA RepairedRecently ==
  ASSUME SourceTypeOK, CacheInv, RecentInv, [Next]_vars, NEW c \in Caller, Ends(c, "notIndex")
  PROVE  sound < Old
<1>1. PICK data \in Body, n \in Nat : /\ pc[c] = "index" /\ Deliver(c, data)
                                      /\ n < Old /\ NoOlder(data, n)
  BY DeliveredRecent
<1>2. ASSUME NEW how, EndCall(c, how)
      PROVE  how = "notIndex"
  BY <1>2 DEF EndCall, Ends, SourceTypeOK
<1>3. ~ValidIndex(data)
  BY <1>1, <1>2 DEF Deliver, Ends, SourceTypeOK
<1>4. sound <= n /\ sound \in Int
  BY <1>1, <1>3, OldType DEF NoOlder, SourceTypeOK, Broken
<1> QED
  BY <1>1, <1>4, OldType

-----------------------------------------------------------------------------
(***************************************************************************)
(* The theorems.                                                           *)
(***************************************************************************)

\* Whatever the publisher does, and however calls, failures and restarts
\* interleave, the cache and the calls keep their types.
THEOREM SourceTypeCorrect == Spec => []SourceTypeOK
BY Invariance, PTL

\* What a call may still be given holds every listing so far.
THEOREM CacheHoldsListings == Spec => []CacheInv
BY Invariance, PTL

\* A listed release is in the index when its bundle is asked for, unless two
\* index requests have overlapped.
THEOREM ListedFound == Spec => []ListedIsFound
<1>1. CacheInv => ListedIsFound
  BY DEF CacheInv
<1> QED
  BY <1>1, Invariance, PTL

\* A listing holds every earlier one, unless two index requests have
\* overlapped: no sweep deletes a release that is still published.
THEOREM ListingsOnlyGrow == Spec => ListingsGrow
<1>1. SourceTypeOK /\ CacheInv /\ [Next]_vars =>
        (\A c, d \in Caller : Ends(c, "listing") /\ ~overlapped => listing[d] \subseteq listing'[c])
  BY GrowStep
<1> QED
  BY <1>1, Invariance, PTL DEF Spec, ListingsGrow

\* The bundle fetched is that of the listed release asked for.
THEOREM BundleIsAsked == Spec => BundleAsked
<1>1. SourceTypeOK /\ CacheInv /\ [Next]_vars =>
        (\A c \in Caller : pc[c] = "index" /\ pc'[c] = "bundle" => goal'[c] = goal[c])
  BY AskedStep
<1> QED
  BY <1>1, Invariance, PTL DEF Spec, BundleAsked

\* A listing misses nothing that has been out for longer than a body is cached
\* and a request under way, whatever breaks, fails and restarts in between.
THEOREM ListingsRecent == Spec => ListingRecent
<1>1. (SourceTypeOK /\ CacheInv /\ RecentInv) /\ [Next]_vars =>
        (\A c \in Caller : Ends(c, "listing") => {r \in published : age[r] = Old} \subseteq listing'[c])
  BY RecentListing
<1> QED
  BY <1>1, RecentInvariance, PTL DEF Spec, ListingRecent

\* A malformed index makes no call fail for longer than that after its repair.
THEOREM RepairsSeen == Spec => RepairSeen
<1>1. (SourceTypeOK /\ CacheInv /\ RecentInv) /\ [Next]_vars =>
        (\A c \in Caller : Ends(c, "notIndex") => sound < Old)
  BY RepairedRecently
<1> QED
  BY <1>1, RecentInvariance, PTL DEF Spec, RepairSeen
=============================================================================
