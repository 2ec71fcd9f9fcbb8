-------------------------------- MODULE Request --------------------------------
(***************************************************************************)
(* One HTTP request on its way through the API server: content negotiation *)
(* (a middleware), the parameter decorators and pipes of the handler (all  *)
(* started at once, the first to fail decides), the handler, the date      *)
(* headers, and the exception filter whenever one of them throws.          *)
(*                                                                         *)
(* What the handler finds in the database is the subject of Serving, what  *)
(* it selects that of Paging; here it finds some page, or nothing, or the  *)
(* database fails.                                                         *)
(***************************************************************************)
EXTENDS Naturals, Sequences, SequencesExt

CONSTANTS
  Release,      \* versions a pinned root may name
  Instant,      \* dates of objects
  MaxPage       \* bound: objects on a page

ASSUME RequestAssumption ==
  /\ Instant \subseteq Nat \ {0}
  /\ MaxPage \in Nat

VARIABLES
  request,      \* what the client sent
  phase,        \* "received", "accepted", "resolving", "handling" or "answered"
  awaiting,     \* a release lookup is on its way to the database
  ready,        \* releases the database has a collection document of
  page,         \* dates of the objects (or versions) the handler returned
  response

vars == <<request, phase, awaiting, ready, page, response>>

(***************************************************************************)
(* Requests.                                                               *)
(***************************************************************************)
Content == {"manifest", "objects", "object", "versions"}
Stub == {"addObjects", "deleteAnObject"}
Scoped == Content \cup {"collections", "collection"}      \* under ReleaseParamPipe
Plain == {"ping", "discovery", "root"}

\* A path segment that is no release's, and no segment at all.
Malformed == "malformed"
Default == "default"

\* An Accept header as parseAcceptHeader splits it.  The parameter is "unread"
\* when its name is not exactly "version", as after "; ".
Accept == [type : {"absent", "empty", "application", "other"},
           subType : {"none", "taxii+json", "other"},
           parameter : {"none", "2.1", "otherVersion", "unread"}]

\* exempt: the URL, query string included, ends with /health/ping, as that of a
\* ping with a query of its own or a trailing slash does not.  A limit or next
\* given twice arrives as an array.
Fine == [repeated |-> FALSE, date |-> "absent", match |-> "fine"]
Query == [repeated : BOOLEAN, date : {"absent", "valid", "invalid"}, match : {"fine", "refused"}]

Sent(routes, exempts, roots, queries) ==
  [route : routes, exempt : exempts, accept : Accept, root : roots, query : queries]

Requests ==
       Sent(Plain, BOOLEAN, {Default}, {Fine})
  \cup Sent({"segment"}, BOOLEAN, Release \cup {Malformed}, {Fine})
  \cup Sent({"collections", "collection"} \cup Stub, BOOLEAN, Release \cup {Malformed, Default}, {Fine})
  \cup Sent(Content, BOOLEAN, Release \cup {Malformed, Default}, Query)

(***************************************************************************)
(* Media types.                                                            *)
(***************************************************************************)
Json == <<"json", "none">>
DefaultMediaType == <<"taxii+json", "2.1">>
AllMediaTypes == {DefaultMediaType, <<"taxii+json", "none">>}

\* MediaTypeObject.parseAcceptHeader: what it throws on.
Unsupported(a) ==
  \/ a.type # "application"
  \/ a.subType = "other"
  \/ a.subType = "taxii+json" /\ a.parameter = "otherVersion"

\* Its fields, as MediaTypeObject.toString writes them.
MediaType(a) ==
  <<a.subType, IF a.subType = "taxii+json" /\ a.parameter \in {"none", "2.1"}
               THEN "2.1" ELSE "none">>

\* What Express would set.
ExpressMedia == Json

\* SetResponseMediaType: a request that negotiated nothing is answered in JSON.
ResponseMedia == IF request.exempt THEN Json ELSE MediaType(request.accept)

(***************************************************************************)
(* Answers.                                                                *)
(***************************************************************************)
NoDate == 0
Unanswered == [status |-> 0, media |-> Json, first |-> NoDate, last |-> NoDate]

\* TaxiiExceptionFilter: whatever was thrown, in the default media type.
Throw(status) ==
  /\ response' = [Unanswered EXCEPT !.status = status, !.media = DefaultMediaType]
  /\ phase' = "answered"

Succeed(status, first, last) ==
  /\ response' = [status |-> status, media |-> ResponseMedia, first |-> first, last |-> last]
  /\ phase' = "answered"

Init ==
  /\ request \in Requests
  /\ phase = "received"
  /\ awaiting = FALSE
  /\ ready \in SUBSET Release
  /\ page = << >>
  /\ response = Unanswered

\* An empty header is neither passed on nor refused.
NegotiateOrForget ==
  /\ phase = "received"
  /\ \/ /\ request.exempt \/ ~Unsupported(request.accept)
        /\ phase' = "accepted"
        /\ UNCHANGED response
     \/ /\ ~request.exempt /\ request.accept.type # "empty" /\ Unsupported(request.accept)
        /\ Throw(406)
  /\ UNCHANGED <<request, awaiting, ready, page>>

\* ContentNegotiationMiddleware.use
Negotiate ==
  /\ phase = "received"
  /\ \/ /\ request.exempt \/ ~Unsupported(request.accept)
        /\ phase' = "accepted"
        /\ UNCHANGED response
     \/ /\ ~request.exempt /\ request.accept.type = "absent"
        /\ Throw(406)
     \/ /\ ~request.exempt /\ request.accept.type # "absent" /\ Unsupported(request.accept)
        /\ Throw(400)
  /\ UNCHANGED <<request, awaiting, ready, page>>

\* Parameters are extracted and piped in parallel.  A decorator throws while it
\* extracts, from the last argument (next) to the first (added_after); a pipe
\* throws one turn later; the release pipe, itself asynchronous, later still.
\* TimestampQuery refuses the dates it is meant to let through.
Extraction ==
  LET q == request.query IN
  IF q.repeated THEN {500}
  ELSE IF request.route = "manifest" /\ q.date = "valid" THEN {400} ELSE {}
Piping ==
  LET q == request.query IN
  IF (request.route # "manifest" /\ q.date = "invalid") \/ q.match = "refused" THEN {400} ELSE {}
Segment == IF request.route \in Scoped /\ request.root = Malformed THEN {404} ELSE {}

\* The root first.
RootFault ==
  IF Segment # {} THEN Segment ELSE IF Extraction # {} THEN Extraction ELSE Piping

FirstFault ==
  IF Extraction # {} THEN Extraction ELSE IF Piping # {} THEN Piping ELSE Segment

\* The lookup of a well-formed root is started whatever becomes of the others.
ResolveParameters ==
  /\ phase = "accepted"
  /\ awaiting' = (request.route \in Scoped /\ request.root \in Release)
  /\ \/ \E status \in FirstFault : Throw(status)
     \/ /\ FirstFault = {}
        /\ phase' = IF awaiting' THEN "resolving" ELSE "handling"
        /\ UNCHANGED response
  /\ UNCHANGED <<request, ready, page>>

\* ReleaseService.releaseExists answers: for the pipe, for RootController, or
\* for a request that has been refused in the meantime.
LookupAnswers ==
  /\ awaiting
  /\ awaiting' = FALSE
  /\ \/ /\ phase = "resolving" /\ request.root \in ready /\ request.route \in Scoped
        /\ phase' = "handling"
        /\ UNCHANGED response
     \/ /\ phase = "resolving" /\ request.root \in ready /\ request.route = "segment"
        /\ Succeed(200, NoDate, NoDate)
     \/ /\ phase = "resolving" /\ request.root \notin ready
        /\ Throw(404)
     \/ /\ phase = "answered"
        /\ UNCHANGED <<phase, response>>
  /\ UNCHANGED <<request, ready, page>>

LookupFails ==
  /\ awaiting
  /\ awaiting' = FALSE
  /\ \/ phase = "resolving" /\ Throw(500)
     \/ phase = "answered" /\ UNCHANGED <<phase, response>>
  /\ UNCHANGED <<request, ready, page>>

(***************************************************************************)
(* Handlers.                                                               *)
(***************************************************************************)

\* Get Status, Add Objects and Delete an Object are not implemented.
HandleStub ==
  /\ phase = "handling"
  /\ request.route \in Stub \/ (request.route = "segment" /\ request.root = Malformed)
  /\ Throw(503)
  /\ UNCHANGED <<request, awaiting, ready, page>>

\* getReleaseApiRootInformationOrStatus
HandleSegment ==
  /\ phase = "handling"
  /\ request.route = "segment" /\ request.root # Malformed
  /\ awaiting' = TRUE
  /\ phase' = "resolving"
  /\ UNCHANGED <<request, ready, page, response>>

HandlePlain ==
  /\ phase = "handling"
  /\ \/ request.route \in Plain \cup {"collections", "collection"}
        /\ Succeed(IF request.route = "ping" THEN 204 ELSE 200, NoDate, NoDate)
     \/ request.route \notin {"ping", "root"} /\ request.route \in Plain \cup Scoped /\ Throw(500)
     \/ request.route \in Scoped \ {"collections"} /\ Throw(404)
  /\ UNCHANGED <<request, awaiting, ready, page>>

\* The page taken to be in order.
FirstAndLast(dates) == [min |-> dates[1], max |-> dates[Len(dates)]]

\* findMinMax: any comparison with NaN, what an object without a date has, is
\* false.
Less(a, b) == a # NoDate /\ b # NoDate /\ a < b
FindMinMax(dates) ==
  [min |-> FoldLeft(LAMBDA m, d : IF Less(d, m) THEN d ELSE m, dates[1], dates),
   max |-> FoldLeft(LAMBDA m, d : IF Less(m, d) THEN d ELSE m, dates[1], dates)]

\* A handler that returns content, and SetTaxiiDateHeadersInterceptor, whose
\* toISOString throws on NaN.
HandleContent ==
  /\ phase = "handling"
  /\ request.route \in Content
  /\ page' \in UNION {[1 .. n -> Instant \cup {NoDate}] : n \in 0 .. MaxPage}
  /\ IF page' = << >> THEN Succeed(200, NoDate, NoDate)
     ELSE LET added == FindMinMax(page') IN
          IF added.min = NoDate THEN Throw(500) ELSE Succeed(200, added.min, added.max)
  /\ UNCHANGED <<request, awaiting, ready>>

\* Meanwhile the collector creates the collection document of a release it has
\* hydrated, or deletes that of an orphaned one.
CommitRelease(rel) ==
  /\ phase # "answered"
  /\ ready' = ready \cup {rel}
  /\ UNCHANGED <<request, phase, awaiting, page, response>>

RemoveRelease(rel) ==
  /\ phase # "answered"
  /\ ready' = ready \ {rel}
  /\ UNCHANGED <<request, phase, awaiting, page, response>>

Collect == \E rel \in Release : CommitRelease(rel) \/ RemoveRelease(rel)

ServerStep ==
  \/ Negotiate \/ ResolveParameters \/ LookupAnswers \/ LookupFails
  \/ HandleStub \/ HandleSegment \/ HandlePlain \/ HandleContent

Next == ServerStep \/ Collect

\* The event loop gets round to every turn, and MongoDB answers or fails.
Spec == Init /\ [][Next]_vars /\ WF_vars(ServerStep)

(***************************************************************************)
(* Properties.                                                             *)
(***************************************************************************)
RequestTypeOK ==
  /\ request \in Requests
  /\ phase \in {"received", "accepted", "resolving", "handling", "answered"}
  /\ awaiting \in BOOLEAN
  /\ ready \subseteq Release
  /\ page \in Seq(Instant \cup {NoDate}) /\ Len(page) <= MaxPage
  /\ response \in [status : {0, 200, 204, 400, 404, 406, 500, 503},
                   media : {Json, <<"none", "none">>} \cup AllMediaTypes,
                   first : Instant \cup {NoDate}, last : Instant \cup {NoDate}]

\* No request is left without an answer: the middleware either calls next or
\* throws, a pipe that waits is answered, and every handler returns or throws.
EveryRequestAnswered == <>(phase = "answered")

\* A client that makes a mistake in its query is told so under any root: a 404
\* (or an answer) means the query was well formed, however slow the lookup of
\* the root and whatever the collector does meanwhile.
QueryJudgedFirst ==
  phase = "answered" /\ response.status \in {200, 404} => Extraction \cup Piping = {}

\* Errors are in the default TAXII media type, and so is every answer to a
\* client that asked for a TAXII media type; a bare "application" is the only
\* other type negotiated.
TaxiiSpoken ==
  phase = "answered" =>
    IF response.status >= 400 THEN response.media = DefaultMediaType
    ELSE \/ request.exempt
         \/ response.media \in AllMediaTypes
         \/ request.accept.subType = "none"

\* X-TAXII-Date-Added-First and -Last bracket the dates of the page and are
\* dates of it, in whatever order the objects come; a page has them unless it
\* is empty.
DatesBracketPage ==
  phase = "answered" /\ response.status = 200 /\ page # << >> =>
    /\ {response.first, response.last} \subseteq Range(page) \ {NoDate}
    /\ \A d \in Range(page) \ {NoDate} : response.first <= d /\ d <= response.last

(***************************************************************************)
(* Why the properties hold: the inductive invariant of RequestProofs.      *)
(***************************************************************************)

\* Nothing is answered before its time; a lookup is on its way when the request
\* waits for it, or outlives its answer.
Waiting ==
  /\ phase # "answered" => response = Unanswered /\ page = << >>
  /\ phase = "resolving" => awaiting
  /\ awaiting => phase \in {"resolving", "answered"} /\ request.root \in Release
  /\ phase = "resolving" => request.route \in Scoped \cup {"segment"}

\* What gets past the parameters has no fault in its query, and what gets past
\* the middleware has a media type, or needs none.
Passed ==
  /\ phase \in {"resolving", "handling"} => Extraction \cup Piping = {}
  /\ phase \in {"accepted", "resolving", "handling"} =>
       request.exempt \/ ~Unsupported(request.accept)

RequestInv == Waiting /\ Passed /\ QueryJudgedFirst /\ TaxiiSpoken /\ DatesBracketPage
=============================================================================
