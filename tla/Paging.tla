-------------------------------- MODULE Paging --------------------------------
(***************************************************************************)
(* A TAXII client pages through the content of a collection.  The server   *)
(* keeps no cursor: every page request runs the whole query again (Query)  *)
(* and cuts page number `next` out of its result, so what lies behind a    *)
(* page number may have changed since the previous page.                   *)
(*                                                                         *)
(* On a pinned root the release is fixed.  On the default root the         *)
(* collector may move the latest pointer between two pages (CutOver); each *)
(* request still reads one release only.                                   *)
(***************************************************************************)
EXTENDS Query

CONSTANTS
  Stores,      \* contents a release may have
  Requests     \* [endpoint, object, filter, limit] as the client sends them

IsRequest(r) ==
  /\ r = [endpoint |-> r.endpoint, object |-> r.object, filter |-> r.filter, limit |-> r.limit]
  /\ r.filter = [id |-> r.filter.id, type |-> r.filter.type, spec |-> r.filter.spec,
                 after |-> r.filter.after, keywords |-> r.filter.keywords,
                 exact |-> r.filter.exact, form |-> r.filter.form]
  /\ r.endpoint \in {"objects", "manifest", "object", "versions"}
  /\ r.limit \in Int \cup {NoLimit}
  /\ r.filter.keywords \subseteq {"all", "first", "last"}
  /\ r.filter.exact \in Seq([instant : Int, millis : BOOLEAN])
  /\ r.filter.form \in {"usual", "blank", "twice"}
  /\ r.filter.form = "blank" => ~HasVersion(r.filter)
  /\ r.filter.form = "twice" => r.filter.keywords # {}

\* In the bundle of a release an object is named by its id and modified date.
ASSUME PagingAssumption ==
  /\ \A s \in Stores :
       /\ IsFiniteSet(s)
       /\ \A o \in s : o.at \in Int /\ VersionOf(o) \in Int
       /\ \A a, b \in s : a.id = b.id /\ VersionOf(a) = VersionOf(b) => a = b
  /\ \A r \in Requests : IsRequest(r)
  /\ NoLimit \notin Int

VARIABLES
  pinned,      \* the root the client uses: pinned, or latest-tracking
  stored,      \* the objects of the release that root serves now
  request,     \* what the client asks for, the same on every page
  answers,     \* what that request may be answered, worked out once: Results
  next,        \* the page it asks for next
  received,    \* the items of the pages so far, in order
  status       \* "walking", "done", "badRequest" or "notFound"

vars == <<pinned, stored, request, answers, next, received, status>>

\* The pipes: all endpoints but versions/ default match[version] to "last".
Piped(r) ==
  IF r.endpoint = "versions" THEN r ELSE [r EXCEPT !.filter = Defaulted(r.filter)]

Results(s, r) == {Answer(o, Piped(r)) : o \in Orders(Rows(s, Piped(r)))}

Init ==
  /\ pinned \in BOOLEAN
  /\ stored \in Stores
  /\ request \in Requests
  /\ answers = Results(stored, request)
  /\ next = 0
  /\ received = <<>>
  /\ status = "walking"

\* The client takes a page and follows the `next` it was given.
TakePage ==
  /\ status = "walking"
  /\ ~BadTimestamp(request)
  /\ ~Missing(stored, request)
  /\ \E answer \in answers :
       LET page == GetPage(answer, request.limit, next)
       IN  /\ page.found
           /\ received' = received \o page.items
           /\ next' = IF page.more THEN page.next ELSE next
           /\ status' = IF page.more THEN "walking" ELSE "done"
  /\ UNCHANGED <<pinned, stored, request, answers>>

BadRequest ==
  /\ status = "walking"
  /\ BadTimestamp(request)
  /\ status' = "badRequest"
  /\ UNCHANGED <<pinned, stored, request, answers, next, received>>

\* 404: the release lacks the object, or the page.
NotFound ==
  /\ status = "walking"
  /\ ~BadTimestamp(request)
  /\ \/ Missing(stored, request)
     \/ \E answer \in answers : ~GetPage(answer, request.limit, next).found
  /\ status' = "notFound"
  /\ UNCHANGED <<pinned, stored, request, answers, next, received>>

\* The latest pointer moves: the default root serves another release.
CutOver ==
  /\ ~pinned
  /\ status = "walking"
  /\ \E s \in Stores \ {stored} : stored' = s /\ answers' = Results(s, request)
  /\ UNCHANGED <<pinned, request, next, received, status>>

Next == TakePage \/ BadRequest \/ NotFound \/ CutOver

Spec == Init /\ [][Next]_vars

\* The server answers and the client asks for the page it was told of; nothing
\* is assumed of how often the collector cuts over meanwhile.
FairSpec == Spec /\ WF_vars(TakePage \/ BadRequest \/ NotFound)

(***************************************************************************)
(* Properties.                                                             *)
(***************************************************************************)
PagingTypeOK ==
  /\ pinned \in BOOLEAN
  /\ stored \in Stores
  /\ request \in Requests
  /\ next \in Nat
  /\ \A i \in DOMAIN received : received[i] \in UNION Stores
  /\ status \in {"walking", "done", "badRequest", "notFound"}

Stamps(s) == [i \in DOMAIN s |-> s[i].at]
Untied(rows) == \A a, b \in rows : a.at = b.at => a = b

\* A walk of a pinned root receives the answer of one unpaged request: each
\* item once, in order, whatever the page size.
WalkIsAnswer ==
  pinned /\ status = "done" /\ Untied(stored) => received \in answers

\* The filter groups the versions of several objects, in the order the objects
\* first appear in: objects of one millisecond that change places take the
\* later versions along.
Regroups(r) ==
  LET f == Piped(r).filter
  IN  r.endpoint = "objects" /\ "all" \notin f.keywords /\ ~LatestOnly(f)

\* Objects stamped in one millisecond, as the objects of a batch are, may come
\* in another order on every page; but unless the request regroups, a page
\* boundary never moves an object out of its millisecond, and the walk has as
\* many items as the answer.
TiesStayInPlace ==
  pinned /\ status = "done" /\ ~Regroups(request) =>
    \E answer \in answers : Stamps(received) = Stamps(answer)

\* Following the `next` of a pinned root never leads to a missing or an empty
\* page ("`isMore` determines if this page exists").  It does if the limit is
\* zero or negative, which NumberQuery lets through.
NextPageExists ==
  pinned /\ next > 0 => \A answer \in answers :
                          LET page == GetPage(answer, request.limit, next)
                          IN  page.found /\ page.items # <<>>

\* The answer of objects/ and objects/{id}, defined without grouping or sorting.
Selected(rows, f) ==
  LET matching == {o \in rows : MatchesNonVersion(o, f)}
      own(o) == {q \in matching : q.id = o.id}
  IN  {o \in matching :
         \/ ~HasVersion(f)
         \/ "all" \in f.keywords
         \/ "first" \in f.keywords /\ \A q \in own(o) : VersionOf(o) <= VersionOf(q)
         \/ "last" \in f.keywords /\ \A q \in own(o) : VersionOf(q) <= VersionOf(o)
         \/ \E i \in DOMAIN f.exact : MatchesExact(o, f.exact[i])}

\* The objects of the release that a request is about.
Candidates(r) == IF r.endpoint = "objects" THEN stored ELSE FindOne(stored, r.object)

NewestOfAll(o) == \A q \in stored : q.id = o.id => VersionOf(q) <= VersionOf(o)

\* objects/{id} and versions/ return, of all versions of the object, those the
\* filters select, each once.  So does objects/ over the whole release, except
\* that when it is asked for "last" alone, or not told a version, it returns the
\* newest version of an object or nothing: an older one that matches the other
\* filters does not step in, although USAGE.md:405 has it so (LatestOfMatching).
EnvelopeIsSelection ==
  request.endpoint # "manifest" =>
    LET r == Piped(request)
        wanted == Selected(Candidates(r), r.filter)
    IN  \A answer \in answers :
          /\ ToSet(answer) = IF r.endpoint = "objects" /\ LatestOnly(r.filter)
                              THEN {o \in wanted : NewestOfAll(o)}
                              ELSE wanted
          /\ Len(answer) = Cardinality(ToSet(answer))

As(endpoint, x, f) == [endpoint |-> endpoint, object |-> x, filter |-> f, limit |-> NoLimit]

\* The manifest lists what objects/ returns for the same query, unless it asks
\* for "first", or for "last" with something else (see ManifestHonoursVersion);
\* and in the same order, unless the request regroups.  This is about the two
\* selections; which requests the pipes let through to them is BadTimestamp.
ManifestListsEnvelope ==
  LET f == request.filter IN
  f.keywords = {} \/ f.keywords = {"all"} \/ LatestOnly(f) =>
    LET listed == Results(stored, As("manifest", request.object, f))
        asked == As("objects", request.object, f)
    IN  /\ {ToSet(answer) : answer \in listed} = {ToSet(answer) : answer \in Results(stored, asked)}
        /\ ~Regroups(asked) => listed = Results(stored, asked)

\* Whatever the manifest or versions/ list, objects/{id} returns when asked
\* for that id and version, and nothing else.
ListedIsRetrievable ==
  request.endpoint \in {"manifest", "versions"} =>
    \A answer \in answers : \A i \in DOMAIN answer :
      LET version == [instant |-> VersionOf(answer[i]), millis |-> TRUE]
          f == [id |-> {}, type |-> {}, spec |-> {}, after |-> Absent,
                keywords |-> {}, exact |-> <<version>>, form |-> "usual"]
      IN  Results(stored, As("object", answer[i].id, f)) = {<<answer[i]>>}

\* A walk ends, on the default root too, however often that cuts over between
\* two pages: `more` does not lead a client on for ever.
WalkEnds == <>(status # "walking")

(***************************************************************************)
(* Why the properties of a walk hold: an inductive invariant.              *)
(***************************************************************************)
PositiveLimits == \A r \in Requests : r.limit \in Int => r.limit > 0

\* What a walk should have received by now, were it given one answer.
SoFar(answer) ==
  IF status = "done" THEN answer
  ELSE IF request.limit = NoLimit THEN <<>>
  ELSE SubSeq(answer, 1, request.limit * next)

\* The answers are those of the store the root serves, and pages come from them.
Current ==
  /\ PagingTypeOK
  /\ answers = Results(stored, request)
  /\ received \in Seq(UNION Stores)
  /\ next > 0 => request.limit # NoLimit

\* The page a walk is told of begins inside every answer.
Bounded ==
  pinned /\ next > 0 => \A answer \in answers : request.limit * next < Len(answer)

\* What was received agrees with each answer in the stamps: because of the ties,
\* in nothing else.
Followed ==
  pinned =>
    /\ ToSet(received) \subseteq stored
    /\ status = "done" => answers # {}
    /\ ~Regroups(request) \/ Untied(stored) =>
         \A answer \in answers : Stamps(received) = Stamps(SoFar(answer))

WalkInv == Current /\ Bounded /\ Followed

(***************************************************************************)
(* What the documentation says beyond that.                                *)
(***************************************************************************)

\* USAGE.md documents match[version]=last,first for "either an object or
\* manifest endpoint"; filter.service.ts has the keywords applied "after
\* collection": the manifest lists what objects/ returns.
ManifestHonoursVersion ==
  request.endpoint = "manifest" /\ status = "done" =>
    \A answer \in answers :
      ToSet(answer) = Selected(Rows(stored, Piped(request)), Piped(request).filter)

\* "If no version parameter is provided, the server will return only the latest
\* version for each object matching the remainder of the request" (USAGE.md:405).
LatestOfMatching ==
  request.endpoint = "objects" /\ status = "done"
    /\ ~HasVersion(request.filter) /\ request.filter.form # "blank" =>
    LET r == Piped(request)
    IN  \A answer \in answers : ToSet(answer) = Selected(stored, r.filter)

\* "The added_after parameter is not in any way related to dates or times in a
\* STIX object" (USAGE.md:394): it selects by when an object was stored.
AddedAfterIsAboutAdding ==
  request.endpoint = "objects" /\ status = "done"
    /\ request.filter.keywords = {"all"} /\ request.filter.after \notin {Absent, Garbage} =>
      LET others == [request.filter EXCEPT !.after = Absent]
      IN  \A answer \in answers :
            ToSet(answer) = {o \in Selected(stored, others) : o.at > request.filter.after}

\* "If no spec_version parameter is provided, the server will return only the
\* latest specification version that it can provide for each object"
\* (USAGE.md:403): no STIX 2.0 form of an object that is there in 2.1.
LatestSpecOnly ==
  request.endpoint = "objects" /\ status = "done" /\ request.filter.spec = {} =>
    \A answer \in answers : \A o \in ToSet(answer) :
      o.spec = "2.1" \/ \A q \in stored : q.id = o.id => q.spec # "2.1"

\* TimestampQuery "verifies that the specified query parameter is a valid
\* date": a request without a wrong one is not rejected.
ValidDateAccepted == status = "badRequest" => request.filter.after = Garbage
=============================================================================
