-------------------------------- MODULE Query --------------------------------
(***************************************************************************)
(* What a request for the content of one release selects: ObjectRepository *)
(* reads rows, ObjectService and FilterService reduce them, the pagination *)
(* service cuts a page.  Pure operators over the stored objects of the     *)
(* release; Paging runs them against a store that changes.                 *)
(*                                                                         *)
(* An object is [id, type, spec, created, modified, at]: STIX properties,  *)
(* and the _meta.createdAt the collector stamped on it.  modified may be   *)
(* Absent; spec is "2.1", "2.0" or Absent (a STIX 2.0 object carries none).*)
(***************************************************************************)
EXTENDS SequencesExt, Integers

CONSTANTS
  Absent,      \* a property or parameter that is not there
  Garbage,     \* an added_after that is no date
  NoLimit      \* no limit parameter

\* The version of an object: its modified date, else its creation date.
VersionOf(o) == IF o.modified # Absent THEN o.modified ELSE o.created

(***************************************************************************)
(* Filters.  id, type and spec are sets of wanted values, empty when the   *)
(* field is absent; keywords and exact are the two sorts of match[version] *)
(* values.  An exact value is an instant, and whether it was written with  *)
(* milliseconds, which the pipe does not require.  after is a date, Garbage *)
(* or Absent.  form is how match[version] is written: "blank" with no value *)
(* at all, "twice" with a keyword repeated (last,last), or "usual".        *)
(***************************************************************************)
HasVersion(f) == f.keywords # {} \/ f.exact # <<>>

\* ParseMatchQueryParamPipe with defaultVersionBehavior "latest" (all content
\* endpoints but versions/): an absent match[version] becomes "last", a blank
\* one stays an empty list.
Defaulted(f) ==
  IF HasVersion(f) \/ f.form = "blank" THEN f ELSE [f EXCEPT !.keywords = {"last"}]

\* An exact version compared with the creation date only.
MatchesCreation(o, v) == v.millis /\ o.created = v.instant

\* new Date(..).toISOString() always writes milliseconds.
MatchesExact(o, v) == v.millis /\ VersionOf(o) = v.instant

\* The spec_version filter: STIX 2.0 objects have no such property.
MatchesSpec(o, spec) ==
  \/ spec = "2.0" /\ o.spec = Absent
  \/ spec = "2.1" /\ o.spec = "2.1"

\* Every filter but the version: fields are ANDed, values of a field ORed.
\* added_after is compared with the STIX creation date; what is no date
\* compares false with every date.
MatchesNonVersion(o, f) ==
  /\ f.id # {} => o.id \in f.id
  /\ f.type # {} => o.type \in f.type
  /\ f.spec # {} => \E s \in f.spec : MatchesSpec(o, s)
  /\ f.after \notin {Absent, Garbage} => o.created > f.after

\* isMatch, on one object: a version keyword lets every object through.
MatchesOneByOne(o, f) ==
  /\ MatchesNonVersion(o, f)
  /\ HasVersion(f) => \/ f.keywords # {}
                      \/ \E i \in DOMAIN f.exact : MatchesExact(o, f.exact[i])

(***************************************************************************)
(* applyVersionFilter: group by id in order of first appearance, sort each *)
(* group by version, pick.  Every loop over an array is a fold.            *)
(***************************************************************************)
\* Array.prototype.filter: the elements of a set, in the order of the sequence.
Kept(s, wanted) ==
  FoldLeft(LAMBDA kept, x : IF x \in wanted THEN Append(kept, x) ELSE kept, <<>>, s)

\* A JavaScript Map or Set remembers the order of first insertion.
OnceEach(s) ==
  FoldLeft(LAMBDA seen, x : IF x \in ToSet(seen) THEN seen ELSE Append(seen, x), <<>>, s)

\* Array.prototype.sort is stable.
Insert(sorted, o) ==
     Kept(sorted, {q \in ToSet(sorted) : VersionOf(q) <= VersionOf(o)})
  \o <<o>>
  \o Kept(sorted, {q \in ToSet(sorted) : VersionOf(q) > VersionOf(o)})

\* The comparison of sortByVersion reversed.
SortDescending(group) ==
  FoldLeft(LAMBDA sorted, o :
                Kept(sorted, {q \in ToSet(sorted) : VersionOf(q) >= VersionOf(o)})
             \o <<o>>
             \o Kept(sorted, {q \in ToSet(sorted) : VersionOf(q) < VersionOf(o)}),
           <<>>, group)

SortByVersion(group) == FoldLeft(LAMBDA sorted, o : Insert(sorted, o), <<>>, group)

Exactly(sorted, v) == Kept(sorted, {o \in ToSet(sorted) : MatchesExact(o, v)})

AllExactly(sorted, exact) == FoldLeft(LAMBDA all, v : all \o Exactly(sorted, v), <<>>, exact)

Picked(group, f) ==
  LET sorted == SortByVersion(group)
  IN  OnceEach(   (IF "first" \in f.keywords THEN <<Head(sorted)>> ELSE <<>>)
               \o (IF "last" \in f.keywords THEN <<Last(sorted)>> ELSE <<>>)
               \o AllExactly(sorted, f.exact))

\* groupById, one group.
Group(rows, x) == Kept(rows, {o \in ToSet(rows) : o.id = x})

ApplyVersionFilter(rows, f) ==
  IF ~HasVersion(f) \/ "all" \in f.keywords THEN rows
  ELSE FoldLeft(LAMBDA result, x : result \o Picked(Group(rows, x), f),
                <<>>, OnceEach([i \in DOMAIN rows |-> rows[i].id]))

(***************************************************************************)
(* ObjectRepository.  Rows come in ascending _meta.createdAt; the order of *)
(* rows stamped in the same millisecond is the database's, anew for every  *)
(* query.                                                                  *)
(***************************************************************************)
Orders(rows) ==
  LET places == 1 .. Cardinality(rows)
  IN  {s \in [places -> rows] :
         \A i, j \in places : i < j => s[i] # s[j] /\ s[i].at <= s[j].at}

\* "last" is the only value, and given once.
LatestOnly(f) ==
  \/ ~HasVersion(f)
  \/ f.keywords = {"last"} /\ f.exact = <<>> /\ f.form # "twice"

\* $sort by id and version (the later stamp among equals), $group first.
Newest(stored) ==
  {o \in stored : \A q \in stored : q.id = o.id =>
                    \/ VersionOf(q) < VersionOf(o)
                    \/ VersionOf(q) = VersionOf(o) /\ q.at <= o.at}

FindByCollection(stored, f) == IF LatestOnly(f) THEN Newest(stored) ELSE stored

FindOne(stored, x) == {o \in stored : o.id = x}

(***************************************************************************)
(* The four content endpoints, given the order the database answers in.    *)
(***************************************************************************)
Matching(order, f) == Kept(order, {o \in ToSet(order) : MatchesNonVersion(o, f)})

Envelope(order, f) == ApplyVersionFilter(Matching(order, f), f)

\* The manifest path with the version filter left out altogether.
ManifestUnfiltered(order, f) == Matching(order, f)

Manifest(order, f) == Kept(order, {o \in ToSet(order) : MatchesOneByOne(o, f)})

\* Rejected with 400 before any query: objects/, objects/{id} and versions/
\* parse added_after with ParseTimestampPipe, which wants a date; manifest/ has
\* the TimestampQuery decorator, which rejects dates and lets the rest through.
BadTimestamp(r) ==
  IF r.endpoint = "manifest" THEN r.filter.after \notin {Absent, Garbage}
  ELSE r.filter.after = Garbage

\* What the database may answer to a request, and what the request makes of it.
\* An object request names its object in r.object.
Rows(stored, r) ==
  IF r.endpoint \in {"objects", "manifest"} THEN FindByCollection(stored, r.filter)
  ELSE FindOne(stored, r.object)

Answer(order, r) ==
  IF r.endpoint = "manifest" THEN Manifest(order, r.filter) ELSE Envelope(order, r.filter)

\* objects/{id} and versions/ answer 404 when the release lacks the object.
Missing(stored, r) == r.endpoint \in {"object", "versions"} /\ FindOne(stored, r.object) = {}

(***************************************************************************)
(* PaginationService.getPage.  Array.prototype.slice counts a negative     *)
(* index from the end.                                                     *)
(***************************************************************************)
SliceIndex(i, n) == IF i < 0 THEN (IF n + i < 0 THEN 0 ELSE n + i)
                    ELSE IF i < n THEN i ELSE n

Slice(s, from, to) == SubSeq(s, SliceIndex(from, Len(s)) + 1, SliceIndex(to, Len(s)))

Page(items, from, to, next) ==
  [found |-> from <= Len(items), items |-> Slice(items, from, to), more |-> to < Len(items),
   next |-> next + 1]

\* `next` taken for an offset; a page that includes the first item of the next one;
\* one page too many when the last one is full; `next` held at the last page instead
\* of a 404, with `more` told from where the page starts.
PageByOffset(items, limit, next) == Page(items, next, limit + next, next)
PageInclusive(items, limit, next) ==
  [Page(items, limit * next, limit + limit * next, next) EXCEPT
     !.items = Slice(items, limit * next, limit + limit * next + 1)]
PageTooMany(items, limit, next) ==
  [Page(items, limit * next, limit + limit * next, next) EXCEPT
     !.more = limit + limit * next <= Len(items)]
PageClamped(items, limit, next) ==
  [Page(items, limit * next, limit + limit * next, next) EXCEPT
     !.more = limit * next <= Len(items),
     !.next = IF limit * (next + 1) <= Len(items) THEN next + 1 ELSE next]

\* next = 0 is also a request without `next`.
LimitedPage(items, limit, next) == Page(items, limit * next, limit + limit * next, next)

GetPage(items, limit, next) ==
  IF limit = NoLimit THEN [found |-> TRUE, items |-> items, more |-> FALSE]
  ELSE LimitedPage(items, limit, next)
=============================================================================
