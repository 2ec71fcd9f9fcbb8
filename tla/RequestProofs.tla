----------------------------- MODULE RequestProofs -----------------------------
(***************************************************************************)
(* Theorems about Request, for every set of releases and of dates and every *)
(* length of page: what a refusal says of the query, which media type an   *)
(* answer is in, and what the date headers of a page are.                  *)
(***************************************************************************)
EXTENDS Request, TLAPS

(***************************************************************************)
(* findMinMax, one date after the other.                                   *)
(***************************************************************************)
Earlier(c, m, d) == IF Less(d, m) THEN d ELSE m
Later(c, m, d) == IF Less(m, d) THEN d ELSE m

\* The bound so far is one of the dates, unless the first object has none, and
\* then stays so.
Leads(c, dates, i, m, lower) ==
  IF dates[1] = NoDate THEN m = NoDate
  ELSE /\ m \in Range(dates) \ {NoDate}
       /\ \A k \in 1 .. i : dates[k] # NoDate => IF lower THEN m <= dates[k] ELSE dates[k] <= m
LeastSoFar(c, dates, i, m) == Leads(c, dates, i, m, TRUE)
GreatestSoFar(c, dates, i, m) == Leads(c, dates, i, m, FALSE)

Minimum == INSTANCE FoldFacts WITH Combine <- Earlier, Holds <- LeastSoFar
Maximum == INSTANCE FoldFacts WITH Combine <- Later, Holds <- GreatestSoFar

LEMMA FindMinMaxFolds ==
  ASSUME NEW dates
  PROVE  FindMinMax(dates) = [min |-> Minimum!Fold("none", dates[1], dates),
                              max |-> Maximum!Fold("none", dates[1], dates)]
BY DEF FindMinMax, Earlier, Later, FoldLeft, MapThenFoldSet, Max,
       Minimum!Fold, Minimum!FoldLeft, Minimum!MapThenFoldSet, Minimum!Max,
       Maximum!Fold, Maximum!FoldLeft, Maximum!MapThenFoldSet, Maximum!Max

\* Of a page whose first object has a date, findMinMax finds the earliest and
\* the latest date, passing over the objects that have none.
LEMMA FindMinMaxBounds ==
  ASSUME NEW n \in Nat \ {0}, NEW dates \in [1 .. n -> Nat]
  PROVE  LeastSoFar("none", dates, n, FindMinMax(dates).min)
         /\ GreatestSoFar("none", dates, n, FindMinMax(dates).max)
<1>0. DOMAIN dates = 1 .. n /\ dates[1] \in Range(dates) /\ Range(dates) \subseteq Nat
      /\ \A k \in 1 .. n : dates[k] \in Nat /\ dates[k] \in Range(dates)
  BY DEF Range
<1>1. LeastSoFar("none", dates, n, Minimum!Fold("none", dates[1], dates))
  <2>1. LeastSoFar("none", dates, 0, dates[1])
    BY <1>0 DEF LeastSoFar, Leads, NoDate
  <2>2. ASSUME NEW i \in 1 .. n, NEW m, LeastSoFar("none", dates, i - 1, m)
        PROVE  LeastSoFar("none", dates, i, Earlier("none", m, dates[i]))
    BY <1>0, <2>2 DEF LeastSoFar, Leads, Earlier, Less, NoDate
  <2> QED
    BY <1>0, <2>1, <2>2, Minimum!FoldInduction
<1>2. GreatestSoFar("none", dates, n, Maximum!Fold("none", dates[1], dates))
  <2>1. GreatestSoFar("none", dates, 0, dates[1])
    BY <1>0 DEF GreatestSoFar, Leads, NoDate
  <2>2. ASSUME NEW i \in 1 .. n, NEW m, GreatestSoFar("none", dates, i - 1, m)
        PROVE  GreatestSoFar("none", dates, i, Later("none", m, dates[i]))
    BY <1>0, <2>2 DEF GreatestSoFar, Leads, Later, Less, NoDate
  <2> QED
    BY <1>0, <2>1, <2>2, Maximum!FoldInduction
<1> QED
  BY <1>1, <1>2, FindMinMaxFolds

(***************************************************************************)
(* Types.                                                                  *)
(***************************************************************************)
Statuses == {0, 200, 204, 400, 404, 406, 500, 503}
Medias == {Json, <<"none", "none">>} \cup AllMediaTypes

\* What a request is made of.
LEMMA RequestFields ==
  ASSUME NEW r \in Requests
  PROVE  /\ r.accept \in Accept /\ r.query \in Query /\ r.exempt \in BOOLEAN
         /\ r.root \in Release \cup {Malformed, Default}
         /\ r.route \in Content \cup Stub \cup {"collections", "collection", "segment"} \cup Plain
         /\ r.route \in Plain => r.root = Default
         /\ r.route = "segment" => r.root \in Release \cup {Malformed}
<1> DEFINE Fits(route, roots) == /\ r.accept \in Accept /\ r.query \in Query /\ r.exempt \in BOOLEAN
                                 /\ r.route \in route /\ r.root \in roots
<1>1. Fine \in Query
  BY DEF Fine, Query
<1>2. CASE r \in Sent(Plain, BOOLEAN, {Default}, {Fine})
  <2>1. Fits(Plain, {Default})
    BY <1>1, <1>2 DEF Sent
  <2> QED
    BY <2>1 DEF Plain
<1>3. CASE r \in Sent({"segment"}, BOOLEAN, Release \cup {Malformed}, {Fine})
  <2>1. Fits({"segment"}, Release \cup {Malformed})
    BY <1>1, <1>3 DEF Sent
  <2> QED
    BY <2>1 DEF Plain
<1>4. CASE r \in Sent({"collections", "collection"} \cup Stub, BOOLEAN,
                     Release \cup {Malformed, Default}, {Fine})
  <2>1. Fits({"collections", "collection"} \cup Stub, Release \cup {Malformed, Default})
    BY <1>1, <1>4 DEF Sent
  <2> QED
    BY <2>1 DEF Plain, Stub
<1>5. CASE r \in Sent(Content, BOOLEAN, Release \cup {Malformed, Default}, Query)
  <2>1. Fits(Content, Release \cup {Malformed, Default})
    BY <1>5 DEF Sent
  <2> QED
    BY <2>1 DEF Plain, Content
<1> QED
  BY <1>2, <1>3, <1>4, <1>5 DEF Requests

\* A header that was not refused gives a media type the server knows: TAXII,
\* with or without a version, or what a bare "application" comes to.
LEMMA MediaTypeKnown ==
  ASSUME NEW a \in Accept, ~Unsupported(a)
  PROVE  /\ MediaType(a) \in Medias
         /\ a.subType # "none" => MediaType(a) \in AllMediaTypes
BY DEF Accept, Unsupported, MediaType, Medias, AllMediaTypes, DefaultMediaType

\* The filter's answer is in the default media type.
LEMMA Thrown ==
  ASSUME NEW status \in {400, 404, 406, 500, 503}, Throw(status)
  PROVE  /\ phase' = "answered" /\ response'.status = status
         /\ response'.media = DefaultMediaType
         /\ response'.first = NoDate /\ response'.last = NoDate
         /\ response' \in [status : Statuses, media : Medias,
                           first : Instant \cup {NoDate}, last : Instant \cup {NoDate}]
<1>1. response' = [status |-> status, media |-> DefaultMediaType,
                   first |-> NoDate, last |-> NoDate]
  BY DEF Throw, Unanswered
<1>2. status \in Statuses /\ DefaultMediaType \in Medias
  BY DEF Statuses, Medias, AllMediaTypes
<1>3. phase' = "answered"
  BY DEF Throw
<1> QED
  BY <1>1, <1>2, <1>3

\* A request past the middleware is answered in a media type that is known,
\* and that is TAXII unless the client asked for none.
LEMMA Negotiated ==
  ASSUME RequestTypeOK, Passed, phase \in {"resolving", "handling"}
  PROVE  /\ ResponseMedia \in Medias
         /\ request.exempt \/ ResponseMedia \in AllMediaTypes \/ request.accept.subType = "none"
<1>1. request.accept \in Accept
  BY RequestFields DEF RequestTypeOK
<1>2. CASE request.exempt
  BY <1>2 DEF ResponseMedia, Medias
<1>3. CASE ~request.exempt
  <2>1. ~Unsupported(request.accept) /\ ResponseMedia = MediaType(request.accept)
    BY <1>3 DEF Passed, ResponseMedia
  <2> QED
    BY <1>1, <2>1, MediaTypeKnown
<1> QED
  BY <1>2, <1>3

(***************************************************************************)
(* The three ways a step ends.                                             *)
(***************************************************************************)
Inv == RequestTypeOK /\ RequestInv

\* What a step does to the other variables.
Around ==
  /\ request' = request
  /\ awaiting' \in BOOLEAN
  /\ awaiting' => request.root \in Release
  /\ ready' \subseteq Release
  /\ page' \in Seq(Instant \cup {NoDate}) /\ Len(page') <= MaxPage

\* It throws: only a 404 says anything of the query.
LEMMA ThrowKeepsInv ==
  ASSUME RequestTypeOK, Around, NEW status \in {400, 404, 406, 500, 503}, Throw(status),
         status = 404 => Extraction \cup Piping = {}
  PROVE  Inv'
<1>1. /\ phase' = "answered" /\ response'.status = status
      /\ response'.media = DefaultMediaType
      /\ response' \in [status : Statuses, media : Medias,
                        first : Instant \cup {NoDate}, last : Instant \cup {NoDate}]
  BY Thrown
<1>2. Extraction' = Extraction /\ Piping' = Piping
  BY DEF Around, Extraction, Piping
<1>3. RequestTypeOK'
  BY <1>1 DEF RequestTypeOK, Around, Statuses, Medias
<1>4. Waiting' /\ Passed'
  BY <1>1 DEF Waiting, Passed, Around
<1>5. QueryJudgedFirst'
  BY <1>1, <1>2 DEF QueryJudgedFirst
<1>6. TaxiiSpoken'
  BY <1>1 DEF TaxiiSpoken
<1>7. DatesBracketPage'
  BY <1>1 DEF DatesBracketPage
<1> QED
  BY <1>3, <1>4, <1>5, <1>6, <1>7 DEF Inv, RequestInv

\* It succeeds, with no page or with dates that bracket it.
LEMMA SucceedKeepsInv ==
  ASSUME RequestTypeOK, Passed, phase \in {"resolving", "handling"}, Around,
         NEW status \in {200, 204},
         NEW first \in Instant \cup {NoDate}, NEW last \in Instant \cup {NoDate},
         Succeed(status, first, last),
         page' # << >> =>
           /\ {first, last} \subseteq Range(page') \ {NoDate}
           /\ \A d \in Range(page') \ {NoDate} : first <= d /\ d <= last
  PROVE  Inv'
<1>1. /\ phase' = "answered"
      /\ response' = [status |-> status, media |-> ResponseMedia, first |-> first, last |-> last]
  BY DEF Succeed
<1>2. Extraction' = Extraction /\ Piping' = Piping
  BY DEF Around, Extraction, Piping
<1>3. RequestTypeOK'
  <2>1. status \in Statuses /\ ResponseMedia \in Medias
    BY Negotiated DEF Statuses
  <2>2. response' \in [status : Statuses, media : Medias,
                      first : Instant \cup {NoDate}, last : Instant \cup {NoDate}]
    BY <1>1, <2>1
  <2> QED
    BY <1>1, <2>2 DEF RequestTypeOK, Around, Statuses, Medias
<1>4. Waiting' /\ Passed'
  BY <1>1 DEF Waiting, Passed, Around
<1>5. QueryJudgedFirst'
  BY <1>2 DEF QueryJudgedFirst, Passed
<1>6. TaxiiSpoken'
  BY <1>1, Negotiated DEF TaxiiSpoken, Around
<1>7. DatesBracketPage'
  BY <1>1 DEF DatesBracketPage
<1> QED
  BY <1>3, <1>4, <1>5, <1>6, <1>7 DEF Inv, RequestInv

\* It goes on.
LEMMA GoingOnKeepsInv ==
  ASSUME Inv, Around, phase # "answered", phase' # "answered",
         UNCHANGED <<page, response>>,
         phase' \in {"accepted", "resolving", "handling"},
         phase' = "resolving" <=> awaiting',
         phase' = "resolving" => request.route \in Scoped \cup {"segment"},
         phase' \in {"resolving", "handling"} => Extraction \cup Piping = {},
         request.exempt \/ ~Unsupported(request.accept)
  PROVE  Inv'
<1>1. Extraction' = Extraction /\ Piping' = Piping
  BY DEF Around, Extraction, Piping
<1>2. RequestTypeOK'
  BY DEF Inv, RequestTypeOK, Around
<1>3. Waiting'
  BY DEF Inv, RequestInv, Waiting, Around, Unanswered
<1>4. Passed'
  BY <1>1 DEF Passed, Around
<1>5. QueryJudgedFirst' /\ TaxiiSpoken' /\ DatesBracketPage'
  BY DEF QueryJudgedFirst, TaxiiSpoken, DatesBracketPage
<1> QED
  BY <1>2, <1>3, <1>4, <1>5 DEF Inv, RequestInv

(***************************************************************************)
(* The invariant.                                                          *)
(***************************************************************************)
LEMMA InitInv == Init => Inv
<1> SUFFICES ASSUME Init
             PROVE  Inv
  OBVIOUS
<1>1. response = [status |-> 0, media |-> Json, first |-> NoDate, last |-> NoDate]
  BY DEF Init, Unanswered
<1>2. response \in [status : Statuses, media : Medias,
                    first : Instant \cup {NoDate}, last : Instant \cup {NoDate}]
  BY <1>1 DEF Statuses, Medias
<1>3. page \in Seq(Instant \cup {NoDate}) /\ Len(page) <= MaxPage
  BY RequestAssumption DEF Init
<1>4. RequestTypeOK
  BY <1>2, <1>3 DEF Init, RequestTypeOK, Statuses, Medias
<1>5. RequestInv
  BY DEF Init, RequestInv, Waiting, Passed, QueryJudgedFirst, TaxiiSpoken, DatesBracketPage
<1> QED
  BY <1>4, <1>5 DEF Inv

LEMMA NegotiateKeepsInv == Inv /\ Negotiate => Inv'
<1> SUFFICES ASSUME Inv, Negotiate
             PROVE  Inv'
  OBVIOUS
<1>1. RequestTypeOK /\ phase = "received" /\ ~awaiting
  BY DEF Inv, RequestInv, Waiting, Negotiate
<1>2. Around
  BY <1>1 DEF Around, Negotiate, RequestTypeOK
<1>3. CASE phase' = "accepted" /\ UNCHANGED response
  BY <1>1, <1>2, <1>3, GoingOnKeepsInv DEF Negotiate, Throw
<1>4. CASE Throw(406) \/ Throw(400)
  BY <1>1, <1>2, <1>4, ThrowKeepsInv
<1> QED
  BY <1>3, <1>4 DEF Negotiate

\* Of the faults of the parameters the first to come is answered, and a root
\* that is no release comes last.
LEMMA ResolveParametersKeepsInv == Inv /\ ResolveParameters => Inv'
<1> SUFFICES ASSUME Inv, ResolveParameters
             PROVE  Inv'
  OBVIOUS
<1>1. RequestTypeOK /\ phase = "accepted" /\ ~awaiting
  BY DEF Inv, RequestInv, Waiting, ResolveParameters
<1>2. Around
  BY <1>1 DEF Around, ResolveParameters, RequestTypeOK
<1>3. ASSUME NEW status \in FirstFault, Throw(status)
      PROVE  Inv'
  <2>1. status \in {400, 404, 500} /\ (status = 404 => Extraction \cup Piping = {})
    BY <1>3 DEF FirstFault, Extraction, Piping, Segment
  <2> QED
    BY <1>1, <1>2, <1>3, <2>1, ThrowKeepsInv
<1>4. CASE /\ FirstFault = {} /\ UNCHANGED response
           /\ phase' = IF awaiting' THEN "resolving" ELSE "handling"
  <2>1. Extraction \cup Piping = {}
    BY <1>4 DEF FirstFault
  <2> QED
    BY <1>1, <1>2, <1>4, <2>1, GoingOnKeepsInv
       DEF ResolveParameters, Inv, RequestInv, Passed
<1> QED
  BY <1>3, <1>4 DEF ResolveParameters

LEMMA LookupKeepsInv == Inv /\ (LookupAnswers \/ LookupFails) => Inv'
<1> SUFFICES ASSUME Inv, LookupAnswers \/ LookupFails
             PROVE  Inv'
  OBVIOUS
<1>1. RequestTypeOK /\ Passed /\ awaiting' = FALSE
      /\ UNCHANGED <<request, ready, page>>
  BY DEF Inv, RequestInv, LookupAnswers, LookupFails
<1>2. Around
  BY <1>1 DEF Around, RequestTypeOK
<1>3. CASE phase = "resolving"
  <2>1. Extraction \cup Piping = {} /\ page = << >>
        /\ (request.exempt \/ ~Unsupported(request.accept))
    BY <1>3 DEF Inv, RequestInv, Passed, Waiting
  <2>2. CASE Throw(404) \/ Throw(500)
    BY <1>1, <1>2, <2>1, <2>2, ThrowKeepsInv
  <2>3. CASE Succeed(200, NoDate, NoDate)
    BY <1>1, <1>2, <1>3, <2>1, <2>3, SucceedKeepsInv
  <2>4. CASE phase' = "handling" /\ UNCHANGED response
    BY <1>1, <1>2, <1>3, <2>1, <2>4, GoingOnKeepsInv
  <2> QED
    BY <1>3, <2>2, <2>3, <2>4 DEF LookupAnswers, LookupFails
<1>4. CASE phase = "answered" /\ UNCHANGED <<phase, response>>
  <2>1. Extraction' = Extraction /\ Piping' = Piping
    BY <1>1 DEF Extraction, Piping
  <2>2. RequestTypeOK'
    <3>1. awaiting' \in BOOLEAN /\ request' = request /\ ready' = ready /\ page' = page
          /\ phase' = phase /\ response' = response
      BY <1>1, <1>4
    <3> QED
      BY <1>1, <3>1 DEF RequestTypeOK
  <2>3. Waiting' /\ Passed'
    BY <1>1, <1>4 DEF Waiting, Passed
  <2>4. QueryJudgedFirst' /\ TaxiiSpoken' /\ DatesBracketPage'
    BY <1>1, <1>4, <2>1 DEF Inv, RequestInv, QueryJudgedFirst, TaxiiSpoken, DatesBracketPage
  <2> QED
    BY <2>2, <2>3, <2>4 DEF Inv, RequestInv
<1> QED
  BY <1>3, <1>4 DEF LookupAnswers, LookupFails

\* The handlers that return no content.
LEMMA HandlePlainKeepsInv == Inv /\ (HandleStub \/ HandleSegment \/ HandlePlain) => Inv'
<1> SUFFICES ASSUME Inv, HandleStub \/ HandleSegment \/ HandlePlain
             PROVE  Inv'
  OBVIOUS
<1>1. /\ RequestTypeOK /\ Passed /\ phase = "handling" /\ ~awaiting /\ page = << >>
      /\ Extraction \cup Piping = {}
      /\ request.exempt \/ ~Unsupported(request.accept)
      /\ UNCHANGED <<request, ready, page>>
  BY DEF Inv, RequestInv, Passed, Waiting, HandleStub, HandleSegment, HandlePlain
<1>2. CASE HandleStub \/ HandlePlain
  <2>1. Around
    BY <1>1, <1>2 DEF Around, RequestTypeOK, HandleStub, HandlePlain
  <2>2. CASE Throw(503) \/ Throw(500) \/ Throw(404)
    BY <1>1, <2>1, <2>2, ThrowKeepsInv
  <2>3. CASE Succeed(200, NoDate, NoDate) \/ Succeed(204, NoDate, NoDate)
    BY <1>1, <2>1, <2>3, SucceedKeepsInv
  <2> QED
    BY <1>2, <2>2, <2>3 DEF HandleStub, HandlePlain
<1>3. CASE HandleSegment
  <2>1. request.root \in Release
    BY <1>3, RequestFields DEF RequestTypeOK, HandleSegment, Inv
  <2>2. Around
    BY <1>1, <1>3, <2>1 DEF Around, RequestTypeOK, HandleSegment
  <2> QED
    BY <1>1, <1>3, <2>2, GoingOnKeepsInv DEF HandleSegment
<1> QED
  BY <1>2, <1>3

\* The dates of the headers are those findMinMax finds, and a page it finds no
\* first date of is not sent.
LEMMA HandleContentKeepsInv == Inv /\ HandleContent => Inv'
<1> SUFFICES ASSUME Inv, HandleContent
             PROVE  Inv'
  OBVIOUS
<1>1. /\ RequestTypeOK /\ Passed /\ phase = "handling" /\ ~awaiting
      /\ Extraction \cup Piping = {}
      /\ UNCHANGED <<request, awaiting, ready>>
  BY DEF Inv, RequestInv, Passed, Waiting, HandleContent
<1>2. PICK n \in 0 .. MaxPage : page' \in [1 .. n -> Instant \cup {NoDate}]
  BY DEF HandleContent
<1>3. n \in Nat /\ n <= MaxPage /\ page' \in Seq(Instant \cup {NoDate}) /\ Len(page') = n
  BY <1>2, RequestAssumption
<1>4. Around
  BY <1>1, <1>3 DEF Around, RequestTypeOK
<1>5. CASE page' = << >>
  <2>1. Succeed(200, NoDate, NoDate)
    BY <1>5 DEF HandleContent
  <2> QED
    BY <1>1, <1>4, <1>5, <2>1, SucceedKeepsInv
<1>6. CASE page' # << >>
  <2> DEFINE added == FindMinMax(page')
  <2>1. IF added.min = NoDate THEN Throw(500) ELSE Succeed(200, added.min, added.max)
    BY <1>6 DEF HandleContent
  <2>2. n # 0 /\ Range(page') \subseteq Instant \cup {NoDate}
    BY <1>2, <1>3, <1>6 DEF Range
  <2>3. page' \in [1 .. n -> Nat]
    <3>1. Instant \cup {NoDate} \subseteq Nat
      BY RequestAssumption DEF NoDate
    <3> QED
      BY <1>2, <3>1
  <2>4. LeastSoFar("none", page', n, added.min) /\ GreatestSoFar("none", page', n, added.max)
    BY <1>3, <2>2, <2>3, FindMinMaxBounds
  <2> HIDE DEF added
  <2>5. CASE added.min = NoDate
    BY <1>1, <1>4, <2>1, <2>5, ThrowKeepsInv
  <2>6. CASE added.min # NoDate
    <3>1. page'[1] # NoDate
      BY <2>4, <2>6 DEF LeastSoFar, Leads
    <3>2. /\ {added.min, added.max} \subseteq Range(page') \ {NoDate}
          /\ \A k \in 1 .. n : page'[k] # NoDate => added.min <= page'[k] /\ page'[k] <= added.max
      BY <2>4, <3>1 DEF LeastSoFar, GreatestSoFar, Leads
    <3>3. \A d \in Range(page') \ {NoDate} : added.min <= d /\ d <= added.max
      BY <1>2, <3>2 DEF Range
    <3> QED
      BY <1>1, <1>4, <2>1, <2>2, <2>6, <3>2, <3>3, SucceedKeepsInv
  <2> QED
    BY <2>5, <2>6
<1> QED
  BY <1>5, <1>6

LEMMA CollectKeepsInv == Inv /\ Collect => Inv'
<1> SUFFICES ASSUME Inv, Collect
             PROVE  Inv'
  OBVIOUS
<1>1. /\ RequestTypeOK /\ phase # "answered"
      /\ ready' \subseteq Release
      /\ UNCHANGED <<request, phase, awaiting, page, response>>
  BY DEF Inv, RequestTypeOK, Collect, CommitRelease, RemoveRelease
<1>2. Extraction' = Extraction /\ Piping' = Piping
  BY <1>1 DEF Extraction, Piping
<1>3. RequestTypeOK'
  BY <1>1 DEF RequestTypeOK
<1>4. RequestInv'
  BY <1>1, <1>2 DEF Inv, RequestInv, Waiting, Passed, QueryJudgedFirst, TaxiiSpoken, DatesBracketPage
<1> QED
  BY <1>3, <1>4 DEF Inv

LEMMA StutterKeepsInv == Inv /\ UNCHANGED vars => Inv'
<1> SUFFICES ASSUME Inv, UNCHANGED vars
             PROVE  Inv'
  OBVIOUS
<1>1. Extraction' = Extraction /\ Piping' = Piping
  BY DEF vars, Extraction, Piping
<1>2. RequestTypeOK'
  BY DEF vars, Inv, RequestTypeOK
<1>3. RequestInv'
  BY <1>1 DEF vars, Inv, RequestInv, Waiting, Passed, QueryJudgedFirst, TaxiiSpoken,
              DatesBracketPage
<1> QED
  BY <1>2, <1>3 DEF Inv

THEOREM Inductive == Spec => []Inv
<1>1. Inv /\ [Next]_vars => Inv'
  BY NegotiateKeepsInv, ResolveParametersKeepsInv, LookupKeepsInv, HandlePlainKeepsInv,
     HandleContentKeepsInv, CollectKeepsInv, StutterKeepsInv DEF Next, ServerStep
<1> QED
  BY <1>1, InitInv, PTL DEF Spec

(***************************************************************************)
(* Theorems.                                                               *)
(***************************************************************************)

\* The state of a request is always of its type: the exception filter and the
\* handlers between them answer with no other status or media type, and no
\* page is longer than the bound.
THEOREM RequestTypeCorrect == Spec => []RequestTypeOK
<1>1. Inv => RequestTypeOK
  BY DEF Inv
<1> QED
  BY <1>1, Inductive, PTL

\* A 404, or an answer, means that the query was well formed, however slow the
\* lookup of the root is and whatever the collector commits or removes
\* meanwhile: the parameters of a handler settle together, and the lookup of the
\* root never first.
THEOREM QueryIsJudgedFirst == Spec => []QueryJudgedFirst
<1>1. Inv => QueryJudgedFirst
  BY DEF Inv, RequestInv
<1> QED
  BY <1>1, Inductive, PTL

\* Errors, and the answers to a client that asked for TAXII, are TAXII.
THEOREM TaxiiIsSpoken == Spec => []TaxiiSpoken
<1>1. Inv => TaxiiSpoken
  BY DEF Inv, RequestInv
<1> QED
  BY <1>1, Inductive, PTL

\* The date headers bracket a page of any length, in whatever order its objects
\* come and whichever of them have no date.
THEOREM DatesBracket == Spec => []DatesBracketPage
<1>1. Inv => DatesBracketPage
  BY DEF Inv, RequestInv
<1> QED
  BY <1>1, Inductive, PTL
================================================================================
