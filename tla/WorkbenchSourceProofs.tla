------------------------ MODULE WorkbenchSourceProofs ------------------------
(***************************************************************************)
(* Theorems about WorkbenchSource, for every set of releases, number of    *)
(* calls at once, and whatever the curators, the Workbench and the network *)
(* do.                                                                     *)
(***************************************************************************)
EXTENDS WorkbenchSource, TLAPS

\* A body that is one of data, and not a page.
LEMMA DataBody ==
  ASSUME NEW b \in (SUBSET Release) \cup {Page}
  PROVE  b # Undefined /\ (b # Page => b \in SUBSET Release)
BY BodyAssumption

\* Only a 2xx answer other than a page passes for a listing or a bundle, and
\* only a 2xx page for an empty bundle.
LEMMA OutcomeOf ==
  ASSUME NEW s \in {"2xx", "3xx", "4xx", "5xx", "noResponse", "notSent"},
         NEW b \in (SUBSET Release) \cup {Page}, NEW g \in Release \cup {AllReleases}
  PROVE  LET how == Outcome(g, FetchHttp(s, b)) IN
         /\ how \in {"listing", "bundle", "emptyBundle", "failed"}
         /\ how \in {"listing", "bundle"} => s = "2xx" /\ b # Page /\ FetchHttp(s, b).data = b
         /\ how = "listing" <=> s = "2xx" /\ b # Page /\ g = AllReleases
         /\ how = "emptyBundle" => s = "2xx" /\ b = Page
<1>1. CASE s = "2xx"
  <2>1. FetchHttp(s, b) = [throws |-> "nothing", data |-> b]
    BY <1>1 DEF FetchHttp, Data
  <2>2. b # Undefined
    BY DataBody
  <2> QED
    BY <1>1, <2>1, <2>2 DEF Outcome
<1>2. CASE s = "3xx"
  <2>1. FetchHttp(s, b) = [throws |-> "nothing", data |-> Undefined]
    BY <1>2 DEF FetchHttp, Data
  <2> QED
    BY <1>2, <2>1, BodyAssumption DEF Outcome
<1>3. CASE s \notin {"2xx", "3xx"}
  <2>1. /\ FetchHttp(s, b).throws \in {"BadRequest", "ServiceUnavailable", "NotFound"}
        /\ FetchHttp(s, b).data = Undefined
    BY <1>3 DEF FetchHttp, Throws
  <2> QED
    BY <1>3, <2>1, BodyAssumption DEF Outcome
<1> QED
  BY <1>1, <1>2, <1>3

-----------------------------------------------------------------------------
LEMMA TypeInit == Init => WorkbenchTypeOK
BY BodyAssumption DEF Init, WorkbenchTypeOK

\* A call that is answered, with any status and a body of its type.
LEMMA ResponseType ==
  ASSUME WorkbenchTypeOK, NEW c \in Caller,
         NEW s \in {"2xx", "3xx", "4xx", "5xx", "noResponse", "notSent"},
         NEW b \in (SUBSET Release) \cup {Page}, Responds(c, s, b)
  PROVE  WorkbenchTypeOK'
BY DEF WorkbenchTypeOK, Responds

\* Every answer is of that kind.
LEMMA Responses ==
  ASSUME WorkbenchTypeOK, NEW c \in Caller, Answer(c) \/ Misbehave(c)
  PROVE  \E s \in {"2xx", "3xx", "4xx", "5xx", "noResponse", "notSent"},
            b \in (SUBSET Release) \cup {Page} :
           /\ Responds(c, s, b)
           /\ s = "2xx" /\ b # Page =>
                IF goal[c] = AllReleases THEN b = held ELSE b = {goal[c]} /\ goal[c] \in held
<1>1. CASE goal[c] = AllReleases /\ Responds(c, "2xx", held)
  BY <1>1 DEF WorkbenchTypeOK
<1>2. CASE goal[c] \in held /\ Responds(c, "2xx", {goal[c]})
  <2>1. goal[c] \in Release /\ goal[c] # AllReleases
    BY <1>2, BodyAssumption DEF WorkbenchTypeOK
  <2> QED
    BY <1>2, <2>1
<1>3. CASE \E s \in {"2xx", "3xx", "4xx", "5xx", "noResponse", "notSent"} : Responds(c, s, Page)
  BY <1>3
<1> QED
  BY <1>1, <1>2, <1>3 DEF Answer, Misbehave

LEMMA TypeStep == WorkbenchTypeOK /\ [Next]_vars => WorkbenchTypeOK'
<1> SUFFICES ASSUME WorkbenchTypeOK, [Next]_vars PROVE WorkbenchTypeOK'
  OBVIOUS
<1>1. ASSUME NEW r \in Release, Curate(r) PROVE WorkbenchTypeOK'
  BY <1>1 DEF WorkbenchTypeOK, Curate, call
<1>2. ASSUME NEW c \in Caller, NEW g \in Release \cup {AllReleases}, Ask(c, g)
      PROVE  WorkbenchTypeOK'
  BY <1>2 DEF WorkbenchTypeOK, Ask
<1>3. ASSUME NEW c \in Caller, Answer(c) \/ Misbehave(c) PROVE WorkbenchTypeOK'
  BY <1>3, Responses, ResponseType
<1>4. ASSUME NEW c \in Caller, Return(c) PROVE WorkbenchTypeOK'
  <2> DEFINE f == FetchHttp(status[c], body[c])
             how == Outcome(goal[c], f)
             got == IF how \in {"listing", "bundle"} THEN f.data ELSE {}
  <2>1. how \in {"listing", "bundle", "emptyBundle", "failed"} /\ got \in SUBSET Release
    <3>1. /\ status[c] \in {"2xx", "3xx", "4xx", "5xx", "noResponse", "notSent"}
          /\ body[c] \in (SUBSET Release) \cup {Page}
          /\ goal[c] \in Release \cup {AllReleases}
      BY DEF WorkbenchTypeOK
    <3> QED
      BY <3>1, OutcomeOf, DataBody
  <2>2. /\ http' = [http EXCEPT ![c] = "none"]
        /\ outcome' = [outcome EXCEPT ![c] = how]
        /\ result' = [result EXCEPT ![c] = got]
        /\ UNCHANGED <<held, goal, status, body, during>>
    BY <1>4 DEF Return
  <2> HIDE DEF how, got
  <2> QED
    BY <2>1, <2>2 DEF WorkbenchTypeOK
<1>5. CASE UNCHANGED vars
  BY <1>5 DEF WorkbenchTypeOK, vars, call
<1> QED
  BY <1>1, <1>2, <1>3, <1>4, <1>5 DEF Next

-----------------------------------------------------------------------------
LEMMA AnswersInit == Init => AnswersInv
BY DEF Init, AnswersInv

LEMMA AnswersStep == WorkbenchTypeOK /\ AnswersInv /\ [Next]_vars => AnswersInv'
<1> SUFFICES ASSUME WorkbenchTypeOK, AnswersInv, [Next]_vars PROVE AnswersInv'
  OBVIOUS
<1>1. ASSUME NEW r \in Release, Curate(r) PROVE AnswersInv'
  <2>1. \A c \in Caller : http[c] # "none" => during'[c] = during[c] \cup {held'}
    BY <1>1 DEF Curate
  <2> QED
    BY <1>1, <2>1 DEF AnswersInv, Curate, call
<1>2. ASSUME NEW c \in Caller, NEW g \in Release \cup {AllReleases}, Ask(c, g)
      PROVE  AnswersInv'
  BY <1>2 DEF WorkbenchTypeOK, AnswersInv, Ask
<1>3. ASSUME NEW c \in Caller, Answer(c) \/ Misbehave(c) PROVE AnswersInv'
  <2>1. PICK s \in {"2xx", "3xx", "4xx", "5xx", "noResponse", "notSent"},
             b \in (SUBSET Release) \cup {Page} :
               /\ Responds(c, s, b)
               /\ s = "2xx" /\ b # Page =>
                    IF goal[c] = AllReleases THEN b = held ELSE b = {goal[c]} /\ goal[c] \in held
    BY <1>3, Responses
  <2>2. http[c] # "none" /\ held \in during[c]
    BY <2>1 DEF AnswersInv, Responds
  <2> QED
    BY <2>1, <2>2 DEF WorkbenchTypeOK, AnswersInv, Responds
<1>4. ASSUME NEW c \in Caller, Return(c) PROVE AnswersInv'
  BY <1>4 DEF WorkbenchTypeOK, AnswersInv, Return
<1>5. CASE UNCHANGED vars
  BY <1>5 DEF AnswersInv, vars, call
<1> QED
  BY <1>1, <1>2, <1>3, <1>4, <1>5 DEF Next

\* What the end of a call makes of its answer.
LEMMA ReturnStep ==
  ASSUME WorkbenchTypeOK, AnswersInv, NEW c \in Caller, Return(c)
  PROVE  /\ outcome'[c] = "listing" => result'[c] \in during[c]
         /\ outcome'[c] = "bundle" => result'[c] = {goal[c]} /\ goal[c] \in UNION during[c]
         /\ outcome'[c] = "emptyBundle" => status[c] = "2xx" /\ body[c] = Page
<1> DEFINE f == FetchHttp(status[c], body[c])
           how == Outcome(goal[c], f)
<1>1. /\ status[c] \in {"2xx", "3xx", "4xx", "5xx", "noResponse", "notSent"}
      /\ body[c] \in (SUBSET Release) \cup {Page}
      /\ goal[c] \in Release \cup {AllReleases}
  BY DEF WorkbenchTypeOK
<1>2. /\ how \in {"listing", "bundle"} => status[c] = "2xx" /\ body[c] # Page /\ f.data = body[c]
      /\ how = "listing" <=> status[c] = "2xx" /\ body[c] # Page /\ goal[c] = AllReleases
      /\ how = "emptyBundle" => status[c] = "2xx" /\ body[c] = Page
  BY <1>1, OutcomeOf
<1>3. /\ http[c] = "answered"
      /\ outcome'[c] = how
      /\ result'[c] = IF how \in {"listing", "bundle"} THEN f.data ELSE {}
  BY DEF Return, WorkbenchTypeOK
<1> HIDE DEF how, f
<1> QED
  BY <1>2, <1>3 DEF AnswersInv

-----------------------------------------------------------------------------
LEMMA Invariance == Spec => [](WorkbenchTypeOK /\ AnswersInv)
BY TypeInit, TypeStep, AnswersInit, AnswersStep, PTL DEF Spec

\* No failure passes for a listing: what the collector takes for the source's
\* releases, and sweeps by, the Workbench held at a moment of the call.
THEOREM ListingsAreTrue == Spec => ListingWasTrue
<1>1. WorkbenchTypeOK /\ AnswersInv =>
        (\A c \in Caller : Return(c) /\ outcome'[c] = "listing" => result'[c] \in during[c])
  BY ReturnStep
<1> QED
  BY <1>1, Invariance, PTL DEF ListingWasTrue

\* A bundle is that of the release asked for, and empty only after a 2xx
\* answer that was none.
THEOREM BundlesAreTrue == Spec => BundleWasTrue
<1>1. WorkbenchTypeOK /\ AnswersInv =>
        (\A c \in Caller : Return(c) =>
           /\ outcome'[c] = "bundle" => result'[c] = {goal[c]} /\ goal[c] \in UNION during[c]
           /\ outcome'[c] = "emptyBundle" => status[c] = "2xx" /\ body[c] = Page)
  BY ReturnStep
<1> QED
  BY <1>1, Invariance, PTL DEF BundleWasTrue
=============================================================================
