--------------------------- MODULE WorkbenchSource ---------------------------
(***************************************************************************)
(* The Workbench source (WorkbenchRepository): every call is one HTTP      *)
(* request to a Workbench whose curators add and delete releases           *)
(* meanwhile.  What its answers make of a pass matters because of what the *)
(* pass does with them: it deletes every release that a listing lacks, and *)
(* never asks again for a bundle it has committed.                         *)
(*                                                                         *)
(* A body is a set of releases, those of a listing or the one of a bundle, *)
(* or Page: 200 with something that is neither (a login page, nothing).    *)
(***************************************************************************)
EXTENDS Naturals

CONSTANTS
  Release,        \* versions of collections
  Caller,         \* calls that may be in progress at once
  Page,           \* a body of another kind
  Undefined,      \* what fetchHttp returns when it falls off its end
  AllReleases     \* the goal of getCollections(undefined, 'all')

ASSUME BodyAssumption ==
  /\ \A b \in SUBSET Release : b # Page /\ b # Undefined
  /\ Page # Undefined /\ AllReleases \notin Release

VARIABLES
  held,       \* the releases the Workbench holds
  goal,       \* what each call asks for
  http,       \* its request: "none", "sent" or "answered"
  status,     \* the answer's status: a class, "noResponse" or "notSent"
  body,       \* and its body
  outcome,    \* how the caller's last call ended
  result,     \* the listing or the bundle's objects it got
  during      \* history: the states of `held` since the call was made

call == <<goal, http, status, body>>
vars == <<held, call, outcome, result, during>>

Init ==
  /\ held \in SUBSET Release
  /\ goal = [c \in Caller |-> AllReleases]
  /\ http = [c \in Caller |-> "none"]
  /\ status = [c \in Caller |-> "2xx"]
  /\ body = [c \in Caller |-> {}]
  /\ outcome = [c \in Caller |-> "none"]
  /\ result = [c \in Caller |-> {}]
  /\ during = [c \in Caller |-> {}]

Curate(r) ==
  /\ held' = IF r \in held THEN held \ {r} ELSE held \cup {r}
  /\ during' = [c \in Caller |-> IF http[c] = "none" THEN {} ELSE during[c] \cup {held'}]
  /\ UNCHANGED <<call, outcome, result>>

\* getCollections(undefined, 'all'), or getCollectionBundle for a release.
Ask(c, g) ==
  /\ http[c] = "none"
  /\ goal' = [goal EXCEPT ![c] = g]
  /\ http' = [http EXCEPT ![c] = "sent"]
  /\ outcome' = [outcome EXCEPT ![c] = "none"]
  /\ during' = [during EXCEPT ![c] = {held}]
  /\ UNCHANGED <<held, status, body, result>>

Responds(c, s, b) ==
  /\ http[c] = "sent"
  /\ http' = [http EXCEPT ![c] = "answered"]
  /\ status' = [status EXCEPT ![c] = s]
  /\ body' = [body EXCEPT ![c] = b]
  /\ UNCHANGED <<held, goal, outcome, result, during>>

Answer(c) ==
  \/ goal[c] = AllReleases /\ Responds(c, "2xx", held)
  \/ goal[c] \in held /\ Responds(c, "2xx", {goal[c]})
  \/ goal[c] \in Release \ held /\ Responds(c, "4xx", Page)

\* Another error, a redirect that is not followed (304), no answer, no request;
\* or a proxy that answers for the Workbench.
Misbehave(c) ==
  \/ \E s \in {"3xx", "4xx", "5xx", "noResponse", "notSent"} : Responds(c, s, Page)
  \/ Responds(c, "2xx", Page)

(***************************************************************************)
(* fetchHttp: data, Undefined, or an exception.                            *)
(***************************************************************************)
Data(d) == [throws |-> "nothing", data |-> d]
Throws(e) == [throws |-> e, data |-> Undefined]

\* 4xx taken for "there is none"; the catch block without its last branches.
FetchOrNone(s, b) == IF s = "4xx" THEN Data({}) ELSE Data(b)
FetchOrPage(s, b) == IF s \in {"4xx", "5xx"} THEN Throws("HTTP") ELSE Data(b)

FetchHttp(s, b) ==
  CASE s = "2xx" -> Data(b)
    [] s = "3xx" -> Data(Undefined)
    [] s = "4xx" -> Throws("BadRequest")
    [] s \in {"5xx", "noResponse"} -> Throws("ServiceUnavailable")
    [] s = "notSent" -> Throws("NotFound")

(***************************************************************************)
(* What the caller is left with.  getCollections maps over the data, which *)
(* throws unless it is an array; getCollectionBundle returns it, and       *)
(* hydrateRelease reads bundle.objects ?? []: of undefined that throws,    *)
(* and of a page it is empty.                                              *)
(***************************************************************************)
Outcome(g, f) ==
  CASE f.throws # "nothing" -> "failed"
    [] f.data = Undefined -> "failed"
    [] f.data = Page -> IF g = AllReleases THEN "failed" ELSE "emptyBundle"
    [] OTHER -> IF g = AllReleases THEN "listing" ELSE "bundle"

Return(c) ==
  /\ http[c] = "answered"
  /\ LET f == FetchHttp(status[c], body[c])
         how == Outcome(goal[c], f)
     IN  /\ outcome' = [outcome EXCEPT ![c] = how]
         /\ result' = [result EXCEPT ![c] = IF how \in {"listing", "bundle"} THEN f.data ELSE {}]
  /\ http' = [http EXCEPT ![c] = "none"]
  /\ UNCHANGED <<held, goal, status, body, during>>

Next ==
  \/ \E r \in Release : Curate(r)
  \/ \E c \in Caller :
       (\E g \in Release \cup {AllReleases} : Ask(c, g)) \/ Answer(c) \/ Misbehave(c) \/ Return(c)

Spec == Init /\ [][Next]_vars

(***************************************************************************)
(* Properties.                                                             *)
(***************************************************************************)
WorkbenchTypeOK ==
  /\ held \subseteq Release
  /\ goal \in [Caller -> Release \cup {AllReleases}]
  /\ http \in [Caller -> {"none", "sent", "answered"}]
  /\ status \in [Caller -> {"2xx", "3xx", "4xx", "5xx", "noResponse", "notSent"}]
  /\ body \in [Caller -> (SUBSET Release) \cup {Page}]
  /\ outcome \in [Caller -> {"none", "listing", "bundle", "emptyBundle", "failed"}]
  /\ result \in [Caller -> SUBSET Release]
  /\ during \in [Caller -> SUBSET SUBSET Release]

\* Why: a 2xx answer other than a proxy's page is what the Workbench held when
\* it was given, which is in the history of the call.
AnswersInv ==
  \A c \in Caller :
    /\ http[c] # "none" => held \in during[c]
    /\ http[c] = "answered" /\ status[c] = "2xx" /\ body[c] # Page =>
         IF goal[c] = AllReleases THEN body[c] \in during[c]
         ELSE body[c] = {goal[c]} /\ goal[c] \in UNION during[c]

\* A listing is what the Workbench held at some moment of the call: no error,
\* however the server or the network fails, passes for a listing that lacks
\* releases, which the pass would delete.
ListingWasTrue ==
  [][\A c \in Caller : Return(c) /\ outcome'[c] = "listing" => result'[c] \in during[c]]_vars

\* A bundle is that of the release asked for, which the Workbench held during
\* the call; it is empty only after a 2xx answer that was none.
BundleWasTrue ==
  [][\A c \in Caller : Return(c) =>
       /\ outcome'[c] = "bundle" => result'[c] = {goal[c]} /\ goal[c] \in UNION during[c]
       /\ outcome'[c] = "emptyBundle" => status[c] = "2xx" /\ body[c] = Page]_vars
=============================================================================
