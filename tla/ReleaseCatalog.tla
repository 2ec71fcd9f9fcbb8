---------------------------- MODULE ReleaseCatalog ----------------------------
(***************************************************************************)
(* What the collector promises the API server for a source that never      *)
(* delists (service comment, src/src/hydrate/hydrate.service.ts:25-34): a  *)
(* release appears to clients all at once and complete, it never changes   *)
(* or goes away afterwards, and the default API root of a collection cuts  *)
(* over in one step to the newest release that has appeared.               *)
(*                                                                         *)
(* There is no pass, no process and no failure here: Hydration is shown to *)
(* implement this module whatever crashes in the middle of a pass.         *)
(***************************************************************************)
EXTENDS Integers

CONSTANTS Collection, Release, Modified, Whole, Unavailable, NoDefault

VARIABLES
  content,   \* what the documents and objects of each release amount to
  default    \* the version the default root of each collection serves

vars == <<content, default>>

Init ==
  /\ content = [r \in Release |-> Unavailable]
  /\ default = [c \in Collection |-> NoDefault]

Available == {r \in Release : content[r] # Unavailable}

\* A release appears: the whole bundle, each object once.
Appear(r) ==
  /\ r \notin Available
  /\ content' = [content EXCEPT ![r] = Whole[r]]
  /\ UNCHANGED default

\* The default root cuts over to the newest release that has appeared.
CutOver(r) ==
  /\ r \in Available
  /\ \A s \in Available : s.id = r.id => Modified[s] <= Modified[r]
  /\ default' = [default EXCEPT ![r.id] = r.version]
  /\ UNCHANGED content

Next == \E r \in Release : Appear(r) \/ CutOver(r)

Spec == Init /\ [][Next]_vars
=============================================================================
