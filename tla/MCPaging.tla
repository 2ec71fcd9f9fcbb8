------------------------------- MODULE MCPaging -------------------------------
(***************************************************************************)
(* Instances of Paging for TLC.  Object x has three versions, the middle   *)
(* one in STIX 2.0 form, not stamped in the order of the versions; y has   *)
(* one version, no modified date and the stamp of one of x's, z one.       *)
(***************************************************************************)
EXTENDS Paging

Obj(i, t, s, c, m, a) == [id |-> i, type |-> t, spec |-> s, created |-> c, modified |-> m, at |-> a]

x1 == Obj("x", "tool", "2.1", 1, 1, 3)
x2 == Obj("x", "tool", Absent, 1, 2, 1)
x3 == Obj("x", "tool", "2.1", 1, 3, 2)
y1 == Obj("y", "malware", "2.1", 2, Absent, 2)
z1 == Obj("z", "tool", Absent, 2, 4, 4)

MCStores ==
  {{x1, x2, x3, y1}, {x1, x3, y1}, {x1, x3, z1}, {x2, x3, y1}, {x1, x2}, {x1, y1, z1}, {y1}}

NoFilter ==
  [id |-> {}, type |-> {}, spec |-> {}, after |-> Absent, keywords |-> {}, exact |-> <<>>,
   form |-> "usual"]

At(n) == [instant |-> n, millis |-> TRUE]

\* Version filters alone, and each other filter with the defaulted version,
\* with all versions and with the earliest.
MCVersionFilters ==
  {[NoFilter EXCEPT !.keywords = k] : k \in {{}, {"all"}, {"first"}, {"last"}, {"first", "last"}}}
    \cup
  {[NoFilter EXCEPT !.keywords = k, !.exact = e] :
     k \in {{}, {"last"}},
     e \in {<<At(2)>>, <<At(1), At(3)>>, <<[instant |-> 2, millis |-> FALSE]>>}}

MCOtherFilters ==
  {[f EXCEPT !.keywords = k] :
     f \in {[NoFilter EXCEPT !.type = {"tool"}], [NoFilter EXCEPT !.spec = {"2.0"}],
            [NoFilter EXCEPT !.spec = {"2.1", "2.2"}, !.after = 1], [NoFilter EXCEPT !.after = Garbage],
            [NoFilter EXCEPT !.id = {"y", "z"}, !.spec = {"2.0", "2.1"}]},
     k \in {{}, {"all"}, {"first"}}}

\* match[version]= and match[version]=last,last, alone and with another filter.
MCOddFilters ==
  {[f EXCEPT !.form = "blank"] :
     f \in {NoFilter, [NoFilter EXCEPT !.spec = {"2.0"}]}}
    \cup
  {[f EXCEPT !.form = "twice", !.keywords = {"last"}] :
     f \in {NoFilter, [NoFilter EXCEPT !.spec = {"2.0"}]}}

MCFilters == MCVersionFilters \cup MCOtherFilters \cup MCOddFilters

MCRequests ==
  [endpoint : {"objects", "manifest"}, object : {"x"}, filter : MCFilters, limit : {NoLimit, 1, 2}]
    \cup
  [endpoint : {"object"}, object : {"x"}, filter : MCFilters, limit : {1, 2}]
    \cup
  [endpoint : {"versions"}, object : {"x", "y"}, filter : MCVersionFilters \cup MCOddFilters,
   limit : {1, 2}]

\* What NumberQuery makes of limit=0 and limit=-1.
MCNoPageRequests ==
  [endpoint : {"objects"}, object : {"x"}, filter : {[NoFilter EXCEPT !.keywords = {"all"}]},
   limit : {0, -1}]
=============================================================================
