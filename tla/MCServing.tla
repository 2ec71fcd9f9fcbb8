------------------------------ MODULE MCServing ------------------------------
(***************************************************************************)
(* Instances of Serving for TLC: the releases of MCHydration.              *)
(***************************************************************************)
EXTENDS Serving

CONSTANTS enterprise, mobile, v1, v2

R(c, v) == [id |-> c, version |-> v]

MCRelease == {R(enterprise, v1), R(enterprise, v2), R(mobile, v2)}
MCModified == [r \in MCRelease |-> IF r.version = v1 THEN 1 ELSE 2]
MCBundleSize == [r \in MCRelease |-> IF r.id = enterprise THEN 2 ELSE 1]
MCPart == 1 .. 2

\* The two releases of one collection: enough when the source delists.
OneCollectionRelease == {R(enterprise, v1), R(enterprise, v2)}
OneCollectionModified == [r \in OneCollectionRelease |-> IF r.version = v1 THEN 1 ELSE 2]
OneCollectionBundleSize == [r \in OneCollectionRelease |-> 2]
=============================================================================
