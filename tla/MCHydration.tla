----------------------------- MODULE MCHydration -----------------------------
(***************************************************************************)
(* Instances of Hydration for TLC.  Three releases of two collections: two *)
(* successive releases of one collection, and a second collection that     *)
(* shares a version with it; bundles of two parts and of one.              *)
(***************************************************************************)
EXTENDS Hydration

CONSTANTS enterprise, mobile, v1, v2

R(c, v) == [id |-> c, version |-> v]

MCRelease == {R(enterprise, v1), R(enterprise, v2), R(mobile, v2)}
MCModified == [r \in MCRelease |-> IF r.version = v1 THEN 1 ELSE 2]
MCBundleSize == [r \in MCRelease |-> IF r.id = enterprise THEN 2 ELSE 1]
MCPart == 1 .. 2

\* The two releases of one collection: enough when passes overlap.
OneCollectionRelease == {R(enterprise, v1), R(enterprise, v2)}
OneCollectionModified == [r \in OneCollectionRelease |-> IF r.version = v1 THEN 1 ELSE 2]
OneCollectionBundleSize == [r \in OneCollectionRelease |-> 2]
=============================================================================
