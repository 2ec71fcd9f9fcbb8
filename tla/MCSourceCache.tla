---------------------------- MODULE MCSourceCache ----------------------------
(***************************************************************************)
(* Instances of SourceCache for TLC: two releases of one collection, the   *)
(* smallest number that can be listed in part, a cache that outlives the   *)
(* request that filled it, and two passes that share it.                   *)
(***************************************************************************)
EXTENDS SourceCache

CONSTANTS enterprise, v1, v2

MCRelease == {[id |-> enterprise, version |-> v1, modified |-> 1],
              [id |-> enterprise, version |-> v2, modified |-> 2]}
=============================================================================
