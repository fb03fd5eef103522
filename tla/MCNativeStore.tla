---------------------------- MODULE MCNativeStore ----------------------------
(***************************************************************************)
(* Two unique indexes and a plain one over objects with two properties.    *)
(* v1 and v2 share the first unique key, v2 and v3 the second, so putting  *)
(* v2 can evict two objects; both properties of v4 are null.               *)
(***************************************************************************)
EXTENDS NativeStore

CONSTANTS v1, v2, v3, v4, toV2, toV4, k1, k2, kNull

MCKeyOf ==
  << [v \in Value |-> CASE v \in {v1, v2} -> k1 [] v = v3 -> k2 [] OTHER -> kNull],
     [v \in Value |-> CASE v \in {v2, v3} -> k1 [] v = v1 -> k2 [] OTHER -> kNull],
     [v \in Value |-> k1] >>

MCHasNull == << Value \cap {v4}, Value \cap {v4}, {} >>

\* toV2 is legal for every object; toV4 is an update of the wrong type.
MCApply ==
  [u \in Update |-> [v \in Value |-> IF u = toV2 THEN v2 ELSE None]]


MCMinId == -1
=============================================================================
