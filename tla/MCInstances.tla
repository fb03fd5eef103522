----------------------------- MODULE MCInstances -----------------------------
(* Instances with two isolates, each with its helper. *)
EXTENDS Instances

CONSTANTS i1, i2

MCIsolate == {i1, i2}
=============================================================================
