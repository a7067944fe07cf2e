--------------------------- MODULE MCProcessJobSet ---------------------------
(* A small set for TLC: two programs of the configuration and one of a request. *)
EXTENDS ProcessJobSet, TLC

CONSTANTS j1, j2, j3, init, r1

MCOwnerOf == j1 :> init @@ j2 :> init @@ j3 :> r1
=============================================================================
