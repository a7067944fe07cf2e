---------------------------- MODULE MCEnvironment -----------------------------
(* Two variables; two threads of one process and one of another.             *)
EXTENDS EnvironmentState, TLC

CONSTANTS x, y, v, w, p, q, t, u, s

MCComposed == (x :> v) @@ (y :> Gone)
MCEarlier  == {(x :> Gone) @@ (y :> Kept), (x :> w) @@ (y :> v)}
MCBlocks   == {(x :> Gone) @@ (y :> w)}
MCProcessOf == (t :> p) @@ (u :> p) @@ (s :> q)
MCSymmetry  == {(t :> u) @@ (u :> t)}
=============================================================================
