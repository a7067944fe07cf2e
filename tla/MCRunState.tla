----------------------------- MODULE MCRunState -----------------------------
(* One request of two programs and a state query for TLC. *)
EXTENDS RunState, TLC

CONSTANTS r1, init

MCJobs    == {<<r1, 1>>, <<r1, 2>>}
MCOwnerOf == [j \in MCJobs |-> j[1]]

MCFailing == {<<r1, 1>>}
=============================================================================
