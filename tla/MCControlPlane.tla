---------------------------- MODULE MCControlPlane ----------------------------
(* Small runs for TLC.  A program is a pair of its owner and a number, so that the   *)
(* cfg only names owners.                                                            *)
EXTENDS ControlPlane, TLC

CONSTANTS init, r1, r2

\* One program of the configuration, two of r1 and one of r2.
MCJobs    == {<<init, 1>>, <<r1, 1>>, <<r1, 2>>, <<r2, 1>>}
MCOwnerOf == [j \in MCJobs |-> j[1]]

\* Two programs of the configuration and one of the only request.
MCLiveJobs    == {<<init, 1>>, <<init, 2>>, <<r1, 1>>}
MCLiveOwnerOf == [j \in MCLiveJobs |-> j[1]]

\* The program of r1 ends with a non zero code, those of the configuration with zero.
MCFailing  == {<<r1, 1>>}
=============================================================================
