---------------------------- MODULE StartService ----------------------------
(***************************************************************************)
(* What the master instance of a sandbox promises to the other launchers   *)
(* (docs/Launcher.md, "Two instances of one sandbox"): requests are served *)
(* one at a time and as a whole, each gets one answer that never changes,  *)
(* and once the sandbox closes nothing is started any more.  ControlPlane  *)
(* implements it with a queue, a wakeup and a rollback.                    *)
(***************************************************************************)
CONSTANT Requests

VARIABLES
    request, \* what became of every request
    open     \* the sandbox still starts programs

serviceVars == <<request, open>>

Init ==
    /\ request = [r \in Requests |-> "new"]
    /\ open = TRUE

Move(r, from, to) ==
    /\ request[r] \in from
    /\ request' = [request EXCEPT ![r] = to]

Ask(r) == Move(r, {"new"}, "waiting") /\ UNCHANGED open

\* A request is refused before or while it is served; nothing of it is left.
Refuse(r) == Move(r, {"new", "waiting", "working"}, "failed") /\ UNCHANGED open

Begin(r) ==
    /\ open
    /\ \A q \in Requests : request[q] # "working"
    /\ Move(r, {"waiting"}, "working")
    /\ UNCHANGED open

Finish(r) == open /\ Move(r, {"working"}, "started") /\ UNCHANGED open

\* The sandbox closes between two requests.
Close ==
    /\ \A q \in Requests : request[q] # "working"
    /\ open' = FALSE
    /\ UNCHANGED request

\* The client is told to race for the sandbox again.
TurnAway(r) == ~open /\ Move(r, {"waiting"}, "closed") /\ UNCHANGED open

Next ==
    \/ Close
    \/ \E r \in Requests : Ask(r) \/ Refuse(r) \/ Begin(r) \/ Finish(r) \/ TurnAway(r)

Spec == Init /\ [][Next]_serviceVars
=============================================================================
