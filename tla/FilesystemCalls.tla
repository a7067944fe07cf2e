--------------------------- MODULE FilesystemCalls ---------------------------
(***************************************************************************)
(* The hooks implement a plain file system: what a process sees of the view *)
(* between two calls is a FileTree, and each call which succeeds does to it *)
(* what the call says.                                                     *)
(***************************************************************************)
EXTENDS FilesystemIsolation

VARIABLES
    seen,  \* the view when no call was under way
    done   \* the last call which ended, and whether it succeeded

callVars == <<vars, seen, done>>

Quiet == \A p \in Procs : At(p, "idle")

\* The last step of a call which succeeds.
Succeeded(p) ==
    \/ proc[p].pc \in {"opaque", "record", "upper", "mark", "hide"}
    \/ proc[p].pc = "open" /\ handle'[p].open

Ended(p) == proc[p].pc # "idle" /\ proc'[p].pc = "idle"
Asked(p) == [call |-> Req(p).call, path |-> Req(p).path, disp |-> Req(p).disp, edit |-> Req(p).edit, dir |-> Req(p).dir]

Outcome(p) == IF Req(p).call = "close" THEN [closed |-> Req(p).path] ELSE [req |-> Asked(p), ok |-> Succeeded(p)]

CallsInit == Init /\ seen = View(disk, iso) /\ done = [ok |-> FALSE]

CallsNext ==
    /\ Next
    /\ seen' = IF Quiet' THEN View(disk', iso') ELSE seen
    /\ IF \E p \in Procs : Ended(p)
       THEN \E p \in Procs : Ended(p) /\ done' = Outcome(p)
       ELSE done' = done

CallsSpec == CallsInit /\ [][CallsNext]_callVars

\* The view is one file system, whatever layers it is made of: no call makes an
\* entry of a hidden layer come back, loses one it did not name, or reports a
\* success it did not have.
Tree == INSTANCE FileTree WITH tree <- seen
IsFileTree == Tree!Spec
=============================================================================
