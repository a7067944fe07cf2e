------------------------------ MODULE RunState ------------------------------
(***************************************************************************)
(* The state query of a run (launcher/rpc/RunState.cpp,                    *)
(* ControlPlane::FillRunState): the thread of a session reads the atomic   *)
(* counters one after the other and then the entries of the job set under  *)
(* their mutex, while the control thread and the other handlers go on.     *)
(***************************************************************************)
EXTENDS ControlPlane

VARIABLES
    query, \* where the handler of the query is
    seen,  \* the answer it fills
    known  \* the requests which were answered before the query began

queryVars == <<query, seen, known>>
stateVars == <<vars, queryVars>>

TypeOKQuery ==
    /\ query \in {"new", "queued", "queuedEarly", "handled", "rolledBack", "programs", "answered"}
    /\ seen \in [queued : Nat, queuedEarly : Nat, handled : Nat, rolledBack : Nat,
                 exited : SUBSET Jobs, terminated : SUBSET Jobs]
    /\ known \subseteq Requests

InitQuery ==
    /\ query = "new"
    /\ seen = [queued |-> 0, queuedEarly |-> 0, handled |-> 0, rolledBack |-> 0,
               exited |-> {}, terminated |-> {}]
    /\ known = {}

\* A client asks for the state: what it can know by then are the answers which left.
QueryArrives ==
    /\ query = "new"
    /\ Served
    /\ known' = {r \in Requests : answers[r] # << >>}
    /\ query' = "queued"
    /\ UNCHANGED <<vars, seen>>

ReadCounter(pc, next, counter, value) ==
    /\ query = pc
    /\ seen' = [seen EXCEPT ![counter] = value]
    /\ query' = next
    /\ UNCHANGED <<vars, known>>

FillCounters ==
    \/ ReadCounter("queued", "queuedEarly", "queued", queued)
    \/ ReadCounter("queuedEarly", "handled", "queuedEarly", queuedEarly)
    \/ ReadCounter("handled", "rolledBack", "handled", handled)
    \/ ReadCounter("rolledBack", "programs", "rolledBack", rolledBack)

\* Mutant: a terminated program is reported once it exited.
SnapshotOfExited ==
    /\ query = "programs"
    /\ seen' = [seen EXCEPT !.exited = Entries \cap reported, !.terminated = terminated \cap reported]
    /\ query' = "answered"
    /\ UNCHANGED <<vars, known>>

\* ProcessJobSet::Snapshot().
Snapshot ==
    /\ query = "programs"
    /\ seen' = [seen EXCEPT !.exited = Entries \cap reported, !.terminated = terminated]
    /\ query' = "answered"
    /\ UNCHANGED <<vars, known>>

NextQuery ==
    \/ Next /\ UNCHANGED queryVars
    \/ QueryArrives
    \/ FillCounters
    \/ Snapshot

SpecQuery == Init /\ InitQuery /\ [][NextQuery]_stateVars
-----------------------------------------------------------------------------
\* "The rollback runs before the client of the refused request receives its answer, so
\* the count is complete when that client leaves" (docs/Launcher.md): a query which
\* begins after such an answer counts every terminated program of the request, and
\* reports it as terminated; its list carries every rollback its counter names, although
\* the two are read at different times (FillRunState()).
RollbackIsReported ==
    query = "answered" =>
        LET ofKnown == {j \in terminated : OwnerOf[j] \in known}
        IN  /\ Cardinality(ofKnown) <= seen.rolledBack
            /\ ofKnown \subseteq seen.terminated
            /\ seen.rolledBack <= Cardinality(seen.terminated)

\* A client which was told that its programs started, and then asks for the state of the
\* run, finds its request counted (MultiInstance_Join: handled_requests is 1).
AnsweredIsHandled ==
    query \in {"rolledBack", "programs", "answered"} =>
        Cardinality({r \in known : answers[r] = <<"started">>}) <= seen.handled
=============================================================================
