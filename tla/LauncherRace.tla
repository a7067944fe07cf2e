---------------------------- MODULE LauncherRace -----------------------------
(***************************************************************************)
(* The launchers of one sandbox (launcher/main.cpp, RunLauncher()): they    *)
(* race for the name of its control pipe, the one which creates it serves   *)
(* the sandbox, and the others hand their request over to it, or race again *)
(* when it is closing. The server side is the accept thread and the stop of *)
(* RemoteAccepter (common/details/RemoteAccepterDetail.hpp); a session is   *)
(* one link, whose inside is the module RemoteSession, and the serving of a *)
(* request is one step, whose inside is the module ControlPlane.            *)
(*                                                                         *)
(* A launcher and the request of its command line have one name.           *)
(***************************************************************************)
EXTENDS Naturals, FiniteSets

CONSTANTS
    Launchers,
    NoLauncher,
    RaceBudget,       \* kShutdownRaceBudgetMs, in units of the first delay
    MaxDelay,         \* kShutdownRaceMaxDelayMs, in the same units
    MaxAcceptRetries, \* how many delays kAcceptRetryDelaysMs has
    Scenarios         \* who comes, with which budget, and the faults which may happen

\* "gap": another process runs between the end of the last instance of the pipe and the
\* creation of the next one; "transient", "fatal": an instance cannot be created;
\* "crash": a master instance dies; "slow": a master does not answer a request in time.
RaceFaults == {"gap", "transient", "fatal", "crash", "slow"}

ASSUME RaceAssumption ==
    /\ IsFiniteSet(Launchers)
    /\ NoLauncher \notin Launchers
    /\ RaceBudget \in Nat /\ MaxDelay \in Nat \ {0} /\ MaxAcceptRetries \in Nat
    /\ Scenarios \subseteq [comes : SUBSET Launchers, budget : 0 .. RaceBudget,
                                faults : SUBSET RaceFaults]

VARIABLES
    pc,       \* where every launcher is
    exit,     \* its exit code
    retry,    \* what is left of the budget of its race, and its next delay
    mounted,  \* the launchers whose runtime of the sandbox exists
    running,  \* the requests whose programs run, by the launcher which started them
    served,   \* the pairs of a launcher and a request it started
    accepts,  \* the launchers whose accept thread serves
    listener, \* the instance the accept thread of every launcher owns
    failures, \* accept_retry, and how many creations failed in a row
    ghosts,   \* the launchers with a session whose peer left
    link,     \* the connection of every launcher to a server
    asked,    \* the requests sent and not answered, also those whose launcher gave up
    answer,   \* the answer which is on its way to every launcher
    faults    \* the faults which may happen, chosen at the start and fixed

clientVars == <<retry, link, asked, answer>>
runVars    == <<mounted, running, served>>
pipeVars   == <<accepts, listener, failures, ghosts>>
moves      == <<pc, exit, clientVars, runVars, pipeVars>>
vars       == <<moves, faults>>

NoLink == [to |-> NoLauncher, at |-> "none"]

TypeOK ==
    /\ pc \in [Launchers -> {"race", "probe", "connect", "verify", "call", "prepare", "serve", "end",
                             "stop", "closing", "left"}]
    /\ exit \in [Launchers -> {"none", "ok", "refused", "failed", "timeout", "unanswered", "denied",
                               "mismatch", "died", "crashed"}]
    /\ retry \in [Launchers -> [budget : 0 .. RaceBudget, delay : 1 .. MaxDelay]]
    /\ mounted \subseteq Launchers
    /\ running \in [Launchers -> SUBSET Launchers]
    /\ served \subseteq Launchers \X Launchers
    /\ accepts \subseteq Launchers
    /\ listener \in [Launchers -> {"none", "free", "taken", "abandoned"}]
    /\ failures \in [Launchers -> [ever : 0 .. MaxAcceptRetries, row : 0 .. MaxAcceptRetries + 1]]
    /\ ghosts \subseteq Launchers
    /\ link \in [Launchers -> [to : Launchers \cup {NoLauncher},
                               at : {"none", "pipe", "session", "gone", "broken"}]]
    /\ asked \subseteq Launchers
    /\ answer \in [Launchers -> {"none", "started", "refused", "shutting"}]
    /\ faults \subseteq RaceFaults

Init ==
    /\ \E s \in Scenarios :
          /\ pc = [l \in Launchers |-> IF l \in s.comes THEN "race" ELSE "left"]
          /\ retry = [l \in Launchers |-> [budget |-> s.budget, delay |-> 1]]
          /\ faults = s.faults
    /\ exit = [l \in Launchers |-> "none"]
    /\ mounted = {}
    /\ running = [l \in Launchers |-> {}]
    /\ served = {}
    /\ accepts = {}
    /\ listener = [l \in Launchers |-> "none"]
    /\ failures = [l \in Launchers |-> [ever |-> 0, row |-> 0]]
    /\ ghosts = {}
    /\ link = [l \in Launchers |-> NoLink]
    /\ asked = {}
    /\ answer = [l \in Launchers |-> "none"]
-----------------------------------------------------------------------------
(* The name of the pipe exists while a server end of it is open.           *)

Linked(m, at) == {l \in Launchers : link[l] = [to |-> m, at |-> at]}

HoldsName(m) == listener[m] # "none" \/ m \in ghosts \/ Linked(m, "session") # {}
NameExists   == \E m \in Launchers : HoldsName(m)
Free         == {m \in Launchers : listener[m] = "free"}

Goes(l, from, to) == pc[l] = from /\ pc' = [pc EXCEPT ![l] = to]

Leaves(l, code) ==
    /\ pc' = [pc EXCEPT ![l] = "left"]
    /\ exit' = [exit EXCEPT ![l] = code]
-----------------------------------------------------------------------------
(* A launcher which races for the pipe, and its handover to the master.     *)

\* CreateCompetitive(): the first instance is created, or the name is taken.
Race(l) ==
    /\ IF NameExists
       THEN /\ Goes(l, "race", "probe")
            /\ UNCHANGED <<accepts, listener, mounted>>
       ELSE /\ Goes(l, "race", "prepare")
            /\ accepts' = accepts \cup {l}
            /\ listener' = [listener EXCEPT ![l] = "free"]
            /\ mounted' = mounted \cup {l}
    /\ UNCHANGED <<exit, clientVars, running, served, failures, ghosts>>

\* AccepterPeerIsReachable(): the probe connects and closes at once, which uses up an
\* instance; a name whose instances all serve a client is reachable too.
Probe(l) ==
    /\ \/ \E m \in Free :
            /\ Goes(l, "probe", "connect")
            /\ listener' = [listener EXCEPT ![m] = "abandoned"]
            /\ UNCHANGED exit
       \/ /\ Free = {} /\ NameExists
          /\ Goes(l, "probe", "connect")
          /\ UNCHANGED <<listener, exit>>
       \/ /\ pc[l] = "probe" /\ ~NameExists
          /\ Leaves(l, "denied")
          /\ UNCHANGED listener
    /\ UNCHANGED <<clientVars, runVars, accepts, failures, ghosts>>

\* NextShutdownRetry(): whether there is another race, and what is left for the next one.
NextShutdownRetry(r) ==
    IF r.budget = 0 \/ r.delay > r.budget
    THEN [ok |-> FALSE, next |-> r]
    ELSE [ok |-> TRUE, next |-> [budget |-> r.budget - r.delay,
                                 delay |-> IF r.delay * 2 > MaxDelay THEN MaxDelay
                                                                     ELSE r.delay * 2]]

\* The handover asks for another race; the launcher lets go of its connection.
RaceAgain(l) ==
    LET r == NextShutdownRetry(retry[l]) IN
    /\ IF r.ok
       THEN /\ pc' = [pc EXCEPT ![l] = "race"]
            /\ UNCHANGED exit
       ELSE Leaves(l, "timeout")
    /\ retry' = [retry EXCEPT ![l] = r.next]

LetsGo(l) ==
    /\ link' = [link EXCEPT ![l] = NoLink]
    /\ answer' = [answer EXCEPT ![l] = "none"]
    /\ ghosts' = IF link[l].at = "session" THEN ghosts \cup {link[l].to} ELSE ghosts

\* RemoteConnector::Connect(), which waits for a free instance until its time is up.
Connect(l) ==
    /\ \/ \E m \in Free :
            /\ Goes(l, "connect", "verify")
            /\ listener' = [listener EXCEPT ![m] = "taken"]
            /\ link' = [link EXCEPT ![l] = [to |-> m, at |-> "pipe"]]
            /\ UNCHANGED <<exit, retry>>
       \/ /\ pc[l] = "connect" /\ Free = {}
          /\ RaceAgain(l)
          /\ UNCHANGED <<listener, link>>
    /\ UNCHANGED <<asked, answer, runVars, accepts, failures, ghosts>>

\* VerifyMasterInstance() reads the identity of a process, which may have left; the
\* request is sent to a server which is verified.
Verify(l) ==
    /\ pc[l] = "verify"
    /\ IF pc[link[l].to] = "left"
       THEN /\ Leaves(l, "mismatch")
            /\ UNCHANGED asked
       ELSE /\ Goes(l, "verify", "call")
            /\ asked' = IF link[l].at = "broken" THEN asked ELSE asked \cup {l}
            /\ UNCHANGED exit
    /\ UNCHANGED <<retry, link, answer, runVars, pipeVars>>

ReadAnswer(l) ==
    /\ pc[l] = "call"
    /\ answer[l] # "none"
    /\ CASE answer[l] = "started"  -> Leaves(l, "ok") /\ UNCHANGED retry
         [] answer[l] = "refused"  -> Leaves(l, "refused") /\ UNCHANGED retry
         [] answer[l] = "shutting" -> RaceAgain(l)
    /\ LetsGo(l)
    /\ UNCHANGED <<asked, runVars, accepts, listener, failures>>

\* Mutant: a connection which closed leaves the caller waiting.
CallWaitsForEver(l) ==
    /\ pc[l] = "call"
    /\ link[l].at = "broken" /\ answer[l] = "none"
    /\ LetsGo(l)
    /\ UNCHANGED <<pc, exit, retry, asked, runVars, accepts, listener, failures>>

\* The connection closed before the answer arrived.
CallBreaks(l) ==
    /\ pc[l] = "call"
    /\ link[l].at = "broken" /\ answer[l] = "none"
    /\ RaceAgain(l)
    /\ LetsGo(l)
    /\ UNCHANGED <<asked, runVars, accepts, listener, failures>>

\* The deadline of the call (kSecondaryStartTimeoutMs): the launcher leaves without another race,
\* and its request stays with the server. The process reports ERROR_TIMEOUT, like one whose
\* budget is used up; the two ends have different names here.
CallTimesOut(l) ==
    /\ "slow" \in faults
    /\ pc[l] = "call"
    /\ link[l].at \in {"pipe", "session"} /\ answer[l] = "none"
    /\ Leaves(l, "unanswered")
    /\ UNCHANGED <<clientVars, runVars, pipeVars>>

Client(l) == Race(l) \/ Probe(l) \/ Connect(l) \/ Verify(l) \/ ReadAnswer(l) \/ CallBreaks(l)
-----------------------------------------------------------------------------
(* The accept thread of a master instance: RemoteAccepter::Run().          *)

Break(ls) == [l \in Launchers |-> IF l \in ls THEN [link[l] EXCEPT !.at = "broken"] ELSE link[l]]

AcceptUnchanged == UNCHANGED <<pc, exit, retry, asked, answer, runVars>>

\* OnConnected(): the instance belongs to a session, the next one is still to come.
AcceptClient(m) ==
    /\ m \in accepts
    /\ listener[m] = "taken"
    /\ link' = [l \in Launchers |-> IF l \in Linked(m, "pipe") THEN [to |-> m, at |-> "session"]
                                                               ELSE link[l]]
    /\ listener' = [listener EXCEPT ![m] = "none"]
    /\ UNCHANGED <<accepts, failures, ghosts>>
    /\ AcceptUnchanged

\* A client which connected and left: the instance is closed, or handed to a session
\* which ends at once.
AcceptAbandoned(m) ==
    /\ m \in accepts
    /\ listener[m] = "abandoned"
    /\ listener' = [listener EXCEPT ![m] = IF "gap" \in faults THEN "none" ELSE "free"]
    /\ ghosts' \in {ghosts, ghosts \cup {m}}
    /\ UNCHANGED <<accepts, failures, link>>
    /\ AcceptUnchanged

CreateNextInstance(m) ==
    /\ m \in accepts
    /\ listener[m] = "none"
    /\ listener' = [listener EXCEPT ![m] = "free"]
    /\ failures' = [failures EXCEPT ![m].row = 0]
    /\ UNCHANGED <<accepts, ghosts, link>>
    /\ AcceptUnchanged

\* HandleAcceptFailure(): a transient failure is retried while accept_retry has a delay
\* left; the control plane is told of any other one.
HandleAcceptFailure(m) ==
    /\ m \in accepts
    /\ listener[m] = "none"
    /\ \/ /\ "transient" \in faults
          /\ failures[m].ever < MaxAcceptRetries
          /\ failures' = [failures EXCEPT ![m].ever = @ + 1, ![m].row = @ + 1]
          /\ UNCHANGED accepts
       \/ /\ "transient" \in faults
          /\ failures[m].ever = MaxAcceptRetries
          /\ failures' = [failures EXCEPT ![m].row = @ + 1]
          /\ accepts' = accepts \ {m}
       \/ /\ "fatal" \in faults
          /\ accepts' = accepts \ {m}
          /\ UNCHANGED failures
    /\ UNCHANGED <<listener, ghosts, link>>
    /\ AcceptUnchanged

\* The client which has the instance gave up before it was accepted: the instance is closed
\* with what is in it. (Or it is handed to a session, which finds the request: AcceptClient.)
AcceptGone(m) ==
    /\ m \in accepts
    /\ listener[m] = "taken"
    /\ \E l \in Linked(m, "pipe") :
          /\ pc[l] = "left"
          /\ link' = Break({l})
          /\ asked' = asked \ {l}
    /\ listener' = [listener EXCEPT ![m] = IF "gap" \in faults THEN "none" ELSE "free"]
    /\ UNCHANGED <<pc, exit, retry, answer, runVars, accepts, failures, ghosts>>

\* The session of a client which gave up sees its end and closes; its request is in the queue
\* of the server, which still serves it.
PeerGone(m) ==
    /\ "gap" \in faults \/ m \notin accepts \/ listener[m] # "none"
    /\ \E l \in Linked(m, "session") :
          /\ pc[l] = "left"
          /\ link' = [link EXCEPT ![l].at = IF l \in asked THEN "gone" ELSE "broken"]
    /\ UNCHANGED <<accepts, listener, failures, ghosts>>
    /\ AcceptUnchanged

\* The session of a client which left closes its end of the pipe.
SessionEnds(m) ==
    /\ m \in ghosts
    /\ "gap" \in faults \/ m \notin accepts \/ listener[m] # "none"
    /\ ghosts' = ghosts \ {m}
    /\ UNCHANGED <<accepts, listener, failures, link>>
    /\ AcceptUnchanged

Accept(m) ==
    AcceptClient(m) \/ AcceptAbandoned(m) \/ CreateNextInstance(m) \/ HandleAcceptFailure(m)
        \/ SessionEnds(m) \/ AcceptGone(m) \/ PeerGone(m)
-----------------------------------------------------------------------------
(* A master instance: RunMasterInstance().                                 *)

\* The sandbox is prepared and the programs of the configuration start.
Prepare(m) ==
    /\ Goes(m, "prepare", "serve")
    /\ running' = [running EXCEPT ![m] = {m}]
    /\ served' = served \cup {<<m, m>>}
    /\ UNCHANGED <<exit, clientVars, mounted, pipeVars>>

PrepareFails(m) ==
    /\ Goes(m, "prepare", "stop")
    /\ exit' = [exit EXCEPT ![m] = "failed"]
    /\ mounted' = mounted \ {m}
    /\ UNCHANGED <<clientVars, running, served, pipeVars>>

\* A request the server m has in its queue, whether or not its session still stands.
Queued(m) == asked \cap (Linked(m, "session") \cup Linked(m, "gone"))

\* The answer of a launcher which gave up goes nowhere.
Answers(l, text) ==
    /\ asked' = asked \ {l}
    /\ answer' = IF pc[l] = "left" THEN answer ELSE [answer EXCEPT ![l] = text]
    /\ UNCHANGED <<pc, exit, retry, link, mounted, pipeVars>>

\* Mutant: the programs of a request which failed are not rolled back.
ServeWithoutRollback(m, l) ==
    /\ pc[m] = "serve"
    /\ l \in Queued(m)
    /\ \E text \in {"started", "refused"} : Answers(l, text)
    /\ running' = [running EXCEPT ![m] = @ \cup {l}]
    /\ served' = served \cup {<<m, l>>}

ServeRequest(m, l) ==
    /\ pc[m] = "serve"
    /\ l \in Queued(m)
    /\ \/ /\ Answers(l, "started")
          /\ running' = [running EXCEPT ![m] = @ \cup {l}]
          /\ served' = served \cup {<<m, l>>}
       \/ /\ Answers(l, "refused")
          /\ UNCHANGED <<running, served>>

\* The run ended: a request which waits, or arrives now, is turned away.
TurnAway(m, l) ==
    /\ pc[m] \in {"end", "stop", "closing"}
    /\ l \in Queued(m)
    /\ Answers(l, "shutting")
    /\ UNCHANGED <<running, served>>

ProgramsEnd(m) ==
    /\ running[m] # {}
    /\ \E l \in running[m] : running' = [running EXCEPT ![m] = @ \ {l}]
    /\ UNCHANGED <<pc, exit, clientVars, mounted, served, pipeVars>>

\* Every program exited, or the accept thread gave up.
EndRun(m) ==
    /\ Goes(m, "serve", "end")
    /\ \/ running[m] = {} /\ exit' = [exit EXCEPT ![m] = "ok"]
       \/ m \notin accepts /\ exit' = [exit EXCEPT ![m] = "died"]
    /\ UNCHANGED <<clientVars, runVars, pipeVars>>

\* Mutant: the pipe is closed before the sandbox is unmounted.
StopBeforeUnmount(m) ==
    /\ Goes(m, "end", "closing")
    /\ accepts' = accepts \ {m}
    /\ UNCHANGED <<exit, clientVars, runVars, listener, failures, ghosts>>

\* LauncherApp().runtime.reset().
Unmount(m) ==
    /\ Goes(m, "end", "stop")
    /\ mounted' = mounted \ {m}
    /\ UNCHANGED <<exit, clientVars, running, served, pipeVars>>

\* RemoteAccepter::Stop() of StopServing(): the accept thread is told to leave, which may
\* still hand over the client it has; then every session is drained and closed.
StopServing(m) ==
    /\ Goes(m, "stop", "closing")
    /\ accepts' = accepts \ {m}
    /\ link' \in {link, [l \in Launchers |->
                            IF l \in Linked(m, "pipe") THEN [to |-> m, at |-> "session"] ELSE link[l]]}
    /\ listener' = IF listener[m] = "taken" /\ link' # link THEN [listener EXCEPT ![m] = "none"]
                                                            ELSE listener
    /\ UNCHANGED <<exit, retry, asked, answer, runVars, failures, ghosts>>

AcceptStops(m) ==
    /\ pc[m] = "closing"
    /\ listener[m] # "none"
    /\ listener' = [listener EXCEPT ![m] = "none"]
    /\ link' = Break(Linked(m, "pipe"))
    /\ asked' = asked \ Linked(m, "pipe")
    /\ UNCHANGED <<pc, exit, retry, answer, runVars, accepts, failures, ghosts>>

\* Mutant: a session is closed without its answers being written.
CloseSessionUndrained(m, l) ==
    /\ pc[m] = "closing"
    /\ l \in Linked(m, "session")
    /\ link' = Break({l})
    /\ asked' = asked \ {l}
    /\ answer' = [answer EXCEPT ![l] = "none"]
    /\ UNCHANGED <<pc, exit, retry, runVars, pipeVars>>

\* The answers of a session are in the pipe before its end is closed.
CloseSession(m, l) ==
    /\ pc[m] = "closing"
    /\ l \in Linked(m, "session")
    /\ link' = Break({l})
    /\ asked' = asked \ {l}
    /\ UNCHANGED <<pc, exit, retry, answer, runVars, pipeVars>>

\* The process ends, and with its job objects the programs which still run.
MasterLeaves(m) ==
    /\ ~HoldsName(m)
    /\ Goes(m, "closing", "left")
    /\ running' = [running EXCEPT ![m] = {}]
    /\ UNCHANGED <<exit, clientVars, mounted, served, pipeVars>>

Master(m) ==
    \/ Prepare(m) \/ PrepareFails(m) \/ EndRun(m) \/ Unmount(m) \/ StopServing(m)
    \/ AcceptStops(m) \/ MasterLeaves(m)
    \/ \E l \in Launchers : ServeRequest(m, l) \/ TurnAway(m, l) \/ CloseSession(m, l)

\* A master instance dies: what it did not write is lost, and its programs die with it.
Crash(m) ==
    /\ "crash" \in faults
    /\ pc[m] \in {"prepare", "serve", "end", "stop", "closing"}
    /\ Leaves(m, "crashed")
    /\ mounted' = mounted \ {m}
    /\ running' = [running EXCEPT ![m] = {}]
    /\ accepts' = accepts \ {m}
    /\ listener' = [listener EXCEPT ![m] = "none"]
    /\ ghosts' = ghosts \ {m}
    /\ LET lost == Linked(m, "pipe") \cup Linked(m, "session") \cup Linked(m, "gone") IN
          /\ link' = Break(lost)
          /\ asked' = asked \ lost
          /\ \E some \in SUBSET lost :
                answer' = [l \in Launchers |-> IF l \in some THEN "none" ELSE answer[l]]
    /\ UNCHANGED <<retry, served, failures>>
-----------------------------------------------------------------------------
Next ==
    /\ \E l \in Launchers : \/ Client(l) \/ CallTimesOut(l) \/ Accept(l)
                           \/ Master(l) \/ ProgramsEnd(l) \/ Crash(l)
    /\ UNCHANGED faults

Spec == Init /\ [][Next]_vars

\* Every thread is scheduled, and programs end.
Fairness ==
    \A l \in Launchers : WF_moves(Client(l)) /\ WF_moves(Accept(l)) /\ WF_moves(Master(l))
                            /\ WF_moves(ProgramsEnd(l))

FairSpec == Spec /\ Fairness
-----------------------------------------------------------------------------
\* The launchers which started the programs of the request l and did not die since.
Starters(l) == {m \in Launchers : <<m, l>> \in served /\ exit[m] # "crashed"}

\* "The launcher which creates the first instance of the pipe serves the sandbox, and
\* every other launcher of the same sandbox hands its request over to it"
\* (RunLauncher()): no two launchers have the sandbox mounted at a time, while another
\* instance of the pipe exists before the last one is closed.
OneRuntime == faults \subseteq {"crash", "slow"} => Cardinality(mounted) <= 1

\* However often a request is raced again, its programs are started once
\* (RunSecondaryInstance(), RemoteAccepter::Stop()).
StartedOnce == \A l \in Launchers : Cardinality(Starters(l)) <= 1

\* What the end of a launcher tells of its programs (LauncherStartExitCode(),
\* RunSecondaryInstance(), RunMasterInstance()): they were started, or no living server started
\* them. One which gave up waiting for the answer knows neither: the server it asked may have
\* started them, or start them later, and no other server does.
OutcomeIsTrue ==
    \A l \in Launchers :
        /\ exit[l] = "ok" => \E m \in Launchers : <<m, l>> \in served
        /\ exit[l] \in {"refused", "failed", "timeout", "denied", "mismatch"} => Starters(l) = {}
        /\ exit[l] = "unanswered" => Starters(l) \subseteq {link[l].to}

\* Every launcher leaves: it starts its programs and serves the sandbox to its end, hands
\* them over, or uses up the budget of its race (RunLauncher()).
EveryLauncherLeaves == <>(\A l \in Launchers : pc[l] = "left")

\* "Only a name whose access control refuses the connection belongs to another user"
\* (docs/Launcher.md): in a sandbox of one user nobody is told so.
NobodyIsDenied == \A l \in Launchers : exit[l] # "denied"

\* A server which fails the check of its identity is another program, while "a connection
\* which closes is a peer which went away" and is raced again (docs/Launcher.md).
NobodyIsMismatched == \A l \in Launchers : exit[l] # "mismatch"

\* "The name of the sandbox never disappears while the server serves"
\* (RemoteAccepter::Run()), so that no two launchers have the sandbox mounted at a time.
OneRuntimeEver == Cardinality(mounted) <= 1
=============================================================================
