---------------------------- MODULE ControlPlane ----------------------------
(***************************************************************************)
(* The control layer of the master instance of a sandbox                   *)
(* (launcher/control/ControlPlane.cpp, launcher/main.cpp,                  *)
(* launcher/rpc/LauncherStart.cpp).  The master prepares the sandbox, starts *)
(* the programs of its own configuration and serves the start requests of  *)
(* other launchers until every program ended and no request waits.         *)
(*                                                                         *)
(* Threads: the control thread (`control`); one thread per session, which  *)
(* runs the handler of its start request (`handler`) and hands the request *)
(* over through the queue; the accept thread, which reports the failure of *)
(* the pipe; and the kernel, in which programs end.                        *)
(***************************************************************************)
EXTENDS ProcessJobSet, Sequences

CONSTANTS
    Requests,     \* the start requests of the other launchers, one session each
    AcceptThread, \* the thread which accepts connections
    MaxQueue,     \* kMaxQueuedRequests
    NoRequest,    \* the control thread works on no request
    Failing       \* the programs whose process ends with a non zero code

ASSUME ControlAssumption ==
    /\ IsFiniteSet(Requests)
    /\ Owners = Requests \cup {Initial}
    /\ Initial \notin Requests
    /\ NoRequest \notin Requests
    /\ AcceptThread \notin Requests
    /\ Wakers = Requests \cup {AcceptThread}
    /\ MaxQueue \in Nat
    /\ Failing \subseteq Jobs

VARIABLES
    control,      \* where the control thread is
    handler,      \* where the handler of every request is
    queue,        \* requests which wait for the control thread (Data::queue)
    current,      \* the request the control thread works on
    swapped,      \* the requests Shutdown() took out of the queue
    killed,       \* what TerminateRequest() returned
    answers,      \* the answers sent for every request, in order
    requestId,    \* the id of the run each request got, zero before
    nextId,       \* Data::next_request_id
    prepared,     \* run_facts.prepared: the sandbox exists
    runtime,      \* LauncherApp().runtime is set
    shuttingDown, \* Data::shutting_down
    acceptFailed, \* Data::accept_failed
    queued,       \* Data::queued_requests
    queuedEarly,  \* Data::queued_before_prepared
    handled,      \* Data::handled_requests
    rolledBack,   \* Data::rolled_back_processes
    exitCode      \* the exit code of the run: "zero", "nonzero"

countVars   == <<queued, queuedEarly, handled, rolledBack>>
runVars     == <<prepared, runtime, shuttingDown, acceptFailed, exitCode>>
requestVars == <<handler, answers, requestId, nextId>>
workVars    == <<queue, current, swapped, killed>>
ctlVars     == <<control, requestVars, workVars, runVars, countVars>>
vars        == <<setVars, ctlVars>>

Answers == {"started", "startFailed", "refused", "busy", "shuttingDown"}

\* The origin of a job and the id of its request, which TerminateRequest() compares.
IdOf(j) == IF OwnerOf[j] = Initial THEN 0 ELSE requestId[OwnerOf[j]]

Programs(o) == {j \in Jobs : OwnerOf[j] = o}
Unstarted(o) == {j \in Programs(o) : stage[j] = "none"}

Served == control \notin {"reset", "gone"}

ControlPc ==
    {"prepare", "initial", "poll", "drain", "process", "rollback", "countRollback",
     "refuse", "reply", "count", "wait", "idle", "collect", "shutdown", "swap", "turnAway",
     "stop", "reset", "gone"}

HandlerPc == {"new", "enqueue", "sayShutdown", "sayBusy", "wake", "countEarly", "returned"}

TypeOK ==
    /\ TypeOKSet
    /\ control \in ControlPc
    /\ handler \in [Requests -> HandlerPc]
    /\ queue \in Seq(Requests)
    /\ current \in Requests \cup {NoRequest}
    /\ swapped \in Seq(Requests)
    /\ killed \in Nat
    /\ answers \in [Requests -> Seq(Answers)]
    /\ requestId \in [Requests -> Nat]
    /\ nextId \in Nat \ {0}
    /\ {prepared, runtime, shuttingDown, acceptFailed} \subseteq BOOLEAN
    /\ queued \in Nat
    /\ queuedEarly \in Nat
    /\ handled \in Nat
    /\ rolledBack \in Nat
    /\ exitCode \in {"zero", "nonzero"}

Init ==
    /\ InitSet
    /\ control = "prepare"
    /\ handler = [r \in Requests |-> "new"]
    /\ queue = << >>
    /\ current = NoRequest
    /\ swapped = << >>
    /\ killed = 0
    /\ answers = [r \in Requests |-> << >>]
    /\ requestId = [r \in Requests |-> 0]
    /\ nextId = 1
    /\ prepared = FALSE
    /\ runtime = FALSE
    /\ shuttingDown = FALSE
    /\ acceptFailed = FALSE
    /\ queued = 0
    /\ queuedEarly = 0
    /\ handled = 0
    /\ rolledBack = 0
    /\ exitCode = "zero"

\* SendResponse of a request over its session.
Answer(r, a) == answers' = [answers EXCEPT ![r] = Append(@, a)]
-----------------------------------------------------------------------------
(* The handler of a start request, on the thread of its session.           *)

\* The fields, the client, the sandbox or its root refuse the request; otherwise it
\* goes on to Enqueue().
HandlerChecks(r) ==
    /\ handler[r] = "new"
    /\ Served
    /\ \/ Answer(r, "refused") /\ handler' = [handler EXCEPT ![r] = "returned"]
       \/ UNCHANGED answers /\ handler' = [handler EXCEPT ![r] = "enqueue"]
    /\ UNCHANGED <<setVars, control, requestId, nextId, workVars, runVars, countVars>>

\* LauncherApp().control is gone: the request is dropped without an answer.
HandlerDrops(r) ==
    /\ handler[r] = "new"
    /\ ~Served
    /\ handler' = [handler EXCEPT ![r] = "returned"]
    /\ UNCHANGED <<setVars, control, answers, requestId, nextId, workVars, runVars, countVars>>

\* Mutant: every request gets the same id.
EnqueueSameId(r) ==
    /\ handler[r] = "enqueue"
    /\ requestId' = [requestId EXCEPT ![r] = nextId]
    /\ UNCHANGED nextId
    /\ IF shuttingDown
       THEN handler' = [handler EXCEPT ![r] = "sayShutdown"] /\ UNCHANGED queue
       ELSE IF Len(queue) >= MaxQueue
       THEN handler' = [handler EXCEPT ![r] = "sayBusy"] /\ UNCHANGED queue
       ELSE handler' = [handler EXCEPT ![r] = "wake"] /\ queue' = Append(queue, r)
    /\ UNCHANGED <<setVars, control, answers, current, swapped, killed, runVars, countVars>>

\* Mutant: the end of the run is not looked at under the lock.
EnqueueAfterShutdown(r) ==
    /\ handler[r] = "enqueue"
    /\ requestId' = [requestId EXCEPT ![r] = nextId]
    /\ nextId' = nextId + 1
    /\ IF Len(queue) >= MaxQueue
       THEN handler' = [handler EXCEPT ![r] = "sayBusy"] /\ UNCHANGED queue
       ELSE handler' = [handler EXCEPT ![r] = "wake"] /\ queue' = Append(queue, r)
    /\ UNCHANGED <<setVars, control, answers, current, swapped, killed, runVars, countVars>>

\* Enqueue() up to the end of its lock.
Enqueue(r) ==
    /\ handler[r] = "enqueue"
    /\ requestId' = [requestId EXCEPT ![r] = nextId]
    /\ nextId' = nextId + 1
    /\ IF shuttingDown
       THEN handler' = [handler EXCEPT ![r] = "sayShutdown"] /\ UNCHANGED queue
       ELSE IF Len(queue) >= MaxQueue
       THEN handler' = [handler EXCEPT ![r] = "sayBusy"] /\ UNCHANGED queue
       ELSE handler' = [handler EXCEPT ![r] = "wake"] /\ queue' = Append(queue, r)
    /\ UNCHANGED <<setVars, control, answers, current, swapped, killed, runVars, countVars>>

\* The two refusals of Enqueue() are answered by the handler itself.
HandlerTurnsAway(r) ==
    /\ handler[r] \in {"sayShutdown", "sayBusy"}
    /\ Answer(r, IF handler[r] = "sayBusy" THEN "busy" ELSE "shuttingDown")
    /\ handler' = [handler EXCEPT ![r] = "returned"]
    /\ UNCHANGED <<setVars, control, requestId, nextId, workVars, runVars, countVars>>

HandlerWakes(r) ==
    /\ handler[r] = "wake"
    /\ WakeExchange(r) \/ WakePost(r)
    /\ UNCHANGED ctlVars

HandlerCounts(r) ==
    /\ handler[r] = "wake"
    /\ waker[r] = "done"
    /\ queued' = queued + 1
    /\ handler' = [handler EXCEPT ![r] = "countEarly"]
    /\ UNCHANGED <<setVars, control, answers, requestId, nextId, workVars, runVars, queuedEarly,
                   handled, rolledBack>>

HandlerCountsEarly(r) ==
    /\ handler[r] = "countEarly"
    /\ queuedEarly' = IF prepared THEN queuedEarly ELSE queuedEarly + 1
    /\ handler' = [handler EXCEPT ![r] = "returned"]
    /\ UNCHANGED <<setVars, control, answers, requestId, nextId, workVars, runVars, queued,
                   handled, rolledBack>>

Handler(r) ==
    \/ HandlerChecks(r)
    \/ HandlerDrops(r)
    \/ Enqueue(r)
    \/ HandlerTurnsAway(r)
    \/ HandlerWakes(r)
    \/ HandlerCounts(r)
    \/ HandlerCountsEarly(r)
-----------------------------------------------------------------------------
(* The accept thread: OnAcceptFailure() keeps the error and wakes the wait. *)

AcceptFails ==
    /\ "accept" \in Faults
    /\ Served
    /\ ~acceptFailed
    /\ acceptFailed' = TRUE
    /\ UNCHANGED <<setVars, control, requestVars, workVars, prepared, runtime, shuttingDown, exitCode,
                   countVars>>

AcceptWakes ==
    /\ acceptFailed
    /\ WakeExchange(AcceptThread) \/ WakePost(AcceptThread)
    /\ UNCHANGED ctlVars
-----------------------------------------------------------------------------
(* The control thread: RunMasterInstance() and MainLauncher().             *)

ControlUnchanged == UNCHANGED <<requestVars, runVars, countVars>>

\* The runtime is created, `prepared` is set and the injection data is bound.
Prepare ==
    /\ control = "prepare"
    /\ control' = "initial"
    /\ runtime' = TRUE
    /\ prepared' = TRUE
    /\ UNCHANGED <<setVars, requestVars, workVars, shuttingDown, acceptFailed, exitCode, countVars>>

\* The preparation throws, or the selection of the startup files is rejected after it.
PrepareFails ==
    /\ "prepare" \in Faults
    /\ control = "prepare"
    /\ control' = "shutdown"
    /\ prepared' \in BOOLEAN
    /\ exitCode' = "nonzero"
    /\ UNCHANGED <<setVars, requestVars, workVars, runtime, shuttingDown, acceptFailed, countVars>>

\* ProcessJobSet::Start() after the process exists, for either kind of program.
FinishStart ==
    /\ control \in {"initial", "process"}
    /\ \E j \in Starting : AskIsEmpty(j) \/ AdoptJob(j)
    /\ UNCHANGED ctlVars

\* The first failure of a program of the configuration decides the exit code, and the
\* run goes on with the next program.
StartInitial ==
    /\ control = "initial"
    /\ \E j \in Unstarted(Initial) :
        \/ CreateJob(j) /\ UNCHANGED exitCode
        \/ (CreateJobFails(j) \/ CreateJobFailsLate(j)) /\ exitCode' = "nonzero"
    /\ UNCHANGED <<control, requestVars, workVars, prepared, runtime, shuttingDown, acceptFailed,
                   countVars>>

InitialStarted ==
    /\ control = "initial"
    /\ Starting = {}
    /\ Unstarted(Initial) = {}
    /\ control' = "poll"
    /\ UNCHANGED <<setVars, workVars>>
    /\ ControlUnchanged
-----------------------------------------------------------------------------
(* WaitForPrograms(), DrainQueue() and ProcessRequest().                   *)

\* A dead pipe ends the run with an error, whatever still runs.
PollAcceptFailure ==
    /\ control = "poll"
    /\ IF acceptFailed
       THEN control' = "collect" /\ exitCode' = "nonzero"
       ELSE control' = "drain" /\ UNCHANGED exitCode
    /\ UNCHANGED <<setVars, requestVars, workVars, prepared, runtime, shuttingDown, acceptFailed,
                   countVars>>

PopRequest ==
    /\ control = "drain"
    /\ queue # << >>
    /\ current' = Head(queue)
    /\ queue' = Tail(queue)
    /\ control' = "process"
    /\ UNCHANGED <<setVars, swapped, killed>>
    /\ ControlUnchanged

QueueDrained ==
    /\ control = "drain"
    /\ queue = << >>
    /\ control' = "wait"
    /\ WaitAllCalled
    /\ UNCHANGED workVars
    /\ ControlUnchanged

\* No target can be built, or the working directory cannot be resolved: nothing was
\* started for the request yet.
RefuseRequest ==
    /\ control = "process"
    /\ Unstarted(current) = Programs(current)
    /\ Answer(current, "refused")
    /\ current' = NoRequest
    /\ control' = "drain"
    /\ UNCHANGED <<setVars, handler, requestId, nextId, queue, swapped, killed, runVars, countVars>>

StartProgram ==
    /\ control = "process"
    /\ \E j \in Unstarted(current) :
        \/ CreateJob(j) /\ UNCHANGED control
        \/ (CreateJobFails(j) \/ CreateJobFailsLate(j)) /\ control' = "rollback"
    /\ UNCHANGED workVars
    /\ ControlUnchanged

\* Mutant: the request is refused without its rollback.
RollbackNothing ==
    /\ control = "rollback"
    /\ control' = "countRollback"
    /\ UNCHANGED <<setVars, workVars>>
    /\ ControlUnchanged

\* TerminateRequest() of the id of the request.
Rollback ==
    /\ control = "rollback"
    /\ LET doomed == {j \in Entries : OwnerOf[j] # Initial /\ IdOf(j) = requestId[current]}
       IN  \E refused \in SUBSET doomed :
            /\ TerminateRequest(doomed, refused)
            /\ killed' = Cardinality(doomed \ refused)
    /\ control' = "countRollback"
    /\ UNCHANGED <<queue, current, swapped>>
    /\ ControlUnchanged

\* Mutant: the rollback is not counted.
CountRollbackForgets ==
    /\ control = "countRollback"
    /\ killed' = 0
    /\ control' = "refuse"
    /\ UNCHANGED <<setVars, requestVars, queue, current, swapped, runVars, countVars>>

CountRollback ==
    /\ control = "countRollback"
    /\ rolledBack' = rolledBack + killed
    /\ killed' = 0
    /\ control' = "refuse"
    /\ UNCHANGED <<setVars, requestVars, queue, current, swapped, runVars, queued, queuedEarly,
                   handled>>

RefuseRolledBack ==
    /\ control = "refuse"
    /\ Answer(current, "startFailed")
    /\ current' = NoRequest
    /\ control' = "drain"
    /\ UNCHANGED <<setVars, handler, requestId, nextId, queue, swapped, killed, runVars, countVars>>

\* Every program of the request is a job of the set.
AnswerStarted ==
    /\ control = "process"
    /\ Starting = {}
    /\ Unstarted(current) = {}
    /\ Answer(current, "started")
    /\ control' = "count"
    /\ UNCHANGED <<setVars, handler, requestId, nextId, workVars, runVars, countVars>>

CountHandled ==
    /\ control = "count"
    /\ handled' = handled + 1
    /\ current' = NoRequest
    /\ control' = "drain"
    /\ UNCHANGED <<setVars, requestVars, queue, swapped, killed, runVars, queued, queuedEarly,
                   rolledBack>>

ControlWaits ==
    /\ control = "wait"
    /\ WaitStep
    /\ UNCHANGED ctlVars

\* Mutant: a timeout is taken for the end of the programs.
WaitReturnedIdle ==
    /\ control = "wait"
    /\ waitPc = "out"
    /\ control' = CASE waitResult \in {"AllExited", "TimedOut"} -> "idle"
                     [] waitResult = "Error"                    -> "collect"
                     [] OTHER                                   -> "poll"
    /\ exitCode' = IF waitResult = "Error" THEN "nonzero" ELSE exitCode
    /\ UNCHANGED <<setVars, requestVars, workVars, prepared, runtime, shuttingDown, acceptFailed,
                   countVars>>

\* The result of WaitAll(): a wakeup and a timeout go round the loop.
WaitReturned ==
    /\ control = "wait"
    /\ waitPc = "out"
    /\ control' = CASE waitResult = "AllExited" -> "idle"
                     [] waitResult = "Error"     -> "collect"
                     [] OTHER                    -> "poll"
    /\ exitCode' = IF waitResult = "Error" THEN "nonzero" ELSE exitCode
    /\ UNCHANGED <<setVars, requestVars, workVars, prepared, runtime, shuttingDown, acceptFailed,
                   countVars>>

\* Every program ended; a request which arrived after the drain keeps the run.
CheckIdle ==
    /\ control = "idle"
    /\ control' = IF queue = << >> THEN "collect" ELSE "poll"
    /\ UNCHANGED <<setVars, workVars>>
    /\ ControlUnchanged
-----------------------------------------------------------------------------
(* The end of the run: the exit code, Shutdown() and ~ControlPlane().      *)

\* Mutant: the programs of the requests decide the exit code as well.
CollectAll ==
    /\ control = "collect"
    /\ control' = "shutdown"
    /\ exitCode' = IF \E j \in Entries : j \in Failing \/ procs[j] = "running"
                   THEN "nonzero" ELSE exitCode
    /\ runtime' = FALSE
    /\ UNCHANGED <<setVars, requestVars, workVars, prepared, shuttingDown, acceptFailed, countVars>>

\* The codes of the programs of the configuration, and the release of the runtime.  A
\* process which still runs reports STILL_ACTIVE, which is not zero.
Collect ==
    /\ control = "collect"
    /\ control' = "shutdown"
    /\ exitCode' = IF \E j \in Programs(Initial) \cap Entries :
                          j \in Failing \/ procs[j] = "running"
                   THEN "nonzero" ELSE exitCode
    /\ runtime' = FALSE
    /\ UNCHANGED <<setVars, requestVars, workVars, prepared, shuttingDown, acceptFailed, countVars>>

\* Mutant: the queue is answered before the run is marked as ending.
SetShuttingDownLater ==
    /\ control = "shutdown"
    /\ control' = "swap"
    /\ UNCHANGED <<setVars, workVars>>
    /\ ControlUnchanged

SetShuttingDown ==
    /\ control = "shutdown"
    /\ shuttingDown' = TRUE
    /\ control' = "swap"
    /\ UNCHANGED <<setVars, requestVars, workVars, prepared, runtime, acceptFailed, exitCode, countVars>>

\* Mutant: the queue is cleared without being kept.
SwapQueueClears ==
    /\ control = "swap"
    /\ queue' = << >>
    /\ control' = "turnAway"
    /\ UNCHANGED <<setVars, current, swapped, killed>>
    /\ ControlUnchanged

SwapQueue ==
    /\ control = "swap"
    /\ swapped' = queue
    /\ queue' = << >>
    /\ control' = "turnAway"
    /\ UNCHANGED <<setVars, current, killed>>
    /\ ControlUnchanged

TurnAway ==
    /\ control = "turnAway"
    /\ swapped # << >>
    /\ Answer(Head(swapped), "shuttingDown")
    /\ swapped' = Tail(swapped)
    /\ UNCHANGED <<setVars, control, handler, requestId, nextId, queue, current, killed, runVars,
                   countVars>>

AllTurnedAway ==
    /\ control = "turnAway"
    /\ swapped = << >>
    /\ control' = "stop"
    /\ UNCHANGED <<setVars, workVars>>
    /\ ControlUnchanged

\* RemoteAccepter::Stop() waits for the handlers which run, up to its budget, and the
\* control layer is released.
StopPipe ==
    /\ control = "stop"
    /\ \/ "slow" \in Faults
       \/ \A r \in Requests : handler[r] \in {"new", "returned"}
    /\ control' = "reset"
    /\ UNCHANGED <<setVars, workVars>>
    /\ ControlUnchanged

\* The jobs are closed, which kills the processes they still hold.
ReleaseJobs ==
    /\ control = "reset"
    /\ control' = "gone"
    /\ procs' = [j \in Jobs |-> IF procs[j] = "running" THEN "ended" ELSE procs[j]]
    /\ UNCHANGED <<stage, key, reported, terminated, pending, port, woken, waker, waitVars, workVars>>
    /\ ControlUnchanged
-----------------------------------------------------------------------------
ControlThread ==
    \/ Prepare \/ PrepareFails
    \/ FinishStart \/ StartInitial \/ InitialStarted
    \/ PollAcceptFailure \/ PopRequest \/ QueueDrained
    \/ RefuseRequest \/ StartProgram \/ AnswerStarted \/ CountHandled
    \/ Rollback \/ CountRollback \/ RefuseRolledBack
    \/ ControlWaits \/ WaitReturned \/ CheckIdle
    \/ Collect \/ SetShuttingDown \/ SwapQueue \/ TurnAway \/ AllTurnedAway
    \/ StopPipe \/ ReleaseJobs

AcceptLoop == AcceptFails \/ AcceptWakes

Kernel == \E j \in Jobs : ProcessesEnd(j) /\ UNCHANGED ctlVars

Next ==
    \/ ControlThread
    \/ \E r \in Requests : Handler(r)
    \/ AcceptLoop
    \/ Kernel

Spec == Init /\ [][Next]_vars

\* The control thread and the threads of the sessions are scheduled; a wait whose
\* deadline passes again and again ends; nothing makes a program end or a request come.
Fairness ==
    /\ WF_vars(ControlThread)
    /\ SF_vars(control = "wait" /\ WaitExpires /\ UNCHANGED ctlVars)
    /\ \A r \in Requests : WF_vars(handler[r] # "new" /\ Handler(r))
    /\ WF_vars(AcceptWakes)

FairSpec == Spec /\ Fairness
-----------------------------------------------------------------------------
Holds(s, r) == \E i \in DOMAIN s : s[i] = r

\* A request which is queued, in work, or taken out of the queue by Shutdown().
Waiting(r) == Holds(queue, r) \/ Holds(swapped, r) \/ (current = r /\ control # "count")

\* A request Enqueue() accepted.
Accepted(r) == requestId[r] # 0 /\ handler[r] \notin {"enqueue", "sayShutdown", "sayBusy"}
                 /\ answers[r] \notin {<<"busy">>}

\* No request is lost between its handler, the queue, the control thread and the end of
\* the run, and none is answered twice: an accepted request waits in one place or has
\* its one answer (Enqueue(), DrainQueue(), Shutdown()).
NoRequestLost ==
    \A r \in Requests :
        /\ Accepted(r) => (Waiting(r) <=> answers[r] = << >>)
        /\ Len(answers[r]) <= 1

\* "The run never carries half a request" (ProcessRequest()): a request answered as
\* started has every program in the set and none of them was rolled back; a request
\* answered otherwise has no program, or only programs its rollback terminated.
RequestIsWhole ==
    \A r \in Requests :
        /\ answers[r] = <<"started">> =>
                \A j \in Programs(r) : stage[j] = "joined" /\ j \notin terminated
        /\ answers[r] = <<"startFailed">> /\ "kill" \notin Faults =>
                Programs(r) \cap Entries \subseteq terminated
        /\ answers[r] \in {<<"refused">>, <<"busy">>, <<"shuttingDown">>} =>
                Unstarted(r) = Programs(r)

\* "The programs of the run and the programs of another request are not touched" by a
\* rollback (ProcessRequest(), TerminateRequest()).
RollbackIsOwn ==
    \A j \in terminated :
        /\ OwnerOf[j] # Initial
        /\ \/ answers[OwnerOf[j]] = <<"startFailed">>
           \/ current = OwnerOf[j] /\ control \in {"countRollback", "refuse"}

\* The control thread never sleeps through a request: while it waits with a request in
\* the queue, a wakeup is in the port or some thread has yet to finish Wake().
NoWakeupLost ==
    queue # << >> /\ control = "wait" /\ waitPc \in {"get", "timedOut"} /\ "post" \notin Faults =>
        \/ WakeMessage \in port
        \/ \E r \in Requests : handler[r] = "wake" /\ waker[r] = "idle"
        \/ \E w \in Wakers : waker[w] = "posting"

\* The state query reports what happened: every terminated program is counted before the
\* refusal of its request, every started request after its answer.
CountersAreExact ==
    /\ rolledBack + killed = Cardinality(terminated)
    /\ handled + (IF control = "count" THEN 1 ELSE 0)
            = Cardinality({r \in Requests : answers[r] = <<"started">>})
    /\ queuedEarly <= queued

\* A run which is not cut short by a dead pipe or a failed wait ends after every program
\* it started, those of the requests included (WaitForPrograms(), main.cpp).
EndsAfterItsPrograms ==
    control \in {"collect", "shutdown", "swap", "turnAway", "stop"}
            /\ Faults \cap {"accept", "wait", "reuse"} = {} =>
        \A j \in Entries : procs[j] = "ended"

\* Only the programs of the configuration decide the exit code (MainLauncher()).
ExitCodeIsOfTheConfiguration ==
    control \in {"shutdown", "swap", "turnAway", "stop", "reset", "gone"}
            /\ Faults \cap {"accept", "wait", "prepare"} = {} =>
        (exitCode = "nonzero" <=>
            \E j \in Programs(Initial) : stage[j] = "failed" \/ j \in Failing)

\* Every request which reaches Enqueue() is answered, by a control thread which works
\* or by the end of the run.
EveryRequestAnswered ==
    \A r \in Requests : handler[r] = "enqueue" ~> answers[r] # << >>

\* A run whose programs all end sooner or later, ends, whatever wakeups are lost.
RunEnds == WF_vars(Kernel) => <>(control = "gone")
-----------------------------------------------------------------------------
\* What an answer, and a request, look like to the launcher which sent the request.
Meaning(a) ==
    CASE a = "started"      -> "started"
      [] a = "shuttingDown" -> "closed"
      [] OTHER              -> "failed"

StatusOf(r) ==
    IF answers[r] # << >> THEN Meaning(Head(answers[r]))
    ELSE IF current = r THEN "working"
    ELSE IF handler[r] = "new" \/ (handler[r] = "returned" /\ requestId[r] = 0) THEN "new"
    ELSE "waiting"

Service == INSTANCE StartService WITH
               request <- [r \in Requests |-> StatusOf(r)],
               open    <- ~shuttingDown

\* The queue, the wakeups, the rollback and the shutdown serve requests one at a time and
\* as a whole, with one final answer each, and start nothing once the sandbox closes.
ImplementsStartService == Service!Spec
=============================================================================
