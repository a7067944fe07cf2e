---------------------------- MODULE ProcessJobSet ----------------------------
(***************************************************************************)
(* The set of job objects one run of the launcher starts and waits for     *)
(* (launcher/utils/ProcessJobSet.cpp over launcher/utils/ProcessJob.cpp).  *)
(* One completion port receives three kinds of message: the report of a    *)
(* job that its last process ended, a wakeup of another thread and the     *)
(* message of a job which joined.  One thread, the control thread of the   *)
(* run, creates jobs and waits; any number of threads wake it up.          *)
(*                                                                         *)
(* A job object names itself in its report by the VALUE of its handle, and *)
(* a job whose start fails late is closed while its report is still under  *)
(* way: the kernel may give the value to the next job object.              *)
(*                                                                         *)
(* The port is a set of messages: a wait may take them in any order, since *)
(* the code relies on none, and one message of a job which joined stands    *)
(* for any number of them, since each only makes the wait look again.       *)
(***************************************************************************)
EXTENDS Naturals, FiniteSets

CONSTANTS
    Jobs,     \* the ProcessJob objects of the run, one per program it is asked to start
    Handles,  \* the values of job handles
    Wakers,   \* the threads which call Wake(), each at most once
    Owners,   \* who a job is started for
    Initial,  \* the owner of the programs of the configuration (JobOrigin::Initial)
    OwnerOf,  \* the owner of every job
    NoHandle, \* the key of a job object which does not exist yet
    Faults    \* what the environment is allowed to do, a subset of FaultKinds

\* "late": a start fails after the process exists; "reuse": the value of a closed
\* handle is used again; "kill": TerminateJobObject may fail; "post":
\* PostQueuedCompletionStatus may fail; "wait": GetQueuedCompletionStatus may fail;
\* the others are read by ControlPlane.
FaultKinds == {"late", "reuse", "kill", "post", "wait", "prepare", "accept", "slow"}

ASSUME JobSetAssumption ==
    /\ IsFiniteSet(Jobs)
    /\ NoHandle \notin Handles
    /\ Initial \in Owners
    /\ OwnerOf \in [Jobs -> Owners]
    /\ Faults \subseteq FaultKinds

VARIABLES
    stage,      \* how far the creation of a job came
    procs,      \* the processes of a job, as its job object counts them
    key,        \* the completion key of a job: the value of its handle when it was created
    reported,   \* jobs whose entry is marked as empty (JobEntry::reported)
    terminated, \* jobs a rollback terminated (JobEntry::terminated)
    pending,    \* jobs of the set which have not reported (Data::pending)
    port,       \* messages which wait in the completion port
    woken,      \* a wakeup waits for the wait to take it (Data::woken)
    waker,      \* where each waking thread is in Wake()
    waitPc,     \* where the control thread is in WaitAll()
    waitResult  \* what the last WaitAll() returned

jobVars  == <<stage, procs, key, reported, terminated, pending>>
waitVars == <<waitPc, waitResult>>
setVars  == <<jobVars, port, woken, waker, waitVars>>

WaitStatus == {"AllExited", "Woken", "TimedOut", "Error"}

\* kWakeKey, kJobJoinedKey and the report of a job; `of` names the job object which
\* sent the report, which the program cannot see.
WakeMessage    == [kind |-> "wake"]
JoinedMessage  == [kind |-> "joined"]
ZeroMessage(j) == [kind |-> "zero", key |-> key[j], of |-> j]

\* The entries of the set and the jobs whose handle is open.
Entries    == {j \in Jobs : stage[j] = "joined"}
OpenJobs   == {j \in Jobs : stage[j] \in {"created", "busy", "empty", "joined"}}
Starting   == {j \in Jobs : stage[j] \in {"created", "busy", "empty"}}
Unreported == Entries \ reported

TypeOKSet ==
    /\ stage \in [Jobs -> {"none", "failed", "created", "busy", "empty", "joined"}]
    /\ procs \in [Jobs -> {"none", "running", "ended"}]
    /\ key \in [Jobs -> Handles \cup {NoHandle}]
    /\ reported \subseteq Jobs
    /\ terminated \subseteq Jobs
    /\ pending \in Nat
    /\ port \subseteq {WakeMessage, JoinedMessage}
                        \cup [kind : {"zero"}, key : Handles \cup {NoHandle}, of : Jobs]
    /\ woken \in BOOLEAN
    /\ waker \in [Wakers -> {"idle", "posting", "done"}]
    /\ waitPc \in {"out", "check", "get", "taken", "timedOut"}
    /\ waitResult \in WaitStatus \cup {"none"}

InitSet ==
    /\ stage = [j \in Jobs |-> "none"]
    /\ procs = [j \in Jobs |-> "none"]
    /\ key = [j \in Jobs |-> NoHandle]
    /\ reported = {}
    /\ terminated = {}
    /\ pending = 0
    /\ port = {}
    /\ woken = FALSE
    /\ waker = [w \in Wakers |-> "idle"]
    /\ waitPc = "out"
    /\ waitResult = "none"
-----------------------------------------------------------------------------
(* Creation of a job: ProcessJob::Data, ProcessJob::Start and Adopt.       *)

\* A value CreateJobObject may return: none which is open, and one which was open
\* before only where the kernel uses values again.  Values nobody saw before are alike,
\* so one of them stands for all.
NewHandles == {h \in Handles : \A k \in Jobs : key[k] # h}
FreshHandles ==
    IF "reuse" \in Faults THEN {h \in Handles : \A k \in OpenJobs : key[k] # h}
                          ELSE {h \in NewHandles : h = CHOOSE n \in NewHandles : TRUE}

\* The process was created, patched, made a member of the job and resumed.
CreateJob(j) ==
    /\ stage[j] = "none"
    /\ Starting = {}
    /\ \E h \in FreshHandles :
        /\ key' = [key EXCEPT ![j] = h]
        /\ stage' = [stage EXCEPT ![j] = "created"]
        /\ procs' = [procs EXCEPT ![j] = "running"]
    /\ UNCHANGED <<reported, terminated, pending, port, woken, waker, waitVars>>

\* CreateProcess failed: the job object is closed and never held a process.
CreateJobFails(j) ==
    /\ stage[j] = "none"
    /\ Starting = {}
    /\ stage' = [stage EXCEPT ![j] = "failed"]
    /\ UNCHANGED <<procs, key, reported, terminated, pending, port, woken, waker, waitVars>>

\* A step after the creation failed (the injection, the payload, ResumeThread): the
\* process is terminated and the job object is closed, and the process ends later.
CreateJobFailsLate(j) ==
    /\ "late" \in Faults
    /\ stage[j] = "none"
    /\ Starting = {}
    /\ \E h \in FreshHandles :
        /\ key' = [key EXCEPT ![j] = h]
        /\ stage' = [stage EXCEPT ![j] = "failed"]
        /\ procs' = [procs EXCEPT ![j] = "running"]
    /\ UNCHANGED <<reported, terminated, pending, port, woken, waker, waitVars>>

\* Adopt() asks the accounting of the job before it takes the mutex.
AskIsEmpty(j) ==
    /\ stage[j] = "created"
    /\ stage' = [stage EXCEPT ![j] = IF procs[j] = "ended" THEN "empty" ELSE "busy"]
    /\ UNCHANGED <<procs, key, reported, terminated, pending, port, woken, waker, waitVars>>

\* Mutant: a job which is already empty is waited for.
AdoptJobAlwaysWaits(j) ==
    /\ stage[j] \in {"busy", "empty"}
    /\ stage' = [stage EXCEPT ![j] = "joined"]
    /\ reported' = IF stage[j] = "empty" THEN reported \cup {j} ELSE reported
    /\ pending' = pending + 1
    /\ port' = port \cup {JoinedMessage}
    /\ UNCHANGED <<procs, key, terminated, woken, waker, waitVars>>

\* Adopt() takes the job into the set and posts the message of the job which joined.
AdoptJob(j) ==
    /\ stage[j] \in {"busy", "empty"}
    /\ stage' = [stage EXCEPT ![j] = "joined"]
    /\ reported' = IF stage[j] = "empty" THEN reported \cup {j} ELSE reported
    /\ pending' = IF stage[j] = "empty" THEN pending ELSE pending + 1
    /\ port' \in {port \cup {JoinedMessage}} \cup (IF "post" \in Faults THEN {port} ELSE {})
    /\ UNCHANGED <<procs, key, terminated, woken, waker, waitVars>>

\* The last process of a job ended: the kernel posts the report of the job.
ProcessesEnd(j) ==
    /\ procs[j] = "running"
    /\ procs' = [procs EXCEPT ![j] = "ended"]
    /\ port' = port \cup {ZeroMessage(j)}
    /\ UNCHANGED <<stage, key, reported, terminated, pending, woken, waker, waitVars>>

\* TerminateRequest(): every entry of the owner is terminated and marked, the ones
\* TerminateJobObject refuses are left out.  The processes end later.
TerminateRequest(doomed, refused) ==
    /\ refused \subseteq doomed
    /\ "kill" \notin Faults => refused = {}
    /\ terminated' = terminated \cup (doomed \ refused)
    /\ UNCHANGED <<stage, procs, key, reported, pending, port, woken, waker, waitVars>>
-----------------------------------------------------------------------------
(* Wake(), called by the threads which serve sessions.                     *)

WakeExchange(w) ==
    /\ waker[w] = "idle"
    /\ woken' = TRUE
    /\ waker' = [waker EXCEPT ![w] = IF woken THEN "done" ELSE "posting"]
    /\ UNCHANGED <<jobVars, port, waitVars>>

WakePost(w) ==
    /\ waker[w] = "posting"
    /\ waker' = [waker EXCEPT ![w] = "done"]
    /\ \/ port' = port \cup {WakeMessage} /\ woken' = woken
       \/ "post" \in Faults /\ port' = port /\ woken' = FALSE
    /\ UNCHANGED <<jobVars, waitVars>>
-----------------------------------------------------------------------------
(* WaitAll(), called by the control thread.                                *)

WaitReturns(status) ==
    /\ waitPc' = "out"
    /\ waitResult' = status

WaitAllCalled ==
    /\ waitPc = "out"
    /\ waitPc' = "check"
    /\ waitResult' = "none"
    /\ UNCHANGED <<jobVars, port, woken, waker>>

WaitCheck ==
    /\ waitPc = "check"
    /\ IF pending = 0
       THEN WaitReturns("AllExited")
       ELSE waitPc' = "get" /\ UNCHANGED waitResult
    /\ UNCHANGED <<jobVars, port, woken, waker>>

\* GetQueuedCompletionStatus took a message.
WaitTakesWake ==
    /\ waitPc = "get"
    /\ WakeMessage \in port
    /\ port' = port \ {WakeMessage}
    /\ waitPc' = "taken"
    /\ UNCHANGED <<jobVars, woken, waker, waitResult>>

\* Mutant: the wakeup which was taken stays marked as pending.
WaitKeepsWoken ==
    /\ waitPc = "taken"
    /\ WaitReturns("Woken")
    /\ UNCHANGED <<jobVars, port, woken, waker>>

WaitClearsWoken ==
    /\ waitPc = "taken"
    /\ woken' = FALSE
    /\ WaitReturns("Woken")
    /\ UNCHANGED <<jobVars, port, waker>>

WaitTakesJoined ==
    /\ waitPc = "get"
    /\ JoinedMessage \in port
    /\ port' = port \ {JoinedMessage}
    /\ waitPc' = "check"
    /\ UNCHANGED <<jobVars, woken, waker, waitResult>>

\* Mutant: the report is taken for any entry which has not reported.
WaitTakesAnyReport ==
    /\ waitPc = "get"
    /\ \E m \in port, j \in Unreported :
        /\ m.kind = "zero"
        /\ port' = port \ {m}
        /\ reported' = reported \cup {j}
        /\ pending' = pending - 1
    /\ waitPc' = "check"
    /\ UNCHANGED <<stage, procs, key, terminated, woken, waker, waitResult>>

\* The entry is searched by the value of the handle, among those not reported yet.
WaitTakesReport ==
    /\ waitPc = "get"
    /\ \E m \in port :
        /\ m.kind = "zero"
        /\ port' = port \ {m}
        /\ LET named == {j \in Unreported : key[j] = m.key}
           IN  IF named = {}
               THEN UNCHANGED <<reported, pending>>
               ELSE \E j \in named :
                        /\ reported' = reported \cup {j}
                        /\ pending' = IF pending > 0 THEN pending - 1 ELSE pending
    /\ waitPc' = "check"
    /\ UNCHANGED <<stage, procs, key, terminated, woken, waker, waitResult>>

\* A timeout is only reported while no message waits.
WaitTimeout ==
    /\ waitPc = "get"
    /\ port = {}
    /\ waitPc' = "timedOut"
    /\ UNCHANGED <<jobVars, port, woken, waker, waitResult>>

\* Mutant: a wait without a message for its whole time is taken for the end.
WaitExpiresAsExit ==
    /\ waitPc = "timedOut"
    /\ WaitReturns("AllExited")
    /\ UNCHANGED <<jobVars, port, woken, waker>>

\* The accounting is read again.
WaitExpires ==
    /\ waitPc = "timedOut"
    /\ WaitReturns(IF pending = 0 THEN "AllExited" ELSE "TimedOut")
    /\ UNCHANGED <<jobVars, port, woken, waker>>

\* The timeout came a tick before the deadline: the wait goes on.
WaitGoesOn ==
    /\ waitPc = "timedOut"
    /\ pending # 0
    /\ waitPc' = "check"
    /\ UNCHANGED <<jobVars, port, woken, waker, waitResult>>

WaitFails ==
    /\ "wait" \in Faults
    /\ waitPc = "get"
    /\ WaitReturns("Error")
    /\ UNCHANGED <<jobVars, port, woken, waker>>

WaitStep ==
    \/ WaitCheck
    \/ WaitTakesWake
    \/ WaitClearsWoken
    \/ WaitTakesJoined
    \/ WaitTakesReport
    \/ WaitTimeout
    \/ WaitExpires
    \/ WaitGoesOn
    \/ WaitFails
-----------------------------------------------------------------------------
(* The set by itself: the control thread creates jobs, rolls requests back  *)
(* and waits, one call after the other, while programs end and threads call *)
(* Wake().                                                                  *)

ControlCall ==
    /\ waitPc = "out"
    /\ \/ \E j \in Jobs :
            \/ CreateJob(j)
            \/ CreateJobFails(j)
            \/ CreateJobFailsLate(j)
            \/ AskIsEmpty(j)
            \/ AdoptJob(j)
       \/ /\ Starting = {}
          /\ \E o \in Owners \ {Initial}, refused \in SUBSET Jobs :
                TerminateRequest({j \in Entries : OwnerOf[j] = o}, refused)
       \/ Starting = {} /\ WaitAllCalled

NextSet ==
    \/ ControlCall
    \/ WaitStep
    \/ \E j \in Jobs : ProcessesEnd(j)
    \/ \E w \in Wakers : WakeExchange(w) \/ WakePost(w)

SpecSet == InitSet /\ [][NextSet]_setVars
-----------------------------------------------------------------------------
\* The counter the wait relies on is the number of entries which have not reported:
\* Adopt() and WaitAll() change the two in separate functions and never together.
PendingIsUnreported == pending = Cardinality(Unreported)

\* An entry is only marked as reported when the processes of ITS job ended, although
\* the message names the job by a handle value alone (WaitAll(), Adopt()).
ReportsAreTrue == \A j \in Entries \cap reported : procs[j] = "ended"

\* A job whose processes ended before the wait knew it is never waited for in vain:
\* every unreported entry without processes still has its report in the port.
NoReportLost ==
    \A j \in Unreported : procs[j] = "ended" => ZeroMessage(j) \in port

\* A wakeup which is marked as pending is really under way: its message waits in the
\* port, a thread is about to post it or the wait is about to clear the mark.
\* Otherwise Wake() would swallow every later wakeup.
WokenIsUnderWay ==
    woken =>
        \/ WakeMessage \in port
        \/ waitPc = "taken"
        \/ \E w \in Wakers : waker[w] = "posting"

\* "Every job of the set reported that its processes exited" (WaitStatus::AllExited):
\* at the moment WaitAll() returns it, no entry holds a running process.
AllExitedIsTrue ==
    [][waitPc # "out" /\ waitPc' = "out" /\ waitResult' = "AllExited"
          => \A j \in Entries : procs[j] = "ended"]_setVars
=============================================================================
