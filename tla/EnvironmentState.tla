--------------------------- MODULE EnvironmentState ---------------------------
(***************************************************************************)
(* The environment of a sandbox (sandbox/environment, the environment hooks *)
(* of sandbox/hook and launcher/rpc/Environment.cpp).  Every process keeps   *)
(* the modifications it knows, those of earlier runs included, and reports   *)
(* all of them with every new one; the session of the process in the         *)
(* launcher writes the document beside the state file and moves it over it.  *)
(*                                                                          *)
(* What the host and the layers compose to is a constant, and names which    *)
(* differ in case are one name.                                              *)
(***************************************************************************)
EXTENDS Naturals, FiniteSets

CONSTANTS
    Names, Values,
    Gone,       \* of a variable which is not in an environment, or recorded as removed
    Kept,       \* of a variable a document does not name
    Torn,       \* a file which is no document
    NoFile,
    Untold,
    Composed,   \* the environment of the host and the layers
    Procs,
    Threads,
    ProcessOf,  \* the process of every thread
    Earlier,    \* the documents of earlier runs
    Blocks,     \* the environments a process replaces its own with
    Faults,     \* "kill": a process dies; "crash": the launcher dies; "write": a write fails
    MaxCalls    \* bound: modifications of all processes

EnvironmentFaults == {"kill", "crash", "write"}
Environments == [Names -> Values \cup {Gone}]
Documents    == [Names -> Values \cup {Gone, Kept}]

ASSUME EnvironmentAssumption ==
    /\ Earlier \subseteq Documents
    /\ Composed \in Environments /\ Blocks \subseteq Environments
    /\ ProcessOf \in [Threads -> Procs]
    /\ Faults \subseteq EnvironmentFaults
    /\ {Gone, Kept, Torn, NoFile, Untold} \cap Values = {} /\ Gone # Kept
    /\ {Torn, NoFile} \cap Documents = {}

VARIABLES
    file,    \* the state file
    temp,    \* the temporary file of all sessions
    life,    \* every process: not there, reading the state file, or running
    block,   \* its environment
    table,   \* env_table: what the isolation believes the block to hold
    mods,    \* env_state: the modifications it knows
    call,    \* the modification of every thread
    writer,  \* the session of every process in the launcher
    calls,   \* how many modifications there were
    told,    \* what a finished modification promised the next run
    knows,   \* the promises a process was started after
    mixed    \* two sessions wrote at a time

files   == <<file, temp>>
shadow  == <<table, mods>>
history == <<told, knows, mixed>>
vars    == <<files, life, block, shadow, call, writer, calls, history>>

NoDocument == [x \in Names |-> Kept]
Idle       == [pc |-> "idle"]
At(t, pc)     == call[t].pc = pc
Writes(p, pc) == writer[p].pc = pc
HasOpen(p)    == Writes(p, "write")
Reading(p)    == life[p] \in {"launched", "inherits"}
Busy          == {p \in Procs : writer[p].pc \in {"write", "move"}}
Goto(t, pc)   == call' = [call EXCEPT ![t].pc = pc]
\* Somebody else touches the files while they are written.
Disturbs      == [p \in Procs |-> IF p \in Busy THEN [writer[p] EXCEPT !.alone = FALSE] ELSE writer[p]]

Init ==
    /\ file \in {NoFile} \cup Earlier
    /\ temp = NoFile
    /\ life = [p \in Procs |-> "none"]
    /\ block = [p \in Procs |-> Composed]
    /\ table = [p \in Procs |-> Composed]
    /\ mods = [p \in Procs |-> NoDocument]
    /\ call = [t \in Threads |-> Idle]
    /\ writer = [p \in Procs |-> Idle]
    /\ calls = 0
    /\ told = [x \in Names |-> Untold]
    /\ knows = [p \in Procs |-> {}]
    /\ mixed = FALSE

-----------------------------------------------------------------------------
\* A process starts.  One of the launcher composes its environment; a child inherits the
\* block of its parent and is told that it is composed (BuildChildInjectData()).
Start(p) ==
    /\ life[p] = "none" /\ Writes(p, "idle")
    /\ \/ life' = [life EXCEPT ![p] = "launched"] /\ block' = [block EXCEPT ![p] = Composed]
       \/ \E parent \in Procs :
              /\ life[parent] = "runs"
              /\ life' = [life EXCEPT ![p] = "inherits"]
              /\ block' = [block EXCEPT ![p] = block[parent]]
    /\ writer' = Disturbs
    /\ UNCHANGED <<files, shadow, call, calls, history>>

StateIn(f) == IF f \in {NoFile, Torn} THEN NoDocument ELSE f
Applied(env, doc) == [x \in Names |-> IF doc[x] = Kept THEN env[x] ELSE doc[x]]

\* Mutant: a child whose environment is composed does not read the state.
InitOfComposed(p) ==
    /\ Reading(p)
    /\ LET doc == IF life[p] = "launched" THEN StateIn(file) ELSE NoDocument
           env == Applied(block[p], doc)
       IN  /\ block' = [block EXCEPT ![p] = env]
           /\ table' = [table EXCEPT ![p] = env]
           /\ mods' = [mods EXCEPT ![p] = doc]
    /\ life' = [life EXCEPT ![p] = "runs"]
    /\ knows' = [knows EXCEPT ![p] = {x \in Names : told[x] # Untold}]
    /\ UNCHANGED <<files, call, writer, calls, told, mixed>>

\* Isolation::Init(): a document which cannot be parsed is ignored.
InitIsolation(p) ==
    /\ Reading(p)
    /\ LET doc == StateIn(file)
           env == IF life[p] = "launched" THEN Applied(block[p], doc) ELSE block[p]
       IN  /\ block' = [block EXCEPT ![p] = env]
           /\ table' = [table EXCEPT ![p] = env]
           /\ mods' = [mods EXCEPT ![p] = doc]
    /\ life' = [life EXCEPT ![p] = "runs"]
    /\ knows' = [knows EXCEPT ![p] = {x \in Names : told[x] # Untold}]
    /\ UNCHANGED <<files, call, writer, calls, told, mixed>>

-----------------------------------------------------------------------------
\* Modifications.  The system changes the block first.
Modifies(t, changed, pc, env) ==
    /\ At(t, "idle") /\ life[ProcessOf[t]] = "runs" /\ calls < MaxCalls
    /\ calls' = calls + 1
    /\ block' = [block EXCEPT ![ProcessOf[t]] = [x \in Names |-> IF x \in changed THEN env[x] ELSE @[x]]]
    /\ call' = [call EXCEPT ![t] = [pc |-> pc, env |-> env, names |-> changed]]
    /\ told' = [x \in Names |-> IF x \in changed THEN Untold ELSE told[x]]
    /\ UNCHANGED <<files, life, shadow, writer, knows, mixed>>

\* SetEnvironmentVariable() and RtlSetEnvironmentVariable().  Both are hooked because the one
\* of kernelbase does not pass the export of ntdll: a call is stored once.
SetVariable(t) ==
    \E x \in Names, v \in Values \cup {Gone} : Modifies(t, {x}, "store", [y \in Names |-> v])
\* RtlSetEnvironmentStrings() and RtlSetCurrentEnvironment().
SetBlock(t) == \E env \in Blocks : Modifies(t, Names, "assign", env)

Returns(t) == call' = [call EXCEPT ![t] = Idle]

\* Isolation::Store() and Isolation::Remove().
Store(t) ==
    /\ At(t, "store")
    /\ table' = [table EXCEPT ![ProcessOf[t]] = [x \in Names |-> IF x \in call[t].names THEN call[t].env[x] ELSE @[x]]]
    /\ Goto(t, "check")
    /\ UNCHANGED <<files, life, block, mods, writer, calls, history>>
\* HasValue() and HasDeletion(): what is recorded already is not reported again.
Check(t) ==
    /\ At(t, "check")
    /\ IF \A x \in call[t].names : mods[ProcessOf[t]][x] = call[t].env[x] THEN Returns(t) ELSE Goto(t, "record")
    /\ UNCHANGED <<files, life, block, shadow, writer, calls, history>>
Record(t) ==
    /\ At(t, "record")
    /\ mods' = [mods EXCEPT ![ProcessOf[t]] = [x \in Names |-> IF x \in call[t].names THEN call[t].env[x] ELSE @[x]]]
    /\ Goto(t, "build")
    /\ UNCHANGED <<files, life, block, table, writer, calls, history>>

\* Isolation::AssignBlock(): the difference between the block and the table is recorded.
AssignBlock(t) ==
    LET owner == ProcessOf[t] IN
    /\ At(t, "assign")
    /\ mods' = [mods EXCEPT ![owner] = [x \in Names |-> IF call[t].env[x] # table[owner][x] THEN call[t].env[x] ELSE @[x]]]
    /\ table' = [table EXCEPT ![owner] = call[t].env]
    /\ Goto(t, "build")
    /\ UNCHANGED <<files, life, block, writer, calls, history>>

\* PersistState(): the document is built before the pipe is locked.
Build(t) ==
    /\ At(t, "build")
    /\ call' = [call EXCEPT ![t] = [pc |-> "send", env |-> @.env, names |-> @.names, doc |-> mods[ProcessOf[t]]]]
    /\ UNCHANGED <<files, life, block, shadow, writer, calls, history>>
Send(t) ==
    /\ At(t, "send") /\ Writes(ProcessOf[t], "idle")
    /\ writer' = [writer EXCEPT ![ProcessOf[t]] = [pc |-> "open", doc |-> call[t].doc, alone |-> TRUE, kept |-> FALSE]]
    /\ Goto(t, "wait")
    /\ UNCHANGED <<files, life, block, shadow, calls, history>>

-----------------------------------------------------------------------------
\* WriteEnvironmentState() in the session of a process.

\* Mutant: the state file itself is truncated and written.
OpenInPlace(p) ==
    /\ Writes(p, "open")
    /\ temp' = Torn /\ file' = Torn
    /\ mixed' = (mixed \/ Busy # {})
    /\ writer' = [Disturbs EXCEPT ![p].pc = "write", ![p].alone = (Busy = {} /\ ~\E q \in Procs : Reading(q))]
    /\ UNCHANGED <<life, block, shadow, call, calls, told, knows>>

Open(p) ==
    /\ Writes(p, "open")
    /\ temp' = Torn
    /\ mixed' = (mixed \/ Busy # {})
    /\ writer' = [Disturbs EXCEPT ![p].pc = "write", ![p].alone = (Busy = {} /\ ~\E q \in Procs : Reading(q))]
    /\ UNCHANGED <<file, life, block, shadow, call, calls, told, knows>>

\* The streams of two sessions stand at the start of one file: what the longer document
\* left behind stays after the shorter one.
WriteText(p) ==
    /\ Writes(p, "write")
    /\ \/ /\ temp' \in {writer[p].doc} \cup (IF temp \notin {Torn, writer[p].doc} THEN {Torn} ELSE {})
          /\ writer' = [writer EXCEPT ![p].pc = "move"]
       \/ /\ "write" \in Faults
          /\ temp' = Torn
          /\ writer' = [writer EXCEPT ![p].pc = "answer"]
    /\ UNCHANGED <<file, life, block, shadow, call, calls, history>>

\* No file is moved, or moved over, while somebody has it open.
CanMove(p) == temp # NoFile /\ ~\E q \in Procs : HasOpen(q) \/ Reading(q)
Asker(p) == {t \in Threads : ProcessOf[t] = p /\ At(t, "wait")}
\* A thread which has the last word about a variable: it is modifying it, or built a document
\* which still holds another value.
Disputes(s, x, value) == ~At(s, "idle") /\ (x \in call[s].names \/ (At(s, "send") /\ call[s].doc[x] # value))
\* What the waiting caller is promised: its part of the document, where no other thread of
\* its process has the last word.
Ours(p) == {x \in Names :
    \E t \in Asker(p) :
        /\ x \in call[t].names /\ writer[p].doc[x] = call[t].env[x] /\ mods[p][x] = call[t].env[x]
        /\ \A s \in Threads \ {t} : ProcessOf[s] = p => ~Disputes(s, x, call[t].env[x])}
Move(p) ==
    /\ Writes(p, "move")
    /\ IF CanMove(p)
       THEN LET ours == IF writer[p].alone THEN Ours(p) ELSE {} IN
            /\ file' = temp /\ temp' = NoFile
            /\ told' = [x \in Names |-> IF x \in ours THEN writer[p].doc[x]
                                        ELSE IF writer[p].alone /\ x \in knows[p] THEN told[x] ELSE Untold]
            /\ knows' = [q \in Procs |-> IF q = p THEN knows[q] \cup ours ELSE knows[q] \ ours]
       ELSE UNCHANGED <<files, told, knows>>
    /\ writer' = [writer EXCEPT ![p].pc = "answer", ![p].kept = CanMove(p)]
    /\ UNCHANGED <<life, block, shadow, call, calls, mixed>>

\* The answer leaves whether or not the document was written.
Answer(p) ==
    /\ Writes(p, "answer")
    /\ writer' = [writer EXCEPT ![p] = Idle]
    /\ IF Asker(p) = {} THEN UNCHANGED call ELSE \E t \in Asker(p) : Returns(t)
    /\ UNCHANGED <<files, life, block, shadow, calls, history>>

-----------------------------------------------------------------------------
Forget(dead) ==
    /\ block' = [p \in Procs |-> IF p \in dead THEN Composed ELSE block[p]]
    /\ table' = [p \in Procs |-> IF p \in dead THEN Composed ELSE table[p]]
    /\ mods'  = [p \in Procs |-> IF p \in dead THEN NoDocument ELSE mods[p]]

\* A process dies; its session finishes what it received.
Kill(p) ==
    /\ "kill" \in Faults /\ life[p] # "none"
    /\ life' = [life EXCEPT ![p] = "none"]
    /\ call' = [t \in Threads |-> IF ProcessOf[t] = p THEN Idle ELSE call[t]]
    /\ Forget({p})
    /\ UNCHANGED <<files, writer, calls, history>>

\* The launcher dies, and its jobs take the programs along.
Crash ==
    /\ "crash" \in Faults /\ \E p \in Procs : life[p] # "none"
    /\ life' = [p \in Procs |-> "none"]
    /\ call' = [t \in Threads |-> Idle]
    /\ writer' = [p \in Procs |-> Idle]
    /\ Forget(Procs)
    /\ UNCHANGED <<files, calls, history>>

Modification(t) ==
    \/ SetVariable(t) \/ SetBlock(t) \/ Store(t) \/ Check(t) \/ Record(t) \/ AssignBlock(t)
    \/ Build(t) \/ Send(t)
Session(p) == Open(p) \/ WriteText(p) \/ Move(p) \/ Answer(p)

Next ==
    \/ \E t \in Threads : Modification(t)
    \/ \E p \in Procs : Start(p) \/ InitIsolation(p) \/ Session(p) \/ Kill(p)
    \/ Crash
Spec == Init /\ [][Next]_vars

-----------------------------------------------------------------------------
\* "The answer is sent after the document is on disk: the sandbox relies on the answer to
\* know that its modifications survive the end of the run" (MsgEnvironment): the next run
\* finds what a finished modification was told, whoever dies, and whatever its own process, by
\* any of its threads, or a process which was started after it reports (Isolation::Init(),
\* PersistState()).  A modification is told nothing of a variable while another thread of its
\* process modifies it too or holds an older document of it, see ReportsAreNewest.
ModificationsSurvive ==
    \A x \in Names : told[x] # Untold => StateIn(file)[x] = told[x]

\* While one session writes at a time, the state file is always a whole document, wherever
\* the launcher dies or a write fails (WriteEnvironmentState()).
StateFileIsWhole == ~mixed => file \in {NoFile} \cup Documents

\* The state file is always a whole document, whatever sessions write at a time.
StateFileParses == file \in {NoFile} \cup Documents

\* What a process knows and the state file holds, no report of its own takes away.
ReportsAreNewest ==
    [][\A p \in Procs, x \in Names :
        Writes(p, "move") /\ writer[p].alone /\ life[p] = "runs" /\ file' # file /\ file \in Documents
            => (file[x] = mods[p][x] => file'[x] = mods[p][x])]_vars

\* "A sandbox which received the answer knows that its state survives the end of the
\* process" (sandbox/msg/Environment.hpp).
AnsweredIsKept ==
    [][\A p \in Procs : Writes(p, "answer") /\ life'[p] = "runs" /\ writer'[p] = Idle => writer[p].kept]_vars
=============================================================================
