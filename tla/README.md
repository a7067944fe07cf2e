# Formal model of appbox

appbox packs a program together with a filesystem, a registry and rules for the network, and runs it in
a sandbox: a *launcher* (`src/launcher`) prepares the layers of the sandbox, starts the programs with an
injected module (`src/sandbox`), and serves a control pipe over which the injected modules and other
launchers talk to it (`src/common`). A packer (`src/src`) builds the archives.

This directory models the parts of that system where the hard states are: several launchers of one
sandbox, the threads inside each of them, the connections between them, the kernel objects which
tell them that a program ended, and what all processes of a sandbox share: the layers of its filesystem,
the hives of its registry and the document of its environment. The models are TLA+ modules, TLC checks small instances of them, and
TLAPS proves what it can for every instance.

    tlc -workers 2 -config MCControlPlane.cfg MCControlPlane    # one run
    tlapm ControlPlane_proofs.tla                               # the proofs


## 1. Inventory

| component | source | state it keeps | operations | status |
|---|---|---|---|---|
| race for the control pipe | `launcher/main.cpp`, `ShutdownRetry.hpp`, `RemoteAccepterDetail.hpp`, `RemoteConnectorDetail.hpp` | instances of the named pipe, budget of the race | create or probe the pipe, connect, verify the server, hand over, race again, accept, stop | `LauncherRace` |
| session of a connection | `RemoteSessionDetail.hpp` | send queue, table of calls, table of requests, four events, one overlapped read and write | call, answer, dispatch, drain, close, stop | `RemoteSession` |
| control plane of a run | `ControlPlane.cpp`, `LauncherStart.cpp`, `main.cpp` | queue of start requests, flags of the end, counters | enqueue, serve, roll back, answer, end the run | `ControlPlane` |
| job objects of the programs | `ProcessJobSet.cpp`, `ProcessJob.cpp` | list of jobs, completion port, wakeup mark | start, adopt, wake, terminate, wait for all | `ProcessJobSet` |
| run facts, state query | `rpc/RunState.cpp`, `FillRunState` | atomic counters of a run | answer a query | `RunState` (partly) |
| frames and messages | `RpcCodec.hpp`, `RemoteProtocol.hpp` | buffer of one connection | decode, encode | not modelled |
| environment state | `rpc/Environment.cpp`, `sandbox/environment`, environment hooks | block, table and modifications of each process; the state file and one temporary file | set, remove, assign a block, report, write, move, compose at a start | `EnvironmentState` (partly) |
| resolution through layers | `ResolveCoreDetail.hpp`, `FilesystemIsolationPolicy.hpp`, `DirectoryMerge.cpp` | none (pure) | which layers serve a path, query, list | `ResolveCore`, `LayeredDisk` (partly) |
| filesystem isolation | `sandbox/filesystem`, file hooks | layers, markers (whiteouts, opaque directories) on disk, records of handles | create, open, copy up, write, delete, rename, close | `FilesystemIsolation`, `FilesystemCalls`, `FileTree` (partly) |
| registry isolation | `sandbox/registry`, `NtQueryValueKey.cpp` | state hive, image, host, whiteout store, handles | open, create, set, delete, rename, query, list | `RegistryIsolation` (partly) |
| network isolation | `sandbox/network`, socket hooks | kind, peer and association of each socket by the value of its handle; queue of overlapped receives; table of fake addresses | connect, associate, send, receive, complete, close; resolve names | `Proxy` (partly) |
| injection module | `sandbox/Sandbox.cpp`, `sandbox/hook` | attached hooks | attach, detach | not modelled |
| preparation of the sandbox | `Launcher.cpp`, `PatchLayer.cpp`, `HiveMerge.cpp` | mounted runtime | prepare, release | one step of `ControlPlane`, `LauncherRace` |
| capture and snapshots | `src/src/core/*Capture*`, `Snapshot*` | snapshots of a machine | take, compare | candidate |
| packer, tracer, screens, fonts | `src/src`, `launcher/Splash.cpp`, `sandbox/fonts` | user interface, sequential files | | not modelled |

### How the components interact

* Launchers of one sandbox share nothing but the *name of a pipe*. Who creates its first instance is
  the master; every other launcher probes the pipe, connects, checks who serves it, and sends its start
  request. When the master is closing, the request comes back and the launcher races again.
* Inside the master, the *accept thread* gives each connection a session. The *thread of a session* runs
  the handler of a start request, which puts the request into the queue of the control plane and wakes
  the *control thread* through the completion port of the job set.
* The control thread alone starts programs. It sleeps in `ProcessJobSet::WaitAll()`, where the reports of
  the kernel (`JOB_OBJECT_MSG_ACTIVE_PROCESS_ZERO`) and the wakeups of the handlers arrive in one port.
* A call of a launcher waits on a promise which the thread of its session fulfils, from the answer of
  the master or from the end of the connection.
* An injected module reports the environment of its process to the master over the same pipe, one call
  at a time; the session of the process writes the document.
* The hooks of the filesystem and of the registry talk to nobody: each runs in the process which made the
  call, reads the layers, decides, and changes them in several steps, without a lock, next to the hooks
  of every other process of the sandbox.
* The hooks of the sockets share one table per process, behind a lock they hold for single reads and writes; the
  *worker* of the overlapped receives calls the same functions as the threads of the application.

### What is hard here

Concurrency: five kinds of threads over one master (control, accept, sessions, kernel reports, callers),
with promises, atomics and events between them. Ordering: the answer of a request, its counters, its
rollback and the end of the run are separate steps. Failure: any start, kill, post, wait, write and
pipe creation may fail, peers leave at any byte, masters die, copies break off, processes are killed between a
delete and its marker. Shared state without locks: layers and hives which
several processes resolve, copy up and mark. Timeouts: waits with deadlines, drains
with budgets, a race with a budget. `PROJECT.json` lists every such hazard at its line, with the
property which would catch it.

### What makes each component correct

* *Race*: one mounted sandbox at a time; a request is started once however often it is raced; the exit
  code of a launcher tells the truth; every launcher leaves.
* *Session*: a call is answered with the answer to it alone; a call which waits is in the table until the end of the
  connection empties it, and that step releases every call which waits then; whole frames in order; a drain loses no
  answer; the end is reported once; after a flood of the peer which ends, a stop comes back and answers leave.
* *Control plane*: no request is lost or answered twice; a request is whole or rolled back, and nothing
  else is touched; no wakeup is lost; nothing starts after the end; the run ends after its programs with
  the exit code of the configuration; every queued request is answered; the run ends.
* *Job set*: the wait ends when, and only when, every job is empty; no report is lost or counted twice;
  a mark of a pending wakeup is never a lie.
* *State query*: what a client may conclude from one answer, although its fields were read one by one.
* *Environment*: what a finished modification was told is what the next run reads; the state file is a
  whole document.
* *Resolution*: the walk is a union mount; readers and writers agree; a listing is what a query finds.
* *Filesystem*: between two calls the view is one plain file system and a call which succeeds did to it
  what it says; packed layers are never written and the host only where the table says so; no step
  changes the view away from its own path.
* *Network*: what the proxy carries never leaves directly; a peer is one the server granted; a control
  connection is held once; datagrams of the relay are unwrapped; every overlapped receive completes.
* *Registry*: listings, opens and queries agree; what a call did holds for every process until another
  call on the same entry; the host changes only below `Merge`.


## 2. Modules

    ProcessJobSet  <-- ControlPlane <-- RunState          RemoteSession        LauncherRace
                            |               ^
                            |    ControlPlane_proofs
                            '--> StartService (refinement)

    ResolveCore <-- LayeredDisk                           RegistryIsolation    EnvironmentState
          ^
    FilesystemIsolation <-- FilesystemCalls --> FileTree (refinement)          Proxy

`X_proofs` holds the theorems about `X`, for `RemoteSession`, `LauncherRace`, `RegistryIsolation`,
`EnvironmentState`, `LayeredDisk` with `ResolveCore`, `FilesystemIsolation` and `Proxy` as well; `ControlPlane_proofs`
holds those about `ProcessJobSet`, `ControlPlane`, its refinement of `StartService`, and `RunState`.

**`ProcessJobSet`** (`SpecSet`). `stage` is where a program is in `ProcessJobSet::Start()`, `procs` what
runs in its job, `key` the handle value of the job, which is the completion key of its reports,
`port` the set of messages in the completion port, `pending`, `reported` and `terminated` the fields of
the entries, `woken` the mark of `Wake()`, `waitPc`/`waitResult` the loop of `WaitAll()`. Actions follow
the locks: creating the job and the process, asking whether it is empty (outside of the lock), adopting
it (inside), exchanging the mark, posting the wakeup, taking one message, expiring. The port is a set
because the kernel sends the zero-process report of a job once and the mark admits one wakeup. The key
of a job may be used again after its handle was closed, which is the fault `"reuse"`.

**`ControlPlane`** (`Spec`, `FairSpec`) extends it with the master: the program counter `control` of the
control thread walks `RunMasterInstance()`, `MainLauncher()`, `WaitForPrograms()`, `DrainQueue()`,
`ProcessRequest()` and `Shutdown()` in the order of the code; `handler[r]` is the handler of a request
up to and after the lock of `Enqueue()`, with its two counters. Each place where another thread can step
between two statements is a place of a counter; a lock region is one action. `AcceptFails` is the report
of a dead pipe, `Kernel` lets programs end.

**`StartService`** is what the master promises: requests are served one at a time, as a whole, with one
final answer, and nothing starts after the sandbox closed. `ControlPlane!ImplementsStartService` maps
answers, queue and current request to it (`StatusOf`), and `open` to `~shuttingDown`.

**`RunState`** (`SpecQuery`) adds one state query, which reads four counters and the snapshot of the job
set in five steps between all steps of `ControlPlane`.

**`RemoteSession`** (`Spec`, `FairSpec`) is one end of a connection. `thread` walks `Run()`, with the
priorities of `WaitForMultipleObjects` (read, queued write, completed write, stop); `reading` and
`writing` are the overlapped operations, whose end signals their event; a message is two entries of
`sendQueue`, header and payload, as in `QueueWrite()`. `caller[c]` walks `SendRequest()` and the timed
`Call()`, `reply[r]` walks `SendResponse()` on any thread, `owner` walks the drain of the accepter and
`Stop()`. `Emptied` is the time after `FailPending()`. A call which passed the check of `ended` before and enters the table
after it is in the model, waits for ever without a budget, and is found by nothing: `CallsAreKept` leaves this one call out,
and section 6 shows it. The peer is the environment.

**`LauncherRace`** (`Spec`, `FairSpec`) is the protocol between launchers. `pc[l]` walks `RunLauncher()`
and, for a master, `RunMasterInstance()`; `listener[m]` is the instance its accept thread owns, `link[l]`
the connection of a client, `ghosts` the sessions whose peer left. The name of the pipe exists while any
server end of it is open. `CallTimesOut` is the deadline of 120 s of the call of a client: the launcher leaves with the
exit `"unanswered"`, which is `ERROR_TIMEOUT` as well, its connection goes (`"gone"`), and its request stays in `asked`, where the
master may still serve it. A `link` stands for a `RemoteSession` and `ServeRequest` for the whole of
`ControlPlane`: what the two modules show (an answer arrives or the connection breaks; a request is
started as a whole or not at all) is what the steps here assume.

A start may be one of several `Scenarios`, a set of launchers with its faults, which the
variable `faults` keeps; so one run asks the same questions of three launchers whose masters die and of
two under every fault of the pipe.

**`ResolveCore`** is the pure part of the filesystem: `Searched` are the layers the walk of a path looks at,
`HitIn` whether one of them holds it, `Masked` what the isolation table hides, `ResolvePlain` the result
record with the fields the callers use, `Expand` the expansion of links as a recursive function bounded by
`kMaxReparseDepth`, `Listing` the merge of an enumeration. A path is the sequence of its names; a layer is
its objects and the set of paths its markers name.

**`LayeredDisk`** builds every disk a resolution may meet, one object, marker or table entry at a time, and
compares `ResolveCore` with `Stack`, the folders of a union mount, which is defined from the top of the
path down instead of layer by layer: `Folder` takes the layers which take part in a folder (`layers`) and the
ones no marker above has ended (`open`) one name further down, where layers mounted there join. `Mixed` are
the paths with a folder and something else under one name, for which a union mount has no answer, and
`Bypassed` those with a layer mounted below a name which another layer holds as a link. The walk is a union
mount on either; readers, writers and listings agree on the others. When a path does not exist and the
table masks it, a reader and a writer may give different reasons (missing, or missing folder).

**`FilesystemIsolation`** (`Spec`) adds the hooks: `proc[p]` is the call of a process between two of its steps,
with the result it resolved at the beginning and uses to the end; `handle[p]` is its handle and the record
the hooks keep of it; `disk` is shared. One step is one native call of a hook: `MakeFolders`, `CopyStart` and
`CopyFill` (a copy is an empty file first), `Unhide`, `OpenFile`, `RecordHandle`, the deletes of the layers and
`MarkDeleted`, the steps of a rename. `Killed` ends a process anywhere, `CopyBreaks` a copy. A handle is on a file or
on a folder (`handle[p].dir`), and denotes nothing once an entry of the other kind took its place. `Paths` bound the
view: they are closed under prefixes, a layer is a tree of them, and a link which leads out of them fails to resolve.

**`FileTree`** is a plain file system with one tree; **`FilesystemCalls`** records the view whenever no call is
under way (`seen`) and the call which ended (`done`), and `IsFileTree` maps the two to it.

**`RegistryIsolation`** (`Spec`) is built the same way: `state`, `image` and `host` are the layers, `marks` the
whiteout store, `sees[p]` the flag `whiteout_possible` of a process; a call decides in its first step
(`SetValue`, `DeleteKey`, `RenameKey`, ...) and every hive it changes is a step of its own (`SetInState`,
`DropInState`, `JudgeKey`, `CopyUp`, ...). `told` is a history: what the last call on an entry promised, void as
soon as another call on it begins. A handle stays on its key when another process renames the key or one above it
(`Moved`), and a native delete or rename works on the key of the handle, whatever name the call began with; a rename
gives the last name of a path (`NewName`) and no root is renamed.

**`EnvironmentState`** (`Spec`): `block`, `table` and `mods` are what a process sees, composed and reports;
`call[t]` walks the hook of one thread from `Store` over `Check`, `Record` and `Build` to the answer, `writer[p]` the
session of a process over `Open`, `WriteText`, `Move` and `Answer`. A call passes one hook, `SetEnvironmentVariableW` or
`RtlSetEnvironmentVariable`, and stores once, since kernelbase does not go through the export of ntdll. `told` is what a
finished modification promised, `knows[p]` the promises a process was started after. A process may have several threads, which share
`block`, `table` and `mods` and take the pipe after they built their documents; a modification is promised nothing of a variable
which another thread of the process modifies at that time, or holds an older document of (`Disputes`).

**`Proxy`** (`Spec`, `FairSpec`, `AnsweringSpec`): `kind`, `stack` and `inbox` are what the stack of the host knows of a
socket, `table` is `Proxy::sockets_`, `call[a]` the call of a thread or of the worker between two lock regions or native
calls (`AskKind`/`KeepKind`, `Associate`/`RelayAnswers`/`KeepRelay`, `ReleaseState`/`CloseSocket`), and `queue`, `batch`,
`late` the loop of `RunWorker()`. The other entry points of ws2_32 take one of these paths: `WSASend` and `WSASendTo` those of
`send` and `sendto`, `WSARecvFrom` that of `WSARecv`, the extensions those of `connect`, `sendto` and `WSARecv`. A datagram
is named by the relay it came from, a relay by its control connection.

`MC*.tla` give the small instances for TLC; operators named in comments as *mutants* are wrong versions of
the operator below them, which the properties are tested against and which nothing else uses.


## 3. Runs

| run | module / cfg | question | states |
|---|---|---|---|
| `control` | `MCControlPlane` | is each request whole, answered once and never lost, does the run end after its programs, and is it a `StartService`? | 2.4 M |
| `control_live` | `MCControlPlane` / `MCControlLive` | is every queued request answered, and does a run whose programs end, end? | 330 k |
| `run_state` | `MCRunState` | does the wait for all jobs end only when they are empty, and are counters and a state query consistent, under every failure? | 3.3 M |
| `session` | `RemoteSession` / `MCSession` | is a call which waits in the table until the end empties it and releases all, are frames whole, drains complete, ends reported once? | 1.6 M |
| `session_live` | `RemoteSession` / `MCSessionLive` | after a flood which ends, do stops come back and answers leave, with junk and second answers too? | 203 k |
| `race` | `MCLauncherRace` / `MCRace` | is one sandbox mounted at a time, a request started once, its outcome true, and does every launcher leave, where calls reach their deadline too? | 398 k |
| `layered_disk` | `MCLayeredDisk` | is the walk a union mount, do readers, writers and listings agree? | 31 k |
| `fs_calls` | `MCFilesystemCalls` / `MCFsCalls` | do the hooks implement one plain file system? | 295 k |
| `fs_race` | `MCFilesystem` / `MCFsRace` | are packed layers and the host kept, and does a step change only its own path, with two processes, broken copies and kills? | 231 k up to symmetry |
| `registry` | `MCRegistry` | do readers agree, do calls hold, is the host kept, with two processes, kills and a store which fails, in fresh and older sandboxes? | 1.1 M up to symmetry |
| `network` | `MCProxy` | does nothing the proxy carries leave directly, are associations held once and datagrams unwrapped, does every receive complete? | 400 k |
| `environment` | `MCEnvironment` | does a finished modification survive, with two threads of one process and one of another, and is the state file whole? | 1.2 M up to symmetry |

**Bounds.** Jobs: the two programs of a request are one which is adopted and one which fails, early or late; the handler and
the accept thread are two threads which wake, one of which posts while the other finds the mark set. What the wait promises
is proved for any number of both (section 4). Control plane: `MaxQueue = 1` with two requests makes the queue full, and a
request of two programs is the smallest which needs a rollback. No counter needs a bound, since each request and each program
is used once. Sessions: one call and one request share the send queue, which is four parts, so that every pair of parts of
two messages can meet; `MaxInbound = 1` blocks the peer, and each message of the peer is sent once, except under `"flood"`
(`session_live`), where frames of no call come for as long as the peer likes. Race: three launchers are a master, a client
which was turned away and a third which races between the two. `RaceBudget`, `MaxDelay` scale the budget of 10 s and the
delay cap down to a few units, `MaxAcceptRetries = 1` the three delays of the code to one: the loops differ from the code in
how often they go round. Disk: a packed layer is mounted two folders deep, the least depth at which a marker may lie between
the mount and the root; four objects are a folder or link and a marker above the mount, and two objects at and below it, in
any layers. More layers, names, links and depth are the matter of the theorems (section 4). Filesystem: a folder and the file
in it are the smallest tree in which a marker covers another; three calls of one process make, delete and make an entry
again, two of each of two processes interleave. Registry: a key of a root and two sub keys, one value each, so that a sibling
can tell whether a marker hides too much; three calls of a process are open, write and delete; the sandbox is fresh, or one
of an earlier run which deleted a value, so that in either a process may mount the hive before or after the first marker; a
copied key whose sub keys are merged takes them up and leaves the host alone. Environment: two variables, so that one report
can lose what another said; two modifications of any of three threads are one which is promised and one which could undo it, by the same
thread, by its sibling or by another process; for more of both there are the theorems, whose invariants bound neither. `SYMMETRY`
permutes the processes of `fs_race` and `registry` and the two threads of one process in `environment`, which have no
liveness property. Network: one value of a handle which is used again is the hazard, so one is enough for what is checked;
two threads, or one and the worker, are the pairs which race for an association; two receives with `MaxPending = 1` fill the
queue and are put back behind each other; two control connections are one which is kept and one which must go. `MCScenarios`
hold a proxy of each kind.

What a run begins with is a set too: `SeqStarts`, `RaceStarts` and `MCStarts` name layers an earlier run, a package and
a host may leave, with one-entry tables. What the instances leave out on purpose is where the code does
not keep the property, and section 6 shows each case: `Habits` admit the rename of a folder and the delete
through a handle whose entry was renamed; `SeqRequests` and `RaceRequests` hold no call which replaces a file without an
access to write and none which makes a file where a folder was deleted, and `SeqStarts` no `Merge`, whose
creations over a marker go wrong; two copies of one file are visible only to the content of the overlay, which
`OnlyItsOwnPath` does not follow; the renames of `registry` have one new name, which no
entry of the table lists; in `network` a socket is not read by `recvfrom` while its first datagram
is sent, is not closed while another thread calls with it, is connected by `connect` if it carries datagrams, and
does not block if it has overlapped receives. `fs_race` also moves the folder's file over a deleted packed
file, and only `session_live` has frames which are none (`"junk"`); a flood is not followed beyond one, since the session keeps
in its buffer what it reads after it.

**Deadlock** is not checked: every one of these systems ends (the run is over, the session stopped, all
launchers left). That they do end is a property of the live runs.

**Faults.** A constant `Faults` names what goes wrong in a run. A property which needs the absence of one says so in its
definition (`NoWakeupLost` is about posts which arrive; lost ones are the matter of `EveryRequestAnswered`) or by the run
which checks it: `OneRuntime` without `"gap"`, `"transient"` and `"fatal"`, so with `"crash"` and `"slow"`;
`StateFileIsWhole` while one session writes at a time, and a promise of `ModificationsSurvive` is made only then; the deletes
of `CallsHold` for the processes which look for markers; `WireIsFramed` without `"write"`; `DrainIsComplete` without
`"twice"` and `"unsent"` (an answer which does not fit into a frame is counted as answered); `AnswersLeave` and `StopReturns`
with a `"flood"` which ends. In each of these cases what the property leaves out is not kept by the code, which section 6
shows. Where the code is silent about its own answer, so is the property: a launcher whose call reached its deadline
(`"slow"`) knows nothing, and `OutcomeIsTrue` says of it only that no other server than the one it asked started its
programs.

**Fairness.**

* `ControlPlane`: weak fairness of the control thread, of the handlers which began and of the accept
  thread (the scheduler runs a thread which can go on); strong fairness of the expiry of a wait, since
  the code waits with a timeout and the deadline passes however often messages arrive in between.
  Nothing makes a request come. That programs end is the hypothesis `WF_vars(Kernel)` inside `RunEnds`,
  and `EveryRequestAnswered` does without it.
* `RemoteSession`: the thread, the handlers, the calls which began and an owner which began to stop are
  scheduled, and posted I/O completes once it can. The peer is not fair. That its flood ends (`FloodEnds`) is the premise
  inside `StopReturns` and `AnswersLeave`, as the end of the programs is in `RunEnds`: the flood may be of any length, and fill
  the line and the queue before, during and after the stop. While it lasts, neither holds (section 6). Nothing is fair about the order
  of the events: the priority of `WaitForMultipleObjects` is in the guards.
* `Proxy`: the worker is scheduled and time passes. `AnsweringSpec` adds that the server answers the control connections
  of the worker, which block: the code has no deadline there, and without the answer `EveryReceiveCompletes` fails.
* `LauncherRace`: each thread of each launcher is scheduled, and programs end. No fault is fair, so a
  creation of the next instance which is always possible is made or given up.


## 4. Proofs

Each theorem holds for every value of the constants which satisfies the ASSUME of its module and the hypothesis
in the last column, where one is named. Each invariant was checked by TLC before it was proved.

| module | theorem | property | hypothesis |
|---|---|---|---|
| `ControlPlane_proofs` (job set) | `TypeCorrect` | `TypeOKSet` | |
| | `WakeupIsUnderWay` | `WokenIsUnderWay` | |
| | `ReportsTrue` | `ReportsAreTrue` | `"reuse"` is no fault |
| | `NoLostReport` | `NoReportLost` | `"reuse"` is no fault |
| | `PendingIsExact` | `PendingIsUnreported` | `"reuse"` is no fault |
| | `AllExitedTrue` | `AllExitedIsTrue` (action property) | `"reuse"` is no fault |
| `ControlPlane_proofs` (control plane) | `ControlTypes` | `TypeOK` | |
| | `NoneLost` | `NoRequestLost` | |
| | `RequestsAreWhole` | `RequestIsWhole` | |
| | `RollbacksAreOwn` | `RollbackIsOwn` | |
| | `WakeupsAreNotLost` | `NoWakeupLost` | |
| | `RunOutlivesPrograms` | `EndsAfterItsPrograms` | (the property names its faults) |
| | `ExitCodeOfTheConfiguration` | `ExitCodeIsOfTheConfiguration` | `"reuse"` is no fault |
| | `CountersExact` | `CountersAreExact` | |
| | `ServesOneAtATime` | `ImplementsStartService` (refinement) | |
| | `RollbacksReported` | `RollbackIsReported` (of `SpecQuery`) | |
| | `QueryOnlyReads` | `SpecQuery => Spec` | |
| `RemoteSession_proofs` | `SessionTypes` | `TypeOK` | |
| | `CallsKept` | `CallsAreKept` (an invariant and an action property) | (a call which enters the table after the end is left out) |
| | `ClosedHandlerOnce` | `ClosedOnce` | |
| | `FramesStayWhole` | `WireIsFramed` | `"write"` is no fault |
| | `DrainsAreComplete` | `DrainIsComplete` | `"write"`, `"twice"`, `"unsent"` are no faults |
| `LauncherRace_proofs` | `RaceTypes` | `TypeOK` | |
| | `OneRuntimeAtATime` | `OneRuntime` | (the property names its faults) |
| | `ProgramsStartOnce` | `StartedOnce` | |
| | `ExitCodesAreTrue` | `OutcomeIsTrue` | |
| `EnvironmentState_proofs` | `EnvironmentTypes` | `TypeOK` | |
| | `StateFileWhole` | `StateFileIsWhole` | (while one session writes, as the property says) |
| | `ModificationsKept` | `ModificationsSurvive` | (the property records what is promised) |
| `LayeredDisk_proofs` | `DisksAreRooted` | `DiskInv` | |
| | `WalkIsAUnion` | `WalkIsUnion` | |
| | `ReadersAgreeWithWriters` | `ReadersAndWritersAgree` | (the property excludes `Mixed` and `Bypassed` paths) |
| | `ListingsShowTheView` | `ListingIsView` | (the same, of the folder that is listed) |
| `FilesystemIsolation_proofs` | `FilesystemTypes` | `TypeOK` | |
| | `PackedLayersAreKept` | the first part of `LayersKept` | `WritersAsk` |
| | `LayersAreKept` | `LayersKept` (action property) | `WritersAsk`, `MergeIsConvex`, folders are not renamed |
| | `OnlyOwnPathsChange` | `OnlyItsOwnPath` (action property) | `WritersAsk`, `KindsFixed`, `Links = {}` |
| `RegistryIsolation_proofs` | `RegistryTypes` | `TypeOK` | |
| | `ListingsAgree` | `ReadersAgree` | |
| | `HostIsKept` | `HostKept` (action property) | `RenamesFit` |
| | `CallsAreKept` | `CallsHold` | `CopiesAreOpen` |
| `Proxy_proofs` | `ProxyTypes` | `TypeOK` | |
| | `ControlsHeld` | `ControlsAreHeld` | |
| | `CarriedIsNeverDirect` | `CarriedNeverDirect` | no socket is closed beside a call or connected by `WSAConnect` |
| | `PeersAreReached` | `PeerIsReached` | no socket is closed beside a call |
| | `RelayUnwrapped` | `RelayIsUnwrapped` (action property) | no socket is closed beside a call, or sent through for the first time while it is read as the host reads |

*Hypotheses.* Each one excludes a case in which the code breaks the property, which section 3 or 6 names with the cfg that
shows it, and the passing run of the property satisfies it. `"reuse"`: the value of a job handle is used again while a report
for the old one may be in the port; no line of the code excludes that. `"write"`, `"twice"`, `"unsent"`: a write fails while
the peer lives on, a handler answers twice, an answer does not fit into a frame. `WritersAsk`: who overwrites a file asks for
an access to write. `MergeIsConvex`: no entry of another mode lies between two of `Merge`, one below the other. `KindsFixed`:
where `Paths` and mounts have a folder, no layer starts with another object, no call makes a file there and no call renames
one to that name; a file that takes the place of a deleted folder shows what lower layers hold below it. `Links = {}`: a link
gives one object two names, so the call on one of them changes what the other shows. Renames of folders and deletes through
stale handles are not excluded here. `RenamesFit`: a key which is renamed in the host and its new name are merged with all
that lies below them. `CopiesAreOpen`: no key of `WriteCopy` lies below one of `Full` or `Hide`. The habits of `Proxy` are
the ones of its scenarios.

*Job set.* That an entry marked as reported is really empty (`ReportsAreTrue`) is not inductive: the step
which marks an entry reads a handle value out of the port. `ReportInv` strengthens it by what connects
value, message and job: handle values of different live jobs differ (`KeysDistinct`), the stage of a job
agrees with what runs in it (`StagesAgree`), a message in the port names a job without processes
(`MessagesTrue`), an empty entry which is not reported has its message still in the port
(`ReportsWait`), and reported jobs are entries. Starting, adopting, ending, terminating and taking a
message each keep it; the interesting steps are `AdoptJob`, which joins a job that may have ended since it was
asked, and the one which takes a report. `CountInv` adds that `pending` counts the unreported entries: each
step which changes it adds or removes one element of a finite set. `AllExitedIsTrue` then follows from the
guard of the two steps which return it: `pending = 0`, or an accounting which found every job empty.
`WokenIsUnderWay` is inductive with the types and a case split over the two threads involved. `run_state` checks the three
of these properties which hold of a whole run; `NoReportLost` and `PendingIsUnreported` are of the job set alone, since the run
drops its reports when it ends.

*Control plane.* A request is in one place: the queue, the swapped queue of the end, the hands of the control
thread, or answered. `RequestInv` says so (`Places`), says what the place of the control thread holds
(`Shape`), and relates programs to answers (`Whole`): what runs belongs to the configuration, to the request in
work, or to a request answered as started, and where a rollback is under way its programs are terminated. Every other
invariant builds on it. `WakeInv` says that a wait with a request in the queue has its wakeup in the port
or on its way, between two looks at the counter too. `EndInv` carries "every entry ended" from the return of the wait
over the accounting to the places behind the loop. `ExitInv` ties the exit code to the starts until
`Collect()` has read the programs. `CounterInv` equates counters with cardinalities, and leaves the one
place between answer and `CountHandled`. For the refinement, each action is mapped to a step of `StartService` or to a
stutter; the invariant is needed where the service asks that a request is new, in its queue, or current. `QueryInv`
keeps, for a query under way, the requests which were answered before it began, and that the counter it read is at least their
rollbacks and at most the terminated programs it will copy.

*Session.* `SessionInv` says that the part in flight is the front of the queue, that the line of the peer holds a request once
and before it has a reply, and that `inflight` counts the replies which are not sent. That a call which
waits is in the table is then inductive, and gives the second half of `CallsAreKept`: the step which empties the table releases
what is in it. For `WireIsFramed` the object is not the wire but the `Stream`, what was written and what is
queued: `StreamFits` says that it is a sequence of header and payload of pairwise different messages, and a write
moves a part within it. `DrainFits` adds which answers are on the stream at each stage of the drain.

*Race.* `CallerInv` relates the place of a launcher to its link, its answer and its code. `StartInv` names where
the news of a start can be: at the launcher itself, in an answer it has not read, or in its exit code; so
no launcher can race again after its programs were started. A launcher which gave up (`GaveUp`) keeps the server it asked in its
link, and its request is with that server alone. `HolderInv` says who accepts: with no fault but a crash, one
launcher at most is between the race and the end, it holds the name of the pipe throughout, and what is mounted is its
own.

*Environment.* `WholeInv` follows the temporary file of a session which is alone: torn while it is written, whole
before it is moved. `SurviveInv` carries a promise (`told`) on its way: into the modifications of a process, from there into the document of its
report, the one the session holds and the state file, and into the environment of every process started
later (`knows`). Several threads of a process build documents from one set of modifications and take the pipe in any order;
so `ProcessKeeps` says of the promises a process has made that its modifications and every document in the hands of its threads
hold them (`ThreadKeeps`), and what a document could still undo was never promised.

*Resolution.* The three properties are proved for any number of layers, any mounts, links, tables and paths of any depth.
They hold of every disk on which `DiskInv` holds: each layer is a tree down from its mount, which no marker hides
(`Rooted`). The recursive definitions are functions over `0..n`, and the prover cannot instantiate the library's induction
theorems; here each function is shown to be a closed form instead. `StackIs` is the main one: a layer takes
part in a folder of a path exactly when its own walk reaches the folder and no layer before it ended at or above it
(`TakingAt`). One lemma says that the closed form satisfies the equation of the function, for the root and one name
further down (`FolderAtRoot`, `FolderBelow`), another that only one function does: at the least argument where two differ (`Least`, from
the well-foundedness of the numbers) their equations give one value. The walk of the code finds what that form says
(`HitIs`, `RawHitsAreStack`), so it is a union mount. For readers and writers, the reader's hits are the first of the
writer's (`ReaderHits`), and either no probe meets a link, so that both answer for the path itself, or both expand the
path and go on with the same one; the case between, a reader which stopped in a layer before the writer met a link, is
where `Bypassed` is needed (`NoLinkAbove`). For listings, a layer which serves a name serves the folder (`HitFront`), which
is what `Rooted` is needed for, and a query of a name in a folder of the view meets no link above it (`NoLinkToFolder`).

*Filesystem.* A call decides with what it resolved at its beginning and writes many steps later. `WriteInv`
keeps what must still be true then: the result has the mode of its path, what it found in a packed layer is
there, a handle which may write is of the upper layer or below `Merge`, and the place of the call admits its write. For the host
`HostInv` adds that the host is a tree without markers, that a result which leads to the host has its object there
unless the path is merged, that a rename holds no folder, and that a folder about to be removed from the
host has only merged objects in it. The last one is where `MergeIsConvex` is needed.

`OnlyItsOwnPath` is about what a reader sees, and the view resolves each path through all layers. Three facts bring it down to
the layers. What a path shows is a function of the nodes and markers at the path and above it alone (`LocalView`), so a step which
changes some layer at one path and below it changes nothing else that is seen (`LocalAt`). A call also makes the folders above its
path in the layer it writes, and those may lie anywhere in the union: `ChangedView` shows that each shows as itself, where
nothing was, or as the root of a layer which is mounted in it, and that no folder, file or marker which was there is covered; this needs
that no layer holds a file where another has a folder. So every step is one of these two, or the two together (`ChangesAt`),
and `NextOwn` shows it for each action. The invariant `PathInv` carries what that takes from the beginning of a call to its
write: `WriteInv`, that the upper layer and the host are trees in which folders are folders (`Sound`), and that the result
of a call names the path of its request while it opens, and no folder of the view while it moves a file or lifts a marker (`PathFits`).
The proof showed that the property has to name the mounted roots: a folder made above a mount, in a layer which had
none, brings the mount into view beside the folder (`OnTheWay`). No instance of the runs has such a mount.

*Registry.* `ReadersAgree` holds in every state, by case over what the lookup of a key and the listing of its parent look at.
`WriteInv` says of a call before a write of the host that its key, and its handle after the renames of others, is merged; the
renames are where `RenamesFit` is needed. That `CallsHold` is about two steps and what other processes do between them: the
call which told, and the one which finds something else. `PromiseInv` therefore says of every entry that was told that it is
as it was told (a deleted one is in no layer a process looks at, a written one is in the state hive) *and* that no call under
way may change it; of a call which will tell and which no other call overlapped, that no other call may change its entries,
that its handle is still the one of its key (`Alone`), and what it read before and does not read again (`Found`): that the
lower layers held nothing, or that the key is merged. The layers are trees, since a key that is made or copied brings the
keys above it, and no handle of the state hive outlives its key. Each step keeps it, since what a step changes (`Effects`) is
among what its call may change, and what a call may change only shrinks (`Narrows`), but for a handle which a rename moves:
then it may change what the rename changed too. Whether a process looks for markers is part of what is promised to it, and an
open by one which looks for none voids the promise of a delete, since its handle may write the key again. `CopiesAreOpen` is
needed for the keys above a copy, which must have been found before.

*Network.* `CallInv` says what the place of a call knows, `HeldInv` who holds each open connection, one
entry or the one call which opened it. `KindInv` says that what the table remembers of a handle is true of its
socket, since nobody closes the socket under a call; `CarriedInv` and `PeerInv` add what each place of a call concluded from
it: that a carried kind is not on its way to the host, and that the peer to be recorded is the one the socket is
connected to. `RelayInv` follows a datagram of a relay: the server sends it to the socket whose entry has the connection it
came over, and there it is of the association the table knows, or the socket is being closed (`RelayKnown`,
`ClientKnown`). A call which reads on the path of the host is alone with a socket without an association (`AloneFits`, `TakesFit`),
and the worker reads the socket of its current receive (`ServesCurrent`), so that the only one left to see a header is a receive
whose socket is closed below it.

*Only model-checked.*

* `IsFileTree`, the refinement of a plain file system: between the first and the last step of a call it needs, for each of the
  steps in between, what the path of the call itself shows. `OnlyItsOwnPath` is its other half, for all other paths.
* Every liveness property (`EveryRequestAnswered`, `RunEnds`, `StopReturns`, `AnswersLeave`,
  `EveryLauncherLeaves`, `EveryReceiveCompletes`): fairness and `ENABLED` are out of the reach of the prover.
* The violations of section 6.


## 5. Not modelled, and why

* Text: JSON, command lines, names, messages and logs. A message is the name of what it is about, a path the
  sequence of its names, and names which differ in case are one name.
* The frame decoder: `RemoteSession` takes frames as its alphabet, and `"junk"` is what is no frame.
* The resolution of a startup file into a program, the command line and the injection: a choice between
  started and failed, early or late.
* Security descriptors and pipes of other users; the check of the server's identity is a read of a process which
  may have left.
* In `LauncherRace`, an answer which cannot be read (`ERROR_INVALID_DATA`) and the check of the sandbox identifier of the
  master are not modelled, the budgets of
  `RemoteAccepter::Stop()` suffice, and an answer which was drained stays readable. The budget of the
  stop does run out in `ControlPlane` (`"slow"`) and `RemoteSession` (the drain may give up). That `accept_retry` is
  never reset by a success is in the model, and no property depends on it.
* Filesystem: hard links, streams, sections, sharing modes, change notifications, short names, the query hooks of
  single attributes, and what the file system of a layer does with a link of its own. A rename moves one
  file or folder, and a folder of a rename keeps what is in its own layer.
* Registry: transacted opens, save and export, `NtQueryKey` names, opens relative to a handle of the image,
  the second and later values of a key, and handles beside the last one of a process.
* Environment: how the layers and the host compose to an environment (`Composed` is a constant), the text of a
  document, and `Clear()`.
* Network: addresses which are not of IP and go straight to the host (`connect.cpp:37`, `:47`, `sendto.cpp:27`), the text of
  the protocol (`Socks5.cpp`), the table of fake addresses and the hooks which resolve names, the bytes of a stream, the
  buffers and completion ports of an overlapped call, partial sends, and the start and end of the module. A server which ends
  a control connection is not modelled: the code does not notice it.
* The difference of snapshots is sequential code over tables with little state; the
  capture, the packer and the widgets are user interface over them.
* Splash screen, fonts, tracer, packer and capture keep no state the components above depend on.


## 6. Disagreements of code and documentation

Found while modelling. None of them is a run of `PROJECT.json`, whose runs all pass; each has a property beside
the ones above and a cfg which makes TLC show it, `tlc -config <cfg> <module>`:

| cfg (module) | property | what the code does | what it contradicts |
|---|---|---|---|
| `FindReusedHandle` (`MCProcessJobSet`) | `AllExitedIsTrue` | `WaitAll` matches a report by handle value; a job closed by a late start failure leaves a report which marks the next job with the same value. | `ProcessJobSet.hpp:35` |
| `FindStartedNotHandled` (`MCRunState`) | `AnsweredIsHandled` | A request is counted as handled after its answer left. | `MultiInstance_Join.cpp:64` |
| `MCSession` with `Requests = {}`, `Faults = {"leave"}` | `StopReleasesCallers` | `SendRequest` checks `ended`, the session empties its table, then the call enters the table and waits for ever. | `RemoteSession.hpp:311` |
| `MCSession` with `Requests = {}`, `Faults = {}` | `StopReportsClosed` | `Stop()` fails calls with `ERROR_OPERATION_ABORTED`. | `RemoteSessionDetail.hpp:294` |
| `FindCallCrash` (`RemoteSession`) | `CallsNeverCrash` | A request which is too large sets a promise the end of the connection has set. | `RemoteSessionDetail.hpp:706` |
| `MCSession` with `Callers = {}`, `Requests = {r1, r2}`, `MaxInbound = 2`, `Faults = {"twice"}` | `DrainIsComplete` | A second answer for one request counts down for another. | `RemoteSession.hpp:298` |
| `MCSessionLive` with `Faults = {"flood"}` and PROPERTY `QueuedAnswersArrive`, or with `Requests = {}` too and `StopComesBack` | `QueuedAnswersArrive`, `StopComesBack` | The read event has the first priority: a peer which keeps it signalled starves the write event and the stop event. | `RemoteSessionDetail.hpp:241`, `:118` |
| `MCSession` with `Callers = {}`, `Faults = {"write"}` | `WireIsFramed` | A failed write drops one part of a message and sends the other. | `RemoteSessionDetail.hpp:608` |
| `FindTwoMasters` (`MCLauncherRace`) | `OneRuntimeEver` | The probe of one launcher uses up the only instance of an idle master; until the next one exists another launcher wins the race. A failed accept frees the name as well. | `RemoteAccepterDetail.hpp:621`, `main.cpp:794` |
| `FindDenied` (`MCLauncherRace`) | `NobodyIsDenied`, `NobodyIsMismatched` | A master which leaves before the probe, or before the check of its identity, is taken for another user's. | `docs/Launcher.md:263`, `:586` |
| `MCProxy` with `Scenarios <- ReadsFirst` | `RelayIsUnwrapped` | `Hook_recvfrom` asks for an association before it blocks; the reply to a datagram another thread sends meanwhile is handed over with the header of the protocol. | `recvfrom.cpp:54` |
| `MCProxy` with `Scenarios <- WsaConnects` | `CarriedNeverDirect` | `WSAConnect` of a datagram socket connects it on the host and records no peer, so its `send` leaves directly. | `docs/NetworkIsolation.md:183` |
| `MCProxy` with `FairSpec`, or with `Scenarios <- Waits`, `MaxPending = 2` | `EveryReceiveCompletes` | The control connection of an association has no deadline, and neither has `recvfrom` on a socket which blocks and whose datagram another receive took. | `docs/NetworkIsolation.md:169`, `:274` |
| `MCProxy` with `Scenarios <- Cancels` and two handles | `FailsForItsOwn` | One socket which was closed fails the `select()` and with it the receives of all others. | |
| `MCProxy` with `Scenarios <- Cancels`, `MaxPending = 2` | `ReceivesInOrder` | A receive which is put back stands behind the ones which were queued meanwhile. | |
| `MCProxy` with `Scenarios <- Cancels` or `Races` | `StateIsReleased` | A call which is under way while its socket is closed leaves its entry, for the next socket of that value. | `docs/NetworkIsolation.md:136` |
| `MCLayeredDisk` with `Paths <- BesidePaths`, `Links <- RootLinks` | `AgreePastLinks` | A reader stops in a packed layer which is mounted below a name the host holds as a link, and never meets the link; a writer asks the host too, meets it and follows it (`ResolveCoreDetail.hpp:486`, `:967`). | `docs/FilesystemIsolation.md:489` |
| `FindHostWritten` (`MCFilesystem`) | `LayersKept` | A call which replaces a file but asks only for read access is no modification (`NtCreateFile.cpp:517`): the file of a package or of the host is truncated. | `docs/FilesystemIsolation.md:474` |
| `FindCopiedTwice` (`MCFilesystem`) | `CopyUpKeepsTheOverlay` | Two processes which resolved a file below copy it up one after the other; the second empties what the first wrote. | `CopyUp.hpp` |
| `MCFsCalls` with `Faults = {"copy"}`, `MaxCalls = 1` | `IsFileTree` | A copy which breaks off leaves an empty file in the upper layer, which every later call takes for the file. | `docs/FilesystemIsolation.md` |
| `FindFileOverFolder` (`MCFilesystemCalls`) | `IsFileTree` | A file made where a folder was deleted removes the whiteout, and what the lower folder held is found below it. | `docs/FilesystemIsolation.md` |
| `FindMergeRecreate` (`MCFilesystemCalls`) | `IsFileTree` | Below `Merge` a creation over a whiteout opens the entry of the host which the whiteout hid. | `docs/FilesystemIsolation.md` |
| `FindRenamed` (`MCFilesystemCalls`) | `IsFileTree` | The rename of a folder moves what one layer holds of it, and the record of the handle keeps the old name. | `docs/FilesystemIsolation.md` |
| `FindSiblingHidden` (`MCRegistry`) | `DeleteIsOfItsSubtree` | The marker of a deleted key is made with the keys above it, and `IsKeyWhitedOut` takes each of them for a marker: the image and the host entries of all its siblings disappear. | `docs/RegistryIsolation.md` (deletion and whiteouts) |
| `MCRegistry` with `Starts <- SplitStarts`, `MaxCalls = 2` | `HostKept` | A rename looks at the mode of the old name only: a merged key is renamed in the host to a name which the table isolates. | `docs/RegistryIsolation.md:73` |
| `MCRegistry` with INVARIANT `DeletedForAll` | `DeletedForAll` | A process which mounted the hive before the first marker never looks for one, and finds what another process deletes. | `docs/RegistryIsolation.md:506`, `__init__.cpp:1395` |
| `MCRegistry` with `MaxCalls = 2` and INVARIANT `BatchAgrees` | `BatchAgrees` | `NtQueryMultipleValueKey` answers a value of the image which was deleted. | `docs/RegistryIsolation.md` |
| `MCRegistry` with `Keys <- DeepKeys`, `Starts <- DeepStarts`, `Requests <- DeepRequests`, `Faults = {}`, `MaxCalls = 2` | `CallsHold` | The write of a copied key below keys whose host is hidden makes them in the state hive (`CreateHiveKey`), also one which was deleted and got no whiteout, since no lower layer showed it. | `docs/RegistryIsolation.md` (deletion and whiteouts) |
| `FindTornState` (`MCEnvironment`) | `StateFileParses` | Two sessions write one temporary file; the move of the first publishes half of the second. | `Environment.cpp:26` |
| `MCEnvironment` with `Faults = {}` and PROPERTY `ReportsAreNewest` | `ReportsAreNewest` | A document is built before the pipe is taken: of two threads the older document may be written last, and `HasValue()` keeps the lost one from being sent again. | `docs/EnvironmentIsolation.md` |
| `FindAnsweredUnwritten` (`MCEnvironment`) | `AnsweredIsKept` | A report is answered although its document was not written or moved. | `sandbox/msg/Environment.hpp` |

Also seen, and left out of the instances or of the models:

* Registry: a process which looks for no markers makes a deleted key again by a write through its handle. The copy of a renamed key
  ignores whiteouts; a rename below `Merge` ignores the listed values of the new name; an open relative to a handle of
  the image resolves in the image alone. The delete of a merged key of the host takes a value of it which the table lists
  along (`__init__.cpp:2951`); `ListedStay` speaks of a value while its key is there.
* Filesystem: between the removal of an upper entry and its whiteout (`NtClose.cpp:59`) the lower entry is visible
  again; a recorded directory misses an upper folder made after the open; `RemoveDirectoryW` of a folder which is
  not empty in the view reports success; a folder which is made again over a whiteout and a lower folder succeeds without a handle
  (`NtCreateFile.cpp:441`); with a folder of another mode between two `Merge` entries, the delete of the outer one in
  the host (`RemoveAll.cpp:176`) races with a process which makes the folder in the middle, and `LayersKept` fails.
* Network: `select()` looks at 64 sockets (`FD_SETSIZE`), while a batch holds up to 256 receives, which a receive that is put
  back does not even count against; two receives of one socket and one datagram make the worker wait for the deadline of
  the second before it serves any other.
* Session and state query: the thread of a session leaves with messages in its queue (`RemoteSessionDetail.hpp:588`); a query
  between two increments reads more early requests than requests (`docs/Launcher.md:425`).


## 7. Plan

The models cover the launcher, its connections and the four isolations which keep state, and their
safety invariants are proved. What comes next:

1. The refinement `IsFileTree`, on top of `OnlyOwnPathsChange`: what each step of a call does to the view at its own path.

Candidates for models after that: the frame decoder against a reference over all short buffers and all ways to cut
them, the table of fake addresses of the network, and the difference of two snapshots.
