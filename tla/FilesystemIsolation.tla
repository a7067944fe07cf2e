------------------------- MODULE FilesystemIsolation -------------------------
(***************************************************************************)
(* What the file hooks of the sandbox do to the layers: NtCreateFile,      *)
(* NtOpenFile, NtClose, NtDeleteFile and the renames of                    *)
(* NtSetInformationFile (sandbox/hook), over sandbox/filesystem and         *)
(* sandbox/utils.  A hook runs inside the process which makes the call and *)
(* takes no lock: every call it makes to the file system is a step of its  *)
(* own, and the steps of two processes interleave.                         *)
(*                                                                         *)
(* A resolution is one step.  A process has one call under way and one     *)
(* handle.  An object which is deleted while a handle is open leaves its    *)
(* name at once, and the handle denotes it no longer.                      *)
(***************************************************************************)
EXTENDS ResolveCore, TLC

CONSTANTS
    Procs,       \* sandboxed processes
    Requests,    \* the calls they make
    Starts,      \* the layers and the isolation table when a run starts
    Written,     \* what a process writes into a file
    Habits,      \* what the programs do as well: "deletes renamed", "renames folders"
    Faults,      \* "copy": a copy-up breaks off; "kill": a process dies in a call
    MaxCalls     \* bound: calls of one process

VARIABLES
    disk,    \* the layers
    iso,     \* the isolation table, fixed at injection time
    proc,    \* the call of each process: where it is, what it asked, what it resolved
    handle,  \* the handle of each process
    calls    \* how many calls each process made

vars == <<disk, iso, proc, handle, calls>>

\* A call: "create" (NtCreateFile), "open" (NtOpenFile), "delete" (NtDeleteFile)
\* and "rename" (NtSetInformationFile), which moves the object of the handle.
Dispositions == {"open", "create", "open_if", "overwrite", "overwrite_if"}
Request == [call : {"create", "open", "delete", "rename"}, path : Paths,
            disp : Dispositions, edit : BOOLEAN, dir : BOOLEAN]

\* The root of a layer is a folder, and what lies in the layer lies in a folder of
\* it, its markers too.
IsTree(layer) ==
    /\ layer.node[<<>>] \in {None, Dir}
    /\ \A q \in Paths : layer.node[q] # Dir =>
          /\ \A x \in Paths : IsStrictPrefix(q, x) => layer.node[x] = None
          /\ \A x \in layer.whiteout : ~IsStrictPrefix(q, x)
          /\ \A x \in layer.opaque : ~IsPrefix(q, x)

\* The host carries no markers.
ASSUME FilesystemAssumption ==
    /\ Requests \subseteq Request /\ Written \subseteq Data /\ MaxCalls \in Nat
    /\ \A r \in Requests : r.call = "open" => r.disp = "open"
    /\ \A s \in Starts :
          /\ s.disk \in Disks /\ IsTree(s.disk[Upper]) /\ IsTree(s.disk[Host])
          /\ s.disk[Host].whiteout = {} /\ s.disk[Host].opaque = {}
          /\ \A q \in DOMAIN s.iso : q \in Paths /\ s.iso[q] \in Entry

NoHandle == [open |-> FALSE]
Idle     == [pc |-> "idle"]

WantCreate(r) == r.call = "create" /\ r.disp \in {"create", "open_if", "overwrite_if"}
ReadsOnly(r)  == r.call = "create" /\ ~WantCreate(r) /\ ~r.edit
Follow(r)     == IF r.call \in {"create", "open"} THEN "All" ELSE "Parent"

Init ==
    /\ \E s \in Starts : disk = s.disk /\ iso = s.iso
    /\ proc = [p \in Procs |-> Idle]
    /\ handle = [p \in Procs |-> NoHandle]
    /\ calls = [p \in Procs |-> 0]

-----------------------------------------------------------------------------
\* The file system of a layer.

Holds(d, i, p)    == NodeAt(d, i, p) # None
HasFolder(d, i, p) == p # <<>> /\ NodeAt(d, i, Front(p)) = Dir
Put(d, i, p, n)   == [d EXCEPT ![i].node[p] = n]
Below(d, i, p)    == {q \in Paths : IsStrictPrefix(p, q) /\ d[i].node[q] # None}
MarkersIn(d, i, p) == {q \in d[i].whiteout : IsStrictPrefix(p, q)} \cup {q \in d[i].opaque : IsPrefix(p, q)}

\* RemoveAll(): an object with everything below it, the markers in it included.
RemoveAll(d, i, p) ==
    [d EXCEPT ![i] = [ node     |-> [q \in Paths |-> IF IsPrefix(p, q) THEN None ELSE @.node[q]],
                       whiteout |-> {q \in @.whiteout : ~IsStrictPrefix(p, q)},
                       opaque   |-> {q \in @.opaque : ~IsPrefix(p, q)} ]]

\* NtDeleteFile() of one layer: an object which is there and holds nothing.
CanDelete(d, i, p) == Holds(d, i, p) /\ Below(d, i, p) = {} /\ MarkersIn(d, i, p) = {}
DeleteOne(d, i, p) == IF CanDelete(d, i, p) THEN Put(d, i, p, None) ELSE d

\* CreateDirectories(): the folders above an entry, down to the first which
\* another object keeps from being made.
Folders(d, i, p) ==
    LET blocked(k) == \E j \in 1..k : NodeAt(d, i, Prefix(p, j)) \notin {None, Dir}
    IN  [d EXCEPT ![i].node = [q \in Paths |->
            IF IsStrictPrefix(q, p) /\ @[q] = None /\ ~blocked(Len(q)) THEN Dir ELSE @[q]]]

\* NtCreateFile() of one layer.
CanOpen(d, i, r, p) ==
    LET n == NodeAt(d, i, p)
    IN  IF n = None THEN r.disp \in {"create", "open_if", "overwrite_if"} /\ HasFolder(d, i, p)
        ELSE /\ r.disp # "create"
             /\ r.dir => n = Dir
             /\ n = Dir => r.disp \in {"open", "open_if"}
Opened(d, i, r, p) ==
    IF Holds(d, i, p) /\ r.disp \in {"open", "open_if"} THEN d
    ELSE Put(d, i, p, IF r.dir THEN Dir ELSE File(Empty))

-----------------------------------------------------------------------------
\* NtCreateFile and NtOpenFile.

ToHost(res) == WritesToHost(res.mode, res.holds)
Exists(res) == res.status = "Exists"

Refused(r, res) ==
    \/ ~res.resolved
    \/ ~res.parent
    \/ r.call = "create" /\ r.disp = "create" /\ Exists(res)
    \/ ~Exists(res) /\ (r.call = "open" \/ r.disp = "overwrite")
    \/ ~Exists(res) /\ ~WantCreate(r) /\ (res.status = "HiddenByIsolation" \/ res.masked)

\* Whether the call changes the entry, and in which layer.
Modifies(r, res)   == r.edit \/ (WantCreate(r) /\ ~Exists(res))
TargetHost(r, res) == Modifies(r, res) /\ ToHost(res)
NeedsCopy(r, res)  == Modifies(r, res) /\ ~ToHost(res) /\ ~res.inUpper /\ res.hits # {}
OpenLayer(r, res)  ==
    IF TargetHost(r, res) THEN Host
    ELSE IF r.call = "create" /\ (r.edit \/ ~Exists(res)) THEN Upper
    ELSE IF r.call = "open" /\ res.inUpper THEN Upper
    ELSE IF res.hits = {} THEN Upper
    ELSE First(res.hits)

At(p, pc)      == proc[p].pc = pc
Req(p)         == proc[p].req
Res(p)         == proc[p].res
Goto(p, pc)    == proc' = [proc EXCEPT ![p].pc = pc]
Call(p, pc, r, res) == proc' = [proc EXCEPT ![p] = [pc |-> pc, req |-> r, res |-> res]]
Return(p)      == proc' = [proc EXCEPT ![p] = Idle]
AfterResolve(r, res) ==
    IF r.call = "create" /\ (WantCreate(r) \/ r.edit) THEN "folders"
    ELSE IF NeedsCopy(r, res) THEN "copy" ELSE "open"

OpenResolved(p, r, res) ==
    /\ ~Refused(r, res)
    /\ IF WantCreate(r) /\ res.status = "HiddenByWhiteout" /\ res.whiteoutInUpper
       THEN Call(p, "unhide", r, res)
       ELSE Call(p, AfterResolve(r, res), r, res)

OpenFile(p, r) ==
    /\ At(p, "idle") /\ ~handle[p].open /\ calls[p] < MaxCalls
    /\ r.call \in {"create", "open"}
    /\ OpenResolved(p, r, Resolve(disk, iso, r.path, ReadsOnly(r), Follow(r)))
    /\ calls' = [calls EXCEPT ![p] = @ + 1]
    /\ UNCHANGED <<disk, iso, handle>>

\* Mutant: the creation takes every marker of the folder away.
UnhideFolder(p) ==
    /\ At(p, "unhide")
    /\ disk' = [disk EXCEPT ![Upper].whiteout = {q \in @ : Front(q) # Front(Res(p).path)}]
    /\ Goto(p, "again")
    /\ UNCHANGED <<iso, handle, calls>>

\* A creation takes the marker of an earlier delete away.
Unhide(p) ==
    /\ At(p, "unhide")
    /\ disk' = [disk EXCEPT ![Upper].whiteout = @ \ {Res(p).path}]
    /\ Goto(p, "again")
    /\ UNCHANGED <<iso, handle, calls>>

\* Merge looks the layers up again; a folder which a layer below still holds is
\* made opaque.
ResolveAgain(p) ==
    /\ At(p, "again")
    /\ Call(p, IF Req(p).dir /\ Exists(Resolve(disk, iso, Res(p).path, TRUE, "All")) THEN "newdir" ELSE "folders",
            Req(p),
            IF Res(p).mode = "Merge" THEN Resolve(disk, iso, Res(p).path, FALSE, Follow(Req(p))) ELSE Res(p))
    /\ UNCHANGED <<disk, iso, handle, calls>>

MakeFolderAgain(p) ==
    /\ At(p, "newdir")
    /\ disk' = IF CanOpen(disk, Upper, Req(p), Res(p).path) THEN Opened(disk, Upper, Req(p), Res(p).path) ELSE disk
    /\ Goto(p, "opaque")
    /\ UNCHANGED <<iso, handle, calls>>

\* The marker ends the call, which has no handle for its caller.
MakeOpaque(p) ==
    /\ At(p, "opaque")
    /\ disk' = IF NodeAt(disk, Upper, Res(p).path) = Dir THEN [disk EXCEPT ![Upper].opaque = @ \cup {Res(p).path}] ELSE disk
    /\ Return(p)
    /\ UNCHANGED <<iso, handle, calls>>

MakeFolders(p) ==
    /\ At(p, "folders")
    /\ disk' = Folders(disk, IF TargetHost(Req(p), Res(p)) THEN Host ELSE Upper, Res(p).path)
    /\ Goto(p, IF NeedsCopy(Req(p), Res(p)) THEN "copy" ELSE "open")
    /\ UNCHANGED <<iso, handle, calls>>

\* CopyUpEntry(): the file of the overlay is created empty, or emptied, and filled
\* afterwards.  A folder is not copied, and the call goes on without the copy; a
\* link is copied as it is, or the call ends.
CopyStart(p) ==
    /\ At(p, "copy")
    /\ LET res    == Res(p)
           source == NodeAt(disk, First(res.hits), res.path)
           d      == Folders(disk, Upper, res.path)
           ok     == HasFolder(d, Upper, res.path) /\ NodeAt(d, Upper, res.path) # Dir
       IN  \/ /\ source.kind = "file" /\ ok
              /\ disk' = Put(d, Upper, res.path, File(Empty))
              /\ Goto(p, "fill")
           \/ /\ source.kind = "link" /\ ok
              /\ disk' = Put(d, Upper, res.path, source)
              /\ Goto(p, "copied")
           \/ /\ source.kind \in {"dir", "none"} \/ ~ok
              /\ disk' = IF source.kind \in {"file", "link"} THEN d ELSE disk
              /\ IF source.kind = "link" THEN Return(p) ELSE Goto(p, "copied")
    /\ UNCHANGED <<iso, handle, calls>>

CopyFill(p) ==
    /\ At(p, "fill")
    /\ LET q == Res(p).path
           source == NodeAt(disk, First(Res(p).hits), q)
       IN  disk' = IF NodeAt(disk, Upper, q).kind = "file" /\ source.kind = "file"
                   THEN Put(disk, Upper, q, source) ELSE disk
    /\ Goto(p, "copied")
    /\ UNCHANGED <<iso, handle, calls>>

CopyBreaks(p) ==
    /\ At(p, "fill") /\ "copy" \in Faults
    /\ Goto(p, "copied")
    /\ UNCHANGED <<disk, iso, handle, calls>>

\* NtOpenFile takes the copy for granted.
Copied(p) ==
    /\ At(p, "copied")
    /\ LET res == Res(p)
       IN  IF Req(p).call = "open"
           THEN Call(p, "open", Req(p), [res EXCEPT !.inUpper = TRUE, !.hits = @ \cup {Upper}])
           ELSE Goto(p, "open")
    /\ UNCHANGED <<disk, iso, handle, calls>>

NewHandle(r, i, q, node, record) ==
    [open |-> TRUE, at |-> <<i, q>>, path |-> q, edit |-> r.edit, dir |-> node = Dir, record |-> record,
     pending |-> FALSE]
NoRecord == [hits |-> {}]

\* NtOpenFile records what it resolved; NtCreateFile resolves once more.
Opens(p) ==
    /\ At(p, "open")
    /\ LET r   == Req(p)
           res == Res(p)
           i   == OpenLayer(r, res)
           ok  == CanOpen(disk, i, r, res.path)
           recorded == r.call = "create" /\ (r.edit \/ r.dir \/ res.kind = "dir")
           opened == Opened(disk, i, r, res.path)
       IN  /\ disk' = IF ok THEN opened ELSE disk
           /\ handle' = IF ok THEN [handle EXCEPT ![p] =
                                        NewHandle(r, i, res.path, NodeAt(opened, i, res.path),
                                                  IF r.call = "open" THEN res ELSE NoRecord)]
                        ELSE handle
           /\ IF ok /\ recorded THEN Goto(p, "record") ELSE Return(p)
    /\ UNCHANGED <<iso, calls>>

RecordOf(res) == IF Exists(res) THEN res ELSE NoRecord

RecordHandle(p) ==
    /\ At(p, "record")
    /\ handle' = [handle EXCEPT ![p].record = RecordOf(Resolve(disk, iso, Res(p).path, FALSE, Follow(Req(p))))]
    /\ Return(p)
    /\ UNCHANGED <<disk, iso, calls>>

-----------------------------------------------------------------------------
\* Calls which act on a handle and reach the file system as they are.

\* Another object under the name of the one which was opened is told by its kind.
Denotes(p) ==
    /\ handle[p].open /\ Holds(disk, handle[p].at[1], handle[p].at[2])
    /\ handle[p].dir <=> NodeAt(disk, handle[p].at[1], handle[p].at[2]) = Dir

Write(p, c) ==
    /\ At(p, "idle") /\ Denotes(p) /\ handle[p].edit
    /\ NodeAt(disk, handle[p].at[1], handle[p].at[2]).kind = "file"
    /\ disk' = Put(disk, handle[p].at[1], handle[p].at[2], File(c))
    /\ UNCHANGED <<iso, proc, handle, calls>>

\* FileDispositionInformation: a folder of the layer has to be empty.
SetDelete(p) ==
    /\ At(p, "idle") /\ Denotes(p) /\ handle[p].edit /\ ~handle[p].pending
    /\ CanDelete(disk, handle[p].at[1], handle[p].at[2])
    /\ handle[p].path # handle[p].at[2] => "deletes renamed" \in Habits
    /\ handle' = [handle EXCEPT ![p].pending = TRUE]
    /\ UNCHANGED <<disk, iso, proc, calls>>

\* NtClose: the close removes the object, and only then is the record of the
\* handle used to hide what the layers below hold.
CloseObject(d, h) == IF h.pending THEN DeleteOne(d, h.at[1], h.at[2]) ELSE d

Close(p) ==
    /\ At(p, "idle") /\ handle[p].open
    /\ LET h == handle[p]
           r == [call |-> "close", path |-> h.path, disp |-> "open", edit |-> FALSE, dir |-> FALSE]
       IN  /\ disk' = CloseObject(disk, h)
           /\ IF h.pending /\ h.record # NoRecord THEN Call(p, "check", r, h.record) ELSE UNCHANGED proc
    /\ handle' = [handle EXCEPT ![p] = NoHandle]
    /\ UNCHANGED <<iso, calls>>

-----------------------------------------------------------------------------
\* DeleteViewPath(), by NtDeleteFile and at the end of NtClose.

DeleteFile(p, r) ==
    /\ At(p, "idle") /\ r.call = "delete" /\ calls[p] < MaxCalls
    /\ \E res \in {Resolve(disk, iso, r.path, FALSE, "Parent")} : res.resolved /\ Call(p, "check", r, res)
    /\ calls' = [calls EXCEPT ![p] = @ + 1]
    /\ UNCHANGED <<disk, iso, handle>>

\* A folder has to be empty in every layer which shows it, markers aside.
DeleteChecks(p) ==
    /\ At(p, "check")
    /\ LET res == Res(p)
       IN  IF /\ res.parent /\ Exists(res)
              /\ res.kind = "dir" => \A i \in res.hits : Below(disk, i, res.path) = {}
           THEN Goto(p, IF ToHost(res) THEN "host" ELSE "upper")
           ELSE Return(p)
    /\ UNCHANGED <<disk, iso, handle, calls>>

DeleteEntry(d, i, res) == IF res.kind = "dir" THEN RemoveAll(d, i, res.path) ELSE DeleteOne(d, i, res.path)

DeleteInHost(p) ==
    /\ At(p, "host")
    /\ disk' = DeleteEntry(disk, Host, Res(p))
    /\ Goto(p, "upper")
    /\ UNCHANGED <<iso, handle, calls>>

\* Mutant: an entry the upper layer held needs no marker.
NeedsWhiteoutOfLower(res, hostRemoved) ==
    IF hostRemoved THEN res.hits \ {Upper, Host} # {} ELSE ~res.inUpper

NeedsWhiteout(res, hostRemoved) ==
    IF hostRemoved THEN res.hits \ {Upper, Host} # {}
    ELSE ~res.inUpper \/ Cardinality(res.hits) > 1

\* A rename hides its source the same way, and never removes a folder which holds
\* something.
DeleteInUpper(p) ==
    /\ At(p, "upper")
    /\ LET res == Res(p)
           renamed == Req(p).call = "rename"
           stuck   == renamed /\ res.inUpper /\ Holds(disk, Upper, res.path) /\ ~CanDelete(disk, Upper, res.path)
       IN  /\ disk' = IF ~res.inUpper THEN disk
                      ELSE IF renamed THEN DeleteOne(disk, Upper, res.path)
                      ELSE DeleteEntry(disk, Upper, res)
           /\ IF ~stuck /\ NeedsWhiteout(res, ~renamed /\ ToHost(res)) THEN Goto(p, "mark") ELSE Return(p)
    /\ UNCHANGED <<iso, handle, calls>>

MarkDeleted(p) ==
    /\ At(p, "mark")
    /\ LET q == Res(p).path
           d == Folders(disk, Upper, q)
       IN  disk' = IF HasFolder(d, Upper, q) THEN [d EXCEPT ![Upper].whiteout = @ \cup {q}] ELSE d
    /\ Return(p)
    /\ UNCHANGED <<iso, handle, calls>>

-----------------------------------------------------------------------------
\* The record of a handle keeps the name it was opened with; a handle without
\* one is named by the file system.
ViewPathOfHandle(h) == IF h.record # NoRecord THEN h.path ELSE h.at[2]

\* RedirectSetName(): r.path is the new name, r.disp whether an entry is replaced.

RenameResolved(p, r, source, res) ==
    /\ res.resolved /\ res.path # source /\ res.parent
    /\ Exists(res) => r.disp = "overwrite_if"
    /\ Call(p, IF res.whiteoutInUpper THEN "unmark" ELSE "move",
            [call |-> "rename", path |-> r.path, disp |-> r.disp, edit |-> r.edit, dir |-> r.dir, source |-> source], res)

Rename(p, r) ==
    /\ At(p, "idle") /\ r.call = "rename" /\ calls[p] < MaxCalls
    /\ Denotes(p) /\ handle[p].edit /\ ~handle[p].pending
    /\ handle[p].dir => "renames folders" \in Habits
    /\ RenameResolved(p, r, ViewPathOfHandle(handle[p]), Resolve(disk, iso, r.path, FALSE, "Parent"))
    /\ calls' = [calls EXCEPT ![p] = @ + 1]
    /\ UNCHANGED <<disk, iso, handle>>

RenameUnhides(p) ==
    /\ At(p, "unmark")
    /\ disk' = [disk EXCEPT ![Upper].whiteout = @ \ {Res(p).path}]
    /\ Goto(p, "move")
    /\ UNCHANGED <<iso, handle, calls>>

\* The file system moves the object with everything in it, or refuses: an object
\* cannot leave its volume, and only a file can be replaced.
CanMove(d, p, i, q) ==
    /\ Denotes(p) /\ ~IsPrefix(handle[p].at[2], q)
    /\ HasFolder(d, i, q)
    /\ Holds(d, i, q) => Req(p).disp = "overwrite_if" /\ NodeAt(d, i, q).kind = "file"
    /\ \A x \in Below(d, handle[p].at[1], handle[p].at[2]) : (q \o SubSeq(x, Len(handle[p].at[2]) + 1, Len(x))) \in Paths

Moved(d, i, from, j, to) ==
    LET source(q) == from \o SubSeq(q, Len(to) + 1, Len(q))
        marks(S)  == {q \in Paths : IsPrefix(to, q) /\ source(q) \in S}
        taken     == [d EXCEPT ![j].node = [q \in Paths |-> IF IsPrefix(to, q) THEN NodeAt(d, i, source(q)) ELSE @[q]],
                               ![j].whiteout = @ \cup (marks(d[i].whiteout) \ {to}),
                               ![j].opaque = @ \cup marks(d[i].opaque)]
    IN  RemoveAll(taken, i, from)

RenameMoves(p) ==
    /\ At(p, "move")
    /\ LET res == Res(p)
           j   == IF ToHost(res) THEN Host ELSE Upper
           d   == Folders(disk, j, res.path)
       IN  \/ /\ CanMove(d, p, j, res.path)
              /\ disk' = Moved(d, handle[p].at[1], handle[p].at[2], j, res.path)
              /\ handle' = [q \in Procs |-> IF handle[q].open /\ handle[q].at = handle[p].at
                                            THEN [handle[q] EXCEPT !.at = <<j, res.path>>] ELSE handle[q]]
              /\ Goto(p, "hide")
           \/ /\ ~CanMove(d, p, j, res.path) \/ j # handle[p].at[1]
              /\ disk' = d
              /\ Return(p)
              /\ UNCHANGED handle
    /\ UNCHANGED <<iso, calls>>

\* HideViewPath().
HideSource(p) ==
    /\ At(p, "hide")
    /\ \E res \in {Resolve(disk, iso, Req(p).source, FALSE, "Parent")} :
           IF res.resolved /\ Exists(res) THEN Call(p, "upper", Req(p), res) ELSE Return(p)
    /\ UNCHANGED <<disk, iso, handle, calls>>

-----------------------------------------------------------------------------
\* A process which is terminated leaves its handle to the kernel.
Killed(p) ==
    /\ "kill" \in Faults /\ (handle[p].open \/ ~At(p, "idle"))
    /\ disk' = IF handle[p].open THEN CloseObject(disk, handle[p]) ELSE disk
    /\ handle' = [handle EXCEPT ![p] = NoHandle]
    /\ Return(p)
    /\ calls' = [calls EXCEPT ![p] = MaxCalls]
    /\ UNCHANGED iso

Begins(p) == \E r \in Requests : OpenFile(p, r) \/ DeleteFile(p, r) \/ Rename(p, r)
Goes(p) == \/ Unhide(p) \/ ResolveAgain(p) \/ MakeFolderAgain(p) \/ MakeOpaque(p) \/ MakeFolders(p)
           \/ CopyStart(p) \/ CopyFill(p) \/ CopyBreaks(p) \/ Copied(p) \/ Opens(p) \/ RecordHandle(p)
           \/ DeleteChecks(p) \/ DeleteInHost(p) \/ DeleteInUpper(p) \/ MarkDeleted(p)
           \/ RenameUnhides(p) \/ RenameMoves(p) \/ HideSource(p)
Uses(p) == (\E c \in Written : Write(p, c)) \/ SetDelete(p) \/ Close(p)

Next == \E p \in Procs : Begins(p) \/ Goes(p) \/ Uses(p) \/ Killed(p)

Spec == Init /\ [][Next]_vars

-----------------------------------------------------------------------------
\* The layers keep their form: every object and every marker of a layer is a path
\* of the view, and the calls and handles name paths of it.
TypeOK ==
    /\ disk \in Disks
    /\ \A q \in DOMAIN iso : q \in Paths /\ iso[q] \in Entry
    /\ \A p \in Procs : ~At(p, "idle") => Res(p).path \in Paths /\ Res(p).hits \subseteq Layers
    /\ \A p \in Procs : handle[p].open => handle[p].at \in Layers \X Paths
    /\ calls \in [Procs -> 0..MaxCalls]

\* "The read-only layers are never written": no call writes a packed layer, and
\* the host is written only where the table says Merge, or a folder above such an
\* entry is made.
MayWriteHost(q) == Lookup(iso, q).mode = "Merge"
LayersKept == [][
    /\ \A i \in 1..Lower : disk'[i] = disk[i]
    /\ disk'[Host].whiteout = disk[Host].whiteout /\ disk'[Host].opaque = disk[Host].opaque
    /\ \A q \in Paths : disk'[Host].node[q] # disk[Host].node[q] =>
           MayWriteHost(q) \/ (disk[Host].node[q] = None /\ \E r \in Paths : IsStrictPrefix(q, r) /\ MayWriteHost(r))]_vars

\* "A file the overlay already holds is kept as it is" (CopyUp.hpp): a copy-up does
\* not touch a file another process copied or wrote in the meantime.
CopyUpKeepsTheOverlay == [][
    \A p \in Procs : At(p, "copy") /\ proc'[p] # proc[p] =>
        \A q \in Paths : NodeAt(disk, Upper, q).kind = "file" => disk'[Upper].node[q] = disk[Upper].node[q]]_vars

\* A step changes the view only where the process which makes it has a call or a
\* handle: at that path, below a folder it names, and above it only by making the
\* folders, with the roots of the layers which are mounted in them.  No step brings
\* a deleted entry of another path back or loses one, however the steps of two
\* processes interleave and wherever a process dies.
PathsOf(p) == (IF At(p, "idle") THEN {} ELSE {Res(p).path})
              \cup (IF handle[p].open THEN {handle[p].path, handle[p].at[2]} ELSE {})
OnTheWay(x, y) == \/ IsStrictPrefix(x, y)
                  \/ \E i \in 1..Lower : x = Mount[i] /\ x # <<>> /\ IsStrictPrefix(Front(x), y)
ChangedAtItsPath(p, before, after) ==
    \A x \in Paths : after[x] # before[x] =>
        \E y \in PathsOf(p) : IsPrefix(y, x) \/ (OnTheWay(x, y) /\ before[x] = None /\ after[x] = Dir)
OnlyItsOwnPath == [][disk' # disk =>
    \E p \in Procs :
        /\ \A q \in Procs \ {p} : proc'[q] = proc[q]
        /\ ChangedAtItsPath(p, View(disk, iso), View(disk', iso'))]_vars
=============================================================================
