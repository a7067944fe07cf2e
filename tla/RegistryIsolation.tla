-------------------------- MODULE RegistryIsolation --------------------------
(***************************************************************************)
(* The registry of a sandbox (sandbox/registry and the key hooks of         *)
(* sandbox/hook): the state hive the programs modify, over the image of the *)
(* archive, over the registry of the host.  A hook runs inside the process  *)
(* which makes the call and takes no lock: a call decides with what it reads *)
(* of the layers, and every layer it then changes is a step of its own.      *)
(*                                                                          *)
(* A key has one value here, and a process one handle: the key it opened or  *)
(* created last.  A handle of the image never grants a write, so the writes  *)
(* the code prepares for one do not occur.  The transacted opens, which take *)
(* the same decisions and refuse the host, and the export are left out.      *)
(***************************************************************************)
EXTENDS Naturals, Sequences, FiniteSets, SequencesExt, TLC

CONSTANTS
    Keys,      \* paths of keys, closed under prefixes; a path of one name is a root
    Data,      \* what a value holds
    Absent,    \* of a layer which does not hold a key
    Bare,      \* of a layer which holds a key without a value
    Gone,      \* what a deleted entry was told to be
    Untold,    \* nothing was told about an entry
    Procs,     \* sandboxed processes
    Requests,  \* the calls they make
    Starts,    \* the layers, the whiteouts and the isolation table a run begins with
    Faults,    \* "kill": a process dies; "store": a whiteout cannot be recorded
    MaxCalls   \* bound: calls of one process

Roots   == {k \in Keys : Len(k) = 1}
UpTo    == [k \in Keys |-> {q \in Keys : IsPrefix(q, k)}]
From    == [k \in Keys |-> {q \in Keys : IsPrefix(k, q)}]
SubKeys == [k \in Keys |-> {q \in Keys : Len(q) = Len(k) + 1 /\ IsPrefix(k, q)}]

\* What a rename makes of a key, wherever the key is by then, and of a key q below it.
NewName(k, r)  == Append(Front(k), Last(r.to))
Below(k, q)    == SubSeq(q, Len(k) + 1, Len(q))
Moved(k, n, q) == n \o Below(k, q)

\* The closest listed key covers what is below it; a hidden key covers it from any level,
\* and a path without a listed key is hidden.
KeyMode(table, k) ==
    LET listed == UpTo[k] \cap DOMAIN table
    IN  IF listed = {} \/ \E q \in listed : table[q] = "Hide" THEN "Hide"
        ELSE table[CHOOSE q \in listed : \A r \in listed : Len(r) <= Len(q)]

\* A layer, and the calls: "open", "create", "set", "unset" (NtDeleteValueKey), "delete"
\* (NtDeleteKey) and "rename".  The last four work on the key of the handle.
LayerHolds == [Keys -> {Absent, Bare} \cup Data]
Request == [call : {"open"}, key : Keys, write : BOOLEAN] \cup [call : {"create"}, key : Keys, write : {TRUE}]
           \cup [call : {"set"}, data : Data] \cup [call : {"unset", "delete"}]
           \cup [call : {"rename"}, to : Keys]

\* A key has the keys above it, a rename stays among the keys, and what a run begins with
\* are markers and layers, which hold no key without the keys above it.
ASSUME RegistryAssumption ==
    /\ Keys \subseteq Seq(UNION {Range(k) : k \in Keys})
    /\ \A k \in Keys : k # <<>> /\ \A i \in 1..Len(k) : SubSeq(k, 1, i) \in Keys
    /\ Bare \notin {Absent, Gone} /\ Untold \notin {Gone, Bare}
    /\ \A x \in {Absent, Bare, Gone, Untold} : x \notin Data
    /\ Requests \subseteq Request /\ MaxCalls \in Nat
    /\ \A r \in Requests : r.call = "rename" =>
          \A k \in Keys : Len(k) = Len(r.to) => \A q \in From[k] : Moved(k, NewName(k, r), q) \in Keys
    /\ \A s \in Starts :
          /\ s.state \in LayerHolds /\ s.image \in LayerHolds /\ s.host \in LayerHolds
          /\ s.marks \in [key : SUBSET Keys, value : SUBSET Keys] /\ s.store \in BOOLEAN
          /\ s.listed \subseteq Keys
          /\ \A layer \in {s.state, s.image, s.host} : \A k \in Keys :
                layer[k] # Absent => \A q \in UpTo[k] : layer[q] # Absent

VARIABLES
    state,   \* the state hive
    host,    \* the registry of the host
    marks,   \* the whiteout store of the state hive: deleted keys, deleted values
    fixed,   \* the image, and the modes of keys and the listed values of the table
    sees,    \* whiteout_possible of every process
    proc,    \* the call of every process
    handle,  \* its handle
    calls,   \* how many calls it made
    told     \* what the calls told about keys and values, until a call changes it

layers == <<state, host, marks, sees>>
vars   == <<layers, fixed, proc, handle, calls, told>>

Modes == {"Full", "Merge", "WriteCopy", "Hide"}
image == fixed.image

Mode(k) == fixed.mode[k]

Holds(layer, k)      == layer[k] # Absent
HoldsValue(layer, k) == layer[k] \in Data
KeyHidesHost(k)      == Mode(k) \in {"Full", "Hide"}
ValueHidesHost(k)    == k \in fixed.listed \/ KeyHidesHost(k)

\* The lookups in the whiteout store, which a process skips when the store did not
\* exist as it mounted the hive.
IsKeyWhitedOut(p, k)   == sees[p] /\ UpTo[k] \cap marks.key # {}
IsValueWhitedOut(p, k) == sees[p] /\ (IsKeyWhitedOut(p, k) \/ k \in marks.value)

SandboxHoldsKey(p, k)   == IsKeyWhitedOut(p, k) \/ Holds(state, k) \/ Holds(image, k)
SandboxHoldsValue(p, k) == IsValueWhitedOut(p, k) \/ HoldsValue(state, k) \/ HoldsValue(image, k)

\* Mutant: the keys above a listed value decide alone.
WritesToHostOfKey(p, k) == Mode(k) = "Merge" /\ ~SandboxHoldsValue(p, k)

\* ValueWritesToHost().
WritesToHost(p, k) == k \notin fixed.listed /\ Mode(k) = "Merge" /\ ~SandboxHoldsValue(p, k)

-----------------------------------------------------------------------------
\* The readers.

\* OpenIsolatedKeyEntry() for an access which only reads: the layer which answers.
OpensFrom(p, k) ==
    IF Holds(state, k) THEN "state"
    ELSE IF IsKeyWhitedOut(p, k) THEN "none"
    ELSE IF Holds(image, k) THEN "image"
    ELSE IF ~KeyHidesHost(k) /\ Holds(host, k) THEN "host"
    ELSE "none"

\* QuerySandboxValue() through a handle of a sandbox layer.
QueryValue(p, k) ==
    IF HoldsValue(state, k) THEN state[k]
    ELSE IF IsValueWhitedOut(p, k) THEN Bare
    ELSE IF HoldsValue(image, k) THEN image[k]
    ELSE IF ~ValueHidesHost(k) /\ HoldsValue(host, k) THEN host[k]
    ELSE Bare

\* QueryMultipleValues(), for a batch of this value.
QueryBatch(p, k) ==
    IF HoldsValue(state, k) THEN state[k]
    ELSE IF HoldsValue(image, k) THEN image[k]
    ELSE IF ~ValueHidesHost(k) /\ ~IsValueWhitedOut(p, k) /\ HoldsValue(host, k) THEN host[k]
    ELSE Bare

\* IsHiddenLowerEntry() and IsHiddenRealEntry() of a sub key c of k.
HiddenLowerKey(p, k, c) == IsKeyWhitedOut(p, k) \/ IsKeyWhitedOut(p, c)
HiddenRealKey(p, k, c)  == HiddenLowerKey(p, k, c) \/ KeyHidesHost(c)

\* Mutant: the listing takes every entry of the image.
ListsHiddenKeys(p, k) ==
    {c \in SubKeys[k] : \/ Holds(state, c) \/ Holds(image, c)
                        \/ Holds(host, c) /\ ~HiddenRealKey(p, k, c)}

\* ResolveMergedIndex() over all indices: the sub keys a listing names, and whether it
\* names the value.
ListSubKeys(p, k) ==
    {c \in SubKeys[k] : \/ Holds(state, c)
                        \/ Holds(image, c) /\ ~HiddenLowerKey(p, k, c)
                        \/ Holds(host, c) /\ ~HiddenRealKey(p, k, c)}
ListsValue(p, k) ==
    \/ HoldsValue(state, k)
    \/ HoldsValue(image, k) /\ ~IsValueWhitedOut(p, k)
    \/ HoldsValue(host, k) /\ ~IsValueWhitedOut(p, k) /\ ~ValueHidesHost(k)

-----------------------------------------------------------------------------
NoHandle == [layer |-> "none"]
Idle     == [pc |-> "idle"]
NoMore   == [sandbox |-> FALSE, host |-> FALSE]

At(p, pc)  == proc[p].pc = pc
Call(p)    == proc[p].req.call
Key(p)     == proc[p].key
On(p, l)   == handle[p].layer = l
Permits(p) == handle[p].layer # "none" /\ handle[p].write

\* The keys a call may bring into being or remove, and the values it may change.
KeysOf(r, k) ==
    CASE r.call \in {"open", "create"} -> IF r.write THEN UpTo[k] ELSE {}
      [] r.call = "set"    -> UpTo[k]
      [] r.call = "unset"  -> {}
      [] r.call = "delete" -> From[k]
      [] r.call = "rename" -> From[k] \cup From[NewName(k, r)]
ValuesOf(r, k) ==
    CASE r.call \in {"open", "create"} -> {}
      [] r.call \in {"set", "unset"}   -> {k}
      [] r.call = "delete" -> From[k]
      [] r.call = "rename" -> From[k] \cup From[NewName(k, r)]

\* A handle follows its key when another process renames it.
WorksOn(q) == {Key(q)} \cup (IF On(q, "none") THEN {} ELSE {handle[q].key})
Overlaps(p, q, r, k) ==
    /\ q # p /\ ~At(q, "idle")
    /\ \E n \in WorksOn(q) :
          \/ KeysOf(r, k) \cap KeysOf(proc[q].req, n) # {}
          \/ ValuesOf(r, k) \cap ValuesOf(proc[q].req, n) # {}

\* A call begins: it makes what was told of its entries void, except that an open of a process
\* which looks for whiteouts brings no deleted key into being.  A call tells what it did when no other call
\* on the same entries was under way meanwhile.
Begin(p, r, k, pc, more) ==
    LET near == {q \in Procs : Overlaps(p, q, r, k)}
        void == IF r.call = "open" /\ sees[p] THEN {} ELSE KeysOf(r, k)
    IN  /\ At(p, "idle") /\ calls[p] < MaxCalls
        /\ proc' = [q \in Procs |->
                       IF q = p THEN [pc |-> pc, req |-> r, key |-> k, alone |-> near = {}, more |-> more]
                       ELSE IF q \in near THEN [proc[q] EXCEPT !.alone = FALSE] ELSE proc[q]]
        /\ calls' = [calls EXCEPT ![p] = @ + 1]
        /\ told' = [key   |-> [q \in Keys |-> IF q \in void THEN Untold ELSE told.key[q]],
                    value |-> [q \in Keys |-> IF q \in ValuesOf(r, k) THEN Untold ELSE told.value[q]]]
        /\ UNCHANGED <<layers, fixed, handle>>

Goto(p, pc) == proc' = [proc EXCEPT ![p].pc = pc]
Tells(p) ==
    IF ~proc[p].alone THEN told
    ELSE CASE Call(p) = "create" -> [told EXCEPT !.key[Key(p)] = Bare]
           [] Call(p) = "set"    -> [told EXCEPT !.value[Key(p)] = proc[p].req.data]
           [] Call(p) = "unset"  -> [told EXCEPT !.value[Key(p)] = Gone]
           [] Call(p) = "delete" -> [told EXCEPT !.key[Key(p)] = Gone, !.value[Key(p)] = Gone]
           [] OTHER -> told
Succeeds(p) == proc' = [proc EXCEPT ![p] = Idle] /\ told' = Tells(p)
Fails(p)    == proc' = [proc EXCEPT ![p] = Idle] /\ UNCHANGED told

\* NtCreateKey() with the keys above it, NtDeleteKey() and NtRenameKey() of one hive.
MakeKey(layer, k)     == [q \in Keys |-> IF q \in UpTo[k] /\ layer[q] = Absent THEN Bare ELSE layer[q]]
CanDrop(layer, k)     == Holds(layer, k) /\ \A q \in From[k] \ {k} : ~Holds(layer, q)
MoveKey(layer, k, n)  ==
    [q \in Keys |-> IF q \in From[n] THEN (IF Moved(n, k, q) \in Keys THEN layer[Moved(n, k, q)] ELSE Absent)
                    ELSE IF q \in From[k] THEN Absent ELSE layer[q]]
\* A handle of a key which was deleted works no longer.
Shut(l, k) == [q \in Procs |-> IF On(q, l) /\ handle[q].key = k THEN NoHandle ELSE handle[q]]

Init ==
    /\ \E s \in Starts :
          /\ state = s.state /\ host = s.host /\ marks = s.marks
          /\ fixed = [image |-> s.image, mode |-> [k \in Keys |-> KeyMode(s.mode, k)], listed |-> s.listed]
          /\ sees = [p \in Procs |-> s.store]
    /\ proc = [p \in Procs |-> Idle]
    /\ handle = [p \in Procs |-> NoHandle]
    /\ calls = [p \in Procs |-> 0]
    /\ told = [key |-> [k \in Keys |-> Untold], value |-> [k \in Keys |-> Untold]]

-----------------------------------------------------------------------------
\* Opens and creations.

Opens(p, r, k, l) ==
    /\ At(p, "idle") /\ calls[p] < MaxCalls
    /\ handle' = [handle EXCEPT ![p] = [layer |-> l, key |-> k, write |-> r.write]]
    /\ calls' = [calls EXCEPT ![p] = @ + 1]
    /\ UNCHANGED <<layers, fixed, proc, told>>

\* OpenIsolatedKeyEntry(): the state hive, a whiteout, the image, and the host as the
\* mode of the key says; a write of what lies below the state hive copies the key up.
OpenKey(p, r) ==
    LET k == r.key
        l == OpensFrom(p, k)
    IN  /\ r.call = "open" /\ l # "none"
        /\ IF r.write /\ (l = "image" \/ (l = "host" /\ Mode(k) = "WriteCopy"))
           THEN Begin(p, r, k, "createInState", NoMore)
           ELSE Opens(p, r, k, l)

\* CreateIsolatedKeyEntry(): the host takes a merged key which the sandbox does not hold.
CreateKey(p, r) ==
    /\ r.call = "create"
    /\ IF Mode(r.key) = "Merge" /\ ~SandboxHoldsKey(p, r.key)
       THEN Begin(p, r, r.key, "createInHost", NoMore)
       ELSE Begin(p, r, r.key, "createInState", NoMore)

\* CreateHiveKey() and the creation in the host, each with the keys above.
CreateInState(p) ==
    /\ At(p, "createInState")
    /\ state' = MakeKey(state, Key(p))
    /\ handle' = [handle EXCEPT ![p] = [layer |-> "state", key |-> Key(p), write |-> TRUE]]
    /\ Succeeds(p)
    /\ UNCHANGED <<host, marks, sees, fixed, calls>>
CreateInHost(p) ==
    /\ At(p, "createInHost")
    /\ host' = MakeKey(host, Key(p))
    /\ handle' = [handle EXCEPT ![p] = [layer |-> "host", key |-> Key(p), write |-> TRUE]]
    /\ Succeeds(p)
    /\ UNCHANGED <<state, marks, sees, fixed, calls>>

-----------------------------------------------------------------------------
\* SetIsolatedValue() and DeleteIsolatedValue().

\* The host key a value call works on: the one of a host handle, or the one the path of
\* the call names.
OnHost(p)  == [sandbox |-> FALSE, host |-> On(p, "host")]
HostKey(p) == IF proc[p].more.host THEN handle[p].key ELSE Key(p)
HostKeyIsThere(p) == proc[p].more.host => On(p, "host")

SetValue(p, r) ==
    /\ r.call = "set" /\ Permits(p)
    /\ LET k == handle[p].key
       IN  IF WritesToHost(p, k) THEN Begin(p, r, k, "setInHost", OnHost(p))
           ELSE On(p, "state") /\ Begin(p, r, k, "setInState", NoMore)
SetInHost(p) ==
    /\ At(p, "setInHost") /\ HostKeyIsThere(p)
    /\ host' = [MakeKey(host, HostKey(p)) EXCEPT ![HostKey(p)] = proc[p].req.data]
    /\ Succeeds(p)
    /\ UNCHANGED <<state, marks, sees, fixed, handle, calls>>
SetInState(p) ==
    /\ At(p, "setInState") /\ On(p, "state")
    /\ state' = [state EXCEPT ![handle[p].key] = proc[p].req.data]
    /\ Succeeds(p)
    /\ UNCHANGED <<host, marks, sees, fixed, handle, calls>>

DeleteValue(p, r) ==
    /\ r.call = "unset" /\ Permits(p)
    /\ LET k == handle[p].key
       IN  IF WritesToHost(p, k)
           THEN HoldsValue(host, k) /\ Begin(p, r, k, "unsetInHost", OnHost(p))
           ELSE /\ On(p, "state")
                /\ Begin(p, r, k, "unsetInState",
                         [sandbox |-> SandboxHoldsValue(p, k),
                          host    |-> ~ValueHidesHost(k) /\ HoldsValue(host, k)])
UnsetInHost(p) ==
    /\ At(p, "unsetInHost") /\ HostKeyIsThere(p) /\ HoldsValue(host, HostKey(p))
    /\ host' = [host EXCEPT ![HostKey(p)] = Bare]
    /\ Succeeds(p)
    /\ UNCHANGED <<state, marks, sees, fixed, handle, calls>>
UnsetInState(p) ==
    /\ At(p, "unsetInState") /\ On(p, "state")
    /\ state' = [state EXCEPT ![handle[p].key] = Bare]
    /\ Goto(p, "judgeValue")
    /\ UNCHANGED <<host, marks, sees, fixed, handle, calls, told>>

\* RecordKeyWhiteout() creates the marker with the keys above it, and RecordValueWhiteout()
\* a value below the marker of the key.
MarkKey(k)   == marks' = [marks EXCEPT !.key = @ \cup UpTo[k]]
MarkValue(k) == marks' = [marks EXCEPT !.value = @ \cup {k}]
NoMark(p)    == Succeeds(p) /\ UNCHANGED <<marks, sees>>
Record(p, mark) ==
    \/ mark /\ sees' = [sees EXCEPT ![p] = TRUE] /\ Succeeds(p)
    \/ "store" \in Faults /\ Fails(p) /\ UNCHANGED <<marks, sees>>

\* Mutant: only a value which the image holds is recorded.
JudgeImageValue(p) ==
    /\ At(p, "judgeValue")
    /\ IF ~IsValueWhitedOut(p, Key(p)) /\ HoldsValue(image, Key(p)) THEN Record(p, MarkValue(Key(p)))
       ELSE NoMark(p)
    /\ UNCHANGED <<state, host, fixed, handle, calls>>

\* ValueDeleteOutcomeOf(): what the layers below still hold is recorded as deleted.
JudgeValue(p) ==
    LET k     == Key(p)
        more  == proc[p].more
        lower == ~IsValueWhitedOut(p, k) /\ HoldsValue(image, k)
    IN  /\ At(p, "judgeValue")
        /\ IF lower \/ more.host THEN Record(p, MarkValue(k))
           ELSE IF more.sandbox THEN NoMark(p)
           ELSE Fails(p) /\ UNCHANGED <<marks, sees>>
        /\ UNCHANGED <<state, host, fixed, handle, calls>>

-----------------------------------------------------------------------------
\* DeleteIsolatedKey() and RenameIsolatedKey().

\* Through FilterHiddenLowerEntries() and FilterHiddenEntries().
MergedViewHoldsSubKeys(p, k) == ListSubKeys(p, k) # {}
DeleteKey(p, r) ==
    /\ r.call = "delete" /\ Permits(p)
    /\ LET k == handle[p].key
       IN  IF Mode(k) = "Merge" /\ ~SandboxHoldsKey(p, k)
           THEN On(p, "host") /\ Begin(p, r, k, "dropInHost", NoMore)
           ELSE /\ On(p, "state") /\ ~MergedViewHoldsSubKeys(p, k)
                /\ Begin(p, r, k, "dropInState", NoMore)
DropInHost(p) ==
    LET k == handle[p].key IN
    /\ At(p, "dropInHost") /\ On(p, "host") /\ CanDrop(host, k)
    /\ host' = [host EXCEPT ![k] = Absent]
    /\ handle' = Shut("host", k)
    /\ Succeeds(p)
    /\ UNCHANGED <<state, marks, sees, fixed, calls>>
DropInState(p) ==
    LET k == handle[p].key IN
    /\ At(p, "dropInState") /\ On(p, "state") /\ CanDrop(state, k)
    /\ state' = [state EXCEPT ![k] = Absent]
    /\ handle' = Shut("state", k)
    /\ Goto(p, "judgeKey")
    /\ UNCHANGED <<host, marks, sees, fixed, calls, told>>

\* KeyDeleteOutcomeOf() after the key left the state hive.
LowerHolds(p, k) ==
    \/ ~IsKeyWhitedOut(p, k) /\ Holds(image, k)
    \/ ~KeyHidesHost(k) /\ Holds(host, k)
JudgeKey(p) ==
    /\ At(p, "judgeKey")
    /\ IF LowerHolds(p, Key(p)) THEN Record(p, MarkKey(Key(p))) ELSE NoMark(p)
    /\ UNCHANGED <<state, host, fixed, handle, calls>>

RenameKey(p, r) ==
    /\ r.call = "rename" /\ Permits(p)
    /\ LET k == handle[p].key
           shown(l) == ~IsKeyWhitedOut(p, r.to) /\ Holds(l, r.to)
           inHost == ~KeyHidesHost(r.to) /\ shown(host)
       IN  /\ k \notin Roots /\ Front(k) = Front(r.to) /\ ~inHost
           /\ IF Mode(k) = "Merge" /\ ~SandboxHoldsKey(p, k)
              THEN /\ On(p, "host") /\ ~shown(state) /\ ~shown(image)
                   /\ Begin(p, r, k, "moveInHost", NoMore)
              ELSE On(p, "state") /\ Begin(p, r, k, "copyUp", NoMore)

\* CopyUpImageKey(): the whole content of the image, without a look at the whiteouts.
CopyUp(p) ==
    LET k == Key(p) IN
    /\ At(p, "copyUp")
    /\ state' = IF Holds(image, k)
                THEN [q \in Keys |-> IF q \in From[k] /\ HoldsValue(image, q) /\ ~HoldsValue(state, q) THEN image[q]
                                     ELSE IF q \in From[k] /\ Holds(image, q) /\ ~Holds(state, q) THEN Bare
                                     ELSE MakeKey(state, k)[q]]
                ELSE state
    /\ Goto(p, "moveInState")
    /\ UNCHANGED <<host, marks, sees, fixed, handle, calls, told>>
Moves(l, k, n) ==
    handle' = [q \in Procs |-> IF On(q, l) /\ handle[q].key \in From[k]
                               THEN [handle[q] EXCEPT !.key = Moved(k, n, @)] ELSE handle[q]]
MoveInState(p) ==
    LET k == handle[p].key
        n == NewName(k, proc[p].req)
    IN  /\ At(p, "moveInState") /\ On(p, "state") /\ ~Holds(state, n)
        /\ state' = MoveKey(state, k, n)
        /\ Moves("state", k, n)
        /\ Goto(p, "judgeKey")
        /\ UNCHANGED <<host, marks, sees, fixed, calls, told>>
MoveInHost(p) ==
    LET k == handle[p].key
        n == NewName(k, proc[p].req)
    IN  /\ At(p, "moveInHost") /\ On(p, "host") /\ ~Holds(host, n)
        /\ host' = MoveKey(host, k, n)
        /\ Moves("host", k, n)
        /\ Succeeds(p)
        /\ UNCHANGED <<state, marks, sees, fixed, calls>>

-----------------------------------------------------------------------------
\* A step of the registry which is refused because another process was faster.
Refused(p) ==
    \/ At(p, "setInHost") /\ ~HostKeyIsThere(p)
    \/ (At(p, "setInState") \/ At(p, "unsetInState")) /\ ~On(p, "state")
    \/ At(p, "unsetInHost") /\ ~(HostKeyIsThere(p) /\ HoldsValue(host, HostKey(p)))
    \/ At(p, "dropInHost") /\ ~(On(p, "host") /\ CanDrop(host, handle[p].key))
    \/ At(p, "dropInState") /\ ~(On(p, "state") /\ CanDrop(state, handle[p].key))
    \/ At(p, "moveInState") /\ ~(On(p, "state") /\ ~Holds(state, NewName(handle[p].key, proc[p].req)))
    \/ At(p, "moveInHost") /\ ~(On(p, "host") /\ ~Holds(host, NewName(handle[p].key, proc[p].req)))
Refuse(p) ==
    /\ Refused(p)
    /\ Fails(p)
    /\ UNCHANGED <<layers, fixed, handle, calls>>

\* A process dies, and the next one of the sandbox takes its place.
Kill(p) ==
    /\ "kill" \in Faults
    /\ ~At(p, "idle")
    /\ proc' = [proc EXCEPT ![p] = Idle]
    /\ handle' = [handle EXCEPT ![p] = NoHandle]
    /\ sees' = [sees EXCEPT ![p] = marks.key \cup marks.value # {}]
    /\ UNCHANGED <<state, host, marks, fixed, calls, told>>

Begins(p) == \E r \in Requests :
    \/ OpenKey(p, r) \/ CreateKey(p, r) \/ SetValue(p, r) \/ DeleteValue(p, r)
    \/ DeleteKey(p, r) \/ RenameKey(p, r)
Continues(p) ==
    \/ CreateInState(p) \/ CreateInHost(p) \/ SetInHost(p) \/ SetInState(p)
    \/ UnsetInHost(p) \/ UnsetInState(p) \/ JudgeValue(p) \/ DropInHost(p) \/ DropInState(p)
    \/ JudgeKey(p) \/ CopyUp(p) \/ MoveInState(p) \/ MoveInHost(p) \/ Refuse(p)

Next == \E p \in Procs : Begins(p) \/ Continues(p) \/ Kill(p)
Spec == Init /\ [][Next]_vars

-----------------------------------------------------------------------------
Places == {"createInState", "createInHost", "setInState", "setInHost", "unsetInState", "unsetInHost", "judgeValue",
           "dropInState", "dropInHost", "judgeKey", "copyUp", "moveInState", "moveInHost"}

TypeOK ==
    /\ state \in LayerHolds /\ host \in LayerHolds
    /\ marks \in [key : SUBSET Keys, value : SUBSET Keys]
    /\ image \in LayerHolds /\ DOMAIN fixed.mode = Keys /\ fixed.listed \subseteq Keys
    /\ sees \in [Procs -> BOOLEAN]
    /\ handle \in [Procs -> {NoHandle} \cup [layer : {"state", "image", "host"}, key : Keys, write : BOOLEAN]]
    /\ proc \in [Procs -> {Idle} \cup [pc : Places, req : Requests, key : Keys, alone : BOOLEAN,
                                       more : [sandbox : BOOLEAN, host : BOOLEAN]]]
    /\ calls \in [Procs -> 0..MaxCalls]
    /\ told \in [key : [Keys -> {Untold, Gone, Bare}], value : [Keys -> {Untold, Gone} \cup Data]]

\* "open, create, value query, merged enumeration and merged counts share one predicate,
\* so the enumeration and the counts can never disagree" (docs/RegistryIsolation.md): what
\* a listing of a key names is what can be opened and queried by its name.
ReadersAgree ==
    \A p \in Procs : \A k \in Keys :
        OpensFrom(p, k) \in {"state", "image"} =>
            /\ ListSubKeys(p, k) = {c \in SubKeys[k] : OpensFrom(p, c) # "none"}
            /\ ListsValue(p, k) <=> QueryValue(p, k) \in Data

\* "The marker hides the entry of every layer below the state hive" (docs): what a call
\* which succeeded deleted is found by no process which looks for whiteouts, and what it wrote
\* into the sandbox is what every process reads, until a call on the same entry begins,
\* whoever opens it for a write, deletes what is beside it, or dies (DeleteIsolatedKey(),
\* DeleteIsolatedValue(), SetIsolatedValue(), CreateIsolatedKeyEntry()).  A process which
\* mounted the hive before the store was made looks for none (Hive::Init()).
CallsHold ==
    \A p \in Procs : \A k \in Keys :
        /\ sees[p] /\ told.key[k] = Gone => OpensFrom(p, k) = "none"
        /\ sees[p] /\ told.value[k] = Gone => QueryValue(p, k) \notin Data
        /\ Mode(k) # "Merge" =>
               /\ told.key[k] = Bare => OpensFrom(p, k) # "none"
               /\ told.value[k] \in Data => QueryValue(p, k) = told.value[k]

\* "Merge is the only mode which modifies the real registry", the keys above a merged key
\* which are made with it apart, and a listed value stays as it is while its key is there
\* (docs/RegistryIsolation.md, IsolationPolicy.hpp).
OnlyMerged ==
    \A k \in Keys : host'[k] # host[k] =>
        \/ Mode(k) = "Merge"
        \/ ~Holds(host, k) /\ host'[k] = Bare /\ \E q \in From[k] : Mode(q) = "Merge"
ListedStay ==
    \A k \in fixed.listed :
        Holds(host', k) /\ (HoldsValue(host, k) \/ HoldsValue(host', k)) => host'[k] = host[k]
HostKept == [][OnlyMerged /\ ListedStay]_vars

\* "the delete of a key removes everything below it as well" (docs): it hides no other key.
DeleteIsOfItsSubtree ==
    [][marks' # marks => \A p \in Procs : \A k \in Keys :
          OpensFrom(p, k) # "none" /\ OpensFrom(p, k)' = "none"
              => \E q \in Procs : ~At(q, "idle") /\ k \in KeysOf(proc[q].req, Key(q))]_vars

\* What was deleted is found by no process, whenever it mounted the hive.
DeletedForAll == \A p \in Procs : \A k \in Keys : told.key[k] = Gone => OpensFrom(p, k) = "none"

\* A batch answers a value like the single query does ("share one predicate", docs).
BatchAgrees == \A p \in Procs : \A k \in Keys :
    OpensFrom(p, k) \in {"state", "image"} => QueryBatch(p, k) = QueryValue(p, k)
=============================================================================
