----------------------- MODULE RegistryIsolation_proofs -----------------------
(***************************************************************************)
(* The registry of a sandbox, for any number of processes, keys and calls:  *)
(* what a listing names is what can be opened, the host changes only where   *)
(* the table says Merge, and what a call told holds for every process.  A    *)
(* call decides in its first step and writes in a later one, and a handle    *)
(* follows its key when another process renames it, so the invariants say    *)
(* where both may point and what no other call may change meanwhile.         *)
(***************************************************************************)
EXTENDS RegistryIsolation, SequenceTheorems, TLAPS

KeyNames == UNION {Range(k) : k \in Keys}

Handles == [layer : {"state", "image", "host"}, key : Keys, write : BOOLEAN]
InCall  == [pc : Places, req : Requests, key : Keys, alone : BOOLEAN, more : [sandbox : BOOLEAN, host : BOOLEAN]]

\* The calls whose later steps look at their request, and a rename at the place of its key.
SetPlaces  == {"setInState", "setInHost"}
MovePlaces == {"copyUp", "moveInState", "moveInHost"}
PlaceFits(p) ==
    /\ proc[p].pc \in SetPlaces => Call(p) = "set"
    /\ proc[p].pc \in MovePlaces =>
          /\ Call(p) = "rename"
          /\ ~On(p, "none") => handle[p].key \notin Roots /\ Len(handle[p].key) = Len(proc[p].req.to)
TypeInv == TypeOK /\ \A p \in Procs : PlaceFits(p)

\* A call which writes the host, and the handle it writes through.
MayWrite(k) == Mode(k) = "Merge" /\ k \notin fixed.listed
HostFits(p) ==
    /\ At(p, "createInHost") => Mode(Key(p)) = "Merge"
    /\ proc[p].pc \in {"setInHost", "unsetInHost"} =>
          MayWrite(Key(p)) /\ (proc[p].more.host /\ On(p, "host") => MayWrite(handle[p].key))
    /\ proc[p].pc \in {"dropInHost", "moveInHost"} /\ On(p, "host") => Mode(handle[p].key) = "Merge"
TableIs  == \E s \in Starts : fixed.mode = [k \in Keys |-> KeyMode(s.mode, k)] /\ fixed.listed = s.listed
WriteInv == TypeInv /\ TableIs /\ \A p \in Procs : HostFits(p)

\* The hypothesis: what a rename moves in the host, and the names it moves to, are merged,
\* and no value of a new name is listed.
RenamesFit ==
    \A s \in Starts : \A r \in Requests : \A k \in Keys :
        r.call = "rename" /\ Len(k) = Len(r.to) /\ KeyMode(s.mode, k) = "Merge" =>
            /\ \A q \in From[k] : KeyMode(s.mode, q) = "Merge"
            /\ \A q \in From[NewName(k, r)] : KeyMode(s.mode, q) = "Merge" /\ q \notin s.listed

-----------------------------------------------------------------------------
(* Paths of keys.                                                          *)

LEMMA MoreThanOne == ASSUME NEW m \in Nat, m # 0, m # 1 PROVE m > 1
  OBVIOUS

\* What lies behind the first names of a sequence.
LEMMA RestIs ==
    ASSUME NEW S, NEW s \in Seq(S), NEW m \in Nat, m <= Len(s)
    PROVE  SubSeq(s, m + 1, Len(s)) \in Seq(S) /\ Len(SubSeq(s, m + 1, Len(s))) = Len(s) - m
<1>1. PICK n \in Nat : n = Len(s)
  OBVIOUS
<1>2. \A i \in (m + 1)..n : s[i] \in S
  BY <1>1
<1>3. /\ SubSeq(s, m + 1, n) \in Seq(S)
      /\ Len(SubSeq(s, m + 1, n)) = IF m + 1 <= n THEN n - (m + 1) + 1 ELSE 0
  BY <1>2, SubSeqProperties
<1>4. (IF m + 1 <= n THEN n - (m + 1) + 1 ELSE 0) = n - m
  BY <1>1
<1>5. QED
  BY <1>1, <1>3, <1>4

LEMMA KeySeq == ASSUME NEW k \in Keys PROVE k \in Seq(KeyNames) /\ k # <<>>
  BY RegistryAssumption DEF KeyNames

LEMMA PrefixOfItself == ASSUME NEW k \in Keys PROVE IsPrefix(k, k) /\ k \in From[k] /\ k \in UpTo[k]
<1>1. IsPrefix(k, k)
  BY KeySeq DEF IsPrefix
<1>2. QED
  BY <1>1 DEF From, UpTo

LEMMA PrefixTransitive ==
    ASSUME NEW x \in Keys, NEW y \in Keys, NEW z \in Keys, IsPrefix(x, y), IsPrefix(y, z)
    PROVE  IsPrefix(x, z)
  BY KeySeq DEF IsPrefix

\* A new name is as long as the old one, and so is what is moved with the key.
LEMMA NewNameIs ==
    ASSUME NEW r \in Requests, r.call = "rename", NEW k \in Keys, Len(k) = Len(r.to), k \notin Roots
    PROVE  /\ NewName(k, r) \in Keys /\ NewName(k, r) \notin Roots
           /\ Len(NewName(k, r)) = Len(k)
           /\ \A q \in From[k] : /\ Moved(k, NewName(k, r), q) \in From[NewName(k, r)]
                                 /\ Moved(k, NewName(k, r), q) \notin Roots
                                 /\ Len(Moved(k, NewName(k, r), q)) = Len(q)
<1> DEFINE n == NewName(k, r)
<1>1. k \in Seq(KeyNames) /\ Len(k) > 1
  <2>1. k \in Seq(KeyNames) /\ k # <<>>
    BY KeySeq
  <2>2. Len(k) # 0 /\ Len(k) # 1
    BY <2>1 DEF Roots
  <2>3. PICK m \in Nat : m = Len(k)
    BY <2>1
  <2>4. m > 1
    BY <2>2, <2>3, MoreThanOne
  <2>5. QED
    BY <2>1, <2>3, <2>4
<1>2. \A q \in From[k] : Moved(k, n, q) \in Keys
  BY RegistryAssumption
<1>3. r.to \in Keys
  BY RegistryAssumption DEF Request
<1>4. /\ n \in Seq(KeyNames) /\ Len(n) = Len(k)
  <2>1. Front(k) \in Seq(KeyNames) /\ Len(Front(k)) = Len(k) - 1
    BY <1>1 DEF Front
  <2>2. Last(r.to) \in KeyNames
    BY <1>1, <1>3, KeySeq DEF Last
  <2>3. QED
    BY <2>1, <2>2, <1>1, AppendProperties DEF NewName
<1> HIDE DEF n
<1>5. ASSUME NEW q \in From[k]
      PROVE  Moved(k, n, q) \in From[n] /\ Moved(k, n, q) \notin Roots /\ Len(Moved(k, n, q)) = Len(q)
  <2>1. q \in Seq(KeyNames) /\ Len(k) <= Len(q)
    BY <1>1, KeySeq DEF From, IsPrefix
  <2>2. Below(k, q) \in Seq(KeyNames) /\ Len(Below(k, q)) = Len(q) - Len(k)
    <3>1. PICK m \in Nat : m = Len(k)
      BY <1>1
    <3>2. SubSeq(q, m + 1, Len(q)) \in Seq(KeyNames) /\ Len(SubSeq(q, m + 1, Len(q))) = Len(q) - m
      BY <2>1, <3>1, RestIs
    <3>3. QED
      BY <3>1, <3>2 DEF Below
  <2>3. /\ Moved(k, n, q) \in Seq(KeyNames) /\ Len(Moved(k, n, q)) = Len(q)
        /\ n = SubSeq(Moved(k, n, q), 1, Len(n))
    BY <1>1, <1>4, <2>1, <2>2 DEF Moved
  <2>4. IsPrefix(n, Moved(k, n, q))
    BY <1>4, <2>3, <2>1 DEF IsPrefix
  <2>5. Moved(k, n, k) = n
    BY <1>1, <1>4 DEF Moved, Below
  <2>6. n \in Keys /\ Moved(k, n, q) \in Keys
    BY <1>2, <2>5, PrefixOfItself
  <2>7. QED
    BY <1>1, <2>1, <2>3, <2>4, <2>6 DEF From, Roots
<1>6. n \in Keys
  <2>1. Moved(k, n, k) = n
    BY <1>1, <1>4 DEF Moved, Below
  <2>2. QED
    BY <1>2, <2>1, PrefixOfItself
<1>7. QED
  BY <1>1, <1>4, <1>5, <1>6 DEF n, Roots

-----------------------------------------------------------------------------
(* The readers.                                                            *)

\* A marker of a key hides what lies below it.
LEMMA MarkersReachDown ==
    ASSUME NEW p \in Procs, NEW k \in Keys, NEW c \in SubKeys[k], IsKeyWhitedOut(p, k)
    PROVE  IsKeyWhitedOut(p, c)
<1>1. c \in Keys /\ IsPrefix(k, c)
  BY DEF SubKeys
<1>2. UpTo[k] \subseteq UpTo[c]
  BY <1>1, PrefixTransitive DEF UpTo
<1>3. QED
  BY <1>2 DEF IsKeyWhitedOut

LEMMA ListingIsOpen ==
    ASSUME NEW p \in Procs, NEW k \in Keys
    PROVE  ListSubKeys(p, k) = {c \in SubKeys[k] : OpensFrom(p, c) # "none"}
<1>1. ASSUME NEW c \in SubKeys[k]
      PROVE  c \in ListSubKeys(p, k) <=> OpensFrom(p, c) # "none"
  <2>1. HiddenLowerKey(p, k, c) <=> IsKeyWhitedOut(p, c)
    BY MarkersReachDown DEF HiddenLowerKey
  <2>2. HiddenRealKey(p, k, c) <=> IsKeyWhitedOut(p, c) \/ KeyHidesHost(c)
    BY <2>1 DEF HiddenRealKey
  <2>3. QED
    BY <2>1, <2>2 DEF ListSubKeys, OpensFrom
<1>2. ListSubKeys(p, k) \subseteq SubKeys[k]
  BY DEF ListSubKeys
<1>3. QED
  BY <1>1, <1>2

LEMMA ListingIsQuery ==
    ASSUME NEW p \in Procs, NEW k \in Keys
    PROVE  ListsValue(p, k) <=> QueryValue(p, k) \in Data
<1>1. Bare \notin Data
  BY RegistryAssumption
<1>2. QED
  BY <1>1 DEF ListsValue, QueryValue, HoldsValue

\* What a listing of a key names is what can be opened and queried by its name, in every
\* state of the layers and for every process, also one which looks at no markers
\* (ResolveMergedIndex(), OpenIsolatedKeyEntry() and QuerySandboxValue()).
THEOREM ListingsAgree == Spec => []ReadersAgree
<1>1. ReadersAgree
  BY ListingIsOpen, ListingIsQuery DEF ReadersAgree
<1>2. QED
  BY <1>1, PTL

-----------------------------------------------------------------------------
(* Types: the layers, the calls and what was told.                         *)

Told == [key : [Keys -> {Untold, Gone, Bare}], value : [Keys -> {Untold, Gone} \cup Data]]

LEMMA MakeKeyTyped ==
    ASSUME NEW l \in LayerHolds, NEW k \in Keys PROVE MakeKey(l, k) \in LayerHolds
  BY DEF MakeKey, LayerHolds

LEMMA MoveKeyTyped ==
    ASSUME NEW l \in LayerHolds, NEW k \in Keys, NEW n \in Keys PROVE MoveKey(l, k, n) \in LayerHolds
<1> DEFINE at(q) == Moved(n, k, q)
<1>1. \A q \in Keys : (IF q \in From[n] THEN (IF at(q) \in Keys THEN l[at(q)] ELSE Absent)
                       ELSE IF q \in From[k] THEN Absent ELSE l[q]) \in {Absent, Bare} \cup Data
  <2> HIDE DEF at
  <2>1. QED
    BY DEF LayerHolds
<1>2. QED
  BY <1>1 DEF MoveKey, LayerHolds

LEMMA ExceptTyped ==
    ASSUME NEW l \in LayerHolds, NEW k \in Keys, NEW v \in {Absent, Bare} \cup Data
    PROVE  [l EXCEPT ![k] = v] \in LayerHolds
  BY DEF LayerHolds

LEMMA InCallIs ==
    ASSUME TypeOK, NEW p \in Procs, ~At(p, "idle")
    PROVE  /\ proc[p] \in InCall
           /\ Key(p) \in Keys /\ proc[p].req \in Requests /\ proc[p].more \in [sandbox : BOOLEAN, host : BOOLEAN]
<1>1. proc[p] \in InCall
  BY DEF TypeOK, At, Idle, InCall
<1>2. QED
  BY <1>1 DEF InCall, Key

LEMMA HandleIs ==
    ASSUME TypeOK, NEW p \in Procs, ~On(p, "none")
    PROVE  handle[p] \in Handles /\ handle[p].key \in Keys
  BY DEF TypeOK, On, NoHandle, Handles

\* A layer of a handle is not none.
LEMMA OnLayer ==
    ASSUME NEW p \in Procs, NEW l \in {"state", "image", "host"}, On(p, l)
    PROVE  ~On(p, "none")
  BY DEF On

LEMMA TellsTyped ==
    ASSUME TypeOK, NEW p \in Procs, ~At(p, "idle") PROVE Tells(p) \in Told
<1>1. told \in Told /\ Key(p) \in Keys
  BY InCallIs DEF TypeOK, Told
<1>2. Call(p) = "set" => proc[p].req.data \in Data
  BY InCallIs, RegistryAssumption DEF Call, Request
<1>3. /\ [told EXCEPT !.key[Key(p)] = Bare] \in Told
      /\ [told EXCEPT !.value[Key(p)] = Gone] \in Told
      /\ [told EXCEPT !.key[Key(p)] = Gone, !.value[Key(p)] = Gone] \in Told
  BY <1>1 DEF Told
<1>4. Call(p) = "set" => [told EXCEPT !.value[Key(p)] = proc[p].req.data] \in Told
  BY <1>1, <1>2 DEF Told
<1>5. QED
  BY <1>1, <1>3, <1>4 DEF Tells

\* A call which ends.
LEMMA EndsTyped ==
    ASSUME TypeOK, NEW p \in Procs, ~At(p, "idle"), Succeeds(p) \/ Fails(p)
    PROVE  /\ proc' \in [Procs -> {Idle} \cup InCall] /\ told' \in Told
           /\ proc'[p] = Idle
           /\ \A q \in Procs : q # p => proc'[q] = proc[q]
<1>1. proc \in [Procs -> {Idle} \cup InCall] /\ told \in Told
  BY DEF TypeOK, InCall, Told
<1>2. proc' = [proc EXCEPT ![p] = Idle] /\ (told' = Tells(p) \/ told' = told)
  BY DEF Succeeds, Fails
<1>3. QED
  BY <1>1, <1>2, TellsTyped

\* A call which goes on.
LEMMA GoesOnTyped ==
    ASSUME TypeOK, NEW p \in Procs, ~At(p, "idle"), NEW pc \in Places, Goto(p, pc)
    PROVE  /\ proc' \in [Procs -> {Idle} \cup InCall]
           /\ proc'[p] \in InCall /\ proc'[p].pc = pc /\ proc'[p].req = proc[p].req
           /\ proc'[p].key = proc[p].key /\ proc'[p].more = proc[p].more
           /\ \A q \in Procs : q # p => proc'[q] = proc[q]
<1>1. proc \in [Procs -> {Idle} \cup InCall] /\ proc[p] \in InCall
  BY InCallIs DEF TypeOK, InCall
<1>2. proc' = [proc EXCEPT ![p].pc = pc]
  BY DEF Goto
<1>3. [proc[p] EXCEPT !.pc = pc] \in InCall
  BY <1>1 DEF InCall
<1>4. QED
  BY <1>1, <1>2, <1>3 DEF InCall

\* A call which begins, next to the calls of others, which may lose that they are alone.
SameCall(q) == /\ proc'[q].pc = proc[q].pc
               /\ ~At(q, "idle") => /\ proc'[q].req = proc[q].req /\ proc'[q].key = proc[q].key
                                    /\ proc'[q].more = proc[q].more

LEMMA BeginTyped ==
    ASSUME TypeOK, NEW p \in Procs, NEW r \in Requests, NEW k \in Keys, NEW pc \in Places,
           NEW more \in [sandbox : BOOLEAN, host : BOOLEAN], Begin(p, r, k, pc, more)
    PROVE  /\ TypeOK'
           /\ proc'[p].pc = pc /\ proc'[p].req = r /\ proc'[p].key = k /\ proc'[p].more = more
           /\ \A q \in Procs : q # p => SameCall(q)
           /\ UNCHANGED <<layers, fixed, handle>>
<1> DEFINE near == {q \in Procs : Overlaps(p, q, r, k)}
           void == IF r.call = "open" /\ sees[p] THEN {} ELSE KeysOf(r, k)
           mine == [pc |-> pc, req |-> r, key |-> k, alone |-> near = {}, more |-> more]
<1>1. proc' = [q \in Procs |-> IF q = p THEN mine
                               ELSE IF q \in near THEN [proc[q] EXCEPT !.alone = FALSE] ELSE proc[q]]
  BY DEF Begin
<1>2. /\ calls[p] < MaxCalls /\ calls' = [calls EXCEPT ![p] = @ + 1]
      /\ UNCHANGED <<layers, fixed, handle>>
  BY DEF Begin
<1>3. told' = [key   |-> [q \in Keys |-> IF q \in void THEN Untold ELSE told.key[q]],
               value |-> [q \in Keys |-> IF q \in ValuesOf(r, k) THEN Untold ELSE told.value[q]]]
  BY DEF Begin
<1>4. \A q \in near : q \in Procs /\ proc[q] \in InCall
  BY InCallIs DEF Overlaps
<1>5. mine \in InCall
  BY DEF InCall
<1>6. proc' \in [Procs -> {Idle} \cup InCall]
  <2>1. \A q \in near : [proc[q] EXCEPT !.alone = FALSE] \in InCall
    <3> HIDE DEF near
    <3>1. QED
      BY <1>4 DEF InCall
  <2>2. \A q \in Procs : proc[q] \in {Idle} \cup InCall
    BY DEF TypeOK, InCall
  <2> HIDE DEF near, mine
  <2>3. QED
    BY <1>1, <1>5, <2>1, <2>2
<1>7. told' \in Told
  <2> HIDE DEF void
  <2>1. QED
    BY <1>3 DEF Told, TypeOK
<1>8. calls' \in [Procs -> 0..MaxCalls]
  BY <1>2, RegistryAssumption DEF TypeOK
<1>9. TypeOK'
  BY <1>2, <1>6, <1>7, <1>8 DEF TypeOK, layers, image, InCall, Told
<1>10. \A q \in Procs : q # p => SameCall(q)
  <2>1. \A q \in near : LET c == [proc[q] EXCEPT !.alone = FALSE]
                        IN  c.pc = proc[q].pc /\ c.req = proc[q].req /\ c.key = proc[q].key /\ c.more = proc[q].more
    <3> HIDE DEF near
    <3>1. QED
      BY <1>4 DEF InCall
  <2> HIDE DEF near, mine
  <2>2. QED
    BY <1>1, <2>1 DEF SameCall
<1>11. proc'[p] = mine
  <2> HIDE DEF near, mine
  <2>1. QED
    BY <1>1
<1>12. QED
  BY <1>2, <1>9, <1>10, <1>11

LEMMA InitTyped == ASSUME Init PROVE TypeInv
<1>1. PICK s \in Starts :
          /\ state = s.state /\ host = s.host /\ marks = s.marks
          /\ fixed = [image |-> s.image, mode |-> [k \in Keys |-> KeyMode(s.mode, k)], listed |-> s.listed]
          /\ sees = [p \in Procs |-> s.store]
  BY DEF Init
<1>2. /\ state \in LayerHolds /\ host \in LayerHolds /\ image \in LayerHolds
      /\ marks \in [key : SUBSET Keys, value : SUBSET Keys] /\ sees \in [Procs -> BOOLEAN]
      /\ DOMAIN fixed.mode = Keys /\ fixed.listed \subseteq Keys
  BY <1>1, RegistryAssumption DEF image
<1>3. /\ proc \in [Procs -> {Idle}] /\ handle \in [Procs -> {NoHandle}]
      /\ calls \in [Procs -> 0..MaxCalls]
      /\ told \in Told
  BY RegistryAssumption DEF Init, Told
<1>4. TypeOK
  BY <1>2, <1>3 DEF TypeOK, Told
<1>5. \A p \in Procs : PlaceFits(p)
  BY <1>3 DEF PlaceFits, Idle, SetPlaces, MovePlaces
<1>6. QED
  BY <1>4, <1>5 DEF TypeInv

\* What becomes of the handle of another process.
HandleFollows(q) ==
    \/ handle'[q] = NoHandle
    \/ /\ handle'[q].layer = handle[q].layer /\ Len(handle'[q].key) = Len(handle[q].key)
       /\ handle[q].key \notin Roots => handle'[q].key \notin Roots

LEMMA OthersFit ==
    ASSUME TypeInv, NEW q \in Procs, SameCall(q), HandleFollows(q) PROVE PlaceFits(q)'
<1>1. PlaceFits(q) /\ proc'[q].pc = proc[q].pc
  BY DEF TypeInv, SameCall
<1>2. CASE At(q, "idle")
  BY <1>1, <1>2 DEF At, PlaceFits, SetPlaces, MovePlaces
<1>3. CASE ~At(q, "idle")
  <2>1. proc'[q].req = proc[q].req
    BY <1>3 DEF SameCall
  <2>2. On(q, "none")' \/ (handle'[q].layer = handle[q].layer /\ HandleFollows(q))
    BY DEF HandleFollows, On, NoHandle
  <2>3. QED
    BY <1>1, <2>1, <2>2 DEF PlaceFits, HandleFollows, Call, On, NoHandle
<1>4. QED
  BY <1>2, <1>3

LEMMA TypesTogether ==
    ASSUME TypeInv, NEW p \in Procs, state' \in LayerHolds, host' \in LayerHolds, fixed' = fixed, calls' = calls,
           marks' \in [key : SUBSET Keys, value : SUBSET Keys], sees' \in [Procs -> BOOLEAN],
           proc' \in [Procs -> {Idle} \cup InCall], told' \in Told, handle' \in [Procs -> {NoHandle} \cup Handles],
           \A q \in Procs : q # p => proc'[q] = proc[q] /\ HandleFollows(q),
           PlaceFits(p)'
    PROVE  TypeInv'
<1>1. TypeOK'
  BY DEF TypeInv, TypeOK, image, InCall, Told, Handles
<1>2. \A q \in Procs : PlaceFits(q)'
  BY OthersFit DEF SameCall
<1>3. QED
  BY <1>1, <1>2 DEF TypeInv

\* A step in the middle of a call.
LEMMA StepTyped ==
    ASSUME TypeInv, NEW p \in Procs, ~At(p, "idle"), state' \in LayerHolds, host' \in LayerHolds,
           fixed' = fixed, calls' = calls, marks' = marks, sees' = sees, told' = told,
           NEW pc \in Places, Goto(p, pc), handle' \in [Procs -> {NoHandle} \cup Handles],
           \A q \in Procs : q # p => HandleFollows(q),
           PlaceFits(p)'
    PROVE  TypeInv'
<1>1. /\ proc' \in [Procs -> {Idle} \cup InCall]
      /\ \A q \in Procs : q # p => proc'[q] = proc[q]
  BY GoesOnTyped DEF TypeInv
<1>2. /\ told' \in Told /\ marks' \in [key : SUBSET Keys, value : SUBSET Keys] /\ sees' \in [Procs -> BOOLEAN]
  BY DEF TypeInv, TypeOK, Told
<1>3. QED
  BY <1>1, <1>2, TypesTogether

\* The last step of a call.
LEMMA LastStepTyped ==
    ASSUME TypeInv, NEW p \in Procs, ~At(p, "idle"), state' \in LayerHolds, host' \in LayerHolds,
           fixed' = fixed, calls' = calls,
           marks' \in [key : SUBSET Keys, value : SUBSET Keys], sees' \in [Procs -> BOOLEAN],
           Succeeds(p) \/ Fails(p), handle' \in [Procs -> {NoHandle} \cup Handles],
           \A q \in Procs : q # p => HandleFollows(q)
    PROVE  TypeInv'
<1>1. /\ proc' \in [Procs -> {Idle} \cup InCall] /\ told' \in Told /\ proc'[p] = Idle
      /\ \A q \in Procs : q # p => proc'[q] = proc[q]
  BY EndsTyped DEF TypeInv
<1>2. PlaceFits(p)'
  BY <1>1 DEF PlaceFits, Idle, SetPlaces, MovePlaces
<1>3. QED
  BY <1>1, <1>2, TypesTogether

\* The handles after a step: as they were, with a new one, shut, and moved.
LEMMA HandlesStay ==
    ASSUME TypeInv, handle' = handle
    PROVE  handle' \in [Procs -> {NoHandle} \cup Handles] /\ \A q \in Procs : HandleFollows(q)
  BY DEF TypeInv, TypeOK, Handles, HandleFollows

LEMMA HandleIsNew ==
    ASSUME TypeInv, NEW p \in Procs, NEW h \in {NoHandle} \cup Handles, handle' = [handle EXCEPT ![p] = h]
    PROVE  /\ handle' \in [Procs -> {NoHandle} \cup Handles] /\ handle'[p] = h
           /\ \A q \in Procs : q # p => HandleFollows(q) /\ handle'[q] = handle[q]
  BY DEF TypeInv, TypeOK, Handles, HandleFollows

LEMMA HandlesShut ==
    ASSUME TypeInv, NEW l, NEW k, handle' = Shut(l, k)
    PROVE  /\ handle' \in [Procs -> {NoHandle} \cup Handles]
           /\ \A q \in Procs : HandleFollows(q) /\ handle'[q] \in {NoHandle, handle[q]}
  BY DEF TypeInv, TypeOK, Handles, HandleFollows, Shut

LEMMA HandlesMove ==
    ASSUME TypeInv, NEW r \in Requests, r.call = "rename", NEW k \in Keys, Len(k) = Len(r.to), k \notin Roots,
           NEW l \in {"state", "host"}, Moves(l, k, NewName(k, r))
    PROVE  /\ handle' \in [Procs -> {NoHandle} \cup Handles]
           /\ \A q \in Procs :
                 /\ HandleFollows(q)
                 /\ handle'[q].layer = handle[q].layer
                 /\ \/ handle'[q] = handle[q]
                    \/ handle'[q].layer = l /\ handle'[q].key \in From[NewName(k, r)]
<1> DEFINE n == NewName(k, r)
           moved(q) == [handle[q] EXCEPT !.key = Moved(k, n, @)]
<1>1. handle' = [q \in Procs |-> IF On(q, l) /\ handle[q].key \in From[k] THEN moved(q) ELSE handle[q]]
  BY DEF Moves
<1>2. n \in Keys
  BY NewNameIs
<1>3. ASSUME NEW q \in Procs, On(q, l), handle[q].key \in From[k]
      PROVE  /\ moved(q) \in Handles /\ moved(q).layer = l /\ handle[q].layer = l
             /\ moved(q).key \in From[n] /\ moved(q).key \notin Roots
             /\ Len(moved(q).key) = Len(handle[q].key)
  <2>1. handle[q] \in Handles
    BY <1>3, HandleIs, OnLayer DEF TypeInv
  <2>2. /\ Moved(k, n, handle[q].key) \in From[n] /\ Moved(k, n, handle[q].key) \notin Roots
        /\ Len(Moved(k, n, handle[q].key)) = Len(handle[q].key)
    BY <1>3, NewNameIs
  <2>3. Moved(k, n, handle[q].key) \in Keys
    BY <1>2, <2>2 DEF From
  <2>4. moved(q) = [handle[q] EXCEPT !.key = Moved(k, n, handle[q].key)]
    BY <2>1 DEF Handles
  <2> HIDE DEF n, moved
  <2>5. QED
    BY <1>3, <2>1, <2>2, <2>3, <2>4 DEF Handles, On
<1>4. \A q \in Procs : handle[q] \in {NoHandle} \cup Handles
  BY DEF TypeInv, TypeOK, Handles
<1> HIDE DEF n, moved
<1>5. handle' \in [Procs -> {NoHandle} \cup Handles]
  BY <1>1, <1>3, <1>4
<1>6. ASSUME NEW q \in Procs
      PROVE  /\ HandleFollows(q) /\ handle'[q].layer = handle[q].layer
             /\ \/ handle'[q] = handle[q]
                \/ handle'[q].layer = l /\ handle'[q].key \in From[n]
  <2>1. CASE On(q, l) /\ handle[q].key \in From[k]
    <3>1. handle'[q] = moved(q)
      BY <1>1, <2>1
    <3>2. QED
      BY <1>3, <2>1, <3>1 DEF HandleFollows
  <2>2. CASE ~(On(q, l) /\ handle[q].key \in From[k])
    BY <1>1, <2>2 DEF HandleFollows
  <2>3. QED
    BY <2>1, <2>2
<1>7. QED
  BY <1>5, <1>6 DEF n

\* A call which begins, at a place which fits it.
LEMMA BeginsTyped ==
    ASSUME TypeInv, NEW p \in Procs, NEW r \in Requests, NEW k \in Keys, NEW pc \in Places,
           NEW more \in [sandbox : BOOLEAN, host : BOOLEAN], Begin(p, r, k, pc, more),
           pc \in SetPlaces => r.call = "set",
           pc \in MovePlaces => r.call = "rename" /\ k = handle[p].key /\ k \notin Roots /\ Len(k) = Len(r.to)
    PROVE  TypeInv'
<1>1. /\ TypeOK' /\ proc'[p].pc = pc /\ proc'[p].req = r /\ proc'[p].key = k
      /\ \A q \in Procs : q # p => SameCall(q)
      /\ handle' = handle
  BY BeginTyped DEF TypeInv
<1>2. PlaceFits(p)'
  BY <1>1 DEF PlaceFits, Call
<1>3. \A q \in Procs : HandleFollows(q)
  BY <1>1, HandlesStay
<1>4. \A q \in Procs : PlaceFits(q)'
  BY <1>1, <1>2, <1>3, OthersFit
<1>5. QED
  BY <1>1, <1>4 DEF TypeInv

LEMMA NoMoreTyped == NoMore \in [sandbox : BOOLEAN, host : BOOLEAN]
  BY DEF NoMore

LEMMA OpensTyped ==
    ASSUME TypeInv, NEW p \in Procs, NEW r \in Requests, r.call = "open", NEW k \in Keys,
           NEW l \in {"state", "image", "host"}, Opens(p, r, k, l)
    PROVE  TypeInv'
<1>1. [layer |-> l, key |-> k, write |-> r.write] \in Handles
  BY RegistryAssumption DEF Request, Handles
<1>2. /\ At(p, "idle") /\ calls[p] < MaxCalls /\ calls' = [calls EXCEPT ![p] = @ + 1]
      /\ UNCHANGED <<layers, fixed, proc, told>>
      /\ handle' = [handle EXCEPT ![p] = [layer |-> l, key |-> k, write |-> r.write]]
  BY DEF Opens
<1>3. /\ handle' \in [Procs -> {NoHandle} \cup Handles]
      /\ \A q \in Procs : q # p => HandleFollows(q)
  BY <1>1, <1>2, HandleIsNew
<1>4. calls' \in [Procs -> 0..MaxCalls]
  BY <1>2, RegistryAssumption DEF TypeInv, TypeOK
<1>5. TypeOK'
  BY <1>2, <1>3, <1>4 DEF TypeInv, TypeOK, layers, image, Handles
<1>6. PlaceFits(p)'
  BY <1>2 DEF At, PlaceFits, SetPlaces, MovePlaces
<1>7. \A q \in Procs : PlaceFits(q)'
  BY <1>2, <1>3, <1>6, OthersFit DEF SameCall
<1>8. QED
  BY <1>5, <1>7 DEF TypeInv

\* A root has no folder which another key has.
LEMMA FrontIs ==
    ASSUME NEW x \in Keys, NEW y \in Keys, Front(x) = Front(y)
    PROVE  Len(x) = Len(y)
<1>1. \A z \in Keys : Len(z) \in Nat /\ Len(z) > 0 /\ Len(Front(z)) = Len(z) - 1
  <2>1. TAKE z \in Keys
  <2>2. PICK m \in Nat : m = Len(z) /\ m > 0
    BY KeySeq
  <2>3. \A i \in 1..(m - 1) : z[i] \in KeyNames
    BY <2>2, KeySeq
  <2>4. Len(SubSeq(z, 1, m - 1)) = IF 1 <= m - 1 THEN m - 1 - 1 + 1 ELSE 0
    BY <2>3, SubSeqProperties
  <2>5. QED
    BY <2>2, <2>4 DEF Front
<1>2. QED
  BY <1>1

LEMMA BeginsOfCallsTyped ==
    ASSUME TypeInv, NEW p \in Procs, Begins(p) PROVE TypeInv'
<1>1. PICK r \in Requests :
          \/ OpenKey(p, r) \/ CreateKey(p, r) \/ SetValue(p, r) \/ DeleteValue(p, r)
          \/ DeleteKey(p, r) \/ RenameKey(p, r)
  BY DEF Begins
<1>2. r \in Request
  BY RegistryAssumption
<1>3. Permits(p) => handle[p].key \in Keys
  BY HandleIs DEF Permits, On, TypeInv
<1>4. CASE OpenKey(p, r)
  <2> DEFINE l == OpensFrom(p, r.key)
  <2>1. r.key \in Keys /\ r.call = "open" /\ l # "none"
    BY <1>2, <1>4 DEF OpenKey, Request
  <2>2. l \in {"state", "image", "host"}
    BY <2>1 DEF OpensFrom
  <2>3. Begin(p, r, r.key, "createInState", NoMore) \/ Opens(p, r, r.key, l)
    BY <1>4 DEF OpenKey
  <2> HIDE DEF l
  <2>4. QED
    BY <2>1, <2>2, <2>3, BeginsTyped, OpensTyped, NoMoreTyped DEF Places, SetPlaces, MovePlaces
<1>5. CASE CreateKey(p, r)
  <2>1. r.key \in Keys
    BY <1>2, <1>5 DEF CreateKey, Request
  <2>2. PICK pc \in {"createInHost", "createInState"} : Begin(p, r, r.key, pc, NoMore)
    BY <1>5 DEF CreateKey
  <2>3. QED
    BY <2>1, <2>2, BeginsTyped, NoMoreTyped DEF Places, SetPlaces, MovePlaces
<1>6. CASE SetValue(p, r)
  <2>1. r.call = "set" /\ handle[p].key \in Keys
    BY <1>3, <1>6 DEF SetValue
  <2>2. OnHost(p) \in [sandbox : BOOLEAN, host : BOOLEAN]
    BY DEF OnHost, On
  <2>3. \/ Begin(p, r, handle[p].key, "setInHost", OnHost(p))
        \/ Begin(p, r, handle[p].key, "setInState", NoMore)
    BY <1>6 DEF SetValue
  <2>4. QED
    BY <2>1, <2>2, <2>3, BeginsTyped, NoMoreTyped DEF Places, MovePlaces
<1>7. CASE DeleteValue(p, r)
  <2>1. handle[p].key \in Keys
    BY <1>3, <1>7 DEF DeleteValue
  <2>2. PICK pc \in {"unsetInHost", "unsetInState"}, more \in [sandbox : BOOLEAN, host : BOOLEAN] :
            Begin(p, r, handle[p].key, pc, more)
    <3>1. OnHost(p) \in [sandbox : BOOLEAN, host : BOOLEAN]
      BY DEF OnHost, On
    <3>2. [sandbox |-> SandboxHoldsValue(p, handle[p].key),
           host |-> ~ValueHidesHost(handle[p].key) /\ HoldsValue(host, handle[p].key)]
          \in [sandbox : BOOLEAN, host : BOOLEAN]
      <4>1. SandboxHoldsValue(p, handle[p].key) \in BOOLEAN
        BY DEF SandboxHoldsValue
      <4>2. QED
        BY <4>1
    <3>3. \/ Begin(p, r, handle[p].key, "unsetInHost", OnHost(p))
          \/ Begin(p, r, handle[p].key, "unsetInState",
                   [sandbox |-> SandboxHoldsValue(p, handle[p].key),
                    host |-> ~ValueHidesHost(handle[p].key) /\ HoldsValue(host, handle[p].key)])
      BY <1>7 DEF DeleteValue
    <3>4. QED
      BY <3>1, <3>2, <3>3
  <2>3. QED
    BY <2>1, <2>2, BeginsTyped DEF Places, SetPlaces, MovePlaces
<1>8. CASE DeleteKey(p, r)
  <2>1. handle[p].key \in Keys
    BY <1>3, <1>8 DEF DeleteKey
  <2>2. PICK pc \in {"dropInHost", "dropInState"} : Begin(p, r, handle[p].key, pc, NoMore)
    BY <1>8 DEF DeleteKey
  <2>3. QED
    BY <2>1, <2>2, BeginsTyped, NoMoreTyped DEF Places, SetPlaces, MovePlaces
<1>9. CASE RenameKey(p, r)
  <2>1. /\ r.call = "rename" /\ handle[p].key \in Keys /\ handle[p].key \notin Roots
        /\ Front(handle[p].key) = Front(r.to)
    BY <1>3, <1>9 DEF RenameKey
  <2>2. Len(handle[p].key) = Len(r.to)
    BY <1>2, <2>1, FrontIs DEF Request
  <2>3. PICK pc \in {"moveInHost", "copyUp"} : Begin(p, r, handle[p].key, pc, NoMore)
    BY <1>9 DEF RenameKey
  <2>4. QED
    BY <2>1, <2>2, <2>3, BeginsTyped, NoMoreTyped DEF Places, SetPlaces
<1>10. QED
  BY <1>1, <1>4, <1>5, <1>6, <1>7, <1>8, <1>9

-----------------------------------------------------------------------------
(* Types: the steps of a call.                                             *)

LEMMA LayersTyped ==
    ASSUME TypeInv
    PROVE  /\ state \in LayerHolds /\ host \in LayerHolds /\ image \in LayerHolds
           /\ marks \in [key : SUBSET Keys, value : SUBSET Keys] /\ sees \in [Procs -> BOOLEAN]
           /\ Bare \in {Absent, Bare} \cup Data /\ Absent \in {Absent, Bare} \cup Data
  BY DEF TypeInv, TypeOK

LEMMA RecordTyped ==
    ASSUME TypeInv, NEW p \in Procs, NEW k \in Keys,
           \/ Record(p, MarkKey(k)) \/ Record(p, MarkValue(k)) \/ NoMark(p)
           \/ Fails(p) /\ UNCHANGED <<marks, sees>>
    PROVE  /\ Succeeds(p) \/ Fails(p)
           /\ marks' \in [key : SUBSET Keys, value : SUBSET Keys] /\ sees' \in [Procs -> BOOLEAN]
<1>1. marks \in [key : SUBSET Keys, value : SUBSET Keys] /\ sees \in [Procs -> BOOLEAN]
  BY LayersTyped
<1>2. UpTo[k] \subseteq Keys
  BY DEF UpTo
<1>3. /\ [marks EXCEPT !.key = @ \cup UpTo[k]] \in [key : SUBSET Keys, value : SUBSET Keys]
      /\ [marks EXCEPT !.value = @ \cup {k}] \in [key : SUBSET Keys, value : SUBSET Keys]
      /\ [sees EXCEPT ![p] = TRUE] \in [Procs -> BOOLEAN]
  BY <1>1, <1>2
<1>4. QED
  BY <1>1, <1>3 DEF Record, MarkKey, MarkValue, NoMark

LEMMA CreatesTyped == ASSUME TypeInv, NEW p \in Procs, CreateInState(p) \/ CreateInHost(p) PROVE TypeInv'
<1>1. ~At(p, "idle")
  BY DEF CreateInState, CreateInHost, At
<1>2. Key(p) \in Keys
  BY <1>1, InCallIs DEF TypeInv
<1>3. MakeKey(state, Key(p)) \in LayerHolds /\ MakeKey(host, Key(p)) \in LayerHolds
  BY <1>2, LayersTyped, MakeKeyTyped
<1>4. state' \in LayerHolds /\ host' \in LayerHolds /\ marks' = marks /\ sees' = sees /\ fixed' = fixed
      /\ calls' = calls /\ Succeeds(p)
  BY <1>3, LayersTyped DEF CreateInState, CreateInHost
<1>5. PICK h \in Handles : handle' = [handle EXCEPT ![p] = h]
  BY <1>2 DEF CreateInState, CreateInHost, Handles
<1>6. QED
  BY <1>1, <1>4, <1>5, HandleIsNew, LayersTyped, LastStepTyped

\* The key of the host a call on values works on.
LEMMA HostKeyIs ==
    ASSUME TypeInv, NEW p \in Procs, ~At(p, "idle"), HostKeyIsThere(p)
    PROVE  HostKey(p) \in Keys
  BY InCallIs, HandleIs, OnLayer DEF HostKey, HostKeyIsThere, TypeInv

LEMMA SetsTyped == ASSUME TypeInv, NEW p \in Procs, SetInHost(p) \/ SetInState(p) PROVE TypeInv'
<1>1. ~At(p, "idle") /\ Call(p) = "set"
  BY DEF SetInHost, SetInState, At, TypeInv, PlaceFits, SetPlaces
<1>2. proc[p].req.data \in {Absent, Bare} \cup Data
  BY <1>1, InCallIs, RegistryAssumption DEF Call, Request, TypeInv
<1>3. state' \in LayerHolds /\ host' \in LayerHolds
  <2>1. CASE SetInHost(p)
    BY <1>1, <1>2, <2>1, HostKeyIs, MakeKeyTyped, ExceptTyped, LayersTyped DEF SetInHost
  <2>2. CASE SetInState(p)
    BY <1>2, <2>2, HandleIs, OnLayer, ExceptTyped, LayersTyped DEF SetInState, TypeInv
  <2>3. QED
    BY <2>1, <2>2
<1>4. /\ marks' = marks /\ sees' = sees /\ fixed' = fixed /\ handle' = handle /\ calls' = calls
      /\ Succeeds(p)
  BY DEF SetInHost, SetInState
<1>5. QED
  BY <1>1, <1>3, <1>4, HandlesStay, LayersTyped, LastStepTyped

LEMMA UnsetInHostTyped == ASSUME TypeInv, NEW p \in Procs, UnsetInHost(p) PROVE TypeInv'
<1>1. ~At(p, "idle") /\ HostKeyIsThere(p)
  BY DEF UnsetInHost, At
<1>2. state' \in LayerHolds /\ host' \in LayerHolds
  BY <1>1, HostKeyIs, ExceptTyped, LayersTyped DEF UnsetInHost
<1>3. /\ marks' = marks /\ sees' = sees /\ fixed' = fixed /\ handle' = handle /\ calls' = calls
      /\ Succeeds(p)
  BY DEF UnsetInHost
<1>4. QED
  BY <1>1, <1>2, <1>3, HandlesStay, LayersTyped, LastStepTyped

LEMMA UnsetInStateTyped == ASSUME TypeInv, NEW p \in Procs, UnsetInState(p) PROVE TypeInv'
<1>1. ~At(p, "idle") /\ On(p, "state")
  BY DEF UnsetInState, At
<1>2. state' \in LayerHolds /\ host' \in LayerHolds
  BY <1>1, HandleIs, OnLayer, ExceptTyped, LayersTyped DEF UnsetInState, TypeInv
<1>3. /\ marks' = marks /\ sees' = sees /\ fixed' = fixed /\ handle' = handle /\ calls' = calls /\ told' = told
      /\ Goto(p, "judgeValue")
  BY DEF UnsetInState
<1>4. PlaceFits(p)'
  BY <1>1, <1>3, GoesOnTyped DEF PlaceFits, SetPlaces, MovePlaces, Places, TypeInv
<1>5. QED
  BY <1>1, <1>2, <1>3, <1>4, HandlesStay, StepTyped DEF Places

LEMMA JudgesTyped == ASSUME TypeInv, NEW p \in Procs, JudgeValue(p) \/ JudgeKey(p) PROVE TypeInv'
<1>1. ~At(p, "idle")
  BY DEF JudgeValue, JudgeKey, At
<1>2. Key(p) \in Keys
  BY <1>1, InCallIs DEF TypeInv
<1>3. UNCHANGED <<state, host, fixed, handle, calls>>
  BY DEF JudgeValue, JudgeKey
<1>4. \/ Record(p, MarkKey(Key(p))) \/ Record(p, MarkValue(Key(p))) \/ NoMark(p)
      \/ Fails(p) /\ UNCHANGED <<marks, sees>>
  BY DEF JudgeValue, JudgeKey
<1>5. /\ Succeeds(p) \/ Fails(p)
      /\ marks' \in [key : SUBSET Keys, value : SUBSET Keys] /\ sees' \in [Procs -> BOOLEAN]
  BY <1>2, <1>4, RecordTyped
<1>6. QED
  BY <1>1, <1>3, <1>5, HandlesStay, LayersTyped, LastStepTyped

LEMMA DropInHostTyped == ASSUME TypeInv, NEW p \in Procs, DropInHost(p) PROVE TypeInv'
<1>1. ~At(p, "idle") /\ On(p, "host")
  BY DEF DropInHost, At
<1>2. state' \in LayerHolds /\ host' \in LayerHolds
  BY <1>1, HandleIs, OnLayer, ExceptTyped, LayersTyped DEF DropInHost, TypeInv
<1>3. /\ marks' = marks /\ sees' = sees /\ fixed' = fixed /\ calls' = calls
      /\ handle' = Shut("host", handle[p].key) /\ Succeeds(p)
  BY DEF DropInHost
<1>4. QED
  BY <1>1, <1>2, <1>3, HandlesShut, LayersTyped, LastStepTyped

LEMMA DropInStateTyped == ASSUME TypeInv, NEW p \in Procs, DropInState(p) PROVE TypeInv'
<1>1. ~At(p, "idle") /\ On(p, "state")
  BY DEF DropInState, At
<1>2. state' \in LayerHolds /\ host' \in LayerHolds
  BY <1>1, HandleIs, OnLayer, ExceptTyped, LayersTyped DEF DropInState, TypeInv
<1>3. /\ marks' = marks /\ sees' = sees /\ fixed' = fixed /\ calls' = calls /\ told' = told
      /\ handle' = Shut("state", handle[p].key) /\ Goto(p, "judgeKey")
  BY DEF DropInState
<1>4. PlaceFits(p)'
  BY <1>1, <1>3, GoesOnTyped DEF PlaceFits, SetPlaces, MovePlaces, Places, TypeInv
<1>5. QED
  BY <1>1, <1>2, <1>3, <1>4, HandlesShut, StepTyped DEF Places

LEMMA CopyUpTyped == ASSUME TypeInv, NEW p \in Procs, CopyUp(p) PROVE TypeInv'
<1>1. ~At(p, "idle") /\ proc[p].pc \in MovePlaces
  BY DEF CopyUp, At, MovePlaces
<1>2. state' \in LayerHolds /\ host' \in LayerHolds
  <2>1. Key(p) \in Keys
    BY <1>1, InCallIs DEF TypeInv
  <2>2. MakeKey(state, Key(p)) \in LayerHolds
    BY <2>1, LayersTyped, MakeKeyTyped
  <2>3. [q \in Keys |-> IF q \in From[Key(p)] /\ HoldsValue(image, q) /\ ~HoldsValue(state, q) THEN image[q]
                        ELSE IF q \in From[Key(p)] /\ Holds(image, q) /\ ~Holds(state, q) THEN Bare
                        ELSE MakeKey(state, Key(p))[q]] \in LayerHolds
    BY <2>2, LayersTyped DEF LayerHolds
  <2>4. QED
    BY <2>3, LayersTyped DEF CopyUp
<1>3. /\ marks' = marks /\ sees' = sees /\ fixed' = fixed /\ handle' = handle /\ calls' = calls /\ told' = told
      /\ Goto(p, "moveInState")
  BY DEF CopyUp
<1>4. PlaceFits(p)'
  BY <1>1, <1>3, GoesOnTyped DEF PlaceFits, SetPlaces, MovePlaces, Places, TypeInv, Call, On
<1>5. QED
  BY <1>1, <1>2, <1>3, <1>4, HandlesStay, StepTyped DEF Places

\* What a rename works on.
LEMMA MoveIs ==
    ASSUME TypeInv, NEW p \in Procs, proc[p].pc \in MovePlaces, On(p, "state") \/ On(p, "host")
    PROVE  /\ ~At(p, "idle")
           /\ proc[p].req \in Requests /\ proc[p].req.call = "rename"
           /\ handle[p].key \in Keys /\ handle[p].key \notin Roots
           /\ Len(handle[p].key) = Len(proc[p].req.to)
           /\ NewName(handle[p].key, proc[p].req) \in Keys
<1>1. ~At(p, "idle")
  BY DEF At, MovePlaces
<1>2. ~On(p, "none")
  BY OnLayer
<1>3. /\ proc[p].req \in Requests /\ proc[p].req.call = "rename"
      /\ handle[p].key \in Keys /\ handle[p].key \notin Roots
      /\ Len(handle[p].key) = Len(proc[p].req.to)
  BY <1>1, <1>2, InCallIs, HandleIs DEF TypeInv, PlaceFits, Call
<1>4. QED
  BY <1>1, <1>3, NewNameIs

LEMMA MoveInStateTyped == ASSUME TypeInv, NEW p \in Procs, MoveInState(p) PROVE TypeInv'
<1> DEFINE k == handle[p].key
           n == NewName(k, proc[p].req)
<1>1. proc[p].pc \in MovePlaces /\ On(p, "state")
  BY DEF MoveInState, At, MovePlaces
<1>2. state' = MoveKey(state, k, n) /\ host' = host
  BY DEF MoveInState
<1>3. state' \in LayerHolds /\ host' \in LayerHolds
  BY <1>1, <1>2, MoveIs, MoveKeyTyped, LayersTyped
<1>4. /\ marks' = marks /\ sees' = sees /\ fixed' = fixed /\ calls' = calls /\ told' = told
      /\ Moves("state", k, n) /\ Goto(p, "judgeKey")
  BY DEF MoveInState
<1>5. handle' \in [Procs -> {NoHandle} \cup Handles] /\ \A q \in Procs : HandleFollows(q)
  BY <1>1, <1>4, MoveIs, HandlesMove
<1>6. PlaceFits(p)'
  BY <1>1, <1>4, MoveIs, GoesOnTyped DEF PlaceFits, SetPlaces, MovePlaces, Places, TypeInv
<1>7. QED
  BY <1>1, <1>3, <1>4, <1>5, <1>6, MoveIs, StepTyped DEF Places

LEMMA MoveInHostTyped == ASSUME TypeInv, NEW p \in Procs, MoveInHost(p) PROVE TypeInv'
<1> DEFINE k == handle[p].key
           n == NewName(k, proc[p].req)
<1>1. proc[p].pc \in MovePlaces /\ On(p, "host")
  BY DEF MoveInHost, At, MovePlaces
<1>2. host' = MoveKey(host, k, n) /\ state' = state
  BY DEF MoveInHost
<1>3. state' \in LayerHolds /\ host' \in LayerHolds
  BY <1>1, <1>2, MoveIs, MoveKeyTyped, LayersTyped
<1>4. /\ marks' = marks /\ sees' = sees /\ fixed' = fixed /\ calls' = calls
      /\ Moves("host", k, n) /\ Succeeds(p)
  BY DEF MoveInHost
<1>5. handle' \in [Procs -> {NoHandle} \cup Handles] /\ \A q \in Procs : HandleFollows(q)
  BY <1>1, <1>4, MoveIs, HandlesMove
<1>6. QED
  BY <1>1, <1>3, <1>4, <1>5, MoveIs, LayersTyped, LastStepTyped

LEMMA RefuseTyped == ASSUME TypeInv, NEW p \in Procs, Refuse(p) PROVE TypeInv'
<1>1. ~At(p, "idle")
  BY DEF Refuse, Refused, At
<1>2. UNCHANGED <<layers, fixed, handle, calls>> /\ Fails(p)
  BY DEF Refuse
<1>3. QED
  BY <1>1, <1>2, HandlesStay, LayersTyped, LastStepTyped DEF layers

LEMMA KillTyped == ASSUME TypeInv, NEW p \in Procs, Kill(p) PROVE TypeInv'
<1>1. /\ proc' = [proc EXCEPT ![p] = Idle] /\ handle' = [handle EXCEPT ![p] = NoHandle]
      /\ sees' = [sees EXCEPT ![p] = marks.key \cup marks.value # {}]
      /\ UNCHANGED <<state, host, marks, fixed, calls, told>>
  BY DEF Kill
<1>2. /\ proc' \in [Procs -> {Idle} \cup InCall] /\ proc'[p] = Idle
      /\ \A q \in Procs : q # p => proc'[q] = proc[q]
  BY <1>1 DEF TypeInv, TypeOK, InCall
<1>3. sees' \in [Procs -> BOOLEAN] /\ told' \in Told
  BY <1>1 DEF TypeInv, TypeOK, Told
<1>4. PlaceFits(p)'
  BY <1>2 DEF PlaceFits, Idle, SetPlaces, MovePlaces
<1>5. QED
  BY <1>1, <1>2, <1>3, <1>4, HandleIsNew, LayersTyped, TypesTogether

LEMMA StepsTyped == ASSUME TypeInv, [Next]_vars PROVE TypeInv'
<1>1. CASE UNCHANGED vars
  BY <1>1 DEF TypeInv, TypeOK, PlaceFits, vars, layers, image, On, Call
<1>2. ASSUME NEW p \in Procs, Begins(p) \/ Continues(p) \/ Kill(p) PROVE TypeInv'
  BY <1>2, BeginsOfCallsTyped, CreatesTyped, SetsTyped, UnsetInHostTyped, UnsetInStateTyped,
     JudgesTyped,
     DropInHostTyped, DropInStateTyped, CopyUpTyped, MoveInStateTyped, MoveInHostTyped, RefuseTyped, KillTyped
  DEF Continues
<1>3. QED
  BY <1>1, <1>2 DEF Next

\* The variables have their types: of every key, process, request and start, and the key of
\* a handle stays a key when another process renames what lies above it (NtRenameKey()).
THEOREM RegistryTypes == Spec => []TypeOK
<1>1. Init => TypeInv
  BY InitTyped
<1>2. TypeInv /\ [Next]_vars => TypeInv'
  BY StepsTyped
<1>3. TypeInv => TypeOK
  BY DEF TypeInv
<1>4. QED
  BY <1>1, <1>2, <1>3, PTL DEF Spec

-----------------------------------------------------------------------------
(* The host: what a call decided is still so when it writes.               *)

HostStays == OnlyMerged /\ ListedStay

LEMMA NoWrite == ASSUME host' = host PROVE HostStays
  BY DEF HostStays, OnlyMerged, ListedStay

\* The table lets a rename of a merged key write all that it writes.
LEMMA RenameFits ==
    ASSUME RenamesFit, TableIs, NEW r \in Requests, r.call = "rename", NEW k \in Keys,
           Len(k) = Len(r.to), k \notin Roots, Mode(k) = "Merge"
    PROVE  /\ \A q \in From[k] : Mode(q) = "Merge"
           /\ \A q \in From[NewName(k, r)] : MayWrite(q)
<1>1. PICK s \in Starts : fixed.mode = [q \in Keys |-> KeyMode(s.mode, q)] /\ fixed.listed = s.listed
  BY DEF TableIs
<1>2. NewName(k, r) \in Keys
  BY NewNameIs
<1>3. From[k] \subseteq Keys /\ From[NewName(k, r)] \subseteq Keys
  BY <1>2 DEF From
<1>4. \A q \in Keys : Mode(q) = KeyMode(s.mode, q)
  BY <1>1 DEF Mode
<1>5. /\ \A q \in From[k] : KeyMode(s.mode, q) = "Merge"
      /\ \A q \in From[NewName(k, r)] : KeyMode(s.mode, q) = "Merge" /\ q \notin s.listed
  BY <1>4 DEF RenamesFit
<1>6. QED
  BY <1>1, <1>3, <1>4, <1>5 DEF MayWrite

\* A call of another process, whose handle is the same, is gone, or fits where it went.
LEMMA OthersStay ==
    ASSUME WriteInv, NEW q \in Procs, SameCall(q), fixed' = fixed,
           \/ handle'[q] \in {NoHandle, handle[q]}
           \/ ~On(q, "host")'
           \/ MayWrite(handle'[q].key) /\ handle'[q].layer = handle[q].layer
    PROVE  HostFits(q)'
<1>1. HostFits(q) /\ proc'[q].pc = proc[q].pc
  BY DEF WriteInv, SameCall
<1>2. CASE At(q, "idle")
  BY <1>1, <1>2 DEF At, HostFits
<1>3. CASE ~At(q, "idle")
  <2>1. proc'[q].key = proc[q].key /\ proc'[q].more = proc[q].more
    BY <1>3 DEF SameCall
  <2>2. /\ \A k : Mode(k)' = fixed.mode[k]
        /\ \A k : MayWrite(k)' <=> fixed.mode[k] = "Merge" /\ k \notin fixed.listed
    BY DEF Mode, MayWrite
  <2>3. On(q, "host")' => On(q, "host") /\ (handle'[q] = handle[q] \/ MayWrite(handle'[q].key))
    BY DEF On, NoHandle
  <2>4. QED
    BY <1>1, <2>1, <2>3 DEF HostFits, At, Key, Mode, MayWrite
<1>4. QED
  BY <1>2, <1>3

\* The step of a process which leaves the handles of the others, or shuts them.
LEMMA InvTogether ==
    ASSUME WriteInv, TypeInv', NEW p \in Procs, fixed' = fixed,
           \A q \in Procs : q # p => SameCall(q) /\ handle'[q] \in {NoHandle, handle[q]},
           HostFits(p)'
    PROVE  WriteInv'
<1>1. \A q \in Procs : HostFits(q)'
  BY OthersStay
<1>2. TableIs'
  BY DEF WriteInv, TableIs
<1>3. QED
  BY <1>1, <1>2 DEF WriteInv

\* The last step of a call leaves nothing to fit.
LEMMA LastStepFits ==
    ASSUME WriteInv, TypeInv', NEW p \in Procs, ~At(p, "idle"), fixed' = fixed, Succeeds(p) \/ Fails(p),
           \A q \in Procs : q # p => handle'[q] \in {NoHandle, handle[q]}
    PROVE  WriteInv'
<1>1. proc'[p] = Idle /\ \A q \in Procs : q # p => proc'[q] = proc[q]
  BY EndsTyped DEF WriteInv, TypeInv
<1>2. HostFits(p)'
  BY <1>1 DEF HostFits, Idle, At
<1>3. QED
  BY <1>1, <1>2, InvTogether DEF SameCall

\* A step to a place which writes no host.
LEMMA StepFits ==
    ASSUME WriteInv, TypeInv', NEW p \in Procs, ~At(p, "idle"), fixed' = fixed,
           NEW pc \in {"judgeValue", "judgeKey", "moveInState"}, Goto(p, pc)
    PROVE  /\ \A q \in Procs : q # p => SameCall(q)
           /\ HostFits(p)'
<1>1. /\ proc'[p].pc = pc /\ \A q \in Procs : q # p => proc'[q] = proc[q]
  BY GoesOnTyped DEF WriteInv, TypeInv, Places
<1>2. HostFits(p)'
  BY <1>1 DEF HostFits, At
<1>3. QED
  BY <1>1, <1>2 DEF SameCall

LEMMA BeginsFits == ASSUME WriteInv, TypeInv', NEW p \in Procs, Begins(p) PROVE HostStays /\ WriteInv'
<1>1. PICK r \in Requests :
          \/ OpenKey(p, r) \/ CreateKey(p, r) \/ SetValue(p, r) \/ DeleteValue(p, r)
          \/ DeleteKey(p, r) \/ RenameKey(p, r)
  BY DEF Begins
<1>2. ASSUME NEW k \in Keys, NEW pc \in Places, NEW more \in [sandbox : BOOLEAN, host : BOOLEAN],
             Begin(p, r, k, pc, more),
             pc = "createInHost" => Mode(k) = "Merge",
             pc \in {"setInHost", "unsetInHost"} => MayWrite(k) /\ k = handle[p].key,
             pc \in {"dropInHost", "moveInHost"} => Mode(k) = "Merge" /\ k = handle[p].key
      PROVE  HostStays /\ WriteInv'
  <2>1. /\ proc'[p].pc = pc /\ proc'[p].key = k /\ proc'[p].more = more
        /\ \A q \in Procs : q # p => SameCall(q)
        /\ UNCHANGED <<layers, fixed, handle>>
    BY <1>2, BeginTyped DEF WriteInv, TypeInv
  <2>2. HostFits(p)'
    BY <1>2, <2>1 DEF HostFits, At, Key, Mode, MayWrite
  <2>3. QED
    BY <2>1, <2>2, InvTogether, NoWrite DEF layers
<1>3. Permits(p) => handle[p].key \in Keys
  BY HandleIs DEF Permits, On, WriteInv, TypeInv
<1>4. ASSUME NEW k \in Keys, NEW l, Opens(p, r, k, l) PROVE HostStays /\ WriteInv'
  <2>1. /\ UNCHANGED <<layers, fixed, proc>> /\ At(p, "idle")
        /\ handle' = [handle EXCEPT ![p] = [layer |-> l, key |-> k, write |-> r.write]]
    BY <1>4 DEF Opens
  <2>2. \A q \in Procs : q # p => handle'[q] = handle[q]
    BY <2>1 DEF WriteInv, TypeInv, TypeOK
  <2>3. HostFits(p)'
    BY <2>1 DEF HostFits, At
  <2>4. QED
    BY <2>1, <2>2, <2>3, InvTogether, NoWrite DEF layers, SameCall
<1>5. CASE OpenKey(p, r)
  <2>1. r.key \in Keys
    BY <1>5, RegistryAssumption DEF OpenKey, Request
  <2>2. Begin(p, r, r.key, "createInState", NoMore) \/ Opens(p, r, r.key, OpensFrom(p, r.key))
    BY <1>5 DEF OpenKey
  <2>3. QED
    BY <1>2, <1>4, <2>1, <2>2, NoMoreTyped DEF Places
<1>6. CASE CreateKey(p, r)
  <2>1. r.key \in Keys
    BY <1>6, RegistryAssumption DEF CreateKey, Request
  <2>2. \/ Mode(r.key) = "Merge" /\ Begin(p, r, r.key, "createInHost", NoMore)
        \/ Begin(p, r, r.key, "createInState", NoMore)
    BY <1>6 DEF CreateKey
  <2>3. QED
    BY <1>2, <2>1, <2>2, NoMoreTyped DEF Places
<1>7. OnHost(p) \in [sandbox : BOOLEAN, host : BOOLEAN]
  BY DEF OnHost, On
<1>8. CASE SetValue(p, r)
  <2>1. handle[p].key \in Keys
    BY <1>3, <1>8 DEF SetValue
  <2>2. \/ MayWrite(handle[p].key) /\ Begin(p, r, handle[p].key, "setInHost", OnHost(p))
        \/ Begin(p, r, handle[p].key, "setInState", NoMore)
    BY <1>8 DEF SetValue, WritesToHost, MayWrite
  <2>3. QED
    BY <1>2, <1>7, <2>1, <2>2, NoMoreTyped DEF Places
<1>9. CASE DeleteValue(p, r)
  <2> DEFINE more == [sandbox |-> SandboxHoldsValue(p, handle[p].key),
                      host |-> ~ValueHidesHost(handle[p].key) /\ HoldsValue(host, handle[p].key)]
  <2>1. handle[p].key \in Keys
    BY <1>3, <1>9 DEF DeleteValue
  <2>2. \/ MayWrite(handle[p].key) /\ Begin(p, r, handle[p].key, "unsetInHost", OnHost(p))
        \/ Begin(p, r, handle[p].key, "unsetInState", more)
    BY <1>9 DEF DeleteValue, WritesToHost, MayWrite
  <2>3. more \in [sandbox : BOOLEAN, host : BOOLEAN]
    <3>1. SandboxHoldsValue(p, handle[p].key) \in BOOLEAN
      BY DEF SandboxHoldsValue
    <3>2. QED
      BY <3>1
  <2> HIDE DEF more
  <2>4. QED
    BY <1>2, <1>7, <2>1, <2>2, <2>3 DEF Places
<1>10. CASE DeleteKey(p, r)
  <2>1. handle[p].key \in Keys
    BY <1>3, <1>10 DEF DeleteKey
  <2>2. \/ Mode(handle[p].key) = "Merge" /\ Begin(p, r, handle[p].key, "dropInHost", NoMore)
        \/ Begin(p, r, handle[p].key, "dropInState", NoMore)
    BY <1>10 DEF DeleteKey
  <2>3. QED
    BY <1>2, <2>1, <2>2, NoMoreTyped DEF Places
<1>11. CASE RenameKey(p, r)
  <2>1. handle[p].key \in Keys
    BY <1>3, <1>11 DEF RenameKey
  <2>2. \/ Mode(handle[p].key) = "Merge" /\ Begin(p, r, handle[p].key, "moveInHost", NoMore)
        \/ Begin(p, r, handle[p].key, "copyUp", NoMore)
    BY <1>11 DEF RenameKey
  <2>3. QED
    BY <1>2, <2>1, <2>2, NoMoreTyped DEF Places
<1>12. QED
  BY <1>1, <1>5, <1>6, <1>8, <1>9, <1>10, <1>11

\* A key which is made with the keys above it, and what it then holds.
LEMMA MakeKeyStays ==
    ASSUME TypeInv, NEW k \in Keys, Mode(k) = "Merge",
           \/ host' = MakeKey(host, k)
           \/ k \notin fixed.listed /\ \E v : host' = [MakeKey(host, k) EXCEPT ![k] = v]
    PROVE  HostStays
<1>1. \A q \in UpTo[k] : k \in From[q]
  BY DEF UpTo, From
<1>2. \A q \in Keys : q # k \/ host' = MakeKey(host, k) => host'[q] = MakeKey(host, k)[q]
  BY DEF MakeKey
<1>3. OnlyMerged
  BY <1>1, <1>2 DEF OnlyMerged, MakeKey, Holds
<1>4. \A q \in fixed.listed : q \in Keys /\ host'[q] = MakeKey(host, k)[q]
  BY <1>2 DEF TypeInv, TypeOK
<1>5. ListedStay
  <2>1. Absent \notin Data /\ Bare \notin Data
    BY RegistryAssumption
  <2>2. QED
    BY <1>4, <2>1 DEF ListedStay, MakeKey, Holds, HoldsValue
<1>6. QED
  BY <1>3, <1>5 DEF HostStays

LEMMA CreatesFit ==
    ASSUME WriteInv, TypeInv', NEW p \in Procs, CreateInState(p) \/ CreateInHost(p) PROVE HostStays /\ WriteInv'
<1>1. ~At(p, "idle") /\ fixed' = fixed /\ Succeeds(p)
  BY DEF CreateInState, CreateInHost, At
<1>2. \A q \in Procs : q # p => handle'[q] = handle[q]
  BY DEF CreateInState, CreateInHost, WriteInv, TypeInv, TypeOK
<1>3. HostStays
  <2>1. CASE CreateInState(p)
    BY <2>1, NoWrite DEF CreateInState
  <2>2. CASE CreateInHost(p)
    <3>1. Mode(Key(p)) = "Merge" /\ host' = MakeKey(host, Key(p))
      BY <2>2 DEF CreateInHost, WriteInv, HostFits
    <3>2. Key(p) \in Keys
      BY <1>1, InCallIs DEF WriteInv, TypeInv
    <3>3. QED
      BY <3>1, <3>2, MakeKeyStays DEF WriteInv
  <2>3. QED
    BY <2>1, <2>2
<1>4. QED
  BY <1>1, <1>2, <1>3, LastStepFits

\* The key of the host a call on values works on may be written.
LEMMA HostKeyFits ==
    ASSUME WriteInv, NEW p \in Procs, proc[p].pc \in {"setInHost", "unsetInHost"}, HostKeyIsThere(p)
    PROVE  HostKey(p) \in Keys /\ MayWrite(HostKey(p))
<1>1. ~At(p, "idle")
  BY DEF At
<1>2. HostKey(p) \in Keys
  BY <1>1, HostKeyIs DEF WriteInv
<1>3. MayWrite(HostKey(p))
  BY DEF WriteInv, HostFits, HostKey, HostKeyIsThere
<1>4. QED
  BY <1>2, <1>3

LEMMA SetsFit ==
    ASSUME WriteInv, TypeInv', NEW p \in Procs, SetInHost(p) \/ SetInState(p) PROVE HostStays /\ WriteInv'
<1>1. ~At(p, "idle") /\ fixed' = fixed /\ Succeeds(p) /\ handle' = handle
  BY DEF SetInHost, SetInState, At
<1>2. HostStays
  <2>1. CASE SetInState(p)
    BY <2>1, NoWrite DEF SetInState
  <2>2. CASE SetInHost(p)
    <3>1. HostKey(p) \in Keys /\ MayWrite(HostKey(p))
      BY <2>2, HostKeyFits DEF SetInHost, At
    <3>2. host' = [MakeKey(host, HostKey(p)) EXCEPT ![HostKey(p)] = proc[p].req.data]
      BY <2>2 DEF SetInHost
    <3>3. QED
      BY <3>1, <3>2, MakeKeyStays DEF MayWrite, WriteInv
  <2>3. QED
    BY <2>1, <2>2
<1>3. QED
  BY <1>1, <1>2, LastStepFits

LEMMA UnsetInHostFits ==
    ASSUME WriteInv, TypeInv', NEW p \in Procs, UnsetInHost(p) PROVE HostStays /\ WriteInv'
<1>1. ~At(p, "idle") /\ fixed' = fixed /\ Succeeds(p) /\ handle' = handle
  BY DEF UnsetInHost, At
<1>2. HostKey(p) \in Keys /\ MayWrite(HostKey(p))
  BY HostKeyFits DEF UnsetInHost, At
<1>3. host' = [host EXCEPT ![HostKey(p)] = Bare]
  BY DEF UnsetInHost
<1>4. \A q \in Keys : q # HostKey(p) => host'[q] = host[q]
  BY <1>3 DEF WriteInv, TypeInv, TypeOK, LayerHolds
<1>5. HostStays
  <2>1. OnlyMerged
    BY <1>2, <1>4 DEF OnlyMerged, MayWrite
  <2>2. \A q \in fixed.listed : q \in Keys /\ q # HostKey(p)
    BY <1>2 DEF WriteInv, TypeInv, TypeOK, MayWrite
  <2>3. QED
    BY <1>4, <2>1, <2>2 DEF HostStays, ListedStay
<1>6. QED
  BY <1>1, <1>5, LastStepFits

LEMMA UnsetInStateFits ==
    ASSUME WriteInv, TypeInv', NEW p \in Procs, UnsetInState(p) PROVE HostStays /\ WriteInv'
<1>1. /\ ~At(p, "idle") /\ host' = host /\ fixed' = fixed /\ handle' = handle /\ Goto(p, "judgeValue")
  BY DEF UnsetInState, At
<1>2. QED
  BY <1>1, NoWrite, StepFits, InvTogether

LEMMA JudgesFit ==
    ASSUME WriteInv, TypeInv', NEW p \in Procs, JudgeValue(p) \/ JudgeKey(p) PROVE HostStays /\ WriteInv'
<1>1. ~At(p, "idle") /\ UNCHANGED <<host, fixed, handle>>
  BY DEF JudgeValue, JudgeKey, At
<1>2. Succeeds(p) \/ Fails(p)
  BY DEF JudgeValue, JudgeKey, Record, NoMark
<1>3. QED
  BY <1>1, <1>2, NoWrite, LastStepFits

LEMMA DropInHostFits ==
    ASSUME WriteInv, TypeInv', NEW p \in Procs, DropInHost(p) PROVE HostStays /\ WriteInv'
<1> DEFINE k == handle[p].key
<1>1. /\ ~At(p, "idle") /\ fixed' = fixed /\ Succeeds(p) /\ On(p, "host")
      /\ handle' = Shut("host", k) /\ host' = [host EXCEPT ![k] = Absent]
  BY DEF DropInHost, At
<1>2. Mode(k) = "Merge"
  BY DEF DropInHost, WriteInv, HostFits, At
<1>3. k \in Keys
  BY <1>1, HandleIs, OnLayer DEF WriteInv, TypeInv
<1>4. \A q \in Keys : IF q = k THEN host'[q] = Absent ELSE host'[q] = host[q]
  BY <1>1, <1>3 DEF WriteInv, TypeInv, TypeOK, LayerHolds
<1>5. \A q \in Procs : handle'[q] \in {NoHandle, handle[q]}
  BY <1>1, HandlesShut DEF WriteInv
<1> HIDE DEF k
<1>6. HostStays
  <2>1. OnlyMerged
    BY <1>2, <1>4 DEF OnlyMerged
  <2>2. \A q \in fixed.listed : q \in Keys
    BY DEF WriteInv, TypeInv, TypeOK
  <2>3. ListedStay
    BY <1>4, <2>2 DEF ListedStay, Holds
  <2>4. QED
    BY <2>1, <2>3 DEF HostStays
<1>7. QED
  BY <1>1, <1>5, <1>6, LastStepFits

LEMMA DropInStateFits ==
    ASSUME WriteInv, TypeInv', NEW p \in Procs, DropInState(p) PROVE HostStays /\ WriteInv'
<1>1. /\ ~At(p, "idle") /\ host' = host /\ fixed' = fixed /\ handle' = Shut("state", handle[p].key)
      /\ Goto(p, "judgeKey")
  BY DEF DropInState, At
<1>2. \A q \in Procs : handle'[q] \in {NoHandle, handle[q]}
  BY <1>1, HandlesShut DEF WriteInv
<1>3. QED
  BY <1>1, <1>2, NoWrite, StepFits, InvTogether

LEMMA CopyUpFits ==
    ASSUME WriteInv, TypeInv', NEW p \in Procs, CopyUp(p) PROVE HostStays /\ WriteInv'
<1>1. /\ ~At(p, "idle") /\ host' = host /\ fixed' = fixed /\ handle' = handle /\ Goto(p, "moveInState")
  BY DEF CopyUp, At
<1>2. QED
  BY <1>1, NoWrite, StepFits, InvTogether

\* A rename takes the handles of other processes along.
LEMMA MovesFit ==
    ASSUME WriteInv, TypeInv', fixed' = fixed, NEW p \in Procs, HostFits(p)',
           \A q \in Procs : q # p => proc'[q] = proc[q],
           \A q \in Procs : /\ handle'[q].layer = handle[q].layer
                            /\ \/ handle'[q] = handle[q]
                               \/ handle'[q].layer = "state"
                               \/ MayWrite(handle'[q].key)
    PROVE  WriteInv'
<1>1. \A q \in Procs : q # p => SameCall(q)
  BY DEF SameCall
<1>2. \A q \in Procs : q # p => HostFits(q)'
  BY <1>1, OthersStay DEF On
<1>3. TableIs'
  BY DEF WriteInv, TableIs
<1>4. QED
  BY <1>2, <1>3 DEF WriteInv

LEMMA MoveInStateFits ==
    ASSUME WriteInv, TypeInv', NEW p \in Procs, MoveInState(p) PROVE HostStays /\ WriteInv'
<1>1. proc[p].pc \in MovePlaces /\ On(p, "state")
  BY DEF MoveInState, At, MovePlaces
<1>2. /\ host' = host /\ fixed' = fixed /\ Goto(p, "judgeKey")
      /\ Moves("state", handle[p].key, NewName(handle[p].key, proc[p].req))
  BY DEF MoveInState
<1>3. \A q \in Procs : /\ handle'[q].layer = handle[q].layer
                       /\ handle'[q] = handle[q] \/ handle'[q].layer = "state"
  BY <1>1, <1>2, MoveIs, HandlesMove DEF WriteInv
<1>4. HostFits(p)' /\ \A q \in Procs : q # p => proc'[q] = proc[q]
  BY <1>1, <1>2, MoveIs, StepFits, GoesOnTyped DEF WriteInv, TypeInv, Places
<1>5. QED
  BY <1>2, <1>3, <1>4, NoWrite, MovesFit

LEMMA MoveInHostFits ==
    ASSUME RenamesFit, WriteInv, TypeInv', NEW p \in Procs, MoveInHost(p) PROVE HostStays /\ WriteInv'
<1> DEFINE k == handle[p].key
           r == proc[p].req
           n == NewName(k, r)
<1>1. proc[p].pc \in MovePlaces /\ On(p, "host")
  BY DEF MoveInHost, At, MovePlaces
<1>2. /\ host' = MoveKey(host, k, n) /\ fixed' = fixed /\ Succeeds(p) /\ Moves("host", k, n)
  BY DEF MoveInHost
<1>3. Mode(k) = "Merge"
  BY <1>1 DEF MoveInHost, WriteInv, HostFits, At
<1>4. /\ r \in Requests /\ r.call = "rename" /\ k \in Keys /\ k \notin Roots /\ Len(k) = Len(r.to)
      /\ ~At(p, "idle")
  BY <1>1, MoveIs DEF WriteInv
<1>5. /\ \A q \in From[k] : Mode(q) = "Merge"
      /\ \A q \in From[n] : MayWrite(q)
  BY <1>3, <1>4, RenameFits DEF WriteInv
<1>6. \A q \in Procs : /\ handle'[q].layer = handle[q].layer
                       /\ handle'[q] = handle[q] \/ MayWrite(handle'[q].key)
  BY <1>2, <1>4, <1>5, HandlesMove DEF WriteInv
<1>7. /\ proc'[p] = Idle /\ \A q \in Procs : q # p => proc'[q] = proc[q]
  BY <1>2, <1>4, EndsTyped DEF WriteInv, TypeInv
<1>8. HostFits(p)'
  BY <1>7 DEF HostFits, Idle, At
<1>9. HostStays
  <2> HIDE DEF k, r, n
  <2>1. \A q \in Keys : q \notin From[n] => host'[q] = IF q \in From[k] THEN Absent ELSE host[q]
    BY <1>2 DEF MoveKey
  <2>2. OnlyMerged
    BY <1>5, <2>1 DEF OnlyMerged, MayWrite
  <2>3. \A q \in fixed.listed : q \in Keys /\ q \notin From[n]
    BY <1>5 DEF WriteInv, TypeInv, TypeOK, MayWrite
  <2>4. ListedStay
    BY <2>1, <2>3 DEF ListedStay, Holds
  <2>5. QED
    BY <2>2, <2>4 DEF HostStays
<1>10. QED
  BY <1>2, <1>6, <1>7, <1>8, <1>9, MovesFit

LEMMA RefuseFits == ASSUME WriteInv, TypeInv', NEW p \in Procs, Refuse(p) PROVE HostStays /\ WriteInv'
<1>1. ~At(p, "idle")
  BY DEF Refuse, Refused, At
<1>2. UNCHANGED <<layers, fixed, handle, calls>> /\ Fails(p)
  BY DEF Refuse
<1>3. QED
  BY <1>1, <1>2, NoWrite, LastStepFits DEF layers

LEMMA KillFits == ASSUME WriteInv, TypeInv', NEW p \in Procs, Kill(p) PROVE HostStays /\ WriteInv'
<1>1. /\ proc' = [proc EXCEPT ![p] = Idle] /\ handle' = [handle EXCEPT ![p] = NoHandle]
      /\ host' = host /\ fixed' = fixed
  BY DEF Kill
<1>2. /\ proc'[p] = Idle
      /\ \A q \in Procs : q # p => proc'[q] = proc[q] /\ handle'[q] = handle[q]
  BY <1>1 DEF WriteInv, TypeInv, TypeOK
<1>3. HostFits(p)'
  BY <1>2 DEF HostFits, Idle, At
<1>4. QED
  BY <1>1, <1>2, <1>3, NoWrite, InvTogether DEF SameCall

LEMMA StepsFit == ASSUME RenamesFit, WriteInv, [Next]_vars PROVE (HostStays \/ UNCHANGED vars) /\ WriteInv'
<1>1. TypeInv'
  BY StepsTyped DEF WriteInv
<1>2. CASE UNCHANGED vars
  <2>1. fixed' = fixed /\ \A q \in Procs : SameCall(q) /\ handle'[q] = handle[q]
    BY <1>2 DEF vars, SameCall
  <2>2. \A q \in Procs : HostFits(q)'
    BY <2>1, OthersStay
  <2>3. TableIs'
    BY <2>1 DEF WriteInv, TableIs
  <2>4. QED
    BY <1>1, <1>2, <2>2, <2>3 DEF WriteInv
<1>3. ASSUME NEW p \in Procs, Begins(p) \/ Continues(p) \/ Kill(p) PROVE HostStays /\ WriteInv'
  BY <1>1, <1>3, BeginsFits, CreatesFit, SetsFit, UnsetInHostFits, UnsetInStateFits, JudgesFit,
     DropInHostFits,
     DropInStateFits, CopyUpFits, MoveInStateFits, MoveInHostFits, RefuseFits, KillFits
  DEF Continues
<1>4. QED
  BY <1>2, <1>3 DEF Next

LEMMA InitFits == ASSUME Init PROVE WriteInv
<1>1. TypeInv
  BY InitTyped
<1>2. TableIs
  BY DEF Init, TableIs
<1>3. \A p \in Procs : HostFits(p)
  BY DEF Init, HostFits, Idle, At
<1>4. QED
  BY <1>1, <1>2, <1>3 DEF WriteInv

\* "Merge is the only mode which modifies the real registry", the keys above a merged key
\* which are made with it apart, and a listed value stays while its key is there: although
\* a call decides with what it read before, and although another process may rename the
\* key of its handle before it writes (SetIsolatedValue(), DeleteIsolatedValue(),
\* DeleteIsolatedKey(), RenameIsolatedKey(), CreateIsolatedKeyEntry()).
THEOREM HostIsKept == ASSUME RenamesFit PROVE Spec => HostKept
<1>1. Init => WriteInv
  BY InitFits
<1>2. WriteInv /\ [Next]_vars => WriteInv'
  BY StepsFit
<1>3. WriteInv /\ [Next]_vars => [OnlyMerged /\ ListedStay]_vars
  BY StepsFit DEF HostStays
<1>4. QED
  BY <1>1, <1>2, <1>3, PTL DEF Spec, HostKept

-----------------------------------------------------------------------------
(***************************************************************************)
(* What a call told stays so.  A call decides with what it read, works       *)
(* through a handle which another process may move, and marks what it        *)
(* deleted in a later step, so the invariant promises of every entry that    *)
(* was told that no call under way may change it, and of a call which will   *)
(* tell that no other may change its entry, and what it found before.        *)
(***************************************************************************)
\* A hive is a tree.
Tree(layer) == \A k \in Keys : Holds(layer, k) => \A q \in UpTo[k] : Holds(layer, q)

\* A call which has still to write a layer, and the keys it works on by then.
Writing(q) == proc[q].pc \notin {"idle", "judgeKey", "judgeValue"}
Reach(q)   == IF Call(q) \in {"open", "create"} THEN {Key(q)} ELSE WorksOn(q)

\* The entries it may change. The copy of a key makes the keys above it too.
ChangesKey(q, k)   == Writing(q) /\ \E n \in Reach(q) : k \in KeysOf(proc[q].req, n)
ChangesValue(q, k) == Writing(q) /\ \E n \in Reach(q) : k \in ValuesOf(proc[q].req, n)
MakesKey(q, k)     == ChangesKey(q, k) \/ (At(q, "copyUp") /\ k \in UpTo[Key(q)])
RemovesKey(q, k)   == ChangesKey(q, k) /\ Call(q) # "open"

\* What no process finds.
KeyMarked(k)   == UpTo[k] \cap marks.key # {}
ValueMarked(k) == KeyMarked(k) \/ k \in marks.value
DeadKey(k) ==
    ~Holds(state, k) /\ (KeyMarked(k) \/ (~Holds(image, k) /\ (KeyHidesHost(k) \/ ~Holds(host, k))))
DeadValue(k) ==
    /\ ~HoldsValue(state, k)
    /\ ValueMarked(k) \/ (~HoldsValue(image, k) /\ (ValueHidesHost(k) \/ ~HoldsValue(host, k)))

\* What was told is true, and no call is under way which could change it.
KeyPromise(k) ==
    /\ told.key[k] = Gone => DeadKey(k) /\ \A q \in Procs : ~MakesKey(q, k)
    /\ told.key[k] = Bare => (Mode(k) # "Merge" => Holds(state, k)) /\ \A q \in Procs : ~RemovesKey(q, k)
ValuePromise(k) ==
    /\ told.value[k] = Gone => DeadValue(k)
    /\ told.value[k] \in Data => (Mode(k) # "Merge" => state[k] = told.value[k])
    /\ told.value[k] # Untold => \A q \in Procs : ~ChangesValue(q, k)

\* A call which will tell what it did.
Tellers   == {"create", "set", "unset", "delete"}
Teller(p) == ~At(p, "idle") /\ proc[p].alone /\ Call(p) \in Tellers
\* No other call may change its entries, and its handle is that of its key.
Alone(p)  ==
    /\ \A q \in Procs : q # p =>
          /\ \A k \in KeysOf(proc[p].req, Key(p)) : ~ChangesKey(q, k)
          /\ \A k \in ValuesOf(proc[p].req, Key(p)) : ~ChangesValue(q, k)
    /\ Writing(p) /\ Call(p) # "create" /\ ~On(p, "none") => handle[p].key = Key(p)
\* What it read before and need not read again.
Found(p) ==
    LET k == Key(p)
        hostRest == ~proc[p].more.host => ValueHidesHost(k) \/ ~HoldsValue(host, k)
    IN  /\ At(p, "createInHost") \/ At(p, "setInHost") => Mode(k) = "Merge"
        /\ At(p, "unsetInHost") => ~HoldsValue(state, k) /\ ~HoldsValue(image, k)
        /\ At(p, "unsetInState") => hostRest
        /\ At(p, "judgeValue") => hostRest /\ ~HoldsValue(state, k)
        /\ At(p, "dropInHost") => ~Holds(state, k) /\ ~Holds(image, k)
        /\ At(p, "judgeKey") => ~Holds(state, k)

\* The call of each place.
CallOf(p) ==
    /\ proc[p].pc \in {"createInState", "createInHost"} => Call(p) \in {"open", "create"} /\ proc[p].req.write
    /\ proc[p].pc \in SetPlaces => Call(p) = "set"
    /\ proc[p].pc \in {"unsetInState", "unsetInHost", "judgeValue"} => Call(p) = "unset"
    /\ proc[p].pc \in {"dropInState", "dropInHost"} => Call(p) = "delete"
    /\ proc[p].pc = "judgeKey" => Call(p) \in {"delete", "rename"}

\* No handle of the sandbox outlives its key.
HandleLives(p) == On(p, "state") => Holds(state, handle[p].key)

PromiseInv ==
    /\ TypeInv /\ TableIs /\ Tree(image) /\ Tree(state) /\ Tree(host)
    /\ \A p \in Procs : CallOf(p) /\ HandleLives(p) /\ (Teller(p) => Alone(p) /\ Found(p))
    /\ \A k \in Keys : KeyPromise(k) /\ ValuePromise(k)

-----------------------------------------------------------------------------
(***************************************************************************)
(* Keys above and below one another, also after a rename.                    *)
(***************************************************************************)
\* A prefix has the first names of a sequence.
LEMMA PrefixNames ==
    ASSUME NEW S, NEW x \in Seq(S), NEW y \in Seq(S)
    PROVE  IsPrefix(x, y) <=> Len(x) <= Len(y) /\ \A i \in 1..Len(x) : x[i] = y[i]
<1>1. PICK m \in Nat, n \in Nat : m = Len(x) /\ n = Len(y)
  OBVIOUS
<1>2. CASE m <= n
  <2>1. /\ SubSeq(x, 1, m) \in Seq(S) /\ Len(SubSeq(x, 1, m)) = m
        /\ \A i \in 1..m : SubSeq(x, 1, m)[i] = x[i]
    <3>1. \A i \in 1..m : x[i] \in S
      BY <1>1
    <3>2. QED
      BY <1>1, <3>1, SubSeqProperties
  <2>2. /\ SubSeq(y, 1, m) \in Seq(S) /\ Len(SubSeq(y, 1, m)) = m
        /\ \A i \in 1..m : SubSeq(y, 1, m)[i] = y[i]
    <3>1. \A i \in 1..m : y[i] \in S
      BY <1>1, <1>2
    <3>2. QED
      BY <1>1, <3>1, SubSeqProperties
  <2>3. (\A i \in 1..m : x[i] = y[i]) => SubSeq(x, 1, m) = SubSeq(y, 1, m)
    BY <2>1, <2>2, SeqEqual
  <2>4. SubSeq(x, 1, m) = SubSeq(y, 1, m) => \A i \in 1..m : x[i] = y[i]
    BY <2>1, <2>2
  <2>5. QED
    BY <1>1, <1>2, <2>3, <2>4 DEF IsPrefix
<1>3. CASE ~(m <= n)
  BY <1>1, <1>3 DEF IsPrefix
<1>4. QED
  BY <1>2, <1>3

\* A key has names.
LEMMA KeyLen == ASSUME NEW k \in Keys PROVE Len(k) \in Nat /\ Len(k) >= 1 /\ DOMAIN k = 1..Len(k)
  BY KeySeq

\* The keys above and below a key, by their names.
LEMMA AboveNames ==
    ASSUME NEW x \in Keys, NEW y \in Keys
    PROVE  /\ x \in UpTo[y] <=> Len(x) <= Len(y) /\ \A i \in 1..Len(x) : x[i] = y[i]
           /\ y \in From[x] <=> Len(x) <= Len(y) /\ \A i \in 1..Len(x) : x[i] = y[i]
<1>1. IsPrefix(x, y) <=> Len(x) <= Len(y) /\ \A i \in 1..Len(x) : x[i] = y[i]
  BY KeySeq, PrefixNames
<1>2. QED
  BY <1>1 DEF UpTo, From

\* The names of two sequences in a row.
LEMMA Joined ==
    ASSUME NEW S, NEW x \in Seq(S), NEW y \in Seq(S)
    PROVE  /\ x \o y \in Seq(S) /\ Len(x \o y) = Len(x) + Len(y)
           /\ \A i \in 1..(Len(x) + Len(y)) : (x \o y)[i] = IF i <= Len(x) THEN x[i] ELSE y[i - Len(x)]
  OBVIOUS

\* The names of what is put below another key of the same length.
LEMMA MovedNames ==
    ASSUME NEW k \in Keys, NEW n \in Keys, Len(n) = Len(k), NEW q \in From[k]
    PROVE  LET m == Moved(k, n, q)
           IN  /\ m \in Seq(KeyNames) /\ Len(m) = Len(q)
               /\ \A i \in 1..Len(q) : m[i] = IF i <= Len(k) THEN n[i] ELSE q[i]
<1>1. PICK l \in Nat : l = Len(k) /\ l = Len(n) /\ l >= 1
  BY KeyLen
<1>2. q \in Keys /\ Len(k) <= Len(q)
  BY DEF From, IsPrefix
<1>3. PICK j \in Nat : j = Len(q) /\ l <= j
  BY <1>1, <1>2, KeyLen
<1>4. q \in Seq(KeyNames) /\ n \in Seq(KeyNames)
  BY <1>2, KeySeq
<1>5. \A i \in (l + 1)..j : q[i] \in KeyNames
  BY <1>1, <1>3, <1>4
<1>6. /\ SubSeq(q, l + 1, j) \in Seq(KeyNames) /\ Len(SubSeq(q, l + 1, j)) = j - l
      /\ \A i \in 1..(j - l) : SubSeq(q, l + 1, j)[i] = q[l + i]
  <2>1. /\ SubSeq(q, l + 1, j) \in Seq(KeyNames)
        /\ Len(SubSeq(q, l + 1, j)) = IF l + 1 <= j THEN j - (l + 1) + 1 ELSE 0
        /\ \A i \in 1..(j - (l + 1) + 1) : SubSeq(q, l + 1, j)[i] = q[(l + 1) + i - 1]
    BY <1>5, SubSeqProperties
  <2>2. (IF l + 1 <= j THEN j - (l + 1) + 1 ELSE 0) = j - l /\ j - (l + 1) + 1 = j - l
    BY <1>1, <1>3
  <2>3. \A i \in 1..(j - l) : (l + 1) + i - 1 = l + i
    BY <1>1
  <2>4. QED
    BY <2>1, <2>2, <2>3
<1> DEFINE rest == SubSeq(q, l + 1, j)
<1>7. Moved(k, n, q) = n \o rest
  BY <1>1, <1>3 DEF Moved, Below
<1> HIDE DEF rest
<1>8. /\ n \o rest \in Seq(KeyNames) /\ Len(n \o rest) = l + (j - l)
      /\ \A i \in 1..(l + (j - l)) : (n \o rest)[i] = IF i <= l THEN n[i] ELSE rest[i - l]
  <2>1. rest \in Seq(KeyNames) /\ Len(rest) = j - l
    BY <1>6 DEF rest
  <2>2. n \in Seq(KeyNames) /\ Len(n) = l
    BY <1>1, <1>4
  <2>3. /\ n \o rest \in Seq(KeyNames)
        /\ Len(n \o rest) = Len(n) + Len(rest)
        /\ \A i \in 1..(Len(n) + Len(rest)) : (n \o rest)[i] = IF i <= Len(n) THEN n[i] ELSE rest[i - Len(n)]
    BY ONLY <2>1, <2>2, Joined
  <2>4. QED
    BY <2>1, <2>2, <2>3
<1>9. l + (j - l) = j
  BY <1>1, <1>3
<1>10. \A i \in 1..j : ~(i <= l) => rest[i - l] = q[i]
  <2> TAKE i \in 1..j
  <2> HAVE ~(i <= l)
  <2>1. i - l \in 1..(j - l) /\ l + (i - l) = i
    BY <1>1, <1>3
  <2>2. QED
    BY <1>6, <2>1 DEF rest
<1>11. QED
  BY <1>1, <1>3, <1>7, <1>8, <1>9, <1>10

\* A new name differs in the last name alone.
LEMMA NewNames ==
    ASSUME NEW r \in Requests, r.call = "rename", NEW k \in Keys, Len(k) = Len(r.to), k \notin Roots
    PROVE  LET n == NewName(k, r)
           IN  /\ n \in Keys /\ Len(n) = Len(k) /\ Len(k) > 1
               /\ \A i \in 1..Len(k) : n[i] = IF i = Len(k) THEN Last(r.to) ELSE k[i]
<1>1. PICK l \in Nat : l = Len(k) /\ l > 1
  <2>1. Len(k) # 0 /\ Len(k) # 1 /\ Len(k) \in Nat
    BY KeyLen DEF Roots
  <2>2. QED
    BY <2>1, MoreThanOne
<1>2. k \in Seq(KeyNames) /\ \A i \in 1..l : k[i] \in KeyNames
  BY <1>1, KeySeq
<1>3. l - 1 \in Nat /\ \A i \in 1..(l - 1) : i \in 1..l
  BY <1>1
<1>4. /\ Front(k) \in Seq(KeyNames) /\ Len(Front(k)) = l - 1
      /\ \A i \in 1..(l - 1) : Front(k)[i] = k[i]
  <2>1. \A i \in 1..(l - 1) : k[i] \in KeyNames
    BY <1>2, <1>3
  <2>2. /\ SubSeq(k, 1, l - 1) \in Seq(KeyNames)
        /\ Len(SubSeq(k, 1, l - 1)) = IF 1 <= l - 1 THEN l - 1 - 1 + 1 ELSE 0
        /\ \A i \in 1..(l - 1 - 1 + 1) : SubSeq(k, 1, l - 1)[i] = k[1 + i - 1]
    BY <1>3, <2>1, SubSeqProperties
  <2>3. (IF 1 <= l - 1 THEN l - 1 - 1 + 1 ELSE 0) = l - 1 /\ l - 1 - 1 + 1 = l - 1
    BY <1>1
  <2>4. \A i \in 1..(l - 1) : 1 + i - 1 = i
    BY <1>3
  <2>5. QED
    BY <1>1, <2>2, <2>3, <2>4 DEF Front
<1>5. Last(r.to) \in KeyNames
  <2>1. r.to \in Keys /\ Len(r.to) = l
    BY <1>1, RegistryAssumption DEF Request
  <2>2. QED
    BY <1>1, <2>1, KeySeq DEF Last
<1>6. /\ Len(NewName(k, r)) = l - 1 + 1
      /\ \A i \in 1..(l - 1) : NewName(k, r)[i] = k[i]
      /\ NewName(k, r)[l - 1 + 1] = Last(r.to)
  BY <1>4, <1>5, AppendProperties DEF NewName
<1>7. l - 1 + 1 = l /\ \A i \in 1..l : i = l \/ i \in 1..(l - 1)
  BY <1>1
<1>8. \A i \in 1..l : NewName(k, r)[i] = IF i = l THEN Last(r.to) ELSE k[i]
  BY <1>6, <1>7
<1>9. NewName(k, r) \in Keys
  BY NewNameIs
<1>10. QED
  BY <1>1, <1>6, <1>7, <1>8, <1>9

\* A key is above and below itself, and what is above or below another is so transitively.
LEMMA UpToIs ==
    ASSUME NEW k \in Keys
    PROVE  /\ UpTo[k] \subseteq Keys /\ From[k] \subseteq Keys /\ k \in UpTo[k] /\ k \in From[k]
           /\ \A q \in Keys : q \in UpTo[k] <=> k \in From[q]
           /\ \A q \in UpTo[k] : UpTo[q] \subseteq UpTo[k]
           /\ \A q \in From[k] : From[q] \subseteq From[k]
<1>1. UpTo[k] \subseteq Keys /\ From[k] \subseteq Keys /\ \A q \in Keys : q \in UpTo[k] <=> k \in From[q]
  BY DEF UpTo, From
<1>2. \A q \in UpTo[k] : UpTo[q] \subseteq UpTo[k]
  BY PrefixTransitive DEF UpTo
<1>3. \A q \in From[k] : From[q] \subseteq From[k]
  BY PrefixTransitive DEF From
<1>4. QED
  BY <1>1, <1>2, <1>3, PrefixOfItself

\* The first names of a sequence.
LEMMA FirstNames ==
    ASSUME NEW S, NEW s \in Seq(S), NEW a \in Nat, a <= Len(s)
    PROVE  /\ SubSeq(s, 1, a) \in Seq(S) /\ Len(SubSeq(s, 1, a)) = a
           /\ \A i \in 1..a : SubSeq(s, 1, a)[i] = s[i]
<1>1. PICK b \in Nat : b = Len(s)
  OBVIOUS
<1>2. \A i \in 1..a : s[i] \in S
  BY <1>1
<1>3. QED
  BY <1>1, <1>2, SubSeqProperties

\* Two keys above the same one lie above each other.
LEMMA AboveBoth ==
    ASSUME NEW z \in Keys, NEW x \in UpTo[z], NEW y \in UpTo[z] PROVE x \in UpTo[y] \/ x \in From[y]
<1>1. x \in Keys /\ y \in Keys
  BY UpToIs
<1>2. /\ Len(x) <= Len(z) /\ \A i \in 1..Len(x) : x[i] = z[i]
      /\ Len(y) <= Len(z) /\ \A i \in 1..Len(y) : y[i] = z[i]
  BY <1>1, AboveNames
<1>3. Len(x) \in Nat /\ Len(y) \in Nat
  BY <1>1, KeyLen
<1>4. CASE Len(x) <= Len(y)
  BY <1>1, <1>2, <1>3, <1>4, AboveNames
<1>5. CASE ~(Len(x) <= Len(y))
  BY <1>1, <1>2, <1>3, <1>5, AboveNames
<1>6. QED
  BY <1>4, <1>5

\* What lies above a key which was moved: new names, or names above the old ones.
LEMMA AboveMoved ==
    ASSUME NEW r \in Requests, r.call = "rename", NEW k \in Keys, Len(k) = Len(r.to), k \notin Roots,
           NEW q \in From[k], NEW x \in UpTo[Moved(k, NewName(k, r), q)]
    PROVE  x \in From[NewName(k, r)] \/ (x \in UpTo[q] /\ x \notin From[k])
<1> DEFINE n == NewName(k, r)
           m == Moved(k, n, q)
<1>1. /\ n \in Keys /\ Len(n) = Len(k) /\ Len(k) > 1
      /\ \A i \in 1..Len(k) : i # Len(k) => n[i] = k[i]
  BY NewNames
<1>2. m \in Keys /\ q \in Keys /\ x \in Keys
  BY RegistryAssumption, UpToIs
<1>3. Len(m) = Len(q) /\ \A i \in 1..Len(q) : m[i] = IF i <= Len(k) THEN n[i] ELSE q[i]
  BY <1>1, MovedNames
<1> HIDE DEF n, m
<1>4. Len(x) <= Len(m) /\ \A i \in 1..Len(x) : x[i] = m[i]
  BY <1>2, AboveNames DEF n, m
<1>5. Len(k) <= Len(q) /\ \A i \in 1..Len(k) : k[i] = q[i]
  BY <1>2, AboveNames
<1>6. Len(k) \in Nat /\ Len(q) \in Nat /\ Len(x) \in Nat
  BY <1>2, KeyLen
<1>7. CASE Len(x) >= Len(k)
  <2>1. \A i \in 1..Len(n) : n[i] = x[i]
    BY <1>1, <1>3, <1>4, <1>5, <1>6, <1>7
  <2>2. QED
    BY <1>1, <1>2, <1>6, <1>7, <2>1, AboveNames DEF n
<1>8. CASE ~(Len(x) >= Len(k))
  <2>1. \A i \in 1..Len(x) : x[i] = q[i]
    BY <1>1, <1>3, <1>4, <1>5, <1>6, <1>8
  <2>2. x \in UpTo[q]
    BY <1>2, <1>5, <1>6, <1>8, <2>1, AboveNames
  <2>3. x \notin From[k]
    BY <1>2, <1>6, <1>8, AboveNames
  <2>4. QED
    BY <2>2, <2>3
<1>9. QED
  BY <1>7, <1>8

\* A move there and back.
LEMMA MovedBack ==
    ASSUME NEW k \in Keys, NEW n \in Keys, Len(n) = Len(k), NEW q \in From[k], Moved(k, n, q) \in Keys
    PROVE  Moved(k, n, q) \in From[n] /\ Moved(n, k, Moved(k, n, q)) = q
<1> DEFINE m == Moved(k, n, q)
<1>1. /\ m \in Seq(KeyNames) /\ Len(m) = Len(q)
      /\ \A i \in 1..Len(q) : m[i] = IF i <= Len(k) THEN n[i] ELSE q[i]
  BY MovedNames
<1>2. q \in Keys /\ m \in Keys
  BY UpToIs
<1>3. /\ Len(k) \in Nat /\ Len(q) \in Nat /\ Len(k) <= Len(q)
      /\ \A i \in 1..Len(k) : k[i] = q[i]
  BY <1>2, KeyLen, AboveNames
<1> HIDE DEF m
<1>4. m \in From[n]
  BY <1>1, <1>2, <1>3, AboveNames
<1>5. /\ Moved(n, k, m) \in Seq(KeyNames) /\ Len(Moved(n, k, m)) = Len(m)
      /\ \A i \in 1..Len(m) : Moved(n, k, m)[i] = IF i <= Len(n) THEN k[i] ELSE m[i]
  BY <1>2, <1>4, MovedNames
<1>6. \A i \in 1..Len(q) : Moved(n, k, m)[i] = q[i]
  BY <1>1, <1>3, <1>5
<1>7. Moved(n, k, m) = q
  BY <1>1, <1>2, <1>5, <1>6, KeySeq, SeqEqual
<1>8. QED
  BY <1>4, <1>7 DEF m

\* A key above another one stays above it when both are moved.
LEMMA MovedAbove ==
    ASSUME NEW k \in Keys, NEW n \in Keys, Len(n) = Len(k), NEW q \in From[k], NEW x \in From[k] \cap UpTo[q],
           Moved(k, n, q) \in Keys
    PROVE  Moved(k, n, x) \in Keys /\ Moved(k, n, x) \in UpTo[Moved(k, n, q)]
<1> DEFINE m == Moved(k, n, q)
           u == Moved(k, n, x)
<1>1. /\ Len(m) = Len(q) /\ m \in Seq(KeyNames)
      /\ \A i \in 1..Len(q) : m[i] = IF i <= Len(k) THEN n[i] ELSE q[i]
  BY MovedNames
<1>2. /\ Len(u) = Len(x) /\ u \in Seq(KeyNames)
      /\ \A i \in 1..Len(x) : u[i] = IF i <= Len(k) THEN n[i] ELSE x[i]
  BY MovedNames
<1>3. q \in Keys /\ x \in Keys /\ m \in Keys
  BY UpToIs
<1>4. Len(x) <= Len(q) /\ \A i \in 1..Len(x) : x[i] = q[i]
  BY <1>3, AboveNames
<1>5. PICK a \in Nat, b \in Nat : a = Len(x) /\ b = Len(q) /\ 1 <= a /\ a <= b
  BY <1>3, <1>4, KeyLen
<1> HIDE DEF m, u
<1>6. SubSeq(m, 1, a) \in Keys
  BY <1>1, <1>3, <1>5, RegistryAssumption
<1>7. SubSeq(m, 1, a) \in Seq(KeyNames) /\ Len(SubSeq(m, 1, a)) = a /\ \A i \in 1..a : SubSeq(m, 1, a)[i] = m[i]
  BY <1>1, <1>5, FirstNames
<1>8. \A i \in 1..a : u[i] = m[i]
  BY <1>1, <1>2, <1>4, <1>5
<1>9. u = SubSeq(m, 1, a)
  BY <1>2, <1>5, <1>7, <1>8, SeqEqual
<1>10. u \in Keys
  BY <1>6, <1>9
<1>11. u \in UpTo[m]
  BY <1>1, <1>2, <1>3, <1>5, <1>8, <1>10, AboveNames
<1>12. QED
  BY <1>10, <1>11 DEF m, u

\* The other name of a key which was moved.
LEMMA MovedRenames ==
    ASSUME NEW r \in Requests, r.call = "rename", NEW k \in Keys, Len(k) = Len(r.to), k \notin Roots,
           NEW h \in From[k],
           NEW s \in Requests, s.call = "rename", Len(h) = Len(s.to), h \notin Roots
    PROVE  LET n == NewName(k, r)
               m == Moved(k, n, h)
           IN  NewName(m, s) \in Keys /\ (NewName(m, s) \in From[n] \/ NewName(m, s) = NewName(h, s))
<1> DEFINE n == NewName(k, r)
           m == Moved(k, n, h)
<1>1. /\ n \in Keys /\ Len(n) = Len(k) /\ Len(k) > 1
      /\ \A i \in 1..Len(k) : i # Len(k) => n[i] = k[i]
  BY NewNames
<1>2. m \in Keys /\ h \in Keys /\ m \notin Roots
  BY RegistryAssumption, UpToIs, NewNameIs
<1>3. Len(m) = Len(h) /\ \A i \in 1..Len(h) : m[i] = IF i <= Len(k) THEN n[i] ELSE h[i]
  BY <1>1, MovedNames
<1>4. /\ NewName(m, s) \in Keys /\ Len(NewName(m, s)) = Len(h)
      /\ \A i \in 1..Len(h) : NewName(m, s)[i] = IF i = Len(h) THEN Last(s.to) ELSE m[i]
  BY <1>2, <1>3, NewNames
<1>5. /\ NewName(h, s) \in Keys /\ Len(NewName(h, s)) = Len(h)
      /\ \A i \in 1..Len(h) : NewName(h, s)[i] = IF i = Len(h) THEN Last(s.to) ELSE h[i]
  BY <1>2, NewNames
<1>6. /\ Len(k) \in Nat /\ Len(h) \in Nat /\ Len(k) <= Len(h)
      /\ \A i \in 1..Len(k) : k[i] = h[i]
  BY <1>2, KeyLen, AboveNames
<1> HIDE DEF n, m
<1>7. CASE Len(h) = Len(k)
  <2>1. \A i \in 1..Len(h) : NewName(m, s)[i] = NewName(h, s)[i]
    BY <1>1, <1>3, <1>4, <1>5, <1>6, <1>7
  <2>2. NewName(m, s) = NewName(h, s)
    BY <1>4, <1>5, <2>1, KeySeq, SeqEqual
  <2>3. QED
    BY <1>4, <2>2 DEF n, m
<1>8. CASE Len(h) # Len(k)
  <2>1. \A i \in 1..Len(n) : n[i] = NewName(m, s)[i]
    BY <1>1, <1>3, <1>4, <1>6, <1>8
  <2>2. NewName(m, s) \in From[n]
    BY <1>1, <1>4, <1>6, <2>1, AboveNames
  <2>3. QED
    BY <1>4, <2>2 DEF n, m
<1>9. QED
  BY <1>7, <1>8

-----------------------------------------------------------------------------
(***************************************************************************)
(* A hive stays a tree, whatever is made, set, removed or moved in it.       *)
(***************************************************************************)
\* A key which is made.
LEMMA MakesTree ==
    ASSUME NEW l \in LayerHolds, NEW k \in Keys, Tree(l)
    PROVE  /\ Tree(MakeKey(l, k))
           /\ \A q \in Keys : Holds(MakeKey(l, k), q) <=> Holds(l, q) \/ q \in UpTo[k]
           /\ \A q \in Keys : Holds(l, q) => MakeKey(l, k)[q] = l[q]
           /\ \A q \in Keys : ~Holds(l, q) => MakeKey(l, k)[q] \in {Absent, Bare}
<1>1. \A q \in Keys : MakeKey(l, k)[q] = IF q \in UpTo[k] /\ l[q] = Absent THEN Bare ELSE l[q]
  BY DEF MakeKey
<1>2. Absent # Bare
  BY RegistryAssumption
<1>3. \A q \in Keys : Holds(MakeKey(l, k), q) <=> Holds(l, q) \/ q \in UpTo[k]
  BY <1>1, <1>2 DEF Holds
<1>4. \A q \in Keys : UpTo[q] \subseteq Keys /\ \A x \in UpTo[q] : UpTo[x] \subseteq UpTo[q]
  BY UpToIs
<1>5. Tree(MakeKey(l, k))
  BY <1>3, <1>4 DEF Tree
<1>6. QED
  BY <1>1, <1>3, <1>5 DEF Holds

\* A key which is there and holds something else.
LEMMA SetsTree ==
    ASSUME NEW l \in LayerHolds, NEW k \in Keys, Tree(l), Holds(l, k), NEW v, v # Absent
    PROVE  Tree([l EXCEPT ![k] = v]) /\ \A q \in Keys : Holds([l EXCEPT ![k] = v], q) <=> Holds(l, q)
<1>1. \A q \in Keys : [l EXCEPT ![k] = v][q] = IF q = k THEN v ELSE l[q]
  BY DEF LayerHolds
<1>2. \A q \in Keys : Holds([l EXCEPT ![k] = v], q) <=> Holds(l, q)
  BY <1>1 DEF Holds
<1>3. \A q \in Keys : UpTo[q] \subseteq Keys
  BY UpToIs
<1>4. QED
  BY <1>2, <1>3 DEF Tree

\* A key which has nothing below it and goes.
LEMMA DropsTree ==
    ASSUME NEW l \in LayerHolds, NEW k \in Keys, Tree(l), CanDrop(l, k)
    PROVE  /\ Tree([l EXCEPT ![k] = Absent])
           /\ \A q \in Keys : [l EXCEPT ![k] = Absent][q] = IF q = k THEN Absent ELSE l[q]
<1>1. \A q \in Keys : [l EXCEPT ![k] = Absent][q] = IF q = k THEN Absent ELSE l[q]
  BY DEF LayerHolds
<1>2. \A q \in Keys : Holds([l EXCEPT ![k] = Absent], q) <=> q # k /\ Holds(l, q)
  BY <1>1 DEF Holds
<1>3. \A q \in Keys : UpTo[q] \subseteq Keys /\ (k \in UpTo[q] => q \in From[k])
  BY UpToIs
<1>4. Tree([l EXCEPT ![k] = Absent])
  BY <1>2, <1>3 DEF Tree, CanDrop
<1>5. QED
  BY <1>1, <1>4

\* A key which is moved with what lies below it, to a name which is free.
LEMMA MovesTree ==
    ASSUME NEW l \in LayerHolds, Tree(l), NEW r \in Requests, r.call = "rename",
           NEW k \in Keys, Len(k) = Len(r.to), k \notin Roots, ~Holds(l, NewName(k, r))
    PROVE  LET n == NewName(k, r)
           IN  /\ Tree(MoveKey(l, k, n))
               /\ \A q \in Keys : q \notin From[k] \cup From[n] => MoveKey(l, k, n)[q] = l[q]
               /\ \A q \in From[n] : ~Holds(l, q)
               /\ \A q \in From[k] : Holds(l, q) => Holds(MoveKey(l, k, n), Moved(k, n, q))
<1> DEFINE n == NewName(k, r)
           m == MoveKey(l, k, n)
           old(q) == Moved(n, k, q)
<1>1. n \in Keys /\ Len(n) = Len(k) /\ \A q \in From[k] : Moved(k, n, q) \in Keys
  BY NewNameIs, RegistryAssumption
<1>2. \A q \in Keys : m[q] = IF q \in From[n] THEN (IF old(q) \in Keys THEN l[old(q)] ELSE Absent)
                             ELSE IF q \in From[k] THEN Absent ELSE l[q]
  BY DEF MoveKey
<1>3. \A q \in From[n] : old(q) \in Keys => old(q) \in From[k] /\ Moved(k, n, old(q)) = q
  BY <1>1, MovedBack
<1>4. \A q \in From[k] : Moved(k, n, q) \in From[n] /\ old(Moved(k, n, q)) = q
  BY <1>1, MovedBack
<1>5. \A q \in From[n] : ~Holds(l, q)
  BY <1>1, UpToIs DEF Tree
<1>6. ASSUME NEW x \in Keys, Holds(m, x), NEW q \in UpTo[x] PROVE Holds(m, q)
  <2>1. q \in Keys
    BY UpToIs
  <2>2. CASE x \in From[n]
    <3>1. old(x) \in Keys /\ Holds(l, old(x))
      BY <1>2, <1>6, <2>2 DEF Holds
    <3>2. old(x) \in From[k] /\ Moved(k, n, old(x)) = x
      BY <1>3, <2>2, <3>1
    <3>3. CASE q \in From[n]
      <4>1. old(q) \in Keys /\ old(q) \in UpTo[old(x)]
        BY <1>1, <2>2, <3>1, <3>3, MovedAbove
      <4>2. QED
        BY <1>2, <2>1, <3>1, <3>3, <4>1 DEF Tree, Holds
    <3>4. CASE q \notin From[n]
      <4>1. q \in UpTo[old(x)] /\ q \notin From[k]
        BY <3>2, <3>4, AboveMoved
      <4>2. Holds(l, q)
        BY <3>1, <4>1 DEF Tree
      <4>3. QED
        BY <1>2, <2>1, <3>4, <4>1, <4>2 DEF Holds
    <3>5. QED
      BY <3>3, <3>4
  <2>3. CASE x \notin From[n]
    <3>1. x \notin From[k] /\ Holds(l, x)
      BY <1>2, <1>6, <2>3 DEF Holds
    <3>2. Holds(l, q)
      BY <3>1 DEF Tree
    <3>3. q \notin From[n] /\ q \notin From[k]
      BY <1>1, <2>1, <2>3, <3>1, UpToIs
    <3>4. QED
      BY <1>2, <2>1, <3>2, <3>3 DEF Holds
  <2>4. QED
    BY <2>2, <2>3
<1>7. \A q \in From[k] : Holds(l, q) => Holds(m, Moved(k, n, q))
  <2>1. From[k] \subseteq Keys
    BY UpToIs
  <2>2. QED
    BY <1>1, <1>2, <1>4, <2>1 DEF Holds
<1> HIDE DEF m, n, old
<1>8. \A q \in Keys : q \notin From[k] \cup From[n] => m[q] = l[q]
  BY <1>2
<1>9. QED
  BY <1>5, <1>6, <1>7, <1>8 DEF Tree, m, n

-----------------------------------------------------------------------------
(***************************************************************************)
(* What the step of one call leaves of the promises and of the other calls.  *)
(***************************************************************************)
\* The entries a call works on, call by call.
LEMMA CallEntries ==
    ASSUME NEW r, NEW k
    PROVE  /\ r.call \in {"open", "create"} => /\ KeysOf(r, k) = IF r.write THEN UpTo[k] ELSE {}
                                               /\ ValuesOf(r, k) = {}
           /\ r.call = "set"    => KeysOf(r, k) = UpTo[k] /\ ValuesOf(r, k) = {k}
           /\ r.call = "unset"  => KeysOf(r, k) = {} /\ ValuesOf(r, k) = {k}
           /\ r.call = "delete" => KeysOf(r, k) = From[k] /\ ValuesOf(r, k) = From[k]
           /\ r.call = "rename" => /\ KeysOf(r, k) = From[k] \cup From[NewName(k, r)]
                                   /\ ValuesOf(r, k) = From[k] \cup From[NewName(k, r)]
  BY DEF KeysOf, ValuesOf

\* What a step of a call does: what it may change, and only that.
Effects(p) ==
    /\ \A k \in Keys :
          /\ (~Holds(state, k) /\ Holds(state', k)) \/ (~Holds(host, k) /\ Holds(host', k)) => MakesKey(p, k)
          /\ Holds(state, k) /\ ~Holds(state', k) => RemovesKey(p, k)
          /\ (HoldsValue(state, k) \/ HoldsValue(state', k)) /\ state'[k] # state[k] => ChangesValue(p, k)
          /\ ~HoldsValue(host, k) /\ HoldsValue(host', k) => ChangesValue(p, k)
    /\ marks.key \subseteq marks'.key /\ marks.value \subseteq marks'.value /\ fixed' = fixed

\* What a call may change after it: what it might before, and what a rename moved.
Narrows(q, p) == \A k \in Keys :
    LET moved == Call(p) = "rename" /\ ChangesKey(p, k)
    IN  /\ ChangesKey(q, k)' => ChangesKey(q, k) \/ moved
        /\ MakesKey(q, k)' => MakesKey(q, k) \/ moved
        /\ RemovesKey(q, k)' => RemovesKey(q, k) \/ moved
        /\ ChangesValue(q, k)' => ChangesValue(q, k) \/ (Call(p) = "rename" /\ ChangesValue(p, k))

\* A step which may not change an entry leaves it unfound.
LEMMA DeadStays ==
    ASSUME NEW p \in Procs, Effects(p), NEW k \in Keys
    PROVE  /\ DeadKey(k) /\ ~MakesKey(p, k) => DeadKey(k)'
           /\ DeadValue(k) /\ ~ChangesValue(p, k) => DeadValue(k)'
<1>1. /\ fixed' = fixed /\ (KeyMarked(k) => KeyMarked(k)') /\ (ValueMarked(k) => ValueMarked(k)')
      /\ (KeyHidesHost(k)' <=> KeyHidesHost(k)) /\ (ValueHidesHost(k)' <=> ValueHidesHost(k))
  BY DEF Effects, KeyMarked, ValueMarked, KeyHidesHost, ValueHidesHost, Mode
<1>2. ~MakesKey(p, k) => /\ ~Holds(state, k) => ~Holds(state', k)
                         /\ ~Holds(host, k) => ~Holds(host', k)
  BY DEF Effects
<1>3. ~ChangesValue(p, k) => /\ ~HoldsValue(state, k) => ~HoldsValue(state', k)
                             /\ ~HoldsValue(host, k) => ~HoldsValue(host', k)
  BY DEF Effects, HoldsValue
<1>4. image' = image
  BY <1>1 DEF image
<1>5. DeadKey(k) /\ ~MakesKey(p, k) => DeadKey(k)'
  BY <1>1, <1>2, <1>4 DEF DeadKey, Holds
<1>6. DeadValue(k) /\ ~ChangesValue(p, k) => DeadValue(k)'
  BY <1>1, <1>3, <1>4 DEF DeadValue, HoldsValue
<1>7. QED
  BY <1>5, <1>6

LEMMA PromisesStay ==
    ASSUME NEW p \in Procs, Effects(p), \A q \in Procs : Narrows(q, p), NEW k \in Keys
    PROVE  /\ told'.key[k] = told.key[k] /\ KeyPromise(k) => KeyPromise(k)'
           /\ told'.value[k] = told.value[k] /\ ValuePromise(k) => ValuePromise(k)'
<1>1. Call(p) = "rename" /\ ChangesKey(p, k) => MakesKey(p, k) /\ RemovesKey(p, k)
  BY DEF RemovesKey, MakesKey
<1>2. Mode(k)' = Mode(k)
  BY DEF Effects, Mode
<1>3. ASSUME told'.key[k] = told.key[k], KeyPromise(k) PROVE KeyPromise(k)'
  <2>1. told.key[k] = Gone => DeadKey(k)' /\ \A q \in Procs : ~MakesKey(q, k)'
    BY <1>1, <1>3, DeadStays DEF KeyPromise, Narrows
  <2>2. told.key[k] = Bare => (Mode(k) # "Merge" => Holds(state', k)) /\ \A q \in Procs : ~RemovesKey(q, k)'
    BY <1>1, <1>3 DEF KeyPromise, Narrows, Effects
  <2>3. QED
    BY <1>2, <1>3, <2>1, <2>2 DEF KeyPromise, Holds
<1>4. ASSUME told'.value[k] = told.value[k], ValuePromise(k) PROVE ValuePromise(k)'
  <2>1. told.value[k] # Untold => ~ChangesValue(p, k) /\ \A q \in Procs : ~ChangesValue(q, k)'
    BY <1>4 DEF ValuePromise, Narrows
  <2>2. Gone # Untold /\ Untold \notin Data
    BY RegistryAssumption
  <2>3. told.value[k] = Gone => DeadValue(k)'
    BY <1>4, <2>1, <2>2, DeadStays DEF ValuePromise
  <2>4. told.value[k] \in Data => (Mode(k) # "Merge" => state'[k] = told.value[k])
    BY <1>4, <2>1, <2>2 DEF ValuePromise, Effects, HoldsValue
  <2>5. QED
    BY <1>2, <1>4, <2>1, <2>3, <2>4 DEF ValuePromise
<1>5. QED
  BY <1>3, <1>4

\* The copy of a key makes the keys above it, which are then not deleted meanwhile.
LEMMA NoneMakes ==
    ASSUME TypeInv, NEW q \in Procs, NEW k \in Keys, \A x \in From[k] : ~ChangesKey(q, x) PROVE ~MakesKey(q, k)
<1>1. k \in From[k]
  BY UpToIs
<1>2. ASSUME At(q, "copyUp"), k \in UpTo[Key(q)] PROVE FALSE
  <2>1. ~At(q, "idle") /\ Call(q) = "rename" /\ Writing(q)
    BY <1>2 DEF TypeInv, PlaceFits, MovePlaces, At, Writing
  <2>2. Key(q) \in Keys
    BY <2>1, InCallIs DEF TypeInv
  <2>3. Key(q) \in From[k] /\ Key(q) \in From[Key(q)]
    BY <1>2, <2>2, UpToIs
  <2>4. ChangesKey(q, Key(q))
    BY <2>1, <2>3, CallEntries DEF ChangesKey, Reach, WorksOn, Call
  <2>5. QED
    BY <2>3, <2>4
<1>3. QED
  BY <1>1, <1>2 DEF MakesKey

\* What becomes of the handle of a call next to the step.
HandleKeeps(q, p) ==
    \/ handle'[q] \in {NoHandle, handle[q]}
    \/ ~On(q, "none") /\ ChangesValue(p, handle[q].key)

\* What a call which will tell found, after the step of another process.
LEMMA TellersStay ==
    ASSUME TypeInv, NEW p \in Procs, NEW q \in Procs, q # p, CallOf(q), Alone(q), Found(q), Teller(q),
           Effects(p), \A x \in Procs : Narrows(x, p), proc'[q] = proc[q], HandleKeeps(q, p)
    PROVE  Alone(q)' /\ Found(q)'
<1> DEFINE r == proc[q].req
           k == Key(q)
<1>1. /\ ~At(q, "idle") /\ k \in Keys /\ r \in Requests /\ Call(q) \in Tellers
      /\ KeysOf(r, k) \subseteq Keys /\ ValuesOf(r, k) \subseteq Keys
  <2>1. ~At(q, "idle") /\ k \in Keys /\ r \in Requests /\ Call(q) \in Tellers
    BY InCallIs DEF Teller, TypeInv
  <2>2. UpTo[k] \subseteq Keys /\ From[k] \subseteq Keys
    BY <2>1, UpToIs
  <2>3. QED
    BY <2>1, <2>2, CallEntries DEF Tellers, Call
<1>2. /\ \A x \in KeysOf(r, k) : ~ChangesKey(p, x)
      /\ \A x \in ValuesOf(r, k) : ~ChangesValue(p, x)
  BY DEF Alone
<1>3. Call(q) \in {"set", "unset", "delete"} => k \in ValuesOf(r, k)
  BY <1>1, CallEntries, UpToIs DEF Call
<1>4. /\ k' = k /\ r' = r /\ (Writing(q)' <=> Writing(q)) /\ Call(q)' = Call(q)
      /\ \A pc \in Places : At(q, pc)' <=> At(q, pc)
  BY DEF Key, Writing, Call, At
<1>5. \A x \in Procs : x # q =>
          /\ \A y \in KeysOf(r, k) : ~ChangesKey(x, y)'
          /\ \A y \in ValuesOf(r, k) : ~ChangesValue(x, y)'
  BY <1>1, <1>2 DEF Alone, Narrows
<1>6. Writing(q) /\ Call(q) # "create" /\ ~On(q, "none")' => handle'[q].key = k
  <2>1. SUFFICES ASSUME Writing(q), Call(q) # "create", ~On(q, "none")' PROVE handle'[q].key = k
    OBVIOUS
  <2>2. handle'[q] # NoHandle
    BY <2>1 DEF On, NoHandle
  <2>3. CASE handle'[q] = handle[q]
    BY <2>1, <2>3 DEF Alone, On
  <2>4. CASE ~On(q, "none") /\ ChangesValue(p, handle[q].key)
    <3>1. handle[q].key = k
      BY <2>1, <2>4 DEF Alone
    <3>2. QED
      BY <1>1, <1>2, <1>3, <2>1, <2>4, <3>1 DEF Tellers
  <2>5. QED
    BY <2>2, <2>3, <2>4 DEF HandleKeeps
<1>7. Alone(q)'
  BY <1>4, <1>5, <1>6 DEF Alone
<1>8. /\ Mode(k)' = Mode(k) /\ image' = image
      /\ (ValueHidesHost(k)' <=> ValueHidesHost(k))
  BY <1>4 DEF Effects, Mode, image, ValueHidesHost, KeyHidesHost
<1>9. Call(q) = "unset" => /\ ~HoldsValue(state, k) => ~HoldsValue(state', k)
                           /\ ~HoldsValue(host, k) => ~HoldsValue(host', k)
  BY <1>1, <1>2, <1>3 DEF Effects, HoldsValue
<1>10. Call(q) = "delete" => /\ ~Holds(state, k) => ~Holds(state', k)
                             /\ ~Holds(host, k) => ~Holds(host', k)
  <2>1. Call(q) = "delete" => \A x \in From[k] : ~ChangesKey(p, x)
    BY <1>2, CallEntries DEF Call
  <2>2. Call(q) = "delete" => ~MakesKey(p, k)
    BY <1>1, <2>1, NoneMakes
  <2>3. QED
    BY <1>1, <2>2 DEF Effects
<1>11. /\ At(q, "unsetInHost") \/ At(q, "unsetInState") \/ At(q, "judgeValue") => Call(q) = "unset"
       /\ At(q, "dropInHost") \/ At(q, "judgeKey") => Call(q) = "delete"
  BY <1>1 DEF CallOf, At, Tellers
<1>12. Found(q)'
  BY <1>4, <1>8, <1>9, <1>10, <1>11 DEF Found, Places, HoldsValue, Holds
<1>13. QED
  BY <1>7, <1>12

\* A call which ends, or has still to judge, changes no layer from then on.
LEMMA DoneNarrows ==
    ASSUME NEW p \in Procs, proc'[p].pc \in {"idle", "judgeKey", "judgeValue"} PROVE Narrows(p, p) /\ ~Writing(p)'
  BY DEF Narrows, ChangesKey, ChangesValue, RemovesKey, MakesKey, Writing, At

\* A call of another process, whose handle stays or is shut.
LEMMA OthersNarrow ==
    ASSUME NEW p \in Procs, NEW q \in Procs, proc'[q] = proc[q], handle'[q] \in {NoHandle, handle[q]}
    PROVE  Narrows(q, p) /\ HandleKeeps(q, p)
<1>1. Reach(q)' \subseteq Reach(q)
  BY DEF Reach, WorksOn, Call, Key, On, NoHandle
<1>2. Writing(q)' = Writing(q) /\ Call(q)' = Call(q) /\ Key(q)' = Key(q) /\ At(q, "copyUp")' = At(q, "copyUp")
  BY DEF Writing, Call, Key, At
<1>3. \A k : /\ ChangesKey(q, k)' => ChangesKey(q, k)
             /\ ChangesValue(q, k)' => ChangesValue(q, k)
  BY <1>1, <1>2 DEF ChangesKey, ChangesValue
<1>4. QED
  BY <1>2, <1>3 DEF Narrows, MakesKey, RemovesKey, HandleKeeps

\* What a call has shown to be true when it tells it.
Achieved(p) == \A k \in {Key(p)} :
    /\ Call(p) = "create" => (Mode(k) # "Merge" => Holds(state', k))
    /\ Call(p) = "set"    => (Mode(k) # "Merge" => state'[k] = proc[p].req.data)
    /\ Call(p) = "unset"  => DeadValue(k)'
    /\ Call(p) = "delete" => DeadKey(k)' /\ DeadValue(k)'

\* A step which leaves the calls of the others and tells only what it achieved.
LEMMA StepKeeps ==
    ASSUME PromiseInv, NEW p \in Procs, TypeInv', Tree(state)', Tree(host)', Effects(p),
           \A q \in Procs : Narrows(q, p) /\ HandleLives(q)',
           \A q \in Procs : q # p => proc'[q] = proc[q] /\ HandleKeeps(q, p),
           CallOf(p)', Teller(p)' => Alone(p)' /\ Found(p)',
           \A k \in Keys : /\ told'.key[k] = told.key[k] \/ KeyPromise(k)'
                           /\ told'.value[k] = told.value[k] \/ ValuePromise(k)'
    PROVE  PromiseInv'
<1>1. TableIs' /\ Tree(image)'
  BY DEF PromiseInv, TableIs, Effects, Tree, image
<1>2. \A k \in Keys : KeyPromise(k)' /\ ValuePromise(k)'
  BY PromisesStay DEF PromiseInv
<1>3. ASSUME NEW q \in Procs, q # p PROVE CallOf(q)' /\ (Teller(q)' => Alone(q)' /\ Found(q)')
  <2>1. proc'[q] = proc[q] /\ HandleKeeps(q, p)
    BY <1>3
  <2>2. CallOf(q)' /\ (Teller(q)' => Teller(q))
    BY <2>1 DEF PromiseInv, CallOf, Teller, At, Call
  <2>3. QED
    BY <1>3, <2>1, <2>2, TellersStay DEF PromiseInv
<1>4. \A q \in Procs : CallOf(q)' /\ (Teller(q)' => Alone(q)' /\ Found(q)')
  BY <1>3
<1>5. QED
  BY <1>1, <1>2, <1>4 DEF PromiseInv

\* A call which ends.
LEMMA EndKeeps ==
    ASSUME PromiseInv, NEW p \in Procs, ~At(p, "idle"), TypeInv', Tree(state)', Tree(host)', Effects(p),
           \A q \in Procs : HandleLives(q)',
           \A q \in Procs : q # p => Narrows(q, p) /\ HandleKeeps(q, p),
           \/ Fails(p)
           \/ Succeeds(p) /\ (Teller(p) => Achieved(p))
    PROVE  PromiseInv'
<1>1. TypeInv /\ Key(p) \in Keys /\ proc[p].req \in Requests
  BY InCallIs DEF PromiseInv, TypeInv
<1>2. /\ proc'[p] = Idle /\ told \in Told
      /\ \A q \in Procs : q # p => proc'[q] = proc[q]
  BY <1>1, EndsTyped DEF TypeInv, TypeOK, Told
<1>3. /\ CallOf(p)' /\ ~Teller(p)' /\ Narrows(p, p) /\ ~Writing(p)' /\ ~At(p, "copyUp")'
  BY <1>2, DoneNarrows DEF CallOf, Idle, Teller, At, SetPlaces
<1>4. PICK k \in Keys, r \in Requests : k = Key(p) /\ r = proc[p].req /\ r.call = Call(p)
  BY <1>1 DEF Call
<1>5. /\ r.call = "create" => r.write
      /\ r.call = "set" => r.data \in Data
  BY RegistryAssumption DEF Request
<1>6. ASSUME NEW x \in Keys PROVE /\ told'.key[x] = told.key[x] \/ KeyPromise(x)'
                                  /\ told'.value[x] = told.value[x] \/ ValuePromise(x)'
  <2>1. CASE told' = told
    BY <2>1
  <2>2. CASE told' # told
    <3>1. proc[p].alone /\ Call(p) \in Tellers /\ told' = Tells(p) /\ Achieved(p)
      <4>1. told' = Tells(p) /\ (Teller(p) => Achieved(p))
        BY <2>2 DEF Succeeds, Fails
      <4>2. proc[p].alone
        <5>1. ~proc[p].alone => Tells(p) = told
          BY DEF Tells
        <5>2. QED
          BY <2>2, <4>1, <5>1
      <4>3. Call(p) \in Tellers
        BY <2>2, <4>1 DEF Tells, Tellers
      <4>4. QED
        BY <4>1, <4>2, <4>3 DEF Teller
    <3>2. Alone(p) /\ Call(p) # "rename"
      BY <3>1 DEF PromiseInv, Teller, Tellers
    <3>3. ASSUME NEW q \in Procs
          PROVE  /\ k \in KeysOf(r, k) => ~ChangesKey(q, k)' /\ ~RemovesKey(q, k)'
                 /\ Call(p) = "delete" => ~MakesKey(q, k)'
                 /\ k \in ValuesOf(r, k) => ~ChangesValue(q, k)'
      <4>1. CASE q = p
        BY <1>3, <4>1 DEF ChangesKey, RemovesKey, MakesKey, ChangesValue
      <4>2. CASE q # p
        <5>1. Narrows(q, p)
          BY <4>2
        <5>2. /\ k \in KeysOf(r, k) => ~ChangesKey(q, k)
              /\ k \in ValuesOf(r, k) => ~ChangesValue(q, k)
          BY <1>4, <3>2, <4>2 DEF Alone
        <5>3. Call(p) = "delete" => ~MakesKey(q, k)
          BY <1>1, <3>2, <4>2, NoneMakes, CallEntries, <1>4 DEF Alone
        <5>4. QED
          BY <1>1, <3>2, <5>1, <5>2, <5>3 DEF Narrows, RemovesKey
      <4>3. QED
        BY <4>1, <4>2
    <3>4. Mode(k)' = Mode(k) /\ Bare # Gone /\ Gone # Untold /\ Untold \notin Data /\ Gone \notin Data /\ Bare # Untold
      BY RegistryAssumption DEF Effects, Mode
    <3>5. CASE Call(p) = "create"
      <4>1. told' = [told EXCEPT !.key[k] = Bare]
        BY <3>1, <3>5, <1>4 DEF Tells
      <4>2. k \in KeysOf(r, k)
        BY <1>1, <3>5, CallEntries, UpToIs, <1>4, <1>5
      <4>3. KeyPromise(k)'
        BY <1>1, <1>2, <3>1, <3>3, <3>4, <1>4, <3>5, <4>1, <4>2 DEF KeyPromise, Achieved, Told, Holds
      <4>4. QED
        BY <1>1, <1>2, <4>1, <4>3 DEF Told
    <3>6. CASE Call(p) = "set"
      <4>1. told' = [told EXCEPT !.value[k] = r.data]
        BY <3>1, <3>6, <1>4 DEF Tells
      <4>2. k \in ValuesOf(r, k) /\ r.data \in Data
        BY <1>1, <3>6, CallEntries, <1>4, <1>5
      <4>3. ValuePromise(k)'
        BY <1>1, <1>2, <3>1, <3>3, <3>4, <1>4, <3>6, <4>1, <4>2 DEF ValuePromise, Achieved, Told
      <4>4. QED
        BY <1>1, <1>2, <4>1, <4>3 DEF Told
    <3>7. CASE Call(p) = "unset"
      <4>1. told' = [told EXCEPT !.value[k] = Gone]
        BY <3>1, <3>7, <1>4 DEF Tells
      <4>2. k \in ValuesOf(r, k)
        BY <3>7, CallEntries, <1>4
      <4>3. ValuePromise(k)'
        BY <1>1, <1>2, <3>1, <3>3, <3>4, <1>4, <3>7, <4>1, <4>2 DEF ValuePromise, Achieved, Told
      <4>4. QED
        BY <1>1, <1>2, <4>1, <4>3 DEF Told
    <3>8. CASE Call(p) = "delete"
      <4>1. told' = [told EXCEPT !.key[k] = Gone, !.value[k] = Gone]
        BY <3>1, <3>8, <1>4 DEF Tells
      <4>2. k \in ValuesOf(r, k)
        BY <1>1, <3>8, CallEntries, UpToIs, <1>4
      <4>3. told'.key[k] = Gone /\ told'.value[k] = Gone
        BY <1>1, <1>2, <4>1 DEF Told
      <4>4. KeyPromise(k)' /\ ValuePromise(k)'
        BY <3>1, <3>3, <3>4, <1>4, <3>8, <4>2, <4>3 DEF KeyPromise, ValuePromise, Achieved
      <4>5. QED
        BY <1>1, <1>2, <4>1, <4>4 DEF Told
    <3>9. QED
      BY <3>1, <3>5, <3>6, <3>7, <3>8 DEF Tellers
  <2>3. QED
    BY <2>1, <2>2
<1>7. \A q \in Procs : Narrows(q, p)
  BY <1>3
<1>8. QED
  BY <1>2, <1>3, <1>6, <1>7, StepKeeps

-----------------------------------------------------------------------------
(***************************************************************************)
(* The steps of the calls, one after the other.                              *)
(***************************************************************************)
\* What the invariant says of a call under way.
LEMMA CallIs ==
    ASSUME PromiseInv, NEW p \in Procs, ~At(p, "idle")
    PROVE  /\ TypeInv /\ Key(p) \in Keys /\ proc[p].req \in Requests
           /\ state \in LayerHolds /\ host \in LayerHolds /\ image \in LayerHolds
           /\ Tree(state) /\ Tree(host) /\ Tree(image)
           /\ CallOf(p) /\ HandleLives(p) /\ (Teller(p) => Alone(p) /\ Found(p))
           /\ Bare \notin Data /\ Absent \notin Data /\ Bare # Absent
  BY InCallIs, LayersTyped, RegistryAssumption DEF PromiseInv, TypeInv

\* The entries of a key a call works on.
LEMMA MayChange ==
    ASSUME NEW p \in Procs, Writing(p), NEW n \in Reach(p)
    PROVE  /\ \A k \in KeysOf(proc[p].req, n) :
                 ChangesKey(p, k) /\ MakesKey(p, k) /\ (Call(p) # "open" => RemovesKey(p, k))
           /\ \A k \in ValuesOf(proc[p].req, n) : ChangesValue(p, k)
  BY DEF ChangesKey, MakesKey, RemovesKey, ChangesValue

LEMMA CreateInStateKeeps == ASSUME PromiseInv, TypeInv', NEW p \in Procs, CreateInState(p) PROVE PromiseInv'
<1> DEFINE k == Key(p)
<1>1. /\ At(p, "createInState") /\ ~At(p, "idle") /\ state' = MakeKey(state, k) /\ Succeeds(p)
      /\ handle' = [handle EXCEPT ![p] = [layer |-> "state", key |-> k, write |-> TRUE]]
      /\ UNCHANGED <<host, marks, sees, fixed, calls>>
  BY DEF CreateInState, At
<1>2. Call(p) \in {"open", "create"} /\ proc[p].req.write /\ Writing(p) /\ k \in Reach(p) /\ k \in Keys
  BY <1>1, CallIs DEF CallOf, At, Writing, Reach
<1>3. /\ Tree(MakeKey(state, k))
      /\ \A q \in Keys : Holds(MakeKey(state, k), q) <=> Holds(state, q) \/ q \in UpTo[k]
      /\ \A q \in Keys : Holds(state, q) => MakeKey(state, k)[q] = state[q]
      /\ \A q \in Keys : ~Holds(state, q) => MakeKey(state, k)[q] \in {Absent, Bare}
  BY <1>1, <1>2, CallIs, MakesTree
<1> HIDE DEF k
<1>4. \A q \in UpTo[k] : MakesKey(p, q)
  BY <1>2, CallEntries, MayChange DEF Call
<1>5. Effects(p)
  BY <1>1, <1>3, <1>4, CallIs DEF Effects, Holds, HoldsValue
<1>6. /\ handle'[p].key = k /\ \A q \in Procs : q # p => handle'[q] = handle[q]
  BY <1>1, CallIs DEF TypeInv, TypeOK
<1>7. \A q \in Procs : q # p => proc'[q] = proc[q] /\ Narrows(q, p) /\ HandleKeeps(q, p)
  BY <1>1, <1>6, EndsTyped, OthersNarrow, CallIs DEF TypeInv
<1>8. \A q \in Procs : HandleLives(q)'
  <2>1. Holds(state', k)
    BY <1>1, <1>2, <1>3, UpToIs
  <2>2. ASSUME NEW q \in Procs, q # p PROVE HandleLives(q)'
    BY <1>1, <1>3, <1>6, <2>2, HandleIs, OnLayer DEF PromiseInv, HandleLives, TypeInv, On, Holds
  <2>3. HandleLives(p)'
    BY <1>6, <2>1 DEF HandleLives, Holds
  <2>4. QED
    BY <2>2, <2>3
<1>9. Achieved(p)
  BY <1>1, <1>2, <1>3, UpToIs DEF Achieved, k
<1>10. Tree(state)' /\ Tree(host)'
  BY <1>1, <1>3 DEF PromiseInv, Tree, Holds
<1>11. QED
  BY <1>1, <1>5, <1>7, <1>8, <1>9, <1>10, EndKeeps

\* A step which leaves the calls and the handles of the others, or shuts these.
LEMMA OthersKeep ==
    ASSUME PromiseInv, NEW p \in Procs, ~At(p, "idle"),
           Succeeds(p) \/ Fails(p) \/ \E pc \in Places : Goto(p, pc),
           \A q \in Procs : q # p => handle'[q] \in {NoHandle, handle[q]}
    PROVE  \A q \in Procs : q # p => proc'[q] = proc[q] /\ Narrows(q, p) /\ HandleKeeps(q, p)
<1>1. \A q \in Procs : q # p => proc'[q] = proc[q]
  BY EndsTyped, GoesOnTyped DEF PromiseInv, TypeInv
<1>2. QED
  BY <1>1, OthersNarrow

\* A handle stays when no key goes.
LEMMA LivesOn ==
    ASSUME PromiseInv, NEW q \in Procs, handle'[q] \in {NoHandle, handle[q]},
           \A k \in Keys : Holds(state, k) => Holds(state', k)
    PROVE  HandleLives(q)'
  BY HandleIs, OnLayer DEF PromiseInv, HandleLives, TypeInv, On, Holds, NoHandle

LEMMA CreateInHostKeeps == ASSUME PromiseInv, TypeInv', NEW p \in Procs, CreateInHost(p) PROVE PromiseInv'
<1> DEFINE k == Key(p)
<1>1. /\ At(p, "createInHost") /\ ~At(p, "idle") /\ host' = MakeKey(host, k) /\ Succeeds(p)
      /\ handle' = [handle EXCEPT ![p] = [layer |-> "host", key |-> k, write |-> TRUE]]
      /\ UNCHANGED <<state, marks, sees, fixed, calls>>
  BY DEF CreateInHost, At
<1>2. Call(p) \in {"open", "create"} /\ proc[p].req.write /\ Writing(p) /\ k \in Reach(p) /\ k \in Keys
  BY <1>1, CallIs DEF CallOf, At, Writing, Reach
<1>3. /\ Tree(MakeKey(host, k))
      /\ \A q \in Keys : Holds(MakeKey(host, k), q) <=> Holds(host, q) \/ q \in UpTo[k]
      /\ \A q \in Keys : Holds(host, q) => MakeKey(host, k)[q] = host[q]
      /\ \A q \in Keys : ~Holds(host, q) => MakeKey(host, k)[q] \in {Absent, Bare}
  BY <1>1, <1>2, CallIs, MakesTree
<1> HIDE DEF k
<1>4. \A q \in UpTo[k] : MakesKey(p, q)
  BY <1>2, CallEntries, MayChange DEF Call
<1>5. Effects(p)
  BY <1>1, <1>3, <1>4, CallIs DEF Effects, Holds, HoldsValue
<1>6. /\ handle'[p].layer = "host" /\ \A q \in Procs : q # p => handle'[q] = handle[q]
  BY <1>1, CallIs DEF TypeInv, TypeOK
<1>7. \A q \in Procs : q # p => proc'[q] = proc[q] /\ Narrows(q, p) /\ HandleKeeps(q, p)
  BY <1>1, <1>6, OthersKeep
<1>8. \A q \in Procs : HandleLives(q)'
  <2>1. \A q \in Procs : q # p => HandleLives(q)'
    BY <1>1, <1>6, LivesOn
  <2>2. HandleLives(p)'
    BY <1>6 DEF HandleLives, On
  <2>3. QED
    BY <2>1, <2>2
<1>9. Teller(p) => Achieved(p)
  BY <1>1, <1>2, CallIs DEF Achieved, Found, k
<1>10. Tree(state)' /\ Tree(host)'
  BY <1>1, <1>3 DEF PromiseInv, Tree, Holds
<1>11. QED
  BY <1>1, <1>5, <1>7, <1>8, <1>9, <1>10, EndKeeps

\* A key which is not found has no value.
LEMMA DeadTogether == ASSUME NEW k \in Keys, DeadKey(k)' PROVE DeadValue(k)'
<1>1. Absent \notin Data
  BY RegistryAssumption
<1>2. QED
  BY <1>1 DEF DeadKey, DeadValue, Holds, HoldsValue, ValueMarked, ValueHidesHost

\* The key of a handle is one a call works on, and the key of the call when it is alone.
LEMMA HandleReached ==
    ASSUME PromiseInv, NEW p \in Procs, Writing(p), Call(p) \notin {"open", "create"}, ~On(p, "none")
    PROVE  handle[p].key \in Reach(p) /\ handle[p].key \in Keys /\ (Teller(p) => handle[p].key = Key(p))
  BY HandleIs DEF Reach, WorksOn, PromiseInv, Alone, TypeInv

\* The key of the host such a call writes.
LEMMA HostKeyReached ==
    ASSUME PromiseInv, NEW p \in Procs, Writing(p), Call(p) \notin {"open", "create"}, HostKeyIsThere(p)
    PROVE  HostKey(p) \in Reach(p) /\ HostKey(p) \in Keys /\ (Teller(p) => HostKey(p) = Key(p))
<1>1. Key(p) \in Reach(p) /\ Key(p) \in Keys
  BY CallIs DEF Reach, WorksOn, Writing, At
<1>2. On(p, "host") => ~On(p, "none")
  BY OnLayer
<1>3. QED
  BY <1>1, <1>2, HandleReached DEF HostKey, HostKeyIsThere

LEMMA SetInHostKeeps == ASSUME PromiseInv, TypeInv', NEW p \in Procs, SetInHost(p) PROVE PromiseInv'
<1> DEFINE k == HostKey(p)
           d == proc[p].req.data
           made == MakeKey(host, k)
<1>1. /\ At(p, "setInHost") /\ ~At(p, "idle") /\ HostKeyIsThere(p) /\ host' = [made EXCEPT ![k] = d] /\ Succeeds(p)
      /\ UNCHANGED <<state, marks, sees, fixed, handle, calls>>
  BY DEF SetInHost, At
<1>2. Call(p) = "set" /\ Writing(p) /\ d \in Data
  BY <1>1, CallIs, RegistryAssumption DEF CallOf, At, Writing, SetPlaces, Call, Request
<1>3. k \in Reach(p) /\ k \in Keys
  BY <1>1, <1>2, HostKeyReached
<1>4. /\ made \in LayerHolds /\ Tree(made)
      /\ \A q \in Keys : Holds(made, q) <=> Holds(host, q) \/ q \in UpTo[k]
      /\ \A q \in Keys : Holds(host, q) => made[q] = host[q]
      /\ \A q \in Keys : ~Holds(host, q) => made[q] \in {Absent, Bare}
  BY <1>1, <1>3, CallIs, MakesTree, MakeKeyTyped
<1> HIDE DEF k, d, made
<1>5. /\ Tree([made EXCEPT ![k] = d])
      /\ \A q \in Keys : Holds([made EXCEPT ![k] = d], q) <=> Holds(made, q)
      /\ \A q \in Keys : q # k => [made EXCEPT ![k] = d][q] = made[q]
  <2>1. Holds(made, k) /\ d # Absent
    BY <1>1, <1>2, <1>3, <1>4, CallIs, UpToIs
  <2>2. QED
    BY <1>3, <1>4, <2>1, SetsTree DEF LayerHolds
<1>6. (\A q \in UpTo[k] : MakesKey(p, q)) /\ ChangesValue(p, k)
  BY <1>2, <1>3, CallEntries, MayChange DEF Call
<1>7. Effects(p)
  BY <1>1, <1>4, <1>5, <1>6, CallIs DEF Effects, Holds, HoldsValue
<1>8. \A q \in Procs : /\ q # p => proc'[q] = proc[q] /\ Narrows(q, p) /\ HandleKeeps(q, p)
                       /\ HandleLives(q)'
  BY <1>1, OthersKeep, LivesOn
<1>9. Teller(p) => Achieved(p)
  BY <1>1, <1>2, CallIs DEF Achieved, Found
<1>10. Tree(state)' /\ Tree(host)'
  BY <1>1, <1>5 DEF PromiseInv, Tree, Holds
<1>11. QED
  BY <1>1, <1>7, <1>8, <1>9, <1>10, EndKeeps

LEMMA SetInStateKeeps == ASSUME PromiseInv, TypeInv', NEW p \in Procs, SetInState(p) PROVE PromiseInv'
<1> DEFINE k == handle[p].key
           d == proc[p].req.data
<1>1. /\ At(p, "setInState") /\ ~At(p, "idle") /\ On(p, "state") /\ state' = [state EXCEPT ![k] = d] /\ Succeeds(p)
      /\ UNCHANGED <<host, marks, sees, fixed, handle, calls>>
  BY DEF SetInState, At
<1>2. Call(p) = "set" /\ Writing(p) /\ d \in Data
  BY <1>1, CallIs, RegistryAssumption DEF CallOf, At, Writing, SetPlaces, Call, Request
<1>3. k \in Reach(p) /\ k \in Keys /\ (Teller(p) => k = Key(p)) /\ Holds(state, k)
  BY <1>1, <1>2, HandleReached, OnLayer, CallIs DEF HandleLives
<1> HIDE DEF k, d
<1>4. /\ Tree([state EXCEPT ![k] = d])
      /\ \A q \in Keys : Holds([state EXCEPT ![k] = d], q) <=> Holds(state, q)
      /\ \A q \in Keys : [state EXCEPT ![k] = d][q] = IF q = k THEN d ELSE state[q]
  BY <1>1, <1>2, <1>3, CallIs, SetsTree DEF LayerHolds
<1>5. ChangesValue(p, k)
  BY <1>2, <1>3, CallEntries, MayChange DEF Call
<1>6. Effects(p)
  BY <1>1, <1>4, <1>5 DEF Effects, Holds, HoldsValue
<1>7. \A q \in Procs : /\ q # p => proc'[q] = proc[q] /\ Narrows(q, p) /\ HandleKeeps(q, p)
                       /\ HandleLives(q)'
  BY <1>1, <1>4, OthersKeep, LivesOn
<1>8. Teller(p) => Achieved(p)
  BY <1>1, <1>2, <1>3, <1>4 DEF Achieved, d
<1>9. Tree(state)' /\ Tree(host)'
  BY <1>1, <1>4 DEF PromiseInv, Tree, Holds
<1>10. QED
  BY <1>1, <1>6, <1>7, <1>8, <1>9, EndKeeps

LEMMA UnsetInHostKeeps == ASSUME PromiseInv, TypeInv', NEW p \in Procs, UnsetInHost(p) PROVE PromiseInv'
<1> DEFINE h == HostKey(p)
<1>1. /\ At(p, "unsetInHost") /\ ~At(p, "idle") /\ HostKeyIsThere(p) /\ HoldsValue(host, h)
      /\ host' = [host EXCEPT ![h] = Bare] /\ Succeeds(p)
      /\ UNCHANGED <<state, marks, sees, fixed, handle, calls>>
  BY DEF UnsetInHost, At
<1>2. Call(p) = "unset" /\ Writing(p)
  BY <1>1, CallIs DEF CallOf, At, Writing
<1>3. PICK k \in Keys : k = h /\ (Teller(p) => k = Key(p)) /\ Holds(host, k)
  BY <1>1, <1>2, HostKeyReached, CallIs DEF Holds, HoldsValue
<1> HIDE DEF h
<1>4. /\ Tree([host EXCEPT ![k] = Bare])
      /\ \A q \in Keys : Holds([host EXCEPT ![k] = Bare], q) <=> Holds(host, q)
      /\ \A q \in Keys : [host EXCEPT ![k] = Bare][q] = IF q = k THEN Bare ELSE host[q]
  BY <1>1, <1>3, CallIs, SetsTree DEF LayerHolds
<1>5. Effects(p)
  BY <1>1, <1>3, <1>4, CallIs DEF Effects, Holds, HoldsValue
<1>6. \A q \in Procs : /\ q # p => proc'[q] = proc[q] /\ Narrows(q, p) /\ HandleKeeps(q, p)
                       /\ HandleLives(q)'
  BY <1>1, OthersKeep, LivesOn
<1>7. Teller(p) => Achieved(p)
  <2>1. Teller(p) => ~HoldsValue(state, k) /\ ~HoldsValue(image, k)
    BY <1>1, <1>3, CallIs DEF Found
  <2>2. Teller(p) => DeadValue(k)'
    BY <1>1, <1>3, <1>4, <2>1, CallIs DEF DeadValue, HoldsValue, image
  <2>3. QED
    BY <1>2, <1>3, <2>2 DEF Achieved
<1>8. Tree(state)' /\ Tree(host)'
  BY <1>1, <1>3, <1>4 DEF PromiseInv, Tree, Holds
<1>9. QED
  BY <1>1, <1>5, <1>6, <1>7, <1>8, EndKeeps

\* A call which goes on.
LEMMA GoKeeps ==
    ASSUME PromiseInv, NEW p \in Procs, ~At(p, "idle"), TypeInv', Tree(state)', Tree(host)', Effects(p),
           \A q \in Procs : HandleLives(q)',
           \A q \in Procs : q # p => Narrows(q, p) /\ HandleKeeps(q, p),
           told' = told, NEW pc \in Places, Goto(p, pc), Narrows(p, p), CallOf(p)',
           pc \in {"judgeKey", "judgeValue"} \/ Call(p) = "rename",
           Teller(p) => Found(p)'
    PROVE  PromiseInv'
<1>1. TypeInv /\ Key(p) \in Keys /\ proc[p].req \in Requests /\ proc[p] \in InCall
  BY CallIs, InCallIs DEF TypeInv
<1>2. /\ proc'[p].pc = pc /\ proc'[p].req = proc[p].req /\ proc'[p].key = proc[p].key
      /\ proc' = [proc EXCEPT ![p].pc = pc]
      /\ \A q \in Procs : q # p => proc'[q] = proc[q]
  BY <1>1, GoesOnTyped DEF TypeInv, Goto
<1>3. proc'[p].alone = proc[p].alone
  BY <1>1, <1>2 DEF InCall, TypeInv, TypeOK
<1>4. ASSUME Teller(p)' PROVE Alone(p)' /\ Found(p)'
  <2>1. Teller(p) /\ Call(p) # "rename"
    BY <1>2, <1>3, <1>4 DEF Teller, Call, Tellers
  <2>2. Alone(p) /\ Found(p)'
    BY <2>1 DEF PromiseInv
  <2>3. ~Writing(p)'
    BY <1>2, <2>1 DEF Writing
  <2>4. KeysOf(proc[p].req, Key(p)) \subseteq Keys /\ ValuesOf(proc[p].req, Key(p)) \subseteq Keys
    <3>1. UpTo[Key(p)] \subseteq Keys /\ From[Key(p)] \subseteq Keys
      BY <1>1, UpToIs
    <3>2. QED
      BY <1>1, <2>1, <3>1, CallEntries DEF Teller, Tellers, Call
  <2>5. ASSUME NEW q \in Procs, q # p
        PROVE  /\ \A k \in KeysOf(proc[p].req, Key(p)) : ~ChangesKey(q, k)'
               /\ \A k \in ValuesOf(proc[p].req, Key(p)) : ~ChangesValue(q, k)'
    BY <2>1, <2>2, <2>4, <2>5 DEF Alone, Narrows
  <2>6. QED
    BY <1>2, <2>2, <2>3, <2>5 DEF Alone, Key
<1>5. QED
  BY <1>2, <1>4, StepKeeps

LEMMA UnsetInStateKeeps == ASSUME PromiseInv, TypeInv', NEW p \in Procs, UnsetInState(p) PROVE PromiseInv'
<1>1. /\ At(p, "unsetInState") /\ ~At(p, "idle") /\ On(p, "state") /\ state' = [state EXCEPT ![handle[p].key] = Bare]
      /\ Goto(p, "judgeValue") /\ UNCHANGED <<host, marks, sees, fixed, handle, calls, told>>
  BY DEF UnsetInState, At
<1>2. Call(p) = "unset" /\ Writing(p)
  BY <1>1, CallIs DEF CallOf, At, Writing
<1>3. PICK k \in Keys : k = handle[p].key /\ k \in Reach(p) /\ (Teller(p) => k = Key(p)) /\ Holds(state, k)
  BY <1>1, <1>2, HandleReached, OnLayer, CallIs DEF HandleLives
<1>4. /\ Tree([state EXCEPT ![k] = Bare])
      /\ \A q \in Keys : Holds([state EXCEPT ![k] = Bare], q) <=> Holds(state, q)
      /\ \A q \in Keys : [state EXCEPT ![k] = Bare][q] = IF q = k THEN Bare ELSE state[q]
  BY <1>1, <1>3, CallIs, SetsTree DEF LayerHolds
<1>5. ChangesValue(p, k)
  BY <1>2, <1>3, CallEntries, MayChange DEF Call
<1>6. Effects(p)
  BY <1>1, <1>3, <1>4, <1>5 DEF Effects, Holds, HoldsValue
<1>7. \A q \in Procs : /\ q # p => proc'[q] = proc[q] /\ Narrows(q, p) /\ HandleKeeps(q, p)
                       /\ HandleLives(q)'
  BY <1>1, <1>3, <1>4, OthersKeep, LivesOn DEF Places
<1>8. /\ proc'[p].pc = "judgeValue" /\ proc'[p].req = proc[p].req /\ proc'[p].key = proc[p].key
      /\ proc'[p].more = proc[p].more
  BY <1>1, CallIs, GoesOnTyped DEF TypeInv, Places
<1>9. CallOf(p)'
  BY <1>2, <1>8 DEF CallOf, Call, SetPlaces
<1>10. Teller(p) => Found(p)'
  <2>1. Teller(p) => (~proc[p].more.host => ValueHidesHost(k) \/ ~HoldsValue(host, k)) /\ k = Key(p)
    BY <1>1, <1>3, CallIs DEF Found
  <2>2. ~HoldsValue(state', k)
    BY <1>1, <1>3, <1>4, CallIs DEF HoldsValue
  <2>3. ValueHidesHost(k)' <=> ValueHidesHost(k)
    BY <1>1 DEF ValueHidesHost, KeyHidesHost, Mode
  <2>4. Teller(p) => Key(p)' = k
    BY <1>3, <1>8 DEF Key
  <2>5. QED
    BY <1>1, <1>8, <2>1, <2>2, <2>3, <2>4 DEF Found, At, HoldsValue
<1>11. Tree(state)' /\ Tree(host)'
  BY <1>1, <1>3, <1>4 DEF PromiseInv, Tree, Holds
<1>12. Narrows(p, p)
  BY <1>8, DoneNarrows
<1>13. QED
  BY <1>1, <1>6, <1>7, <1>9, <1>10, <1>11, <1>12, GoKeeps DEF Places

\* What a step which only marks leaves.
LEMMA MarkKeeps ==
    ASSUME PromiseInv, TypeInv', NEW p \in Procs, ~At(p, "idle"), UNCHANGED <<state, host, fixed, handle, calls>>,
           marks.key \subseteq marks'.key, marks.value \subseteq marks'.value,
           sees' \in {sees, [sees EXCEPT ![p] = TRUE]},
           Fails(p) \/ (Succeeds(p) /\ (Teller(p) => Achieved(p)))
    PROVE  PromiseInv'
<1>1. Effects(p)
  BY DEF Effects, Holds, HoldsValue
<1>2. \A q \in Procs : /\ q # p => proc'[q] = proc[q] /\ Narrows(q, p) /\ HandleKeeps(q, p)
                       /\ HandleLives(q)'
  BY OthersKeep, LivesOn
<1>3. Tree(state)' /\ Tree(host)'
  BY DEF PromiseInv, Tree, Holds
<1>4. QED
  BY <1>1, <1>2, <1>3, EndKeeps

\* A marker which is recorded, or is not.
LEMMA Recorded ==
    ASSUME TypeInv, NEW p \in Procs, NEW k \in Keys,
           \/ Record(p, MarkKey(k)) \/ Record(p, MarkValue(k)) \/ NoMark(p)
           \/ Fails(p) /\ UNCHANGED <<marks, sees>>
    PROVE  /\ marks.key \subseteq marks'.key /\ marks.value \subseteq marks'.value
           /\ sees' \in {sees, [sees EXCEPT ![p] = TRUE]}
           /\ Record(p, MarkKey(k)) => Fails(p) \/ (Succeeds(p) /\ UpTo[k] \subseteq marks'.key)
           /\ Record(p, MarkValue(k)) => Fails(p) \/ (Succeeds(p) /\ k \in marks'.value)
<1>1. marks \in [key : SUBSET Keys, value : SUBSET Keys]
  BY LayersTyped
<1>2. /\ MarkKey(k) => marks'.key = marks.key \cup UpTo[k] /\ marks'.value = marks.value
      /\ MarkValue(k) => marks'.key = marks.key /\ marks'.value = marks.value \cup {k}
  BY <1>1 DEF MarkKey, MarkValue
<1>3. QED
  BY <1>2 DEF Record, NoMark

LEMMA JudgeValueKeeps == ASSUME PromiseInv, TypeInv', NEW p \in Procs, JudgeValue(p) PROVE PromiseInv'
<1>1. PICK k \in Keys : k = Key(p)
  BY CallIs DEF JudgeValue, At
<1> DEFINE lower == ~IsValueWhitedOut(p, k) /\ HoldsValue(image, k)
           more == proc[p].more
<1>2. /\ At(p, "judgeValue") /\ ~At(p, "idle") /\ UNCHANGED <<state, host, fixed, handle, calls>>
      /\ IF lower \/ more.host THEN Record(p, MarkValue(k))
         ELSE IF more.sandbox THEN NoMark(p) ELSE Fails(p) /\ UNCHANGED <<marks, sees>>
  BY <1>1 DEF JudgeValue, At
<1>3. Call(p) = "unset"
  BY <1>2, CallIs DEF CallOf, At
<1>4. IsValueWhitedOut(p, k) => ValueMarked(k)
  BY DEF ValueMarked, KeyMarked, IsValueWhitedOut, IsKeyWhitedOut
<1>5. Teller(p) => (~more.host => ValueHidesHost(k) \/ ~HoldsValue(host, k)) /\ ~HoldsValue(state, k)
  BY <1>1, <1>2, CallIs DEF Found
<1> HIDE DEF lower, more
<1>6. /\ marks.key \subseteq marks'.key /\ marks.value \subseteq marks'.value
      /\ sees' \in {sees, [sees EXCEPT ![p] = TRUE]}
      /\ Record(p, MarkValue(k)) => Fails(p) \/ (Succeeds(p) /\ k \in marks'.value)
  BY <1>2, Recorded, CallIs
<1>7. image' = image /\ (ValueHidesHost(k)' <=> ValueHidesHost(k)) /\ (ValueMarked(k) => ValueMarked(k)')
  BY <1>2, <1>6 DEF image, ValueHidesHost, KeyHidesHost, Mode, ValueMarked, KeyMarked
<1>8. Fails(p) \/ (Succeeds(p) /\ (Teller(p) => DeadValue(k)'))
  <2>1. CASE lower \/ more.host
    <3>1. k \in marks'.value => ValueMarked(k)'
      BY DEF ValueMarked
    <3>2. QED
      BY <1>2, <1>5, <1>6, <2>1, <3>1 DEF DeadValue, HoldsValue
  <2>2. CASE ~(lower \/ more.host)
    <3>1. ValueMarked(k) \/ ~HoldsValue(image, k)
      BY <1>4, <2>2 DEF lower
    <3>2. Succeeds(p) \/ Fails(p)
      BY <1>2, <2>2 DEF NoMark
    <3>3. QED
      BY <1>2, <1>5, <1>7, <2>2, <3>1, <3>2 DEF DeadValue, HoldsValue
  <2>3. QED
    BY <2>1, <2>2
<1>9. Fails(p) \/ (Succeeds(p) /\ (Teller(p) => Achieved(p)))
  BY <1>1, <1>3, <1>8 DEF Achieved
<1>10. QED
  BY <1>2, <1>6, <1>9, MarkKeeps

LEMMA JudgeKeyKeeps == ASSUME PromiseInv, TypeInv', NEW p \in Procs, JudgeKey(p) PROVE PromiseInv'
<1>1. PICK k \in Keys : k = Key(p)
  BY CallIs DEF JudgeKey, At
<1>2. /\ At(p, "judgeKey") /\ ~At(p, "idle") /\ UNCHANGED <<state, host, fixed, handle, calls>>
      /\ IF LowerHolds(p, k) THEN Record(p, MarkKey(k)) ELSE NoMark(p)
  BY <1>1 DEF JudgeKey, At
<1>3. Call(p) \in {"delete", "rename"}
  BY <1>2, CallIs DEF CallOf, At
<1>4. IsKeyWhitedOut(p, k) => KeyMarked(k)
  BY DEF KeyMarked, IsKeyWhitedOut
<1>5. Teller(p) => ~Holds(state, k)
  BY <1>1, <1>2, CallIs DEF Found
<1>6. /\ marks.key \subseteq marks'.key /\ marks.value \subseteq marks'.value
      /\ sees' \in {sees, [sees EXCEPT ![p] = TRUE]}
      /\ Record(p, MarkKey(k)) => Fails(p) \/ (Succeeds(p) /\ UpTo[k] \subseteq marks'.key)
  BY <1>2, Recorded, CallIs
<1>7. image' = image /\ (KeyHidesHost(k)' <=> KeyHidesHost(k)) /\ (KeyMarked(k) => KeyMarked(k)')
  BY <1>2, <1>6 DEF image, KeyHidesHost, Mode, KeyMarked
<1>8. Fails(p) \/ (Succeeds(p) /\ (Teller(p) => DeadKey(k)'))
  <2>1. CASE LowerHolds(p, k)
    <3>1. UpTo[k] \subseteq marks'.key => KeyMarked(k)'
      BY UpToIs DEF KeyMarked
    <3>2. QED
      BY <1>2, <1>5, <1>6, <2>1, <3>1 DEF DeadKey, Holds
  <2>2. CASE ~LowerHolds(p, k)
    <3>1. KeyMarked(k) \/ (~Holds(image, k) /\ (KeyHidesHost(k) \/ ~Holds(host, k)))
      BY <1>4, <2>2 DEF LowerHolds
    <3>2. Succeeds(p)
      BY <1>2, <2>2 DEF NoMark
    <3>3. QED
      BY <1>2, <1>5, <1>7, <3>1, <3>2 DEF DeadKey, Holds
  <2>3. QED
    BY <2>1, <2>2
<1>9. DeadKey(k)' => DeadValue(k)'
  BY DeadTogether
<1>10. Fails(p) \/ (Succeeds(p) /\ (Teller(p) => Achieved(p)))
  BY <1>1, <1>3, <1>8, <1>9 DEF Achieved
<1>11. QED
  BY <1>2, <1>6, <1>10, MarkKeeps

LEMMA DropInHostKeeps == ASSUME PromiseInv, TypeInv', NEW p \in Procs, DropInHost(p) PROVE PromiseInv'
<1>1. /\ At(p, "dropInHost") /\ ~At(p, "idle") /\ On(p, "host") /\ CanDrop(host, handle[p].key)
      /\ host' = [host EXCEPT ![handle[p].key] = Absent] /\ handle' = Shut("host", handle[p].key) /\ Succeeds(p)
      /\ UNCHANGED <<state, marks, sees, fixed, calls>>
  BY DEF DropInHost, At
<1>2. Call(p) = "delete" /\ Writing(p)
  BY <1>1, CallIs DEF CallOf, At, Writing
<1>3. PICK k \in Keys : k = handle[p].key /\ (Teller(p) => k = Key(p))
  BY <1>1, <1>2, HandleReached, OnLayer
<1>4. /\ Tree([host EXCEPT ![k] = Absent])
      /\ \A q \in Keys : [host EXCEPT ![k] = Absent][q] = IF q = k THEN Absent ELSE host[q]
  BY <1>1, <1>3, CallIs, DropsTree
<1>5. Effects(p)
  BY <1>1, <1>3, <1>4, CallIs DEF Effects, Holds, HoldsValue
<1>6. \A q \in Procs : handle'[q] \in {NoHandle, handle[q]}
  BY <1>1, HandlesShut DEF PromiseInv
<1>7. \A q \in Procs : /\ q # p => proc'[q] = proc[q] /\ Narrows(q, p) /\ HandleKeeps(q, p)
                       /\ HandleLives(q)'
  BY <1>1, <1>6, OthersKeep, LivesOn
<1>8. Teller(p) => Achieved(p)
  <2>1. Teller(p) => ~Holds(state, k) /\ ~Holds(image, k)
    BY <1>1, <1>3, CallIs DEF Found
  <2>2. Teller(p) => DeadKey(k)'
    BY <1>1, <1>3, <1>4, <2>1 DEF DeadKey, Holds, image
  <2>3. QED
    BY <1>2, <1>3, <2>2, DeadTogether DEF Achieved
<1>9. Tree(state)' /\ Tree(host)'
  BY <1>1, <1>3, <1>4 DEF PromiseInv, Tree, Holds
<1>10. QED
  BY <1>1, <1>5, <1>7, <1>8, <1>9, EndKeeps

LEMMA DropInStateKeeps == ASSUME PromiseInv, TypeInv', NEW p \in Procs, DropInState(p) PROVE PromiseInv'
<1>1. /\ At(p, "dropInState") /\ ~At(p, "idle") /\ On(p, "state") /\ CanDrop(state, handle[p].key)
      /\ state' = [state EXCEPT ![handle[p].key] = Absent] /\ handle' = Shut("state", handle[p].key)
      /\ Goto(p, "judgeKey") /\ UNCHANGED <<host, marks, sees, fixed, calls, told>>
  BY DEF DropInState, At
<1>2. Call(p) = "delete" /\ Writing(p)
  BY <1>1, CallIs DEF CallOf, At, Writing
<1>3. PICK k \in Keys : k = handle[p].key /\ k \in Reach(p) /\ (Teller(p) => k = Key(p))
  BY <1>1, <1>2, HandleReached, OnLayer
<1>4. /\ Tree([state EXCEPT ![k] = Absent])
      /\ \A q \in Keys : [state EXCEPT ![k] = Absent][q] = IF q = k THEN Absent ELSE state[q]
  BY <1>1, <1>3, CallIs, DropsTree
<1>5. RemovesKey(p, k) /\ ChangesValue(p, k)
  BY <1>2, <1>3, CallEntries, MayChange, UpToIs DEF Call
<1>6. Effects(p)
  BY <1>1, <1>3, <1>4, <1>5 DEF Effects, Holds, HoldsValue
<1>7. \A q \in Procs : handle'[q] \in {NoHandle, handle[q]}
  BY <1>1, HandlesShut DEF PromiseInv
<1>8. \A q \in Procs : q # p => proc'[q] = proc[q] /\ Narrows(q, p) /\ HandleKeeps(q, p)
  BY <1>1, <1>7, OthersKeep DEF Places
<1>9. ASSUME NEW q \in Procs PROVE HandleLives(q)'
  <2>1. On(q, "state")' => On(q, "state") /\ handle'[q] = handle[q] /\ handle[q].key # k
    BY <1>1, <1>3 DEF Shut, On, NoHandle
  <2>2. On(q, "state") => handle[q].key \in Keys /\ Holds(state, handle[q].key)
    BY HandleIs, OnLayer DEF PromiseInv, HandleLives, TypeInv
  <2>3. QED
    BY <1>1, <1>3, <1>4, <2>1, <2>2 DEF HandleLives, Holds
<1>10. /\ proc'[p].pc = "judgeKey" /\ proc'[p].req = proc[p].req /\ proc'[p].key = proc[p].key
  BY <1>1, CallIs, GoesOnTyped DEF TypeInv, Places
<1>11. CallOf(p)'
  BY <1>2, <1>10 DEF CallOf, Call, SetPlaces
<1>12. Teller(p) => Found(p)'
  <2>1. Teller(p) => Key(p)' = k
    BY <1>3, <1>10 DEF Key
  <2>2. QED
    BY <1>1, <1>3, <1>4, <1>10, <2>1 DEF Found, At, Holds
<1>13. Tree(state)' /\ Tree(host)'
  BY <1>1, <1>3, <1>4 DEF PromiseInv, Tree, Holds
<1>14. Narrows(p, p)
  BY <1>10, DoneNarrows
<1>15. QED
  BY <1>1, <1>6, <1>8, <1>9, <1>11, <1>12, <1>13, <1>14, GoKeeps DEF Places

\* What a copy leaves: the content of the image below the key, and the keys above it.
LEMMA CopiesTree ==
    ASSUME NEW l \in LayerHolds, NEW i \in LayerHolds, Tree(l), Tree(i), NEW k \in Keys, NEW m,
           m = [q \in Keys |-> IF q \in From[k] /\ HoldsValue(i, q) /\ ~HoldsValue(l, q) THEN i[q]
                               ELSE IF q \in From[k] /\ Holds(i, q) /\ ~Holds(l, q) THEN Bare
                               ELSE MakeKey(l, k)[q]]
    PROVE  /\ Tree(m)
           /\ \A q \in Keys : Holds(m, q) <=> Holds(l, q) \/ q \in UpTo[k] \/ (q \in From[k] /\ Holds(i, q))
           /\ \A q \in Keys : m[q] # l[q] /\ (HoldsValue(m, q) \/ HoldsValue(l, q)) => q \in From[k]
<1>1. /\ \A q \in Keys : Holds(MakeKey(l, k), q) <=> Holds(l, q) \/ q \in UpTo[k]
      /\ \A q \in Keys : Holds(l, q) => MakeKey(l, k)[q] = l[q]
      /\ \A q \in Keys : ~Holds(l, q) => MakeKey(l, k)[q] \in {Absent, Bare}
  BY MakesTree
<1>2. Bare \notin Data /\ Absent \notin Data /\ Bare # Absent
  BY RegistryAssumption
<1>3. \A q \in Keys : Holds(m, q) <=> Holds(l, q) \/ q \in UpTo[k] \/ (q \in From[k] /\ Holds(i, q))
  BY <1>1, <1>2 DEF Holds, HoldsValue
<1>4. \A q \in Keys : m[q] # l[q] /\ (HoldsValue(m, q) \/ HoldsValue(l, q)) => q \in From[k]
  BY <1>1, <1>2 DEF Holds, HoldsValue
<1>5. ASSUME NEW x \in Keys, Holds(m, x), NEW q \in UpTo[x] PROVE Holds(m, q)
  <2>1. q \in Keys
    BY UpToIs
  <2>2. CASE Holds(l, x)
    BY <1>3, <2>1, <2>2 DEF Tree
  <2>3. CASE x \in UpTo[k]
    BY <1>3, <2>1, <2>3, UpToIs
  <2>4. CASE x \in From[k] /\ Holds(i, x)
    <3>1. Holds(i, q) /\ k \in UpTo[x]
      BY <2>4, UpToIs DEF Tree
    <3>2. q \in UpTo[k] \/ q \in From[k]
      BY <3>1, AboveBoth
    <3>3. QED
      BY <1>3, <2>1, <3>1, <3>2
  <2>5. QED
    BY <1>3, <1>5, <2>2, <2>3, <2>4
<1>6. QED
  BY <1>3, <1>4, <1>5 DEF Tree

LEMMA CopyUpKeeps == ASSUME PromiseInv, TypeInv', NEW p \in Procs, CopyUp(p) PROVE PromiseInv'
<1>1. PICK k \in Keys : k = Key(p)
  BY CallIs DEF CopyUp, At
<1> DEFINE m == [q \in Keys |-> IF q \in From[k] /\ HoldsValue(image, q) /\ ~HoldsValue(state, q) THEN image[q]
                                ELSE IF q \in From[k] /\ Holds(image, q) /\ ~Holds(state, q) THEN Bare
                                ELSE MakeKey(state, k)[q]]
<1>2. /\ At(p, "copyUp") /\ ~At(p, "idle") /\ state' = (IF Holds(image, k) THEN m ELSE state)
      /\ Goto(p, "moveInState") /\ UNCHANGED <<host, marks, sees, fixed, handle, calls, told>>
  BY <1>1 DEF CopyUp, At
<1>3. Call(p) = "rename" /\ Writing(p) /\ k \in Reach(p)
  BY <1>1, <1>2, CallIs DEF TypeInv, PlaceFits, MovePlaces, At, Writing, Reach, WorksOn
<1>4. /\ Tree(m)
      /\ \A q \in Keys : Holds(m, q) <=> Holds(state, q) \/ q \in UpTo[k] \/ (q \in From[k] /\ Holds(image, q))
      /\ \A q \in Keys : m[q] # state[q] /\ (HoldsValue(m, q) \/ HoldsValue(state, q)) => q \in From[k]
  BY <1>2, CallIs, CopiesTree
<1> HIDE DEF m
<1>5. /\ \A q \in From[k] : MakesKey(p, q) /\ ChangesValue(p, q)
      /\ \A q \in UpTo[k] : MakesKey(p, q)
  BY <1>1, <1>2, <1>3, CallEntries, MayChange DEF Call, MakesKey
<1>6. Effects(p)
  BY <1>2, <1>4, <1>5 DEF Effects, Holds, HoldsValue
<1>7. \A q \in Procs : /\ q # p => proc'[q] = proc[q] /\ Narrows(q, p) /\ HandleKeeps(q, p)
                       /\ HandleLives(q)'
  BY <1>2, <1>4, OthersKeep, LivesOn DEF Places, Holds
<1>8. /\ proc'[p].pc = "moveInState" /\ proc'[p].req = proc[p].req /\ proc'[p].key = proc[p].key
  BY <1>2, CallIs, GoesOnTyped DEF TypeInv, Places
<1>9. CallOf(p)' /\ Narrows(p, p)
  <2>1. CallOf(p)'
    BY <1>8 DEF CallOf, SetPlaces
  <2>2. Reach(p)' = Reach(p) /\ Writing(p)' /\ Call(p)' = "rename" /\ ~At(p, "copyUp")'
    BY <1>2, <1>3, <1>8 DEF Reach, WorksOn, Call, Key, On, Writing, At
  <2>3. \A q : /\ ChangesKey(p, q)' => ChangesKey(p, q)
               /\ ChangesValue(p, q)' => ChangesValue(p, q)
    BY <1>3, <1>8, <2>2 DEF ChangesKey, ChangesValue
  <2>4. QED
    BY <1>3, <2>1, <2>2, <2>3 DEF Narrows, MakesKey, RemovesKey
<1>10. ~Teller(p)
  BY <1>3 DEF Teller, Tellers
<1>11. Tree(state)' /\ Tree(host)'
  BY <1>2, <1>4 DEF PromiseInv, Tree, Holds
<1>12. QED
  BY <1>2, <1>3, <1>6, <1>7, <1>9, <1>10, <1>11, GoKeeps DEF Places

LEMMA RefuseKeeps == ASSUME PromiseInv, TypeInv', NEW p \in Procs, Refuse(p) PROVE PromiseInv'
<1>1. ~At(p, "idle") /\ Fails(p) /\ UNCHANGED <<layers, fixed, handle, calls>>
  BY DEF Refuse, Refused, At
<1>2. QED
  BY <1>1, MarkKeeps DEF layers

LEMMA KillKeeps == ASSUME PromiseInv, TypeInv', NEW p \in Procs, Kill(p) PROVE PromiseInv'
<1>1. /\ ~At(p, "idle") /\ "kill" \in Faults
      /\ proc' = [proc EXCEPT ![p] = Idle] /\ handle' = [handle EXCEPT ![p] = NoHandle]
      /\ sees' = [sees EXCEPT ![p] = marks.key \cup marks.value # {}]
      /\ UNCHANGED <<state, host, marks, fixed, calls, told>>
  BY DEF Kill
<1>2. Effects(p)
  BY <1>1 DEF Effects, Holds, HoldsValue
<1>3. \A q \in Procs : handle'[q] \in {NoHandle, handle[q]}
  BY <1>1, CallIs DEF TypeInv, TypeOK
<1>4. \A q \in Procs : /\ q # p => proc'[q] = proc[q] /\ Narrows(q, p) /\ HandleKeeps(q, p)
                       /\ HandleLives(q)'
  BY <1>1, <1>3, OthersKeep, LivesOn DEF Fails
<1>5. Tree(state)' /\ Tree(host)'
  BY <1>1 DEF PromiseInv, Tree, Holds
<1>6. Fails(p)
  BY <1>1 DEF Fails
<1>7. QED
  BY <1>1, <1>2, <1>4, <1>5, <1>6, EndKeeps

\* The entries of a call whose handle was moved: the ones it had, and ones the move changed.
LEMMA MovedEntries ==
    ASSUME NEW r \in Requests, r.call = "rename", NEW k \in Keys, Len(k) = Len(r.to), k \notin Roots,
           NEW h \in From[k], NEW s \in Requests, s.call \in {"set", "unset", "delete", "rename"},
           s.call = "rename" => Len(h) = Len(s.to) /\ h \notin Roots
    PROVE  LET n == NewName(k, r)
               m == Moved(k, n, h)
           IN  /\ m \in Keys
               /\ KeysOf(s, m) \subseteq KeysOf(s, h) \cup KeysOf(r, k)
               /\ ValuesOf(s, m) \subseteq ValuesOf(s, h) \cup ValuesOf(r, k)
<1> DEFINE n == NewName(k, r)
           m == Moved(k, n, h)
<1>1. n \in Keys /\ m \in Keys /\ m \in From[n] /\ h \in Keys
  BY NewNameIs, RegistryAssumption, UpToIs
<1>2. KeysOf(r, k) = From[k] \cup From[n] /\ ValuesOf(r, k) = From[k] \cup From[n]
  BY CallEntries
<1>3. From[m] \subseteq From[n]
  BY <1>1, UpToIs
<1>4. CASE s.call = "set"
  <2>1. UpTo[m] \subseteq From[n] \cup UpTo[h]
    BY AboveMoved
  <2>2. QED
    BY <1>1, <1>2, <1>4, <2>1, CallEntries
<1>5. CASE s.call = "unset"
  BY <1>1, <1>2, <1>5, CallEntries
<1>6. CASE s.call = "delete"
  BY <1>1, <1>2, <1>3, <1>6, CallEntries
<1>7. CASE s.call = "rename"
  <2>1. NewName(m, s) \in Keys /\ (NewName(m, s) \in From[n] \/ NewName(m, s) = NewName(h, s))
    BY <1>7, MovedRenames
  <2>2. From[NewName(m, s)] \subseteq From[n] \cup From[NewName(h, s)]
    BY <1>1, <2>1, UpToIs
  <2>3. /\ KeysOf(s, m) = From[m] \cup From[NewName(m, s)] /\ ValuesOf(s, m) = From[m] \cup From[NewName(m, s)]
        /\ KeysOf(s, h) = From[h] \cup From[NewName(h, s)] /\ ValuesOf(s, h) = From[h] \cup From[NewName(h, s)]
    BY <1>7, CallEntries
  <2>4. QED
    BY <1>1, <1>2, <1>3, <2>2, <2>3
<1>8. QED
  BY <1>1, <1>4, <1>5, <1>6, <1>7

\* The call of another process while a key is renamed.
LEMMA OthersMove ==
    ASSUME PromiseInv, NEW p \in Procs, proc[p].pc \in MovePlaces, NEW l \in {"state", "host"}, On(p, l),
           Moves(l, handle[p].key, NewName(handle[p].key, proc[p].req)),
           NEW q \in Procs, q # p, proc'[q] = proc[q]
    PROVE  Narrows(q, p) /\ HandleKeeps(q, p)
<1>1. PICK k \in Keys, r \in Requests :
          /\ k = handle[p].key /\ r = proc[p].req /\ r.call = "rename" /\ k \notin Roots /\ Len(k) = Len(r.to)
          /\ ~At(p, "idle")
  BY MoveIs DEF PromiseInv
<1>2. Call(p) = "rename" /\ Writing(p) /\ k \in Reach(p)
  BY <1>1, HandleReached, OnLayer DEF Call, Writing, MovePlaces
<1>3. /\ \A x \in KeysOf(r, k) : ChangesKey(p, x)
      /\ \A x \in ValuesOf(r, k) : ChangesValue(p, x)
  BY <1>1, <1>2, MayChange
<1>4. CASE ~(On(q, l) /\ handle[q].key \in From[k])
  <2>1. handle'[q] = handle[q]
    BY <1>1, <1>4 DEF Moves
  <2>2. QED
    BY <2>1, OthersNarrow
<1>5. CASE On(q, l) /\ handle[q].key \in From[k]
  <2>1. PICK h \in From[k] : h = handle[q].key
    BY <1>5
  <2>2. PICK m : m = Moved(k, NewName(k, r), h)
    OBVIOUS
  <2>3. ~On(q, "none") /\ handle[q] \in Handles
    BY <1>5, HandleIs, OnLayer DEF PromiseInv, TypeInv
  <2>4. handle'[q].key = m /\ handle'[q].layer = handle[q].layer
    <3>1. handle'[q] = [handle[q] EXCEPT !.key = Moved(k, NewName(k, r), @)]
      BY <1>1, <1>5 DEF Moves
    <3>2. QED
      BY <2>1, <2>2, <2>3, <3>1 DEF Handles
  <2>5. HandleKeeps(q, p)
    BY <1>1, <1>3, <2>1, <2>3, CallEntries DEF HandleKeeps
  <2>6. /\ Writing(q)' = Writing(q) /\ Call(q)' = Call(q) /\ Key(q)' = Key(q) /\ At(q, "copyUp")' = At(q, "copyUp")
        /\ proc'[q].req = proc[q].req
    BY DEF Writing, Call, Key, At
  <2>7. Call(q) \notin {"open", "create"} => h \in Reach(q)
    BY <2>1, <2>3 DEF Reach, WorksOn
  <2>8. \A x \in Reach(q)' : x \in Reach(q) \/ (x = m /\ Call(q) \notin {"open", "create"})
    BY <2>4, <2>6 DEF Reach, WorksOn
  <2>9. ASSUME Writing(q), Call(q) \notin {"open", "create"}
        PROVE  /\ KeysOf(proc[q].req, m) \subseteq KeysOf(proc[q].req, h) \cup KeysOf(r, k)
               /\ ValuesOf(proc[q].req, m) \subseteq ValuesOf(proc[q].req, h) \cup ValuesOf(r, k)
    <3>1. ~At(q, "idle")
      BY <2>9 DEF Writing, At
    <3>2. proc[q].req \in Requests /\ proc[q].req \in Request /\ proc[q].req.call = Call(q) /\ proc[q] \in InCall
      <4>1. proc[q].req \in Requests /\ proc[q] \in InCall
        BY <3>1, InCallIs DEF PromiseInv, TypeInv
      <4>2. QED
        BY <4>1, RegistryAssumption DEF Call
    <3>3. Call(q) \in {"set", "unset", "delete", "rename"}
      BY <2>9, <3>2 DEF Request
    <3>4. Call(q) = "rename" => Len(h) = Len(proc[q].req.to) /\ h \notin Roots
      <4>1. Call(q) = "rename" => proc[q].pc \in MovePlaces
        BY <2>9, <3>1, <3>2, CallIs DEF CallOf, InCall, Places, Writing, SetPlaces, MovePlaces
      <4>2. QED
        BY <2>1, <2>3, <4>1 DEF PromiseInv, TypeInv, PlaceFits
    <3>5. QED
      BY <1>1, <2>2, <3>2, <3>3, <3>4, MovedEntries
  <2>10. \A x : /\ ChangesKey(q, x)' => ChangesKey(q, x) \/ x \in KeysOf(r, k)
                /\ ChangesValue(q, x)' => ChangesValue(q, x) \/ x \in ValuesOf(r, k)
    BY <2>6, <2>7, <2>8, <2>9 DEF ChangesKey, ChangesValue
  <2>11. Narrows(q, p)
    BY <1>2, <1>3, <2>6, <2>10 DEF Narrows, MakesKey, RemovesKey
  <2>12. QED
    BY <2>5, <2>11
<1>6. QED
  BY <1>4, <1>5

LEMMA MoveInStateKeeps == ASSUME PromiseInv, TypeInv', NEW p \in Procs, MoveInState(p) PROVE PromiseInv'
<1>1. /\ At(p, "moveInState") /\ On(p, "state") /\ ~Holds(state, NewName(handle[p].key, proc[p].req))
      /\ state' = MoveKey(state, handle[p].key, NewName(handle[p].key, proc[p].req))
      /\ Moves("state", handle[p].key, NewName(handle[p].key, proc[p].req))
      /\ Goto(p, "judgeKey") /\ UNCHANGED <<host, marks, sees, fixed, calls, told>>
      /\ proc[p].pc \in MovePlaces
  BY DEF MoveInState, At, MovePlaces
<1>2. PICK k \in Keys, r \in Requests :
          /\ k = handle[p].key /\ r = proc[p].req /\ r.call = "rename" /\ k \notin Roots /\ Len(k) = Len(r.to)
          /\ ~At(p, "idle")
  BY <1>1, MoveIs DEF PromiseInv
<1>3. Call(p) = "rename" /\ Writing(p) /\ k \in Reach(p)
  BY <1>1, <1>2, HandleReached, OnLayer DEF Call, Writing, At
<1>4. PICK n \in Keys : n = NewName(k, r)
  BY <1>2, NewNameIs
<1>5. /\ Tree(MoveKey(state, k, n))
      /\ \A q \in Keys : q \notin From[k] \cup From[n] => MoveKey(state, k, n)[q] = state[q]
      /\ \A q \in From[n] : ~Holds(state, q)
      /\ \A q \in From[k] : Holds(state, q) => Holds(MoveKey(state, k, n), Moved(k, n, q))
  BY <1>1, <1>2, <1>4, CallIs, MovesTree
<1>6. \A q \in From[k] \cup From[n] : MakesKey(p, q) /\ RemovesKey(p, q) /\ ChangesValue(p, q)
  BY <1>2, <1>3, <1>4, CallEntries, MayChange
<1>7. Effects(p)
  BY <1>1, <1>2, <1>4, <1>5, <1>6 DEF Effects, Holds, HoldsValue
<1>8. \A q \in Procs : q # p => proc'[q] = proc[q] /\ Narrows(q, p) /\ HandleKeeps(q, p)
  BY <1>1, <1>2, OthersMove, GoesOnTyped, CallIs DEF Places, TypeInv
<1>9. ASSUME NEW q \in Procs PROVE HandleLives(q)'
  <2>1. On(q, "state") => handle[q].key \in Keys /\ Holds(state, handle[q].key) /\ handle[q] \in Handles
    BY HandleIs, OnLayer DEF PromiseInv, HandleLives, TypeInv
  <2>2. CASE On(q, "state") /\ handle[q].key \in From[k]
    <3>1. handle'[q] = [handle[q] EXCEPT !.key = Moved(k, n, @)]
      BY <1>1, <1>2, <1>4, <2>2 DEF Moves
    <3>2. handle'[q].key = Moved(k, n, handle[q].key)
      BY <2>1, <2>2, <3>1 DEF Handles
    <3>3. QED
      BY <1>1, <1>2, <1>4, <1>5, <2>1, <2>2, <3>2 DEF HandleLives, Holds
  <2>3. CASE ~(On(q, "state") /\ handle[q].key \in From[k])
    <3>1. handle'[q] = handle[q]
      BY <1>1, <1>2, <1>4, <2>3 DEF Moves
    <3>2. QED
      BY <1>1, <1>2, <1>4, <1>5, <2>1, <2>3, <3>1 DEF HandleLives, Holds, On
  <2>4. QED
    BY <2>2, <2>3
<1>10. proc'[p].pc = "judgeKey" /\ proc'[p].req = proc[p].req
  BY <1>1, <1>2, CallIs, GoesOnTyped DEF TypeInv, Places
<1>11. CallOf(p)' /\ Narrows(p, p)
  BY <1>3, <1>10, DoneNarrows DEF CallOf, Call, SetPlaces
<1>12. ~Teller(p)
  BY <1>3 DEF Teller, Tellers
<1>13. Tree(state)' /\ Tree(host)'
  BY <1>1, <1>2, <1>4, <1>5 DEF PromiseInv, Tree, Holds
<1>14. QED
  BY <1>1, <1>2, <1>7, <1>8, <1>9, <1>11, <1>12, <1>13, GoKeeps DEF Places

LEMMA MoveInHostKeeps == ASSUME PromiseInv, TypeInv', NEW p \in Procs, MoveInHost(p) PROVE PromiseInv'
<1>1. /\ At(p, "moveInHost") /\ On(p, "host") /\ ~Holds(host, NewName(handle[p].key, proc[p].req))
      /\ host' = MoveKey(host, handle[p].key, NewName(handle[p].key, proc[p].req))
      /\ Moves("host", handle[p].key, NewName(handle[p].key, proc[p].req))
      /\ Succeeds(p) /\ UNCHANGED <<state, marks, sees, fixed, calls>>
      /\ proc[p].pc \in MovePlaces
  BY DEF MoveInHost, At, MovePlaces
<1>2. PICK k \in Keys, r \in Requests :
          /\ k = handle[p].key /\ r = proc[p].req /\ r.call = "rename" /\ k \notin Roots /\ Len(k) = Len(r.to)
          /\ ~At(p, "idle")
  BY <1>1, MoveIs DEF PromiseInv
<1>3. Call(p) = "rename" /\ Writing(p) /\ k \in Reach(p)
  BY <1>1, <1>2, HandleReached, OnLayer DEF Call, Writing, At
<1>4. PICK n \in Keys : n = NewName(k, r)
  BY <1>2, NewNameIs
<1>5. /\ Tree(MoveKey(host, k, n))
      /\ \A q \in Keys : q \notin From[k] \cup From[n] => MoveKey(host, k, n)[q] = host[q]
  BY <1>1, <1>2, <1>4, CallIs, MovesTree
<1>6. \A q \in From[k] \cup From[n] : MakesKey(p, q) /\ ChangesValue(p, q)
  BY <1>2, <1>3, <1>4, CallEntries, MayChange
<1>7. Effects(p)
  BY <1>1, <1>2, <1>4, <1>5, <1>6 DEF Effects, Holds, HoldsValue
<1>8. \A q \in Procs : q # p => proc'[q] = proc[q] /\ Narrows(q, p) /\ HandleKeeps(q, p)
  BY <1>1, <1>2, OthersMove, EndsTyped, CallIs DEF TypeInv
<1>9. ASSUME NEW q \in Procs PROVE HandleLives(q)'
  <2>1. On(q, "host") => handle[q] \in Handles
    BY HandleIs, OnLayer DEF PromiseInv, TypeInv
  <2>2. handle'[q] = handle[q] \/ (On(q, "host") /\ handle'[q] = [handle[q] EXCEPT !.key = Moved(k, n, @)])
    BY <1>1, <1>2, <1>4 DEF Moves
  <2>3. On(q, "state")' => handle'[q] = handle[q]
    BY <2>1, <2>2 DEF On, Handles
  <2>4. QED
    BY <1>1, <2>3 DEF PromiseInv, HandleLives, On, Holds
<1>10. ~Teller(p)
  BY <1>3 DEF Teller, Tellers
<1>11. Tree(state)' /\ Tree(host)'
  BY <1>1, <1>2, <1>4, <1>5 DEF PromiseInv, Tree, Holds
<1>12. QED
  BY <1>1, <1>2, <1>7, <1>8, <1>9, <1>10, <1>11, EndKeeps

-----------------------------------------------------------------------------
(***************************************************************************)
(* The calls as they begin, and the theorem.                                 *)
(***************************************************************************)
\* The calls and what was told after a call began.
LEMMA BeginIs ==
    ASSUME PromiseInv, NEW p \in Procs, NEW r \in Requests, NEW k \in Keys, NEW pc \in Places \ {"judgeKey", "judgeValue"},
           NEW more \in [sandbox : BOOLEAN, host : BOOLEAN], Begin(p, r, k, pc, more),
           r.call \notin {"open", "create"} => ~On(p, "none") /\ handle[p].key = k
    PROVE  /\ proc'[p].pc = pc /\ proc'[p].req = r /\ proc'[p].key = k /\ proc'[p].more = more
           /\ \A q \in Procs : q # p => SameCall(q)
           /\ \A q \in Procs : /\ q # p /\ ~At(q, "idle") /\ (proc'[p].alone \/ proc'[q].alone) => ~Overlaps(p, q, r, k)
                               /\ q # p /\ ~At(q, "idle") /\ proc'[q].alone => proc[q].alone
           /\ \A q \in Procs : \A x : q # p => /\ ChangesKey(q, x)' <=> ChangesKey(q, x)
                                               /\ MakesKey(q, x)' <=> MakesKey(q, x)
                                               /\ RemovesKey(q, x)' <=> RemovesKey(q, x)
                                               /\ ChangesValue(q, x)' <=> ChangesValue(q, x)
           /\ \A x : /\ ChangesKey(p, x)' <=> x \in KeysOf(r, k)
                     /\ ChangesValue(p, x)' <=> x \in ValuesOf(r, k)
           /\ \A x \in Keys : /\ told'.key[x] = IF ~(r.call = "open" /\ sees[p]) /\ x \in KeysOf(r, k) THEN Untold ELSE told.key[x]
                              /\ told'.value[x] = IF x \in ValuesOf(r, k) THEN Untold ELSE told.value[x]
           /\ UNCHANGED <<layers, fixed, handle>>
<1>1. /\ proc'[p].pc = pc /\ proc'[p].req = r /\ proc'[p].key = k /\ proc'[p].more = more
      /\ \A q \in Procs : q # p => SameCall(q)
      /\ UNCHANGED <<layers, fixed, handle>>
  BY BeginTyped DEF PromiseInv, TypeInv
<1>2. \A q \in Procs : /\ q # p /\ ~At(q, "idle") /\ (proc'[p].alone \/ proc'[q].alone) => ~Overlaps(p, q, r, k)
                       /\ q # p /\ ~At(q, "idle") /\ proc'[q].alone => proc[q].alone
  <2> DEFINE near == {q \in Procs : Overlaps(p, q, r, k)}
             mine == [pc |-> pc, req |-> r, key |-> k, alone |-> near = {}, more |-> more]
  <2>1. proc' = [q \in Procs |-> IF q = p THEN mine
                                 ELSE IF q \in near THEN [proc[q] EXCEPT !.alone = FALSE] ELSE proc[q]]
    BY DEF Begin
  <2>2. mine.alone <=> near = {}
    OBVIOUS
  <2>3. ASSUME NEW q \in Procs, q # p, ~At(q, "idle") PROVE [proc[q] EXCEPT !.alone = FALSE].alone = FALSE
    BY <2>3, InCallIs DEF PromiseInv, TypeInv, InCall
  <2>4. \A q \in Procs : Overlaps(p, q, r, k) <=> q \in near
    OBVIOUS
  <2> HIDE DEF near, mine
  <2>5. QED
    BY <2>1, <2>2, <2>3, <2>4
<1>3. ASSUME NEW q \in Procs, q # p, NEW x
      PROVE  /\ ChangesKey(q, x)' <=> ChangesKey(q, x)
             /\ MakesKey(q, x)' <=> MakesKey(q, x)
             /\ RemovesKey(q, x)' <=> RemovesKey(q, x)
             /\ ChangesValue(q, x)' <=> ChangesValue(q, x)
  <2>1. CASE At(q, "idle")
    BY <1>1, <1>3, <2>1 DEF SameCall, ChangesKey, MakesKey, RemovesKey, ChangesValue, Writing, At
  <2>2. CASE ~At(q, "idle")
    <3>1. proc'[q].pc = proc[q].pc /\ proc'[q].req = proc[q].req /\ proc'[q].key = proc[q].key /\ handle' = handle
      BY <1>1, <1>3, <2>2 DEF SameCall
    <3>2. QED
      BY <3>1 DEF ChangesKey, MakesKey, RemovesKey, ChangesValue, Writing, At, Reach, WorksOn, Call,
                  Key, On
  <2>3. QED
    BY <2>1, <2>2
<1>4. Writing(p)' /\ Reach(p)' = {k}
  <2>1. Writing(p)' /\ Call(p)' = r.call /\ Key(p)' = k
    BY <1>1 DEF Writing, Call, Key, Places
  <2>2. r.call \notin {"open", "create"} => WorksOn(p)' = {k}
    BY <1>1, <2>1 DEF WorksOn, On
  <2>3. QED
    BY <2>1, <2>2 DEF Reach
<1>5. \A x : /\ ChangesKey(p, x)' <=> x \in KeysOf(r, k)
             /\ ChangesValue(p, x)' <=> x \in ValuesOf(r, k)
  BY <1>1, <1>4 DEF ChangesKey, ChangesValue
<1>6. \A x \in Keys : /\ told'.key[x] = IF ~(r.call = "open" /\ sees[p]) /\ x \in KeysOf(r, k) THEN Untold ELSE told.key[x]
                      /\ told'.value[x] = IF x \in ValuesOf(r, k) THEN Untold ELSE told.value[x]
  BY DEF Begin
<1>7. QED
  BY <1>1, <1>2, <1>3, <1>5, <1>6

\* What a call found as it began.
FoundAt(k, pc, more) ==
    /\ pc \in {"createInHost", "setInHost"} => Mode(k) = "Merge"
    /\ pc = "unsetInHost" => ~HoldsValue(state, k) /\ ~HoldsValue(image, k)
    /\ pc = "unsetInState" => (~more.host => ValueHidesHost(k) \/ ~HoldsValue(host, k))
    /\ pc = "dropInHost" => ~Holds(state, k) /\ ~Holds(image, k)

\* A call which begins and has still to write.
LEMMA BeginKeeps ==
    ASSUME PromiseInv, TypeInv', NEW p \in Procs, NEW r \in Requests, NEW k \in Keys,
           NEW pc \in Places \ {"judgeKey", "judgeValue"},
           NEW more \in [sandbox : BOOLEAN, host : BOOLEAN], Begin(p, r, k, pc, more),
           r.call \notin {"open", "create"} => ~On(p, "none") /\ handle[p].key = k,
           CallOf(p)', FoundAt(k, pc, more),
           (r.call = "open" /\ sees[p]) \/ pc = "copyUp" => \A x \in UpTo[k] : ~DeadKey(x)
    PROVE  PromiseInv'
<1>1. /\ proc'[p].pc = pc /\ proc'[p].req = r /\ proc'[p].key = k /\ proc'[p].more = more
      /\ \A q \in Procs : q # p => SameCall(q)
      /\ \A q \in Procs : /\ q # p /\ ~At(q, "idle") /\ (proc'[p].alone \/ proc'[q].alone) => ~Overlaps(p, q, r, k)
                          /\ q # p /\ ~At(q, "idle") /\ proc'[q].alone => proc[q].alone
  BY BeginIs
<1>2. \A q \in Procs : \A x : q # p => /\ ChangesKey(q, x)' <=> ChangesKey(q, x)
                                       /\ MakesKey(q, x)' <=> MakesKey(q, x)
                                       /\ RemovesKey(q, x)' <=> RemovesKey(q, x)
                                       /\ ChangesValue(q, x)' <=> ChangesValue(q, x)
  BY BeginIs
<1>3. \A x : /\ ChangesKey(p, x)' <=> x \in KeysOf(r, k)
             /\ ChangesValue(p, x)' <=> x \in ValuesOf(r, k)
  BY BeginIs
<1>4. \A x \in Keys : /\ told'.key[x] = IF ~(r.call = "open" /\ sees[p]) /\ x \in KeysOf(r, k) THEN Untold ELSE told.key[x]
                      /\ told'.value[x] = IF x \in ValuesOf(r, k) THEN Untold ELSE told.value[x]
  BY BeginIs
<1>5. state' = state /\ host' = host /\ marks' = marks /\ sees' = sees /\ fixed' = fixed /\ handle' = handle
  BY BeginIs DEF layers
<1>6. /\ \A x : /\ DeadKey(x)' <=> DeadKey(x)
                /\ DeadValue(x)' <=> DeadValue(x)
      /\ \A x : Mode(x)' = Mode(x)
  BY <1>5 DEF DeadKey, DeadValue, KeyMarked, ValueMarked, KeyHidesHost, ValueHidesHost, Mode, Holds,
              HoldsValue, image
<1>7. Gone # Untold /\ Bare # Untold /\ Untold \notin Data
  BY RegistryAssumption
<1>8. ASSUME NEW x \in Keys PROVE KeyPromise(x)' /\ ValuePromise(x)'
  <2>1. KeyPromise(x) /\ ValuePromise(x)
    BY DEF PromiseInv
  <2>2. told'.key[x] = Gone => DeadKey(x)' /\ \A q \in Procs : ~MakesKey(q, x)'
    <3>1. SUFFICES ASSUME told'.key[x] = Gone PROVE DeadKey(x)' /\ \A q \in Procs : ~MakesKey(q, x)'
      OBVIOUS
    <3>2. told.key[x] = Gone /\ ~(~(r.call = "open" /\ sees[p]) /\ x \in KeysOf(r, k))
      BY <1>4, <1>7, <3>1
    <3>3. DeadKey(x) /\ \A q \in Procs : ~MakesKey(q, x)
      BY <2>1, <3>2 DEF KeyPromise
    <3>4. x \notin KeysOf(r, k) /\ ~(pc = "copyUp" /\ x \in UpTo[k])
      BY <3>2, <3>3, CallEntries
    <3>5. ~MakesKey(p, x)'
      BY <1>1, <1>3, <3>4 DEF MakesKey, At, Key
    <3>6. QED
      BY <1>2, <1>6, <3>3, <3>5
  <2>3. told'.key[x] = Bare => (Mode(x) # "Merge" => Holds(state, x)) /\ \A q \in Procs : ~RemovesKey(q, x)'
    <3>1. SUFFICES ASSUME told'.key[x] = Bare
                   PROVE  (Mode(x) # "Merge" => Holds(state, x)) /\ \A q \in Procs : ~RemovesKey(q, x)'
      OBVIOUS
    <3>2. told.key[x] = Bare /\ ~(~(r.call = "open" /\ sees[p]) /\ x \in KeysOf(r, k))
      BY <1>4, <1>7, <3>1
    <3>3. ~RemovesKey(p, x)'
      BY <1>1, <1>3, <3>2 DEF RemovesKey, Call
    <3>4. QED
      BY <1>2, <2>1, <3>2, <3>3 DEF KeyPromise
  <2>4. KeyPromise(x)'
    BY <1>5, <1>6, <2>2, <2>3 DEF KeyPromise, Holds
  <2>5. told'.value[x] # Untold => told'.value[x] = told.value[x] /\ \A q \in Procs : ~ChangesValue(q, x)'
    <3>1. SUFFICES ASSUME told'.value[x] # Untold
                   PROVE  told'.value[x] = told.value[x] /\ \A q \in Procs : ~ChangesValue(q, x)'
      OBVIOUS
    <3>2. x \notin ValuesOf(r, k) /\ told'.value[x] = told.value[x]
      BY <1>4, <3>1
    <3>3. QED
      BY <1>2, <1>3, <2>1, <3>1, <3>2 DEF ValuePromise
  <2>6. ValuePromise(x)'
    BY <1>5, <1>6, <1>7, <2>1, <2>5 DEF ValuePromise
  <2>7. QED
    BY <2>4, <2>6
<1>9. ASSUME NEW q \in Procs, q # p PROVE CallOf(q)' /\ (Teller(q)' => Alone(q)' /\ Found(q)')
  <2>1. CASE At(q, "idle")
    BY <1>1, <1>9, <2>1 DEF SameCall, CallOf, At, Teller, SetPlaces
  <2>2. CASE ~At(q, "idle")
    <3>1. proc'[q].pc = proc[q].pc /\ proc'[q].req = proc[q].req /\ proc'[q].key = proc[q].key
          /\ proc'[q].more = proc[q].more
      BY <1>1, <1>9, <2>2 DEF SameCall
    <3>2. CallOf(q)'
      BY <3>1 DEF PromiseInv, CallOf, Call
    <3>3. ASSUME Teller(q)' PROVE Alone(q)' /\ Found(q)'
      <4>1. Teller(q) /\ ~Overlaps(p, q, r, k)
        BY <1>1, <1>9, <2>2, <3>1, <3>3 DEF Teller, Call
      <4>2. Alone(q) /\ Found(q)
        BY <4>1 DEF PromiseInv
      <4>3. /\ KeysOf(r, k) \cap KeysOf(proc[q].req, Key(q)) = {}
            /\ ValuesOf(r, k) \cap ValuesOf(proc[q].req, Key(q)) = {}
        BY <1>9, <2>2, <4>1 DEF Overlaps, WorksOn
      <4>4. \A y \in Procs : y # q =>
                /\ \A x \in KeysOf(proc[q].req, Key(q)) : ~ChangesKey(y, x)'
                /\ \A x \in ValuesOf(proc[q].req, Key(q)) : ~ChangesValue(y, x)'
        BY <1>2, <1>3, <4>2, <4>3 DEF Alone
      <4>5. Alone(q)'
        BY <1>5, <3>1, <4>2, <4>4 DEF Alone, Key, Call, Writing, On
      <4>6. Found(q)'
        BY <1>5, <3>1, <4>2
        DEF Found, Key, At, Mode, ValueHidesHost, KeyHidesHost, HoldsValue, Holds, image
      <4>7. QED
        BY <4>5, <4>6
    <3>4. QED
      BY <3>2, <3>3
  <2>3. QED
    BY <2>1, <2>2
<1>10. Teller(p)' => Alone(p)' /\ Found(p)'
  <2>1. SUFFICES ASSUME Teller(p)' PROVE Alone(p)' /\ Found(p)'
    OBVIOUS
  <2>2. proc'[p].alone
    BY <2>1 DEF Teller
  <2>3. ASSUME NEW q \in Procs, q # p
        PROVE  /\ \A x \in KeysOf(r, k) : ~ChangesKey(q, x)
               /\ \A x \in ValuesOf(r, k) : ~ChangesValue(q, x)
    <3>1. CASE At(q, "idle")
      BY <3>1 DEF ChangesKey, ChangesValue, Writing, At
    <3>2. CASE ~At(q, "idle")
      <4>1. ~Overlaps(p, q, r, k)
        BY <1>1, <2>2, <2>3, <3>2
      <4>2. Reach(q) \subseteq WorksOn(q)
        BY DEF Reach, WorksOn
      <4>3. QED
        BY <2>3, <3>2, <4>1, <4>2 DEF Overlaps, ChangesKey, ChangesValue
    <3>3. QED
      BY <3>1, <3>2
  <2>4. Alone(p)'
    <3>1. Call(p)' = r.call /\ r.call # "open"
      BY <1>1, <2>1 DEF Call, Teller, Tellers
    <3>2. \A q \in Procs : q # p =>
              /\ \A x \in KeysOf(r, k) : ~ChangesKey(q, x)'
              /\ \A x \in ValuesOf(r, k) : ~ChangesValue(q, x)'
      BY <1>2, <2>3
    <3>3. QED
      BY <1>1, <1>5, <3>1, <3>2 DEF Alone, Key
  <2>5. Found(p)'
    BY <1>1, <1>5 DEF FoundAt, Found, Key, At, Mode, ValueHidesHost, KeyHidesHost, HoldsValue, Holds,
                      image, Places
  <2>6. QED
    BY <2>4, <2>5
<1>11. /\ TableIs' /\ Tree(image)' /\ Tree(state)' /\ Tree(host)'
       /\ \A q \in Procs : HandleLives(q)'
  BY <1>5 DEF PromiseInv, TableIs, Tree, image, Holds, HandleLives, On
<1>12. \A q \in Procs : CallOf(q)' /\ (Teller(q)' => Alone(q)' /\ Found(q)')
  BY <1>9, <1>10
<1>13. QED
  BY <1>8, <1>11, <1>12 DEF PromiseInv

\* The hypothesis: no key is copied for a write from below one whose host is hidden.
CopiesAreOpen == \A s \in Starts : \A k \in Keys : KeyMode(s.mode, k) \in {"Full", "Hide"} =>
                     \A q \in From[k] : KeyMode(s.mode, q) # "WriteCopy"

\* A key which is copied for a write was found, and the keys above it, by a process which
\* looks for markers.
LEMMA CopiedIsFound ==
    ASSUME CopiesAreOpen, PromiseInv, NEW p \in Procs, sees[p], NEW k \in Keys,
           \/ OpensFrom(p, k) = "image"
           \/ OpensFrom(p, k) = "host" /\ Mode(k) = "WriteCopy",
           NEW x \in UpTo[k]
    PROVE  ~DeadKey(x)
<1>1. x \in Keys /\ k \in From[x] /\ UpTo[x] \subseteq UpTo[k]
  BY UpToIs
<1>2. Tree(image) /\ Tree(host) /\ DOMAIN fixed.mode = Keys
  BY DEF PromiseInv, TypeInv, TypeOK
<1>3. ~KeyMarked(x)
  BY <1>1, <1>2 DEF OpensFrom, IsKeyWhitedOut, KeyMarked
<1>4. CASE OpensFrom(p, k) = "image"
  <2>1. Holds(image, k)
    BY <1>4 DEF OpensFrom
  <2>2. QED
    BY <1>2, <1>3, <2>1 DEF DeadKey, Tree
<1>5. CASE OpensFrom(p, k) = "host" /\ Mode(k) = "WriteCopy"
  <2>1. Holds(host, k)
    BY <1>5 DEF OpensFrom
  <2>2. ~KeyHidesHost(x)
    <3>1. PICK s \in Starts : fixed.mode = [q \in Keys |-> KeyMode(s.mode, q)]
      BY DEF PromiseInv, TableIs
    <3>2. Mode(x) = KeyMode(s.mode, x) /\ Mode(k) = KeyMode(s.mode, k)
      BY <1>1, <3>1 DEF Mode
    <3>3. QED
      BY <1>1, <1>5, <3>2 DEF CopiesAreOpen, KeyHidesHost
  <2>3. QED
    BY <1>2, <1>3, <2>1, <2>2 DEF DeadKey, Tree
<1>6. QED
  BY <1>4, <1>5

\* A key which is opened by the first step alone.
LEMMA OpensKeep ==
    ASSUME PromiseInv, TypeInv', NEW p \in Procs, NEW r \in Requests, NEW k \in Keys, Opens(p, r, k, OpensFrom(p, k))
    PROVE  PromiseInv'
<1>1. At(p, "idle") /\ state' = state /\ host' = host /\ marks' = marks /\ sees' = sees
      /\ fixed' = fixed /\ proc' = proc /\ told' = told
      /\ handle' = [handle EXCEPT ![p] = [layer |-> OpensFrom(p, k), key |-> k, write |-> r.write]]
  BY DEF Opens, layers
<1>2. /\ handle'[p].layer = OpensFrom(p, k) /\ handle'[p].key = k
      /\ \A q \in Procs : q # p => handle'[q] = handle[q]
  BY <1>1 DEF PromiseInv, TypeInv, TypeOK
<1>3. Effects(p)
  BY <1>1 DEF Effects, Holds, HoldsValue
<1>4. Narrows(p, p) /\ \A q \in Procs : q # p => Narrows(q, p) /\ HandleKeeps(q, p)
  BY <1>1, <1>2, DoneNarrows, OthersNarrow DEF At
<1>5. HandleLives(p)'
  BY <1>1, <1>2 DEF HandleLives, On, OpensFrom, Holds
<1>6. \A q \in Procs : q # p => HandleLives(q)'
  BY <1>1, <1>2, LivesOn
<1>7. CallOf(p)' /\ ~Teller(p)'
  BY <1>1 DEF CallOf, At, SetPlaces, Teller
<1>8. Tree(state)' /\ Tree(host)'
  BY <1>1 DEF PromiseInv, Tree, Holds
<1>9. QED
  BY <1>1, <1>3, <1>4, <1>5, <1>6, <1>7, <1>8, StepKeeps

LEMMA BeginsKeep == ASSUME CopiesAreOpen, PromiseInv, TypeInv', NEW p \in Procs, Begins(p) PROVE PromiseInv'
<1>1. PICK r \in Requests :
          \/ OpenKey(p, r) \/ CreateKey(p, r) \/ SetValue(p, r) \/ DeleteValue(p, r)
          \/ DeleteKey(p, r) \/ RenameKey(p, r)
  BY DEF Begins
<1>2. r \in Request /\ NoMore \in [sandbox : BOOLEAN, host : BOOLEAN]
  BY RegistryAssumption, NoMoreTyped
<1>3. Permits(p) => handle[p].key \in Keys /\ ~On(p, "none")
  BY HandleIs DEF Permits, On, PromiseInv, TypeInv
<1>4. \A k, pc, more : Begin(p, r, k, pc, more) /\ k \in Keys /\ pc \in Places \ {"judgeKey", "judgeValue"}
                       /\ more \in [sandbox : BOOLEAN, host : BOOLEAN] => proc'[p].pc = pc /\ proc'[p].req = r
  BY BeginTyped DEF PromiseInv, TypeInv
<1>5. CASE OpenKey(p, r)
  <2>1. r.key \in Keys /\ r.call = "open"
    BY <1>2, <1>5 DEF OpenKey, Request
  <2>2. CASE Opens(p, r, r.key, OpensFrom(p, r.key))
    BY <2>1, <2>2, OpensKeep
  <2>3. CASE ~Opens(p, r, r.key, OpensFrom(p, r.key))
    <3>1. /\ Begin(p, r, r.key, "createInState", NoMore) /\ r.write
          /\ OpensFrom(p, r.key) = "image" \/ (OpensFrom(p, r.key) = "host" /\ Mode(r.key) = "WriteCopy")
      BY <1>5, <2>3 DEF OpenKey
    <3>2. sees[p] => \A x \in UpTo[r.key] : ~DeadKey(x)
      BY <2>1, <3>1, CopiedIsFound
    <3>3. CallOf(p)'
      BY <1>2, <1>4, <2>1, <3>1 DEF CallOf, Call, SetPlaces, Places
    <3>4. QED
      BY <1>2, <2>1, <3>1, <3>2, <3>3, BeginKeeps DEF FoundAt, Places
  <2>4. QED
    BY <2>2, <2>3
<1>6. CASE CreateKey(p, r)
  <2>1. r.key \in Keys /\ r.call = "create" /\ r.write
    BY <1>2, <1>6 DEF CreateKey, Request
  <2>2. PICK pc \in {"createInHost", "createInState"} :
            Begin(p, r, r.key, pc, NoMore) /\ (pc = "createInHost" => Mode(r.key) = "Merge")
    BY <1>6 DEF CreateKey
  <2>3. CallOf(p)'
    BY <1>2, <1>4, <2>1, <2>2 DEF CallOf, Call, SetPlaces, Places
  <2>4. QED
    BY <1>2, <2>1, <2>2, <2>3, BeginKeeps DEF FoundAt, Places
<1>7. CASE SetValue(p, r)
  <2>1. r.call = "set" /\ Permits(p)
    BY <1>7 DEF SetValue
  <2>2. PICK k \in Keys : k = handle[p].key
    BY <1>3, <2>1
  <2>3. OnHost(p) \in [sandbox : BOOLEAN, host : BOOLEAN]
    BY DEF OnHost, On
  <2>4. \/ Mode(k) = "Merge" /\ Begin(p, r, k, "setInHost", OnHost(p))
        \/ Begin(p, r, k, "setInState", NoMore)
    BY <1>7, <2>2 DEF SetValue, WritesToHost
  <2>5. PICK pc \in {"setInHost", "setInState"}, more \in [sandbox : BOOLEAN, host : BOOLEAN] :
            Begin(p, r, k, pc, more) /\ (pc = "setInHost" => Mode(k) = "Merge")
    BY <1>2, <2>3, <2>4
  <2>6. CallOf(p)'
    BY <1>4, <2>1, <2>5 DEF CallOf, Call, SetPlaces, Places
  <2>7. QED
    BY <1>3, <2>1, <2>2, <2>5, <2>6, BeginKeeps DEF FoundAt, Places
<1>8. CASE DeleteValue(p, r)
  <2>1. r.call = "unset" /\ Permits(p)
    BY <1>8 DEF DeleteValue
  <2>2. PICK k \in Keys : k = handle[p].key
    BY <1>3, <2>1
  <2> DEFINE more == [sandbox |-> SandboxHoldsValue(p, k), host |-> ~ValueHidesHost(k) /\ HoldsValue(host, k)]
  <2>3. OnHost(p) \in [sandbox : BOOLEAN, host : BOOLEAN] /\ more \in [sandbox : BOOLEAN, host : BOOLEAN]
    <3>1. SandboxHoldsValue(p, k) \in BOOLEAN
      BY DEF SandboxHoldsValue
    <3>2. QED
      BY <3>1 DEF OnHost, On
  <2>4. \/ WritesToHost(p, k) /\ Begin(p, r, k, "unsetInHost", OnHost(p))
        \/ Begin(p, r, k, "unsetInState", more)
    BY <1>8, <2>2 DEF DeleteValue
  <2>5. /\ WritesToHost(p, k) => ~HoldsValue(state, k) /\ ~HoldsValue(image, k)
        /\ ~more.host => ValueHidesHost(k) \/ ~HoldsValue(host, k)
    BY DEF WritesToHost, SandboxHoldsValue
  <2> HIDE DEF more
  <2>6. PICK pc \in {"unsetInHost", "unsetInState"}, m \in [sandbox : BOOLEAN, host : BOOLEAN] :
            Begin(p, r, k, pc, m) /\ FoundAt(k, pc, m)
    BY <2>3, <2>4, <2>5 DEF FoundAt
  <2>7. CallOf(p)'
    BY <1>4, <2>1, <2>6 DEF CallOf, Call, SetPlaces, Places
  <2>8. QED
    BY <1>3, <2>1, <2>2, <2>6, <2>7, BeginKeeps DEF Places
<1>9. CASE DeleteKey(p, r)
  <2>1. r.call = "delete" /\ Permits(p)
    BY <1>9 DEF DeleteKey
  <2>2. PICK k \in Keys : k = handle[p].key
    BY <1>3, <2>1
  <2>3. PICK pc \in {"dropInHost", "dropInState"} :
            Begin(p, r, k, pc, NoMore) /\ (pc = "dropInHost" => ~SandboxHoldsKey(p, k))
    BY <1>9, <2>2 DEF DeleteKey
  <2>4. FoundAt(k, pc, NoMore)
    BY <2>3 DEF FoundAt, SandboxHoldsKey
  <2>5. CallOf(p)'
    BY <1>2, <1>4, <2>1, <2>3 DEF CallOf, Call, SetPlaces, Places
  <2>6. QED
    BY <1>2, <1>3, <2>1, <2>2, <2>3, <2>4, <2>5, BeginKeeps DEF Places
<1>10. CASE RenameKey(p, r)
  <2>1. r.call = "rename" /\ Permits(p)
    BY <1>10 DEF RenameKey
  <2>2. PICK k \in Keys : k = handle[p].key
    BY <1>3, <2>1
  <2>3. PICK pc \in {"moveInHost", "copyUp"} :
            Begin(p, r, k, pc, NoMore) /\ (pc = "copyUp" => On(p, "state"))
    BY <1>10, <2>2 DEF RenameKey
  <2>4. pc = "copyUp" => \A x \in UpTo[k] : ~DeadKey(x)
    BY <2>2, <2>3 DEF PromiseInv, HandleLives, Tree, DeadKey
  <2>5. CallOf(p)'
    BY <1>2, <1>4, <2>1, <2>3 DEF CallOf, Call, SetPlaces, Places
  <2>6. QED
    BY <1>2, <1>3, <2>1, <2>2, <2>3, <2>4, <2>5, BeginKeeps DEF FoundAt, Places
<1>11. QED
  BY <1>1, <1>5, <1>6, <1>7, <1>8, <1>9, <1>10

LEMMA StepsKeep == ASSUME CopiesAreOpen, PromiseInv, [Next]_vars PROVE PromiseInv'
<1>1. TypeInv'
  BY StepsTyped DEF PromiseInv
<1>2. CASE UNCHANGED vars
  <2>1. UNCHANGED <<state, host, marks, sees, fixed, proc, handle, told>>
    BY <1>2 DEF vars, layers
  <2>2. \A q \in Procs, k \in Keys : /\ ChangesKey(q, k)' <=> ChangesKey(q, k)
                                     /\ MakesKey(q, k)' <=> MakesKey(q, k)
                                     /\ RemovesKey(q, k)' <=> RemovesKey(q, k)
                                     /\ ChangesValue(q, k)' <=> ChangesValue(q, k)
    BY <2>1 DEF ChangesKey, MakesKey, RemovesKey, ChangesValue, Reach, WorksOn, Writing, Call, Key, On,
                At
  <2>3. \A k \in Keys : (DeadKey(k)' <=> DeadKey(k)) /\ (DeadValue(k)' <=> DeadValue(k))
    BY <2>1 DEF DeadKey, DeadValue, KeyMarked, ValueMarked, KeyHidesHost, ValueHidesHost, Mode, Holds,
                HoldsValue, image
  <2>4. \A k \in Keys : KeyPromise(k)' /\ ValuePromise(k)'
    BY <2>1, <2>2, <2>3 DEF PromiseInv, KeyPromise, ValuePromise, Mode, Holds
  <2>5. \A q \in Procs : CallOf(q)' /\ HandleLives(q)'
    BY <2>1 DEF PromiseInv, CallOf, HandleLives, Call, On, Holds
  <2>6. \A q \in Procs : Teller(q)' => Alone(q)' /\ Found(q)'
    <3>1. TAKE q \in Procs
    <3>2. HAVE Teller(q)'
    <3>3. Teller(q)
      BY <2>1, <3>2 DEF Teller, At, Call
    <3>4. Alone(q) /\ Found(q)
      BY <3>3 DEF PromiseInv
    <3>5. Found(q)'
      BY <2>1, <3>4 DEF Found, At, Key, Mode, ValueHidesHost, KeyHidesHost, HoldsValue, Holds, image
    <3>6. Alone(q)'
      BY <2>1, <3>4 DEF Alone, ChangesKey, ChangesValue, Reach, WorksOn, Writing, Call, Key, On
    <3>7. QED
      BY <3>5, <3>6
  <2>7. TableIs' /\ Tree(image)' /\ Tree(state)' /\ Tree(host)'
    BY <2>1 DEF PromiseInv, TableIs, Tree, image, Holds
  <2>8. QED
    BY <1>1, <2>4, <2>5, <2>6, <2>7 DEF PromiseInv
<1>3. ASSUME NEW p \in Procs, Begins(p) \/ Continues(p) \/ Kill(p) PROVE PromiseInv'
  BY <1>1, <1>3, BeginsKeep, CreateInStateKeeps, CreateInHostKeeps, SetInHostKeeps, SetInStateKeeps,
     UnsetInHostKeeps,
     UnsetInStateKeeps, JudgeValueKeeps, JudgeKeyKeeps, DropInHostKeeps, DropInStateKeeps, CopyUpKeeps,
     MoveInStateKeeps, MoveInHostKeeps, RefuseKeeps, KillKeeps
  DEF Continues
<1>4. QED
  BY <1>2, <1>3 DEF Next

LEMMA InitKeeps == ASSUME Init PROVE PromiseInv
<1>1. PICK s \in Starts :
          /\ state = s.state /\ host = s.host /\ marks = s.marks
          /\ fixed = [image |-> s.image, mode |-> [k \in Keys |-> KeyMode(s.mode, k)], listed |-> s.listed]
          /\ sees = [p \in Procs |-> s.store]
  BY DEF Init
<1>2. TypeInv /\ TableIs
  BY InitTyped, InitFits DEF WriteInv
<1>4. Tree(state) /\ Tree(image) /\ Tree(host)
  <2>1. image = s.image
    BY <1>1 DEF image
  <2>2. \A layer \in {s.state, s.image, s.host} : Tree(layer)
    BY RegistryAssumption DEF Tree, Holds
  <2>3. QED
    BY <1>1, <2>1, <2>2
<1>5. \A p \in Procs : proc[p] = Idle /\ handle[p] = NoHandle
  BY DEF Init
<1>6. \A p \in Procs : CallOf(p) /\ HandleLives(p) /\ ~Teller(p)
  BY <1>5 DEF CallOf, HandleLives, Teller, Idle, NoHandle, At, On, SetPlaces
<1>7. \A k \in Keys : KeyPromise(k) /\ ValuePromise(k)
  <2>1. \A k \in Keys : told.key[k] = Untold /\ told.value[k] = Untold
    BY DEF Init
  <2>2. Untold # Gone /\ Untold # Bare /\ Untold \notin Data
    BY RegistryAssumption
  <2>3. QED
    BY <2>1, <2>2 DEF KeyPromise, ValuePromise
<1>8. QED
  BY <1>2, <1>4, <1>6, <1>7 DEF PromiseInv

\* What a process opens and queries by the promises.
LEMMA PromisesAreKept == ASSUME PromiseInv PROVE CallsHold
<1> SUFFICES ASSUME NEW p \in Procs, NEW k \in Keys
             PROVE  /\ sees[p] /\ told.key[k] = Gone => OpensFrom(p, k) = "none"
                    /\ sees[p] /\ told.value[k] = Gone => QueryValue(p, k) \notin Data
                    /\ Mode(k) # "Merge" => /\ told.key[k] = Bare => OpensFrom(p, k) # "none"
                                            /\ told.value[k] \in Data => QueryValue(p, k) = told.value[k]
  BY DEF CallsHold
<1>1. KeyPromise(k) /\ ValuePromise(k) /\ Bare \notin Data
  BY RegistryAssumption DEF PromiseInv
<1>2. sees[p] => (IsKeyWhitedOut(p, k) <=> KeyMarked(k)) /\ (IsValueWhitedOut(p, k) <=> ValueMarked(k))
  BY <1>1 DEF IsKeyWhitedOut, IsValueWhitedOut, KeyMarked, ValueMarked
<1>3. sees[p] /\ DeadKey(k) => OpensFrom(p, k) = "none"
  BY <1>2 DEF DeadKey, OpensFrom
<1>4. sees[p] /\ DeadValue(k) => QueryValue(p, k) \notin Data
  BY <1>1, <1>2 DEF DeadValue, QueryValue
<1>5. Holds(state, k) => OpensFrom(p, k) # "none"
  BY DEF OpensFrom
<1>6. state[k] \in Data => QueryValue(p, k) = state[k]
  BY DEF QueryValue, HoldsValue
<1>7. QED
  BY <1>1, <1>3, <1>4, <1>5, <1>6 DEF KeyPromise, ValuePromise

\* What a call told stays so, whatever was recorded before the run: a deleted key or value is
\* found by no process which looks for markers, and what was written into the sandbox is what
\* every process reads, until a call on the same entry begins: although a call decides with
\* what it read before, marks what it deleted in a later step, and works through a handle
\* another process may move (DeleteIsolatedKey(), DeleteIsolatedValue(), SetIsolatedValue(),
\* CreateIsolatedKeyEntry(), RenameIsolatedKey()).  A process which mounted the hive before
\* the store of the whiteouts was made looks for none: it finds what others deleted, and its
\* open for a write makes what was told of the key void (Hive::Init()).
THEOREM CallsAreKept == ASSUME CopiesAreOpen PROVE Spec => []CallsHold
<1>1. Init => PromiseInv
  BY InitKeeps
<1>2. PromiseInv /\ [Next]_vars => PromiseInv'
  BY StepsKeep
<1>3. PromiseInv => CallsHold
  BY PromisesAreKept
<1>4. QED
  BY <1>1, <1>2, <1>3, PTL DEF Spec
=============================================================================
