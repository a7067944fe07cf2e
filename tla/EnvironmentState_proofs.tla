----------------------- MODULE EnvironmentState_proofs -----------------------
(***************************************************************************)
(* Proofs about the environment of a sandbox, for any number of processes, *)
(* variables and modifications.                                            *)
(***************************************************************************)
EXTENDS EnvironmentState, TLAPS

Stages == {"store", "check", "record", "assign", "build", "send", "wait"}

\* A modification before its document is built, and after.
Bare  == [pc : Stages, env : Environments, names : SUBSET Names]
Built == [pc : Stages, env : Environments, names : SUBSET Names, doc : Documents]

Writing == [pc : {"open", "write", "move", "answer"}, doc : Documents, alone : BOOLEAN, kept : BOOLEAN]

TypeOK ==
    /\ file \in {NoFile, Torn} \cup Documents
    /\ temp \in {NoFile, Torn} \cup Documents
    /\ life \in [Procs -> {"none", "launched", "inherits", "runs"}]
    /\ block \in [Procs -> Environments]
    /\ table \in [Procs -> Environments]
    /\ mods \in [Procs -> Documents]
    /\ call \in [Threads -> {Idle} \cup Bare \cup Built]
    /\ \A t \in Threads : call[t].pc \in {"send", "wait"} => call[t] \in Built
    /\ writer \in [Procs -> {Idle} \cup Writing]
    /\ told \in [Names -> Values \cup {Gone, Kept, Untold}]
    /\ knows \in [Procs -> SUBSET Names]
    /\ mixed \in BOOLEAN

\* The file a single session writes: it is torn while it is written and whole before it
\* is moved.
WholeInv ==
    ~mixed =>
        /\ file \in {NoFile} \cup Documents
        /\ \A p, q \in Busy : p = q
        /\ \A p \in Procs : Writes(p, "write") => temp = Torn
        /\ \A p \in Procs : Writes(p, "move") => temp \in Documents
-----------------------------------------------------------------------------
LEMMA NoDocumentIs == NoDocument \in Documents /\ StateIn(file) \in Documents \cup {file}
  BY DEF NoDocument, Documents, StateIn

LEMMA AppliedIs ==
    ASSUME NEW env \in Environments, NEW doc \in Documents
    PROVE  Applied(env, doc) \in Environments
  BY DEF Applied, Environments, Documents

\* What a modification does to the types, whatever it records.
LEMMA CallTypes ==
    ASSUME TypeOK, NEW t \in Threads
    PROVE  /\ call[t] \in {Idle} \cup Bare \cup Built
           /\ call[t].pc \in Stages \cup {"idle"}
           /\ call[t] = Idle <=> call[t].pc = "idle"
           /\ call[t] # Idle => /\ call[t].env \in Environments
                                /\ call[t].names \in SUBSET Names
  BY DEF TypeOK, Idle, Bare, Built, Stages

LEMMA TypeInit == Init => TypeOK
  <1> SUFFICES ASSUME Init PROVE TypeOK
    OBVIOUS
  <1>1. NoDocument \in Documents
    BY NoDocumentIs
  <1>2. file \in {NoFile, Torn} \cup Documents /\ temp \in {NoFile, Torn} \cup Documents
    BY EnvironmentAssumption DEF Init
  <1>3. block \in [Procs -> Environments] /\ table \in [Procs -> Environments] /\ mods \in [Procs -> Documents]
    BY <1>1, EnvironmentAssumption DEF Init
  <1>4. \A t \in Threads : call[t].pc \notin {"send", "wait"}
    BY DEF Init, Idle
  <1>5. QED
    BY <1>2, <1>3, <1>4 DEF Init, TypeOK

LEMMA TypeModifies ==
    ASSUME TypeOK, NEW t \in Threads, NEW changed \in SUBSET Names, NEW pc \in {"store", "assign"},
           NEW env \in Environments, Modifies(t, changed, pc, env)
    PROVE  TypeOK'
  <1>1. ProcessOf[t] \in Procs
    BY EnvironmentAssumption
  <1>2. block' \in [Procs -> Environments]
    <2>1. [x \in Names |-> IF x \in changed THEN env[x] ELSE block[ProcessOf[t]][x]] \in Environments
      BY <1>1 DEF TypeOK, Environments
    <2>2. QED
      BY <2>1 DEF Modifies, TypeOK
  <1>3. call'[t] = [pc |-> pc, env |-> env, names |-> changed]
        /\ \A s \in Threads \ {t} : call'[s] = call[s]
    BY DEF Modifies, TypeOK
  <1>4. call' \in [Threads -> {Idle} \cup Bare \cup Built]
    <2>1. [pc |-> pc, env |-> env, names |-> changed] \in Bare
      BY DEF Bare, Stages
    <2>2. QED
      BY <2>1 DEF Modifies, TypeOK
  <1>5. \A s \in Threads : call'[s].pc \in {"send", "wait"} => call'[s] \in Built
    BY <1>3 DEF TypeOK
  <1>6. told' \in [Names -> Values \cup {Gone, Kept, Untold}]
    BY DEF Modifies, TypeOK
  <1>7. QED
    BY <1>2, <1>4, <1>5, <1>6 DEF Modifies, TypeOK, files, shadow

\* A call which goes on to a stage without a document, or returns.
LEMMA CallGoes ==
    ASSUME TypeOK, NEW t \in Threads, call[t] # Idle,
           \/ \E pc \in Stages \ {"assign", "send", "wait"} : Goto(t, pc)
           \/ Returns(t)
    PROVE  /\ call' \in [Threads -> {Idle} \cup Bare \cup Built]
           /\ \A s \in Threads : call'[s].pc \in {"send", "wait"} => call'[s] \in Built
           /\ \A s \in Threads \ {t} : call'[s] = call[s]
           /\ call'[t] # Idle => /\ call'[t].env = call[t].env
                                 /\ call'[t].names = call[t].names
                                 /\ call'[t].pc \notin {"assign", "send", "wait"}
  <1>1. call[t] \in Bare \cup Built
    BY DEF TypeOK
  <1>2. \A pc \in Stages : [call[t] EXCEPT !.pc = pc] \in Bare \cup Built
    BY <1>1 DEF Bare, Built
  <1>4. /\ call'[t] \in {Idle} \cup Bare \cup Built
        /\ call'[t].pc \notin {"assign", "send", "wait"}
        /\ call'[t] = Idle \/ (call'[t].env = call[t].env /\ call'[t].names = call[t].names)
    <2>1. ASSUME NEW pc \in Stages \ {"assign", "send", "wait"}, Goto(t, pc)
          PROVE  LET next == [call[t] EXCEPT !.pc = pc] IN
                     call'[t] = next /\ next.pc = pc /\ next.env = call[t].env /\ next.names = call[t].names
      BY <1>1, <2>1 DEF Goto, TypeOK, Bare, Built
    <2>2. CASE Returns(t)
      <3>1. call'[t] = Idle /\ Idle.pc = "idle"
        BY <2>2 DEF Returns, TypeOK, Idle
      <3>2. QED
        BY <3>1
    <2>4. CASE \E pc \in Stages \ {"assign", "send", "wait"} : Goto(t, pc)
      <3>1. PICK pc \in Stages \ {"assign", "send", "wait"} : Goto(t, pc)
        BY <2>4
      <3>2. QED
        BY <1>2, <2>1, <3>1
    <2>5. QED
      BY <2>2, <2>4
  <1>5. \A s \in Threads \ {t} : call'[s] = call[s]
    BY DEF Goto, Returns, TypeOK
  <1>6. call'[t].pc \notin {"assign", "send", "wait"}
    BY <1>4
  <1>7. call'[t] # Idle => call'[t].env = call[t].env /\ call'[t].names = call[t].names
    BY <1>4
  <1>8. call' \in [Threads -> {Idle} \cup Bare \cup Built]
    BY <1>4, <1>5 DEF Goto, Returns, TypeOK
  <1>9. QED
    BY <1>5, <1>6, <1>7, <1>8 DEF TypeOK

LEMMA TypeModification ==
    ASSUME TypeOK, NEW t \in Threads, Modification(t)
    PROVE  TypeOK'
  <1>1. ProcessOf[t] \in Procs
    BY EnvironmentAssumption
  <1>2. CASE SetVariable(t)
    <2>1. PICK x \in Names, v \in Values \cup {Gone} : Modifies(t, {x}, "store", [y \in Names |-> v])
      BY <1>2, EnvironmentAssumption DEF SetVariable
    <2>2. [y \in Names |-> v] \in Environments
      BY DEF Environments
    <2>3. QED
      BY <2>1, <2>2, TypeModifies
  <1>3. CASE SetBlock(t)
    <2>1. PICK env \in Environments : Modifies(t, Names, "assign", env)
      BY <1>3, EnvironmentAssumption DEF SetBlock
    <2>2. QED
      BY <2>1, TypeModifies
  <1>4. CASE Store(t) \/ Check(t) \/ Record(t) \/ AssignBlock(t)
    <2>1. call[t] # Idle /\ call[t].env \in Environments
      BY <1>4, CallTypes DEF Store, Check, Record, AssignBlock, At
    <2>2. /\ call' \in [Threads -> {Idle} \cup Bare \cup Built]
          /\ \A s \in Threads : call'[s].pc \in {"send", "wait"} => call'[s] \in Built
      BY <1>4, <2>1, CallGoes DEF Store, Check, Record, AssignBlock, Stages
    <2>3. table' \in [Procs -> Environments]
      <3>1. [x \in Names |-> IF x \in call[t].names THEN call[t].env[x] ELSE table[ProcessOf[t]][x]] \in Environments
        BY <1>1, <2>1 DEF TypeOK, Environments
      <3>2. QED
        BY <1>4, <2>1, <3>1 DEF Store, Check, Record, AssignBlock, shadow, TypeOK
    <2>4. mods' \in [Procs -> Documents]
      <3>1. /\ [x \in Names |-> IF x \in call[t].names THEN call[t].env[x] ELSE mods[ProcessOf[t]][x]]
                   \in Documents
            /\ [x \in Names |-> IF call[t].env[x] # table[ProcessOf[t]][x] THEN call[t].env[x]
                                ELSE mods[ProcessOf[t]][x]] \in Documents
        BY <1>1, <2>1 DEF TypeOK, Environments, Documents
      <3>2. QED
        BY <1>4, <3>1 DEF Store, Check, Record, AssignBlock, shadow, TypeOK
    <2>5. UNCHANGED <<files, life, block, writer, calls, history>>
      BY <1>4 DEF Store, Check, Record, AssignBlock
    <2>6. QED
      BY <2>2, <2>3, <2>4, <2>5 DEF TypeOK, files, history
  <1>5. CASE Build(t)
    <2>1. call[t] # Idle /\ call[t] \in Bare \cup Built
      BY <1>5, CallTypes DEF Build, At
    <2>2. [pc |-> "send", env |-> call[t].env, names |-> call[t].names,
           doc |-> mods[ProcessOf[t]]] \in Built
      BY <1>1, <2>1 DEF TypeOK, Bare, Built, Stages
    <2>3. /\ call' \in [Threads -> {Idle} \cup Bare \cup Built]
          /\ \A s \in Threads : call'[s].pc \in {"send", "wait"} => call'[s] \in Built
      BY <1>5, <2>2 DEF Build, TypeOK
    <2>4. QED
      BY <1>5, <2>3 DEF Build, TypeOK, files, shadow, history
  <1>6. CASE Send(t)
    <2>1. call[t] \in Built
      BY <1>6 DEF Send, At, TypeOK
    <2>2. [call[t] EXCEPT !.pc = "wait"] \in Built /\ call[t].doc \in Documents
      BY <2>1 DEF Built, Stages
    <2>3. /\ call' \in [Threads -> {Idle} \cup Bare \cup Built]
          /\ \A s \in Threads : call'[s].pc \in {"send", "wait"} => call'[s] \in Built
      BY <1>6, <2>2 DEF Send, Goto, TypeOK
    <2>4. [pc |-> "open", doc |-> call[t].doc, alone |-> TRUE, kept |-> FALSE] \in Writing
      BY <2>2 DEF Writing
    <2>5. writer' \in [Procs -> {Idle} \cup Writing]
      BY <1>1, <1>6, <2>4 DEF Send, TypeOK
    <2>6. QED
      BY <1>6, <2>3, <2>5 DEF Send, TypeOK, files, shadow, history
  <1>7. QED
    BY <1>2, <1>3, <1>4, <1>5, <1>6 DEF Modification

\* A session of the launcher is always in one of its stages.
LEMMA WriterTypes ==
    ASSUME TypeOK, NEW p \in Procs
    PROVE  /\ writer[p].pc \in {"idle", "open", "write", "move", "answer"}
           /\ writer[p] = Idle <=> writer[p].pc = "idle"
           /\ writer[p] # Idle => writer[p] \in Writing
  BY DEF TypeOK, Writing, Idle

LEMMA DisturbTypes ==
    ASSUME TypeOK
    PROVE  /\ Disturbs \in [Procs -> {Idle} \cup Writing]
           /\ \A p \in Procs : /\ Disturbs[p].pc = writer[p].pc
                               /\ p \in Busy => Disturbs[p].doc = writer[p].doc /\ ~Disturbs[p].alone
                               /\ p \notin Busy => Disturbs[p] = writer[p]
  <1>1. ASSUME NEW p \in Procs, p \in Busy
        PROVE  LET next == [writer[p] EXCEPT !.alone = FALSE] IN
                  next \in Writing /\ next.pc = writer[p].pc /\ next.doc = writer[p].doc /\ next.alone = FALSE
    <2>1. writer[p] \in Writing
      BY <1>1, WriterTypes DEF Busy, Writes, Idle
    <2>2. QED
      BY <2>1 DEF Writing
  <1>2. QED
    BY <1>1 DEF Disturbs, TypeOK

LEMMA TypeProcess ==
    ASSUME TypeOK, NEW p \in Procs, Start(p) \/ InitIsolation(p) \/ Kill(p)
    PROVE  TypeOK'
  <1>1. CASE Start(p)
    <2>1. block' \in [Procs -> Environments]
      BY <1>1, EnvironmentAssumption DEF Start, TypeOK
    <2>2. life' \in [Procs -> {"none", "launched", "inherits", "runs"}]
      BY <1>1 DEF Start, TypeOK
    <2>3. QED
      BY <1>1, <2>1, <2>2, DisturbTypes DEF Start, TypeOK, files, shadow, history
  <1>2. CASE InitIsolation(p)
    <2> DEFINE doc == StateIn(file)
    <2> DEFINE env == IF life[p] = "launched" THEN Applied(block[p], doc) ELSE block[p]
    <2>1. doc \in Documents
      BY NoDocumentIs DEF StateIn, TypeOK
    <2>2. env \in Environments
      BY <2>1, AppliedIs DEF TypeOK
    <2>3. /\ block' = [block EXCEPT ![p] = env] /\ table' = [table EXCEPT ![p] = env]
          /\ mods' = [mods EXCEPT ![p] = doc]
      BY <1>2 DEF InitIsolation
    <2> HIDE DEF doc, env
    <2>4. /\ block' \in [Procs -> Environments] /\ table' \in [Procs -> Environments]
          /\ mods' \in [Procs -> Documents]
      BY <2>1, <2>2, <2>3 DEF TypeOK
    <2>5. knows' \in [Procs -> SUBSET Names] /\ life' \in [Procs -> {"none", "launched", "inherits", "runs"}]
      BY <1>2 DEF InitIsolation, TypeOK
    <2>6. QED
      BY <1>2, <2>4, <2>5 DEF InitIsolation, TypeOK, files
  <1>3. CASE Kill(p)
    <2>1. /\ block' \in [Procs -> Environments] /\ table' \in [Procs -> Environments]
          /\ mods' \in [Procs -> Documents]
      BY <1>3, EnvironmentAssumption, NoDocumentIs DEF Kill, Forget, TypeOK
    <2>2. /\ call' \in [Threads -> {Idle} \cup Bare \cup Built]
          /\ \A t \in Threads : call'[t].pc \in {"send", "wait"} => call'[t] \in Built
      BY <1>3 DEF Kill, TypeOK, Idle
    <2>3. QED
      BY <1>3, <2>1, <2>2 DEF Kill, TypeOK, files, history
  <1>4. QED
    BY <1>1, <1>2, <1>3

\* What a session does to its own record and to those of the others.
LEMMA SessionStep ==
    ASSUME TypeOK, NEW p \in Procs, Session(p)
    PROVE  /\ writer' \in [Procs -> {Idle} \cup Writing]
           /\ \A q \in Procs \ {p} : writer'[q].pc = writer[q].pc
           /\ \A q \in Procs \ {p} : writer'[q] # Idle => writer'[q].doc = writer[q].doc
                                          /\ (writer'[q].alone => writer[q].alone)
           /\ \A q \in Procs \ {p} : Open(p) /\ q \in Busy => ~writer'[q].alone
           /\ writer[p] \in Writing
           /\ writer'[p] # Idle => writer'[p].doc = writer[p].doc
           /\ Open(p) => writer'[p].pc = "write" /\ (writer'[p].alone => Busy = {} /\ ~\E q \in Procs : Reading(q))
           /\ WriteText(p) => writer'[p].pc \in {"move", "answer"} /\ writer'[p].alone = writer[p].alone
           /\ Move(p) => writer'[p].pc = "answer"
           /\ Answer(p) => writer'[p] = Idle
  <1>1. writer[p] \in Writing /\ writer \in [Procs -> {Idle} \cup Writing]
    BY WriterTypes DEF Session, Open, WriteText, Move, Answer, Writes, TypeOK
  <1>2. CASE Open(p)
    <2> DEFINE alone == Busy = {} /\ ~\E q \in Procs : Reading(q)
    <2>1. p \notin Busy /\ Disturbs[p] = writer[p]
      BY <1>2, DisturbTypes DEF Open, Writes, Busy
    <2>2. writer' = [Disturbs EXCEPT ![p] = [Disturbs[p] EXCEPT !.pc = "write", !.alone = alone]]
      BY <1>2, DisturbTypes DEF Open
    <2>3. alone \in BOOLEAN
      OBVIOUS
    <2> HIDE DEF alone
    <2>4. LET next == [writer[p] EXCEPT !.pc = "write", !.alone = alone] IN
              next \in Writing /\ next.doc = writer[p].doc /\ next.pc = "write" /\ next.alone = alone
      BY <1>1, <2>3 DEF Writing
    <2>5. writer' \in [Procs -> {Idle} \cup Writing] /\ writer'[p].doc = writer[p].doc
          /\ writer'[p].pc = "write" /\ writer'[p].alone = alone
      BY <2>1, <2>2, <2>4, DisturbTypes
    <2>6. \A q \in Procs \ {p} : writer'[q] = Disturbs[q]
      BY <2>2, DisturbTypes
    <2>7. \A q \in Procs \ {p} : writer'[q] # Idle => writer'[q].doc = writer[q].doc
                                          /\ (writer'[q].alone => writer[q].alone)
      BY <2>6, DisturbTypes
    <2>8. ~WriteText(p) /\ ~Move(p) /\ ~Answer(p)
      BY <1>2 DEF Open, WriteText, Move, Answer, Writes
    <2>9. QED
      BY <1>1, <2>5, <2>6, <2>7, <2>8, DisturbTypes DEF alone
  <1>3. CASE WriteText(p)
    <2>1. PICK pc \in {"move", "answer"} : writer' = [writer EXCEPT ![p].pc = pc]
      BY <1>3 DEF WriteText
    <2>2. LET next == [writer[p] EXCEPT !.pc = pc] IN
              next \in Writing /\ next.doc = writer[p].doc /\ next.pc = pc /\ next.alone = writer[p].alone
      BY <1>1 DEF Writing
    <2>3. writer' \in [Procs -> {Idle} \cup Writing] /\ writer'[p].doc = writer[p].doc
          /\ writer'[p].pc = pc /\ writer'[p].alone = writer[p].alone
          /\ \A q \in Procs \ {p} : writer'[q] = writer[q]
      BY <1>1, <2>1, <2>2
    <2>4. ~Open(p) /\ ~Move(p) /\ ~Answer(p)
      BY <1>3 DEF Open, WriteText, Move, Answer, Writes
    <2>5. QED
      BY <1>1, <2>3, <2>4
  <1>4. CASE Move(p)
    <2>1. PICK kept \in BOOLEAN : writer' = [writer EXCEPT ![p] = [writer[p] EXCEPT !.pc = "answer", !.kept = kept]]
      <3>1. CanMove(p) \in BOOLEAN
        BY DEF CanMove
      <3>2. QED
        BY <1>1, <1>4, <3>1 DEF Move
    <2>2. LET next == [writer[p] EXCEPT !.pc = "answer", !.kept = kept] IN
              next \in Writing /\ next.doc = writer[p].doc /\ next.pc = "answer"
      BY <1>1 DEF Writing
    <2>3. writer' \in [Procs -> {Idle} \cup Writing] /\ writer'[p].doc = writer[p].doc
          /\ writer'[p].pc = "answer" /\ \A q \in Procs \ {p} : writer'[q] = writer[q]
      BY <1>1, <2>1, <2>2
    <2>4. ~Open(p) /\ ~WriteText(p) /\ ~Answer(p)
      BY <1>4 DEF Open, WriteText, Move, Answer, Writes
    <2>5. QED
      BY <1>1, <2>3, <2>4
  <1>5. CASE Answer(p)
    <2>1. writer' = [writer EXCEPT ![p] = Idle] /\ ~Open(p) /\ ~WriteText(p) /\ ~Move(p)
      BY <1>5 DEF Open, WriteText, Move, Answer, Writes
    <2>2. QED
      BY <1>1, <2>1
  <1>6. QED
    BY <1>2, <1>3, <1>4, <1>5 DEF Session

LEMMA TypeSession ==
    ASSUME TypeOK, NEW p \in Procs, Session(p)
    PROVE  TypeOK'
  <1>1. writer' \in [Procs -> {Idle} \cup Writing] /\ writer[p].doc \in Documents
    BY SessionStep DEF Writing
  <1>2. CASE Open(p)
    BY <1>1, <1>2, EnvironmentAssumption DEF Open, TypeOK, shadow
  <1>3. CASE WriteText(p)
    <2>1. temp' \in {Torn} \cup Documents
      BY <1>1, <1>3 DEF WriteText
    <2>2. QED
      BY <1>1, <1>3, <2>1 DEF WriteText, TypeOK, shadow, history
  <1>4. CASE Move(p)
    <2>1. \A x \in Names : writer[p].doc[x] \in Values \cup {Gone, Kept}
      BY <1>1 DEF Documents
    <2>2. told' \in [Names -> Values \cup {Gone, Kept, Untold}]
      BY <1>4, <2>1 DEF Move, TypeOK
    <2>3. knows' \in [Procs -> SUBSET Names]
      <3>1. Ours(p) \subseteq Names
        BY DEF Ours
      <3>2. QED
        BY <1>4, <3>1 DEF Move, TypeOK
    <2>4. file' \in {NoFile, Torn} \cup Documents /\ temp' \in {NoFile, Torn} \cup Documents
      BY <1>4 DEF Move, TypeOK, files
    <2>5. QED
      BY <1>1, <1>4, <2>2, <2>3, <2>4 DEF Move, TypeOK, shadow
  <1>5. CASE Answer(p)
    <2>1. /\ call' \in [Threads -> {Idle} \cup Bare \cup Built]
          /\ \A t \in Threads : call'[t].pc \in {"send", "wait"} => call'[t] \in Built
      <3>1. CASE UNCHANGED call
        BY <3>1 DEF TypeOK
      <3>2. CASE \E t \in Asker(p) : Returns(t)
        <4>1. PICK t \in Threads : Returns(t) /\ call[t] # Idle
          BY <3>2, CallTypes DEF Asker, At, Idle
        <4>2. QED
          BY <4>1, CallGoes
      <3>3. QED
        BY <1>5, <3>1, <3>2 DEF Answer
    <2>2. QED
      BY <1>1, <1>5, <2>1 DEF Answer, TypeOK, files, shadow, history
  <1>6. QED
    BY <1>2, <1>3, <1>4, <1>5 DEF Session

LEMMA TypeCrash == TypeOK /\ Crash => TypeOK'
  <1> SUFFICES ASSUME TypeOK, Crash PROVE TypeOK'
    OBVIOUS
  <1>1. /\ block' \in [Procs -> Environments] /\ table' \in [Procs -> Environments]
        /\ mods' \in [Procs -> Documents]
    BY EnvironmentAssumption, NoDocumentIs DEF Crash, Forget, TypeOK
  <1>2. \A t \in Threads : call'[t].pc = "idle"
    BY DEF Crash, Idle
  <1>3. QED
    BY <1>1, <1>2 DEF Crash, TypeOK, files, history

LEMMA TypeStep == TypeOK /\ [Next]_vars => TypeOK'
  <1> SUFFICES ASSUME TypeOK, [Next]_vars PROVE TypeOK'
    OBVIOUS
  <1>1. CASE UNCHANGED vars
    BY <1>1 DEF vars, files, shadow, history, TypeOK
  <1>2. QED
    BY <1>1, TypeModification, TypeProcess, TypeSession, TypeCrash DEF Next

\* The types of the environment of a sandbox hold in every state (Isolation, MsgEnvironment).
THEOREM EnvironmentTypes == Spec => []TypeOK
  BY TypeInit, TypeStep, PTL DEF Spec
-----------------------------------------------------------------------------
(* The state file.                                                         *)

LEMMA WholeStep == TypeOK /\ WholeInv /\ [Next]_vars => WholeInv'
  <1> SUFFICES ASSUME TypeOK, WholeInv, [Next]_vars, ~mixed' PROVE WholeInv'
    BY DEF WholeInv
  <1>1. ASSUME NEW p \in Procs, Open(p) PROVE WholeInv'
    <2>1. ~mixed /\ Busy = {} /\ temp' = Torn /\ UNCHANGED file
      BY <1>1 DEF Open, TypeOK
    <2>2. \A q \in Procs : writer'[q].pc \in {"write", "move"} => q = p
      BY <1>1, <2>1, SessionStep DEF Session, Busy, Writes
    <2>3. writer'[p].pc = "write"
      BY <1>1, SessionStep DEF Session
    <2>4. QED
      BY <2>1, <2>2, <2>3 DEF WholeInv, Busy, Writes
  <1>2. ASSUME NEW p \in Procs, WriteText(p) PROVE WholeInv'
    <2>1. ~mixed /\ UNCHANGED file /\ Writes(p, "write")
      BY <1>2 DEF WriteText, history
    <2>2. \A q \in Procs : Writes(q, "write") \/ Writes(q, "move") => q = p
      BY <2>1 DEF WholeInv, Busy, Writes
    <2>3. writer[p].doc \in Documents
      BY <1>2, SessionStep DEF Session, Writing
    <2>4. writer'[p].pc \in {"move", "answer"} /\ (writer'[p].pc = "move" => temp' \in Documents)
      <3>1. temp = Torn
        BY <2>1 DEF WholeInv
      <3>2. temp' = writer[p].doc \/ writer' = [writer EXCEPT ![p].pc = "answer"]
        BY <1>2, <3>1 DEF WriteText
      <3>3. writer[p] \in Writing /\ writer \in [Procs -> {Idle} \cup Writing]
            /\ writer'[p].pc \in {"move", "answer"}
        BY <1>2, SessionStep DEF Session, TypeOK
      <3>4. writer' = [writer EXCEPT ![p].pc = "answer"] => writer'[p].pc = "answer"
        BY <3>3 DEF Writing
      <3>5. QED
        BY <2>3, <3>2, <3>3, <3>4
    <2>5. \A q \in Procs : writer'[q].pc \in {"write", "move"} => q = p
      BY <1>2, <2>2, SessionStep DEF Session, Writes
    <2>6. QED
      BY <2>1, <2>4, <2>5 DEF WholeInv, Busy, Writes
  <1>3. ASSUME NEW p \in Procs, Move(p) PROVE WholeInv'
    <2>1. ~mixed /\ Writes(p, "move") /\ file' \in {file, temp}
      BY <1>3 DEF Move, files
    <2>2. \A q \in Procs : Writes(q, "write") \/ Writes(q, "move") => q = p
      BY <2>1 DEF WholeInv, Busy, Writes
    <2>3. \A q \in Procs : writer'[q].pc \notin {"write", "move"}
      BY <1>3, <2>2, SessionStep DEF Session, Writes
    <2>4. QED
      BY <2>1, <2>3 DEF WholeInv, Busy, Writes
  <1>4. CASE UNCHANGED <<files, mixed>> /\ \A p \in Procs : writer'[p].pc \in {writer[p].pc, "idle", "open"}
    <2>1. Busy' \subseteq Busy
      BY <1>4 DEF Busy, Writes
    <2>2. QED
      BY <1>4, <2>1 DEF WholeInv, Writes, files
  <1>5. ASSUME NEW p \in Procs, Answer(p) PROVE WholeInv'
    <2>1. \A q \in Procs : writer'[q].pc \in {writer[q].pc, "idle"}
      BY <1>5, SessionStep DEF Session, Idle
    <2>2. QED
      BY <1>4, <1>5, <2>1 DEF Answer, history
  <1>6. ASSUME NEW p \in Procs, Start(p) \/ InitIsolation(p) \/ Kill(p) PROVE WholeInv'
    BY <1>4, <1>6, DisturbTypes DEF Start, InitIsolation, Kill, history
  <1>7. ASSUME NEW t \in Threads, Send(t) PROVE WholeInv'
    <2>1. writer' = [writer EXCEPT ![ProcessOf[t]] = [pc |-> "open", doc |-> call[t].doc, alone |-> TRUE, kept |-> FALSE]]
      BY <1>7 DEF Send
    <2>2. \A p \in Procs : writer'[p].pc \in {writer[p].pc, "open"}
      BY <2>1 DEF TypeOK
    <2>3. QED
      BY <1>4, <1>7, <2>2 DEF Send, history
  <1>8. ASSUME NEW t \in Threads, Modification(t), ~Send(t) PROVE WholeInv'
    BY <1>4, <1>8 DEF Modification, SetVariable, SetBlock, Modifies, Store, Check, Record, AssignBlock,
                      Build,
       history
  <1>9. CASE Crash
    BY <1>4, <1>9 DEF Crash, Idle, history
  <1>10. CASE UNCHANGED vars
    BY <1>4, <1>10 DEF vars, history
  <1>11. QED
    BY <1>1, <1>2, <1>3, <1>5, <1>6, <1>7, <1>8, <1>9, <1>10 DEF Next, Session

\* While one session writes at a time, the state file is always a whole document, wherever
\* the launcher dies or a write fails: the text goes to a file beside it, which is moved over
\* it once it is written (WriteEnvironmentState()).
THEOREM StateFileWhole == Spec => []StateFileIsWhole
  <1>1. Init => WholeInv
    BY EnvironmentAssumption DEF Init, WholeInv, Busy, Writes, Idle
  <1>2. WholeInv => StateFileIsWhole
    BY DEF WholeInv, StateFileIsWhole
  <1>3. QED
    BY <1>1, <1>2, WholeStep, EnvironmentTypes, PTL DEF Spec
-----------------------------------------------------------------------------
(* The modifications.                                                      *)

Pending(p) == writer[p].pc \in {"open", "write", "move"}

\* A document with every promise a process knows of.
Promised(p, doc) == \A x \in knows[p] : told[x] # Untold => doc[x] = told[x]

\* What a process knows, and what it reports, keeps the promises it knows of.
ProcessKeeps ==
    \A p \in Procs :
        /\ life[p] = "runs" => Promised(p, mods[p])
        /\ Pending(p) => Promised(p, writer[p].doc)
        /\ Reading(p) => Writes(p, "idle")

\* What a thread modifies was promised to nobody, unless with its own value, and the document
\* it built is not older than a promise.
ThreadKeeps ==
    \A t \in Threads : ~At(t, "idle") =>
        /\ life[ProcessOf[t]] = "runs"
        /\ \A x \in call[t].names \cap knows[ProcessOf[t]] : told[x] \in {Untold, call[t].env[x]}
        /\ At(t, "send") => Promised(ProcessOf[t], call[t].doc)
        /\ At(t, "assign") => call[t].names = Names

\* A session which nobody disturbed moves its own document.
AloneMoves ==
    \A p \in Busy : writer[p].alone =>
        /\ Busy = {p}
        /\ temp = IF Writes(p, "write") THEN Torn ELSE writer[p].doc

SurviveInv == TypeOK /\ ModificationsSurvive /\ ProcessKeeps /\ ThreadKeeps /\ AloneMoves

\* A step which starts a modification.
LEMMA SurviveModifies ==
    ASSUME SurviveInv, NEW t \in Threads, NEW changed \in SUBSET Names, NEW pc \in {"store", "assign"},
           NEW env \in Environments, Modifies(t, changed, pc, env),
           pc = "assign" => changed = Names
    PROVE  ModificationsSurvive' /\ ProcessKeeps' /\ ThreadKeeps' /\ AloneMoves'
  <1> USE DEF SurviveInv
  <1>1. UNCHANGED <<file, temp, life, mods, writer, knows>> /\ At(t,
                    "idle") /\ life[ProcessOf[t]] = "runs"
    BY DEF Modifies, files, shadow
  <1>2. \A x \in Names : told'[x] = (IF x \in changed THEN Untold ELSE told[x])
    BY DEF Modifies
  <1>3. /\ call'[t] = [pc |-> pc, env |-> env, names |-> changed]
        /\ \A s \in Threads \ {t} : call'[s] = call[s]
    BY DEF Modifies, TypeOK
  <1>4. call'[t].pc \notin {"idle", "send", "wait"} /\ call'[t].names = changed
    BY <1>3
  <1>5. \A p \in Procs : knows[p] \subseteq Names
    BY DEF TypeOK
  <1>6. ModificationsSurvive'
    BY <1>1, <1>2 DEF ModificationsSurvive, StateIn
  <1>7. ProcessKeeps'
    BY <1>1, <1>2, <1>3, <1>5 DEF ProcessKeeps, Promised, Pending, Reading, Writes
  <1>8. ThreadKeeps'
    <2>1. ASSUME NEW s \in Threads \ {t}, ~At(s, "idle")'
          PROVE  /\ life[ProcessOf[s]] = "runs"
                 /\ \A x \in call[s].names \cap knows[ProcessOf[s]] : told'[x] \in {Untold, call[s].env[x]}
                 /\ At(s, "send") => \A x \in knows[ProcessOf[s]] : told'[x] # Untold => call[s].doc[x] = told'[x]
                 /\ At(s, "assign") => call[s].names = Names
      BY <1>2, <1>3, <1>5, <2>1, EnvironmentAssumption DEF ThreadKeeps, Promised, At
    <2>2. \A x \in changed : told'[x] = Untold
      BY <1>2
    <2>3. QED
      BY <1>1, <1>3, <1>4, <2>1, <2>2 DEF ThreadKeeps, Promised, At
  <1>9. AloneMoves'
    BY <1>1 DEF AloneMoves, Busy, Writes
  <1>10. QED
    BY <1>6, <1>7, <1>8, <1>9

\* A step of a call which changes at most the table and what its process knows.
LEMMA SurviveCall ==
    ASSUME SurviveInv, NEW t \in Threads, call[t] # Idle,
           UNCHANGED <<file, temp, life, writer, told, knows>>,
           \A s \in Threads \ {t} : call'[s] = call[s],
           call'[t] # Idle => /\ call'[t].env = call[t].env /\ call'[t].names = call[t].names
                              /\ call'[t].pc \notin {"wait", "assign"}
                              /\ call'[t].pc = "send" => call'[t].doc = mods'[ProcessOf[t]],
           \A p \in Procs \ {ProcessOf[t]} : mods'[p] = mods[p],
           \A x \in Names : mods'[ProcessOf[t]][x] \in {mods[ProcessOf[t]][x]}
                                \cup (IF x \in call[t].names THEN {call[t].env[x]} ELSE {})
    PROVE  ModificationsSurvive' /\ ProcessKeeps' /\ ThreadKeeps' /\ AloneMoves'
  <1> USE DEF SurviveInv
  <1>0. ProcessOf[t] \in Procs /\ ~At(t, "idle") /\ life[ProcessOf[t]] = "runs"
    BY EnvironmentAssumption, CallTypes DEF ThreadKeeps, At
  <1>2. Promised(ProcessOf[t], mods'[ProcessOf[t]])
    <2> SUFFICES ASSUME NEW x \in knows[ProcessOf[t]], told[x] # Untold
                 PROVE  mods'[ProcessOf[t]][x] = told[x]
      BY DEF Promised
    <2>1. x \in Names
      BY <1>0 DEF TypeOK
    <2>2. mods[ProcessOf[t]][x] = told[x]
      BY <1>0 DEF ProcessKeeps, Promised
    <2>3. x \in call[t].names => call[t].env[x] = told[x]
      BY <1>0 DEF ThreadKeeps
    <2>4. QED
      BY <2>1, <2>2, <2>3
  <1>3. ModificationsSurvive'
    BY DEF ModificationsSurvive, StateIn
  <1>4. ASSUME NEW p \in Procs PROVE /\ life[p] = "runs" => Promised(p, mods'[p])
                                     /\ Pending(p) => Promised(p, writer[p].doc)
    BY <1>2 DEF ProcessKeeps
  <1>6. ProcessKeeps'
    BY <1>4 DEF ProcessKeeps, Promised, Pending, Reading, Writes
  <1>7. ThreadKeeps'
    <2>1. ASSUME NEW s \in Threads \ {t}, ~At(s, "idle")'
          PROVE  /\ life[ProcessOf[s]] = "runs"
                 /\ \A x \in call[s].names \cap knows[ProcessOf[s]] : told[x] \in {Untold, call[s].env[x]}
                 /\ At(s, "send") => Promised(ProcessOf[s], call[s].doc)
                 /\ At(s, "assign") => call[s].names = Names
      BY <2>1 DEF ThreadKeeps, At
    <2>2. ASSUME ~At(t, "idle")'
          PROVE  /\ life[ProcessOf[t]] = "runs"
                 /\ \A x \in call'[t].names \cap knows[ProcessOf[t]] : told[x] \in {Untold, call'[t].env[x]}
                 /\ call'[t].pc = "send" => Promised(ProcessOf[t], call'[t].doc)
                 /\ call'[t].pc # "assign"
      <3>1. call'[t] # Idle
        BY <2>2 DEF At, Idle
      <3>2. \A x \in call[t].names \cap knows[ProcessOf[t]] : told[x] \in {Untold, call[t].env[x]}
        BY <1>0 DEF ThreadKeeps
      <3>3. QED
        BY <1>0, <1>2, <3>1, <3>2
    <2>3. QED
      BY <2>1, <2>2 DEF ThreadKeeps, Promised, At
  <1>8. AloneMoves'
    BY DEF AloneMoves, Busy, Writes
  <1>9. QED
    BY <1>3, <1>6, <1>7, <1>8

LEMMA SurviveModification ==
    ASSUME SurviveInv, NEW t \in Threads, Modification(t)
    PROVE  ModificationsSurvive' /\ ProcessKeeps' /\ ThreadKeeps' /\ AloneMoves'
  <1> USE DEF SurviveInv
  <1>0. ProcessOf[t] \in Procs /\ mods \in [Procs -> Documents] /\ call \in [Threads -> {Idle} \cup Bare \cup Built]
    BY EnvironmentAssumption DEF TypeOK
  <1>1. CASE SetVariable(t)
    <2>1. PICK x \in Names, v \in Values \cup {Gone} : Modifies(t, {x}, "store", [y \in Names |-> v])
      BY <1>1, EnvironmentAssumption DEF SetVariable
    <2>2. [y \in Names |-> v] \in Environments
      BY DEF Environments
    <2>3. QED
      BY <2>1, <2>2, SurviveModifies
  <1>2. CASE SetBlock(t)
    <2>1. PICK env \in Environments : Modifies(t, Names, "assign", env)
      BY <1>2, EnvironmentAssumption DEF SetBlock
    <2>2. QED
      BY <2>1, SurviveModifies
  <1>3. CASE Store(t) \/ Check(t)
    <2>1. call[t] # Idle
      BY <1>3, CallTypes DEF Store, Check, At
    <2>2. UNCHANGED <<file, temp, life, writer, told, knows, mods>>
      BY <1>3 DEF Store, Check, files, shadow, history
    <2>3. /\ \A s \in Threads \ {t} : call'[s] = call[s]
          /\ call'[t] # Idle => /\ call'[t].env = call[t].env /\ call'[t].names = call[t].names
                                /\ call'[t].pc \notin {"assign", "send", "wait"}
      BY <1>3, <2>1, CallGoes DEF Store, Check, Stages
    <2>4. QED
      BY <2>1, <2>2, <2>3, SurviveCall
  <1>4. CASE Record(t) \/ AssignBlock(t)
    <2>1. call[t] # Idle
      BY <1>4, CallTypes DEF Record, AssignBlock, At
    <2>2. UNCHANGED <<file, temp, life, writer, told, knows>>
      BY <1>4 DEF Record, AssignBlock, files, history
    <2>3. /\ \A s \in Threads \ {t} : call'[s] = call[s]
          /\ call'[t] # Idle => /\ call'[t].env = call[t].env /\ call'[t].names = call[t].names
                                /\ call'[t].pc \notin {"assign", "send", "wait"}
      BY <1>4, <2>1, CallGoes DEF Record, AssignBlock, Stages
    <2>4. \A p \in Procs \ {ProcessOf[t]} : mods'[p] = mods[p]
      BY <1>0, <1>4 DEF Record, AssignBlock
    <2>5. \A x \in Names : mods'[ProcessOf[t]][x] \in {mods[ProcessOf[t]][x]}
                                \cup (IF x \in call[t].names THEN {call[t].env[x]} ELSE {})
      <3>1. CASE Record(t)
        BY <1>0, <3>1 DEF Record
      <3>2. CASE AssignBlock(t)
        <4>1. call[t].names = Names
          BY <3>2 DEF AssignBlock, ThreadKeeps, At
        <4>2. QED
          BY <1>0, <3>2, <4>1 DEF AssignBlock
      <3>3. QED
        BY <1>4, <3>1, <3>2
    <2>6. QED
      BY <2>1, <2>2, <2>3, <2>4, <2>5, SurviveCall
  <1>5. CASE Build(t)
    <2>1. call[t] # Idle
      BY <1>5, CallTypes DEF Build, At
    <2>2. UNCHANGED <<file, temp, life, writer, told, knows, mods>>
      BY <1>5 DEF Build, files, shadow, history
    <2>3. /\ \A s \in Threads \ {t} : call'[s] = call[s]
          /\ call'[t] = [pc |-> "send", env |-> call[t].env, names |-> call[t].names, doc |-> mods[ProcessOf[t]]]
      BY <1>0, <1>5 DEF Build
    <2>4. QED
      BY <2>1, <2>2, <2>3, SurviveCall
  <1>6. CASE Send(t)
    <2>1. At(t, "send") /\ Writes(ProcessOf[t], "idle") /\ call[t] \in Built
          /\ UNCHANGED <<file, temp, life, mods, told, knows>>
      BY <1>6 DEF Send, At, TypeOK, files, shadow, history
    <2>2. call'[t] = [call[t] EXCEPT !.pc = "wait"] /\ \A s \in Threads \ {t} : call'[s] = call[s]
      BY <1>0, <1>6 DEF Send, Goto
    <2>3. call'[t].pc = "wait" /\ call'[t].doc = call[t].doc /\ call'[t].names = call[t].names
          /\ call'[t].env = call[t].env
      BY <2>1, <2>2 DEF Built
    <2>4. writer'[ProcessOf[t]] = [pc |-> "open", doc |-> call[t].doc, alone |-> TRUE, kept |-> FALSE]
          /\ \A p \in Procs \ {ProcessOf[t]} : writer'[p] = writer[p]
      BY <1>0, <1>6 DEF Send, TypeOK
    <2>5. Promised(ProcessOf[t], call[t].doc) /\ life[ProcessOf[t]] = "runs"
      BY <2>1 DEF ThreadKeeps, At
    <2>6. ModificationsSurvive'
      BY <2>1 DEF ModificationsSurvive, StateIn
    <2>7. ProcessKeeps'
      <3>1. ASSUME NEW p \in Procs \ {ProcessOf[t]}
            PROVE  /\ life'[p] = "runs" => Promised(p, mods[p])'
                   /\ Pending(p)' => Promised(p, writer[p].doc)'
                   /\ Reading(p)' => Writes(p, "idle")'
        BY <2>1, <2>4 DEF ProcessKeeps, Promised, Pending, Reading, Writes
      <3>2. Promised(ProcessOf[t], mods[ProcessOf[t]])' /\ Promised(ProcessOf[t], writer[ProcessOf[t]].doc)'
        BY <1>0, <2>1, <2>4, <2>5 DEF ProcessKeeps, Promised
      <3>3. ~Reading(ProcessOf[t])'
        BY <2>1, <2>5 DEF Reading
      <3>4. QED
        BY <3>1, <3>2, <3>3 DEF ProcessKeeps
    <2>8. ThreadKeeps'
      <3>1. ASSUME NEW s \in Threads, ~At(s, "idle")'
            PROVE  /\ ~At(s, "idle") /\ call'[s].names = call[s].names /\ call'[s].env = call[s].env
                   /\ At(s, "send")' => At(s, "send") /\ call'[s].doc = call[s].doc
                   /\ At(s, "assign")' => At(s, "assign")
        BY <2>1, <2>2, <2>3, <3>1 DEF At
      <3>2. QED
        BY <2>1, <3>1 DEF ThreadKeeps, Promised
    <2>9. AloneMoves'
      <3>1. Busy' = Busy /\ ProcessOf[t] \notin Busy
        BY <1>0, <2>1, <2>4 DEF Busy, Writes
      <3>2. QED
        BY <2>1, <2>4, <3>1 DEF AloneMoves, Busy, Writes
    <2>10. QED
      BY <2>6, <2>7, <2>8, <2>9
  <1>7. QED
    BY <1>1, <1>2, <1>3, <1>4, <1>5, <1>6 DEF Modification

\* A process which does not run keeps no thread busy.
LEMMA StoppedIdle ==
    ASSUME SurviveInv, NEW t \in Threads, life[ProcessOf[t]] # "runs"
    PROVE  At(t, "idle")
  BY DEF SurviveInv, ThreadKeeps

LEMMA SurviveProcess ==
    ASSUME SurviveInv, NEW p \in Procs, Start(p) \/ InitIsolation(p) \/ Kill(p)
    PROVE  ModificationsSurvive' /\ ProcessKeeps' /\ ThreadKeeps' /\ AloneMoves'
  <1> USE DEF SurviveInv
  <1>1. CASE Start(p)
    <2>1. UNCHANGED <<file, temp, mods, call, told, knows>> /\ life[p] = "none" /\ Writes(p, "idle")
          /\ life'[p] # "runs" /\ writer' = Disturbs /\ \A q \in Procs \ {p} : life'[q] = life[q]
      BY <1>1 DEF Start, files, shadow, history, TypeOK
    <2>2. \A q \in Procs : /\ writer'[q].pc = writer[q].pc
                           /\ q \in Busy => writer'[q].doc = writer[q].doc /\ ~writer'[q].alone
                           /\ q \notin Busy => writer'[q] = writer[q]
      BY <2>1, DisturbTypes
    <2>3. \A q \in Procs : Pending(q) => writer'[q].doc = writer[q].doc
      BY <2>2
    <2>4. ModificationsSurvive'
      BY <2>1 DEF ModificationsSurvive, StateIn
    <2>5. ProcessKeeps'
      <3>1. ASSUME NEW q \in Procs \ {p}
            PROVE  /\ life'[q] = "runs" => Promised(q, mods[q])'
                   /\ Reading(q)' => Writes(q, "idle")'
        BY <2>1, <2>2 DEF ProcessKeeps, Promised, Reading, Writes
      <3>2. ASSUME NEW q \in Procs PROVE Pending(q)' => Promised(q, writer[q].doc)'
        BY <2>1, <2>2, <2>3 DEF ProcessKeeps, Promised, Pending
      <3>3. life'[p] # "runs" /\ Writes(p, "idle")'
        BY <2>1, <2>2 DEF Writes
      <3>4. QED
        BY <3>1, <3>2, <3>3 DEF ProcessKeeps
    <2>6. ThreadKeeps'
      BY <2>1, StoppedIdle, EnvironmentAssumption DEF ThreadKeeps, Promised, At
    <2>7. AloneMoves'
      BY <2>1, <2>2 DEF AloneMoves, Busy, Writes
    <2>8. QED
      BY <2>4, <2>5, <2>6, <2>7
  <1>2. CASE InitIsolation(p)
    <2>1. UNCHANGED <<file, temp, writer, call,
                      told>> /\ Reading(p) /\ life' = [life EXCEPT ![p] = "runs"]
          /\ mods' = [mods EXCEPT ![p] = StateIn(file)]
          /\ knows' = [knows EXCEPT ![p] = {x \in Names : told[x] # Untold}]
      BY <1>2 DEF InitIsolation, files
    <2>2. \A t \in Threads : ProcessOf[t] = p => At(t, "idle")
      BY <2>1, StoppedIdle DEF Reading
    <2>3. Writes(p, "idle")
      BY <2>1 DEF ProcessKeeps
    <2>4. ModificationsSurvive'
      BY <2>1 DEF ModificationsSurvive, StateIn
    <2>5. ProcessKeeps'
      <3>1. /\ life'[p] = "runs" /\ mods'[p] = StateIn(file) /\ knows'[p] = {x \in Names : told[x] # Untold}
            /\ \A q \in Procs \ {p} : life'[q] = life[q] /\ mods'[q] = mods[q] /\ knows'[q] = knows[q]
        BY <2>1 DEF TypeOK
      <3>2. Promised(p, mods[p])'
        BY <2>1, <3>1 DEF Promised, ModificationsSurvive
      <3>3. ~Pending(p)' /\ Writes(p, "idle")'
        BY <2>1, <2>3 DEF Pending, Writes
      <3>4. ASSUME NEW q \in Procs \ {p}
            PROVE  /\ life'[q] = "runs" => Promised(q, mods[q])'
                   /\ Pending(q)' => Promised(q, writer[q].doc)'
                   /\ Reading(q)' => Writes(q, "idle")'
        BY <2>1, <3>1 DEF ProcessKeeps, Promised, Pending, Reading, Writes
      <3>5. QED
        BY <3>2, <3>3, <3>4 DEF ProcessKeeps
    <2>6. ThreadKeeps'
      BY <2>1, <2>2 DEF ThreadKeeps, Promised, At, TypeOK
    <2>7. AloneMoves'
      BY <2>1 DEF AloneMoves, Busy, Writes
    <2>8. QED
      BY <2>4, <2>5, <2>6, <2>7
  <1>3. CASE Kill(p)
    <2>1. UNCHANGED <<file, temp, writer, told, knows>> /\ life' = [life EXCEPT ![p] = "none"]
          /\ mods' = [q \in Procs |-> IF q \in {p} THEN NoDocument ELSE mods[q]]
          /\ call' = [t \in Threads |-> IF ProcessOf[t] = p THEN Idle ELSE call[t]]
      BY <1>3 DEF Kill, Forget, files, history
    <2>2. ModificationsSurvive'
      BY <2>1 DEF ModificationsSurvive, StateIn
    <2>3. ProcessKeeps'
      <3>1. life'[p] = "none"
        BY <2>1 DEF TypeOK
      <3>2. ASSUME NEW q \in Procs \ {p}
            PROVE  /\ life'[q] = "runs" => Promised(q, mods[q])'
                   /\ Reading(q)' => Writes(q, "idle")'
        <4>1. life'[q] = life[q] /\ mods'[q] = mods[q]
          BY <2>1 DEF TypeOK
        <4>2. QED
          BY <2>1, <4>1 DEF ProcessKeeps, Promised, Reading, Writes
      <3>3. ASSUME NEW q \in Procs PROVE Pending(q)' => Promised(q, writer[q].doc)'
        BY <2>1 DEF ProcessKeeps, Promised, Pending
      <3>4. ~Reading(p)'
        BY <3>1 DEF Reading
      <3>5. QED
        BY <3>1, <3>2, <3>3, <3>4 DEF ProcessKeeps
    <2>4. ThreadKeeps'
      <3>1. ASSUME NEW t \in Threads, ~At(t, "idle")'
            PROVE  /\ ProcessOf[t] \in Procs \ {p} /\ call'[t] = call[t] /\ ~At(t, "idle")
                   /\ life'[ProcessOf[t]] = life[ProcessOf[t]] /\ mods'[ProcessOf[t]] = mods[ProcessOf[t]]
        <4>1. ProcessOf[t] \in Procs
          BY EnvironmentAssumption
        <4>2. ProcessOf[t] # p
          BY <2>1, <3>1 DEF At, Idle
        <4>3. QED
          BY <2>1, <3>1, <4>1, <4>2 DEF At, TypeOK
      <3>2. QED
        BY <2>1, <3>1 DEF ThreadKeeps, Promised, At
    <2>5. AloneMoves'
      BY <2>1 DEF AloneMoves, Busy, Writes
    <2>6. QED
      BY <2>2, <2>3, <2>4, <2>5
  <1>4. QED
    BY <1>1, <1>2, <1>3

LEMMA SurviveCrash ==
    ASSUME SurviveInv, Crash
    PROVE  ModificationsSurvive' /\ ProcessKeeps' /\ ThreadKeeps' /\ AloneMoves'
  <1> USE DEF SurviveInv
  <1>1. UNCHANGED <<file, temp, told, knows>>
    BY DEF Crash, files, history
  <1>2. /\ \A p \in Procs : life'[p] = "none" /\ writer'[p].pc = "idle"
        /\ \A t \in Threads : call'[t].pc = "idle"
    BY DEF Crash, Idle
  <1>3. QED
    BY <1>1, <1>2 DEF ModificationsSurvive, StateIn, ProcessKeeps, Pending, Reading, ThreadKeeps, At, AloneMoves,
       Busy, Writes

\* The session of a process opens or writes the temporary file, or answers.
LEMMA SurviveWriting ==
    ASSUME SurviveInv, NEW p \in Procs, Open(p) \/ WriteText(p) \/ Answer(p)
    PROVE  ModificationsSurvive' /\ ProcessKeeps' /\ ThreadKeeps' /\ AloneMoves'
  <1> USE DEF SurviveInv
  <1>1. UNCHANGED <<file, life, mods, told, knows>>
    BY DEF Open, WriteText, Answer, files, shadow, history
  <1>2. ModificationsSurvive'
    BY <1>1 DEF ModificationsSurvive, StateIn
  <1>3. /\ \A q \in Procs \ {p} : writer'[q].pc = writer[q].pc /\ (writer'[q] # Idle => writer'[q].doc = writer[q].doc)
        /\ writer'[p] # Idle => writer'[p].doc = writer[p].doc
        /\ Pending(p)' => Pending(p)
        /\ Writes(p, "idle")' <=> Answer(p)
    BY SessionStep DEF Session, Pending, Writes, Idle, Open, WriteText, Answer
  <1>4. \A q \in Procs : Pending(q)' => writer'[q].doc = writer[q].doc /\ Pending(q)
    BY <1>3 DEF Pending, Idle
  <1>5. \A t \in Threads : \/ call'[t] = call[t]
                           \/ /\ Answer(p) /\ ProcessOf[t] = p /\ ~At(t, "idle")
                              /\ \/ At(t, "idle")'
                                 \/ /\ call'[t].env = call[t].env /\ call'[t].names = call[t].names
                                    /\ call'[t].pc \notin {"assign", "send", "wait"}
    <2>1. CASE UNCHANGED call
      BY <2>1
    <2>2. CASE Answer(p) /\ ~UNCHANGED call
      <3>1. PICK t \in Threads : Returns(t) /\ ProcessOf[t] = p /\ At(t, "wait") /\ call[t] # Idle
        BY <2>2, CallTypes DEF Answer, Asker, At, Idle
      <3>2. QED
        BY <2>2, <3>1, CallGoes DEF At, Idle
    <2>3. QED
      BY <2>1, <2>2 DEF Open, WriteText
  <1>6. ProcessKeeps'
    <2>1. ASSUME NEW q \in Procs, Reading(q)'
          PROVE  Writes(q, "idle")'
      <3>1. Writes(q, "idle")
        BY <1>1, <2>1 DEF ProcessKeeps, Reading
      <3>2. q # p
        BY <3>1 DEF Open, WriteText, Answer, Writes
      <3>3. QED
        BY <1>3, <3>1, <3>2 DEF Writes
    <2>2. ASSUME NEW q \in Procs
          PROVE  /\ life'[q] = "runs" => Promised(q, mods[q])'
                 /\ Pending(q)' => Promised(q, writer[q].doc)'
      BY <1>1, <1>4 DEF ProcessKeeps, Promised
    <2>3. QED
      BY <2>1, <2>2 DEF ProcessKeeps
  <1>7. ThreadKeeps'
    <2>1. ASSUME NEW t \in Threads, ~At(t, "idle")'
          PROVE  /\ life[ProcessOf[t]] = "runs"
                 /\ \A x \in call'[t].names \cap knows[ProcessOf[t]] : told[x] \in {Untold, call'[t].env[x]}
                 /\ At(t, "send")' => Promised(ProcessOf[t], call'[t].doc)
                 /\ At(t, "assign")' => call'[t].names = Names
      <3>1. CASE call'[t] = call[t]
        BY <2>1, <3>1 DEF ThreadKeeps, At
      <3>2. CASE call'[t] # call[t]
        BY <1>5, <2>1, <3>2 DEF ThreadKeeps, At
      <3>3. QED
        BY <3>1, <3>2
    <2>2. QED
      BY <1>1, <2>1 DEF ThreadKeeps, Promised
  <1>8. AloneMoves'
    <2>1. CASE Open(p)
      <3>1. temp' = Torn /\ writer'[p].pc = "write"
        BY <2>1, SessionStep DEF Open, Session
      <3>2. \A q \in Procs \ {p} : q \in Busy' => q \in Busy /\ ~writer'[q].alone
        BY <2>1, SessionStep DEF Session, Busy, Writes
      <3>3. writer'[p].alone => Busy' = {p}
        BY <2>1, <3>1, <3>2, SessionStep DEF Session, Busy, Writes
      <3>4. QED
        BY <3>1, <3>2, <3>3 DEF AloneMoves, Busy, Writes
    <2>2. CASE WriteText(p)
      <3>1. p \in Busy /\ writer[p] \in Writing /\ writer'[p].alone = writer[p].alone
            /\ writer'[p].pc \in {"move", "answer"}
        BY <2>2, SessionStep DEF Session, WriteText, Busy, Writes
      <3>2. \A q \in Procs \ {p} : writer'[q].alone => q \notin Busy'
        <4>1. ASSUME NEW q \in Procs \ {p}, q \in Busy', writer'[q].alone PROVE FALSE
          <5>1. q \in Busy /\ writer[q].alone
            BY <1>3, <2>2, <4>1, SessionStep DEF Session, Busy, Writes, Idle
          <5>2. QED
            BY <3>1, <4>1, <5>1 DEF AloneMoves
        <4>2. QED
          BY <4>1
      <3>3. ASSUME p \in Busy', writer'[p].alone
            PROVE  Busy' = {p} /\ ~Writes(p, "write")' /\ temp' = writer'[p].doc
        <4>1. Busy = {p} /\ temp = Torn
          BY <2>2, <3>1, <3>3 DEF AloneMoves, WriteText
        <4>2. writer'[p].pc = "move"
          BY <3>1, <3>3 DEF Busy, Writes
        <4>3. writer' # [writer EXCEPT ![p].pc = "answer"]
          BY <3>1, <4>2 DEF TypeOK, Writing
        <4>4. temp' = writer[p].doc
          BY <2>2, <4>1, <4>3 DEF WriteText
        <4>5. Busy' = {p}
          BY <1>3, <3>3, <4>1 DEF Busy, Writes
        <4>6. QED
          BY <1>3, <4>2, <4>4, <4>5 DEF Writes, Idle
      <3>4. QED
        BY <3>2, <3>3 DEF AloneMoves, Busy
    <2>3. CASE Answer(p)
      <3>1. UNCHANGED temp /\ p \notin Busy /\ writer' = [writer EXCEPT ![p] = Idle]
        BY <2>3 DEF Answer, files, Busy, Writes
      <3>2. Busy' = Busy /\ \A q \in Busy : writer'[q] = writer[q]
        BY <3>1 DEF Busy, Writes, Idle, TypeOK
      <3>3. QED
        BY <3>1, <3>2 DEF AloneMoves, Writes
    <2>4. QED
      BY <2>1, <2>2, <2>3
  <1>9. QED
    BY <1>2, <1>6, <1>7, <1>8

\* What a move promises is what the document of the caller holds, and every earlier promise
\* it keeps is one the document keeps.
LEMMA MovePromises ==
    ASSUME SurviveInv, NEW p \in Procs, Move(p)
    PROVE  \E ours \in SUBSET Names :
             /\ \A x \in ours : /\ told'[x] = writer[p].doc[x]
                                /\ mods[p][x] = told'[x]
                                /\ \A t \in Threads : ProcessOf[t] = p /\ ~At(t, "idle") =>
                                      /\ x \in call[t].names => call[t].env[x] = told'[x]
                                      /\ At(t, "send") => call[t].doc[x] = told'[x]
             /\ \A x \in Names \ ours : told'[x] \in {told[x], Untold}
             /\ \A q \in Procs : knows'[q] = IF q = p THEN knows[q] \cup ours ELSE knows[q] \ ours
             /\ ModificationsSurvive'
  <1> USE DEF SurviveInv
  <1>1. p \in Busy /\ writer[p] \in Writing /\ Writes(p, "move") /\ Pending(p)
    BY SessionStep DEF Session, Move, Busy, Writes, Pending
  <1>2. CASE ~CanMove(p)
    <2>1. UNCHANGED <<file, told, knows>>
      BY <1>2 DEF Move, files
    <2>2. ModificationsSurvive'
      BY <2>1 DEF ModificationsSurvive, StateIn
    <2>3. WITNESS {} \in SUBSET Names
    <2>4. QED
      BY <2>1, <2>2 DEF TypeOK
  <1>3. CASE CanMove(p) /\ ~writer[p].alone
    <2>1. /\ told' = [x \in Names |-> Untold]
          /\ knows' = [q \in Procs |-> IF q = p THEN knows[q] \cup {} ELSE knows[q] \ {}]
      BY <1>3 DEF Move
    <2>2. ModificationsSurvive'
      BY <2>1 DEF ModificationsSurvive
    <2>3. WITNESS {} \in SUBSET Names
    <2>4. QED
      BY <2>1, <2>2
  <1>4. CASE CanMove(p) /\ writer[p].alone
    <2>1. /\ file' = temp
          /\ told' = [x \in Names |-> IF x \in Ours(p) THEN writer[p].doc[x]
                                      ELSE IF x \in knows[p] THEN told[x] ELSE Untold]
          /\ knows' = [q \in Procs |-> IF q = p THEN knows[q] \cup Ours(p) ELSE knows[q] \ Ours(p)]
      BY <1>4 DEF Move
    <2>2. temp = writer[p].doc
      BY <1>1, <1>4 DEF AloneMoves, Writes
    <2>3. writer[p].doc \in Documents /\ StateIn(writer[p].doc) = writer[p].doc
      BY <1>1, EnvironmentAssumption DEF Writing, StateIn
    <2>4. \A x \in knows[p] : told[x] # Untold => writer[p].doc[x] = told[x]
      BY <1>1 DEF ProcessKeeps, Promised
    <2>5. StateIn(file)' = writer[p].doc
      BY <2>1, <2>2, <2>3 DEF StateIn
    <2>6. ModificationsSurvive'
      BY <2>1, <2>4, <2>5 DEF ModificationsSurvive
    <2>7. Ours(p) \in SUBSET Names
      BY DEF Ours
    <2>8. ASSUME NEW x \in Ours(p), NEW s \in Threads, ProcessOf[s] = p, ~At(s, "idle")
          PROVE  /\ mods[p][x] = writer[p].doc[x]
                 /\ x \in call[s].names => call[s].env[x] = writer[p].doc[x]
                 /\ At(s, "send") => call[s].doc[x] = writer[p].doc[x]
      <3>1. PICK t \in Asker(p) :
              /\ x \in call[t].names /\ writer[p].doc[x] = call[t].env[x] /\ mods[p][x] = call[t].env[x]
              /\ \A r \in Threads \ {t} : ProcessOf[r] = p => ~Disputes(r, x, call[t].env[x])
        BY <2>8 DEF Ours
      <3>2. CASE s = t
        BY <3>1, <3>2 DEF Asker, At
      <3>3. CASE s # t
        BY <2>8, <3>1, <3>3 DEF Disputes
      <3>4. QED
        BY <3>2, <3>3
    <2>9. \A x \in Ours(p) : mods[p][x] = writer[p].doc[x] /\ told'[x] = writer[p].doc[x]
      BY <2>1, <2>7 DEF Ours
    <2>10. WITNESS Ours(p) \in SUBSET Names
    <2>11. QED
      BY <2>1, <2>6, <2>7, <2>8, <2>9
  <1>5. QED
    BY <1>2, <1>3, <1>4

LEMMA SurviveMove ==
    ASSUME SurviveInv, NEW p \in Procs, Move(p)
    PROVE  ModificationsSurvive' /\ ProcessKeeps' /\ ThreadKeeps' /\ AloneMoves'
  <1> USE DEF SurviveInv
  <1>1. PICK ours \in SUBSET Names :
             /\ \A x \in ours : /\ told'[x] = writer[p].doc[x]
                                /\ mods[p][x] = told'[x]
                                /\ \A t \in Threads : ProcessOf[t] = p /\ ~At(t, "idle") =>
                                      /\ x \in call[t].names => call[t].env[x] = told'[x]
                                      /\ At(t, "send") => call[t].doc[x] = told'[x]
             /\ \A x \in Names \ ours : told'[x] \in {told[x], Untold}
             /\ \A q \in Procs : knows'[q] = IF q = p THEN knows[q] \cup ours ELSE knows[q] \ ours
             /\ ModificationsSurvive'
    BY MovePromises
  <1>2. UNCHANGED <<life, mods, call>> /\ Writes(p, "move") /\ \A q \in Procs : knows[q] \subseteq Names
    BY DEF Move, shadow, TypeOK
  <1>3. writer'[p].pc = "answer" /\ \A q \in Procs \ {p} : writer'[q] = writer[q]
    BY SessionStep DEF Session, Move, TypeOK
  <1>4. ASSUME NEW q \in Procs, NEW x \in knows'[q] PROVE
          /\ x \in Names
          /\ \/ q = p /\ x \in ours
             \/ x \in knows[q] /\ told'[x] \in {told[x], Untold}
    BY <1>1, <1>2
  <1>5. ProcessKeeps'
    <2>1. ASSUME NEW q \in Procs, life[q] = "runs" PROVE Promised(q, mods[q])'
      BY <1>1, <1>2, <1>4, <2>1 DEF ProcessKeeps, Promised
    <2>2. ASSUME NEW q \in Procs PROVE Pending(q)' => Promised(q, writer[q].doc)'
      <3>1. CASE q = p
        BY <1>3, <3>1 DEF Pending
      <3>2. CASE q # p
        BY <1>2, <1>3, <1>4, <3>2 DEF ProcessKeeps, Promised, Pending
      <3>3. QED
        BY <3>1, <3>2
    <2>3. ASSUME NEW q \in Procs, Reading(q)' PROVE Writes(q, "idle")'
      <3>1. Writes(q, "idle") /\ q # p
        BY <1>2, <2>3 DEF ProcessKeeps, Reading, Writes
      <3>2. QED
        BY <1>3, <3>1 DEF Writes
    <2>4. QED
      BY <1>2, <2>1, <2>2, <2>3 DEF ProcessKeeps
  <1>6. ThreadKeeps'
    <2>1. ASSUME NEW t \in Threads, ~At(t, "idle"), NEW x \in knows'[ProcessOf[t]]
          PROVE  /\ x \in call[t].names => told'[x] \in {Untold, call[t].env[x]}
                 /\ At(t, "send") /\ told'[x] # Untold => call[t].doc[x] = told'[x]
      <3>1. ProcessOf[t] \in Procs
        BY EnvironmentAssumption
      <3>2. CASE ProcessOf[t] = p /\ x \in ours
        BY <1>1, <2>1, <3>2
      <3>3. CASE x \in knows[ProcessOf[t]] /\ told'[x] \in {told[x], Untold}
        BY <2>1, <3>3 DEF ThreadKeeps, Promised
      <3>4. QED
        BY <1>4, <2>1, <3>1, <3>2, <3>3
    <2>2. QED
      BY <1>2, <2>1 DEF ThreadKeeps, Promised, At
  <1>7. AloneMoves'
    <2>1. p \in Busy /\ Busy' = Busy \ {p}
      BY <1>2, <1>3 DEF Busy, Writes
    <2>2. \A q \in Busy' : ~writer'[q].alone
      BY <1>3, <2>1 DEF AloneMoves, Busy
    <2>3. QED
      BY <2>2 DEF AloneMoves
  <1>8. QED
    BY <1>1, <1>5, <1>6, <1>7

LEMMA SurviveInit == Init => SurviveInv
  <1> SUFFICES ASSUME Init PROVE SurviveInv
    OBVIOUS
  <1>1. TypeOK
    BY TypeInit
  <1>2. /\ \A x \in Names : told[x] = Untold
        /\ \A p \in Procs : knows[p] = {} /\ life[p] = "none" /\ writer[p].pc = "idle"
        /\ \A t \in Threads : call[t].pc = "idle"
    BY DEF Init, Idle
  <1>3. QED
    BY <1>1, <1>2 DEF SurviveInv, ModificationsSurvive, ProcessKeeps, ThreadKeeps, AloneMoves, Promised,
       Pending, Reading, At, Busy, Writes

LEMMA SurviveStep ==
    ASSUME SurviveInv, [Next]_vars
    PROVE  SurviveInv'
  <1>1. TypeOK'
    BY TypeStep DEF SurviveInv
  <1>2. CASE UNCHANGED vars
    BY <1>1, <1>2 DEF SurviveInv, vars, files, shadow, history, ModificationsSurvive, StateIn,
                      ProcessKeeps,
       ThreadKeeps, AloneMoves, Promised, Pending, Reading, At, Busy, Writes
  <1>3. CASE Next
    BY <1>1, <1>3, SurviveModification, SurviveProcess, SurviveWriting, SurviveMove, SurviveCrash
    DEF Next, Session, SurviveInv
  <1>4. QED
    BY <1>2, <1>3

\* "The answer is sent after the document is on disk: the sandbox relies on the answer to know
\* that its modifications survive the end of the run" (MsgEnvironment): the next run finds what
\* a finished modification was told, whatever processes, of any number of threads, and the
\* launcher die, modify or report.  A modification is told nothing of a variable while another
\* thread of its process modifies it too or holds an older document of it, which the code writes
\* over the newer one (PersistState()), nor when another session wrote at the time.
THEOREM ModificationsKept == Spec => []ModificationsSurvive
  <1>1. SurviveInv /\ [Next]_vars => SurviveInv'
    BY SurviveStep
  <1>2. SurviveInv => ModificationsSurvive
    BY DEF SurviveInv
  <1>3. QED
    BY <1>1, <1>2, SurviveInit, PTL DEF Spec
=============================================================================
