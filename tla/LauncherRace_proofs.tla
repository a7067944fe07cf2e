------------------------ MODULE LauncherRace_proofs ---------------------------
(* The race of the launchers for the control pipe, for any number of launchers, *)
(* any budget and any faults. Two facts carry the theorems. A server which      *)
(* accepts holds the name of the pipe at every step, unless an instance may be  *)
(* missing for a while: the sandbox is mounted below it only. And whoever       *)
(* started the programs of a request, and did not die, either has the answer on *)
(* its way to a launcher which waits for it, or the launcher read it and left,   *)
(* or gave up waiting: then its request was with this server and no other one.  *)
EXTENDS LauncherRace, FiniteSetTheorems, TLAPS

MasterPlaces == {"prepare", "serve", "end", "stop", "closing"}

Places == {"race", "probe", "connect", "verify", "call", "prepare", "serve", "end", "stop",
           "closing", "left"}
Codes == {"none", "ok", "refused", "failed", "timeout", "unanswered", "denied", "mismatch", "died",
          "crashed"}
Ats == {"none", "pipe", "session", "gone", "broken"}

\* A launcher whose answer did not come in time; its request may still be with the server.
GaveUp(l) == pc[l] = "left" /\ exit[l] = "unanswered"

\* What a launcher says of itself agrees with its connection: it has one while it checks
\* the server or waits for an answer, and it is asked or answered once at a time.
CallerFits(l) ==
    /\ link[l].at # "none" => link[l].to \in Launchers /\ pc[l] \in {"verify", "call", "left"}
    /\ pc[l] \in {"verify", "call"} => link[l].at # "none"
    /\ answer[l] # "none" => pc[l] = "call" /\ link[l].at \in {"session", "broken"}
    /\ l \in asked => /\ answer[l] = "none"
                     /\ \/ pc[l] = "call" /\ link[l].at \in {"pipe", "session"}
                        \/ GaveUp(l) /\ link[l].at \in {"pipe", "session", "gone"}
    /\ link[l].at = "gone" => pc[l] = "left"
    /\ pc[l] \in {"race", "probe", "connect", "verify", "call", "prepare", "serve"} => exit[l] = "none"
    /\ exit[l] = "crashed" => pc[l] = "left"
    /\ l \in accepts => pc[l] \in {"prepare", "serve", "end", "stop"}
    /\ failures[l].row > failures[l].ever => l \notin accepts /\ pc[l] \in MasterPlaces \cup {"left"}

\* An instance which is taken is taken by somebody.
IsOn(l, m, at) == link[l].to = m /\ link[l].at = at
TakenIsLinked(m) == listener[m] = "taken" => \E l \in Launchers : IsOn(l, m, "pipe")

CallerInv == TypeOK /\ (\A l \in Launchers : CallerFits(l)) /\ (\A m \in Launchers : TakenIsLinked(m))

\* A launcher whose programs a living server m started.
StartIsKnown(m, l) ==
    \/ m = l /\ pc[l] \in {"serve", "end", "stop", "closing", "left"} /\ exit[l] \in {"none", "ok", "died"}
    \/ m # l /\ pc[l] = "call" /\ answer[l] = "started" /\ link[l].to = m
    \/ m # l /\ pc[l] = "left" /\ exit[l] = "ok"
    \/ m # l /\ GaveUp(l) /\ link[l].to = m /\ l \notin asked

StartsAreKnown ==
    \A l \in Launchers :
        /\ \A m \in Starters(l) : StartIsKnown(m, l)
        /\ \A m, n \in Starters(l) : m = n
        /\ pc[l] = "serve" \/ answer[l] = "started" \/ exit[l] = "ok"
              => \E m \in Launchers : <<m, l>> \in served

StartInv == CallerInv /\ StartsAreKnown

\* Who accepts holds the name, and is alone; the sandbox is mounted below it.
HolderIsAlone ==
    faults \subseteq {"crash", "slow"} =>
        /\ \A m \in Launchers : pc[m] \in {"prepare", "serve", "end", "stop"} <=> m \in accepts
        /\ \A m \in accepts : HoldsName(m)
        /\ \A m, n \in accepts : m = n
        /\ \A m \in mounted : pc[m] \in {"prepare", "serve", "end"}

HolderInv == CallerInv /\ HolderIsAlone

\* A launcher moves to a place, or leaves with a code.
LEMMA GoesTypes ==
    ASSUME TypeOK, NEW l \in Launchers, NEW from, NEW to \in Places, Goes(l, from, to)
    PROVE  pc' \in [Launchers -> Places]
    BY DEF TypeOK, Goes, Places

LEMMA LeavesTypes ==
    ASSUME TypeOK, NEW l \in Launchers, NEW code \in Codes, Leaves(l, code)
    PROVE  pc' \in [Launchers -> Places] /\ exit' \in [Launchers -> Codes]
<1>1. pc \in [Launchers -> Places] /\ exit \in [Launchers -> Codes] /\ "left" \in Places
    BY DEF TypeOK, Places, Codes
<1>q. QED
    BY <1>1 DEF Leaves

\* Another race, or the end of the budget.
LEMMA RetryTypes ==
    ASSUME TypeOK, NEW l \in Launchers, RaceAgain(l)
    PROVE  /\ pc' \in [Launchers -> Places]
           /\ exit' \in [Launchers -> Codes] \/ UNCHANGED exit
           /\ retry' \in [Launchers -> [budget : 0 .. RaceBudget, delay : 1 .. MaxDelay]]
<1> DEFINE r == NextShutdownRetry(retry[l])
<1>1. retry[l] \in [budget : 0 .. RaceBudget, delay : 1 .. MaxDelay]
    BY DEF TypeOK
<1>2. r.next \in [budget : 0 .. RaceBudget, delay : 1 .. MaxDelay]
    BY <1>1, RaceAssumption DEF NextShutdownRetry
<1>3. retry' \in [Launchers -> [budget : 0 .. RaceBudget, delay : 1 .. MaxDelay]]
    BY <1>2 DEF RaceAgain, TypeOK
<1>4. pc' \in [Launchers -> Places]
    BY DEF RaceAgain, TypeOK, Leaves, Places
<1>5. exit' \in [Launchers -> Codes] \/ UNCHANGED exit
    BY DEF RaceAgain, TypeOK, Leaves, Codes
<1>q. QED
    BY <1>3, <1>4, <1>5

\* A connection which is let go of.
LEMMA LetsGoTypes ==
    ASSUME TypeOK, NEW l \in Launchers, LetsGo(l)
    PROVE  /\ link' \in [Launchers -> [to : Launchers \cup {NoLauncher}, at : Ats]]
           /\ answer' \in [Launchers -> {"none", "started", "refused", "shutting"}]
           /\ link[l].at = "session" /\ link[l].to \in Launchers => ghosts' \subseteq Launchers
           /\ link[l].at # "session" => UNCHANGED ghosts
    BY DEF TypeOK, LetsGo, NoLink, Ats

\* The sets of launchers on a server, by the two fields of a connection.
LEMMA LinkedIsOn ==
    ASSUME TypeOK
    PROVE  \A m, x \in Launchers : \A at \in {"pipe", "session", "gone"} :
            x \in Linked(m, at) <=> IsOn(x, m, at)
    BY DEF TypeOK, Linked, IsOn

\* Every action keeps the types.
LEMMA TypeStep ==
    ASSUME CallerInv,
           [Next]_vars
    PROVE  TypeOK'
<1> USE RaceAssumption
<1>1. ASSUME NEW l \in Launchers, Race(l), UNCHANGED faults PROVE TypeOK'
  <2>1. "probe" \in Places /\ "prepare" \in Places /\ "connect" \in Places /\ "call" \in Places
        /\ "denied" \in Codes /\ "mismatch" \in Codes
    BY DEF Places, Codes
  <2>2. pc' \in [Launchers -> Places] /\ (exit' \in [Launchers -> Codes] \/ UNCHANGED exit)
    BY <1>1, <2>1, GoesTypes, LeavesTypes DEF CallerInv, Race, NameExists
  <2>3. /\ accepts' \subseteq Launchers /\ mounted' \subseteq Launchers
        /\ listener' \in [Launchers -> {"none", "free", "taken", "abandoned"}]
    BY <1>1 DEF Race, CallerInv, TypeOK
  <2>4. UNCHANGED <<exit, clientVars, running, served, failures, ghosts>>
    BY <1>1 DEF Race
  <2>q. QED
    BY <1>1, <2>2, <2>3, <2>4 DEF CallerInv, TypeOK, clientVars, Places
<1>2. ASSUME NEW l \in Launchers, Probe(l), UNCHANGED faults PROVE TypeOK'
  <2>1. "probe" \in Places /\ "prepare" \in Places /\ "connect" \in Places /\ "call" \in Places
        /\ "denied" \in Codes /\ "mismatch" \in Codes
    BY DEF Places, Codes
  <2>2. pc' \in [Launchers -> Places] /\ (exit' \in [Launchers -> Codes] \/ UNCHANGED exit)
    BY <1>2, <2>1, GoesTypes, LeavesTypes DEF CallerInv, Probe, NameExists, Free
  <2>3. listener' \in [Launchers -> {"none", "free", "taken", "abandoned"}]
    BY <1>2 DEF Probe, Free, CallerInv, TypeOK
  <2>4. UNCHANGED <<clientVars, runVars, accepts, failures, ghosts>>
    BY <1>2 DEF Probe
  <2>q. QED
    BY <1>2, <2>2, <2>3, <2>4 DEF CallerInv, TypeOK, clientVars, runVars, Places, Codes
<1>3. ASSUME NEW l \in Launchers, Connect(l), UNCHANGED faults PROVE TypeOK'
  <2>1. "verify" \in Places
    BY DEF Places
  <2>2. CASE /\ pc[l] = "connect" /\ Free = {}
             /\ RaceAgain(l)
             /\ UNCHANGED <<listener, link>>
    BY <1>3, <2>2, RetryTypes DEF Connect, CallerInv, TypeOK, runVars, Places, Codes
  <2>3. ASSUME NEW m \in Free,
               Goes(l, "connect", "verify"),
               listener' = [listener EXCEPT ![m] = "taken"],
               link' = [link EXCEPT ![l] = [to |-> m, at |-> "pipe"]],
               UNCHANGED <<exit, retry>>
        PROVE  TypeOK'
    <3>1. pc' \in [Launchers -> Places]
      BY <2>1, <2>3, GoesTypes DEF CallerInv
    <3>2. /\ listener' \in [Launchers -> {"none", "free", "taken", "abandoned"}]
          /\ link' \in [Launchers -> [to : Launchers \cup {NoLauncher}, at : Ats]]
      BY <2>3 DEF Free, CallerInv, TypeOK, Ats
    <3>3. UNCHANGED <<asked, answer, runVars, accepts, failures, ghosts>>
      BY <1>3 DEF Connect
    <3>q. QED
      BY <1>3, <2>3, <3>1, <3>2, <3>3 DEF CallerInv, TypeOK, runVars, Places, Ats
  <2>q. QED
    BY <1>3, <2>2, <2>3 DEF Connect
<1>4. ASSUME NEW l \in Launchers, Verify(l), UNCHANGED faults PROVE TypeOK'
  <2>1. "probe" \in Places /\ "prepare" \in Places /\ "connect" \in Places /\ "call" \in Places
        /\ "denied" \in Codes /\ "mismatch" \in Codes
    BY DEF Places, Codes
  <2>2. pc' \in [Launchers -> Places] /\ (exit' \in [Launchers -> Codes] \/ UNCHANGED exit)
    BY <1>4, <2>1, GoesTypes, LeavesTypes DEF CallerInv, Verify
  <2>q. QED
    BY <1>4, <2>2 DEF Verify, CallerInv, TypeOK, clientVars, runVars, pipeVars, moves, Places, Codes
<1>5. ASSUME NEW l \in Launchers, ReadAnswer(l), UNCHANGED faults PROVE TypeOK'
  <2>1. "ok" \in Codes /\ "refused" \in Codes
    BY DEF Codes
  <2>2. /\ pc' \in [Launchers -> Places]
        /\ exit' \in [Launchers -> Codes] \/ UNCHANGED exit
        /\ retry' \in [Launchers -> [budget : 0 .. RaceBudget, delay : 1 .. MaxDelay]]
    <3>1. CASE answer[l] = "started"
      <4>1. Leaves(l, "ok") /\ UNCHANGED retry
        BY <1>5, <3>1 DEF ReadAnswer
      <4>q. QED
        BY <2>1, <4>1, LeavesTypes DEF CallerInv, TypeOK
    <3>2. CASE answer[l] = "refused"
      <4>1. Leaves(l, "refused") /\ UNCHANGED retry
        BY <1>5, <3>2 DEF ReadAnswer
      <4>q. QED
        BY <2>1, <4>1, LeavesTypes DEF CallerInv, TypeOK
    <3>3. CASE answer[l] = "shutting"
      BY <1>5, <3>3, RetryTypes DEF ReadAnswer, CallerInv
    <3>q. QED
      BY <1>5, <3>1, <3>2, <3>3 DEF ReadAnswer, CallerInv, TypeOK
  <2>3. LetsGo(l) /\ UNCHANGED <<asked, runVars, accepts, listener, failures>>
    BY <1>5 DEF ReadAnswer
  <2>4. ghosts' \subseteq Launchers
    BY <2>3, LetsGoTypes DEF CallerInv, CallerFits, GaveUp, TypeOK
  <2>q. QED
    BY <1>5, <2>2, <2>3, <2>4, LetsGoTypes DEF CallerInv, TypeOK, runVars, Places, Codes, Ats
<1>6. ASSUME NEW l \in Launchers, CallBreaks(l), UNCHANGED faults PROVE TypeOK'
  <2>1. RaceAgain(l) /\ LetsGo(l) /\ UNCHANGED <<asked, runVars, accepts, listener, failures>>
    BY <1>6 DEF CallBreaks
  <2>2. ghosts' \subseteq Launchers
    BY <1>6, <2>1, LetsGoTypes DEF CallBreaks, CallerInv, TypeOK
  <2>q. QED
    BY <1>6, <2>1, <2>2, RetryTypes, LetsGoTypes DEF CallerInv, TypeOK, runVars, Places, Codes, Ats
<1>7. ASSUME NEW l \in Launchers, AcceptClient(l), UNCHANGED faults PROVE TypeOK'
    BY <1>7 DEF AcceptClient, AcceptUnchanged, Linked, CallerInv, TypeOK, NoLink, clientVars, runVars,
                pipeVars, moves
<1>8. ASSUME NEW l \in Launchers, AcceptAbandoned(l), UNCHANGED faults PROVE TypeOK'
    BY <1>8 DEF AcceptAbandoned, AcceptUnchanged, CallerInv, TypeOK, NoLink, clientVars, runVars,
                pipeVars, moves
<1>9. ASSUME NEW l \in Launchers, CreateNextInstance(l), UNCHANGED faults PROVE TypeOK'
  <2>1. failures' \in [Launchers -> [ever : 0 .. MaxAcceptRetries, row : 0 .. MaxAcceptRetries + 1]]
    <3>1. failures' = [failures EXCEPT ![l].row = 0] /\ 0 \in 0 .. MaxAcceptRetries + 1
      BY <1>9, RaceAssumption DEF CreateNextInstance
    <3>2. failures \in [Launchers -> [ever : 0 .. MaxAcceptRetries, row : 0 .. MaxAcceptRetries + 1]]
      BY DEF CallerInv, TypeOK
    <3>q. QED
      BY <3>1, <3>2
  <2>q. QED
    BY <1>9, <2>1 DEF CreateNextInstance, AcceptUnchanged, CallerInv, TypeOK, clientVars, runVars,
                      pipeVars, moves
<1>10. ASSUME NEW l \in Launchers, HandleAcceptFailure(l), UNCHANGED faults PROVE TypeOK'
  <2>1. failures' \in [Launchers -> [ever : 0 .. MaxAcceptRetries, row : 0 .. MaxAcceptRetries + 1]]
    <3>1. failures[l] \in [ever : 0 .. MaxAcceptRetries, row : 0 .. MaxAcceptRetries + 1]
          /\ failures[l].row <= failures[l].ever
      BY <1>10 DEF HandleAcceptFailure, CallerInv, TypeOK, CallerFits, GaveUp
    <3>2. \/ UNCHANGED failures
          \/ /\ failures[l].ever < MaxAcceptRetries
             /\ failures' = [failures EXCEPT ![l].ever = @ + 1, ![l].row = @ + 1]
          \/ failures' = [failures EXCEPT ![l].row = @ + 1]
      BY <1>10 DEF HandleAcceptFailure
    <3>3. failures' \in [Launchers -> [ever : Nat, row : Nat]]
          /\ \A x \in Launchers : /\ failures'[x].ever <= MaxAcceptRetries
                                /\ failures'[x].row <= MaxAcceptRetries + 1
      <4>1. failures \in [Launchers -> [ever : Nat, row : Nat]]
            /\ \A x \in Launchers : /\ failures[x].ever <= MaxAcceptRetries
                                  /\ failures[x].row <= MaxAcceptRetries + 1
        BY RaceAssumption DEF CallerInv, TypeOK
      <4>2. CASE /\ failures[l].ever < MaxAcceptRetries
                 /\ failures' = [failures EXCEPT ![l].ever = @ + 1, ![l].row = @ + 1]
        BY <3>1, <4>1, <4>2, RaceAssumption
      <4>3. CASE failures' = [failures EXCEPT ![l].row = @ + 1]
        BY <3>1, <4>1, <4>3, RaceAssumption
      <4>q. QED
        BY <3>2, <4>1, <4>2, <4>3
    <3>q. QED
      BY <3>3, RaceAssumption
  <2>q. QED
    BY <1>10, <2>1 DEF HandleAcceptFailure, AcceptUnchanged, CallerInv, TypeOK, clientVars, runVars,
                       pipeVars, moves
<1>11. ASSUME NEW l \in Launchers, SessionEnds(l), UNCHANGED faults PROVE TypeOK'
    BY <1>11 DEF SessionEnds, AcceptUnchanged, CallerInv, TypeOK, NoLink, clientVars, runVars, pipeVars,
                 moves
<1>12. ASSUME NEW l \in Launchers, Prepare(l), UNCHANGED faults PROVE TypeOK'
    BY <1>12 DEF Prepare, Goes, CallerInv, TypeOK, NoLink, clientVars, runVars, pipeVars, moves
<1>13. ASSUME NEW l \in Launchers, PrepareFails(l), UNCHANGED faults PROVE TypeOK'
    BY <1>13 DEF PrepareFails, Goes, CallerInv, TypeOK, NoLink, clientVars, runVars, pipeVars, moves
<1>14. ASSUME NEW l \in Launchers, EndRun(l), UNCHANGED faults PROVE TypeOK'
  <2>1. pc' = [pc EXCEPT ![l] = "end"] /\ UNCHANGED <<clientVars, runVars, pipeVars>>
        /\ \E code \in {"ok", "died"} : exit' = [exit EXCEPT ![l] = code]
    BY <1>14 DEF EndRun, Goes
  <2>2. pc' \in [Launchers -> Places] /\ exit' \in [Launchers -> Codes]
    BY <2>1 DEF CallerInv, TypeOK, Places, Codes
  <2>q. QED
    BY <1>14, <2>1, <2>2 DEF CallerInv, TypeOK, Places, Codes, clientVars, runVars, pipeVars
<1>15. ASSUME NEW l \in Launchers, Unmount(l), UNCHANGED faults PROVE TypeOK'
    BY <1>15 DEF Unmount, Goes, CallerInv, TypeOK, NoLink, clientVars, runVars, pipeVars, moves
<1>16. ASSUME NEW l \in Launchers, StopServing(l), UNCHANGED faults PROVE TypeOK'
    BY <1>16 DEF StopServing, Goes, Linked, CallerInv, TypeOK, NoLink, clientVars, runVars, pipeVars,
                 moves
<1>17. ASSUME NEW l \in Launchers, AcceptStops(l), UNCHANGED faults PROVE TypeOK'
    BY <1>17 DEF AcceptStops, Break, Linked, CallerInv, TypeOK, NoLink, clientVars, runVars, pipeVars,
                 moves
<1>18. ASSUME NEW l \in Launchers, MasterLeaves(l), UNCHANGED faults PROVE TypeOK'
    BY <1>18 DEF MasterLeaves, Goes, CallerInv, TypeOK, NoLink, clientVars, runVars, pipeVars, moves
<1>19. ASSUME NEW l \in Launchers, NEW c \in Launchers, ServeRequest(l, c), UNCHANGED faults
       PROVE  TypeOK'
  <2>1. \/ Answers(c, "started") /\ running' = [running EXCEPT ![l] = @ \cup {c}]
                                /\ served' = served \cup {<<l, c>>}
        \/ Answers(c, "refused") /\ UNCHANGED <<running, served>>
    BY <1>19 DEF ServeRequest
  <2>2. running' \in [Launchers -> SUBSET Launchers] /\ served' \subseteq Launchers \X Launchers
    <3>1. running \in [Launchers -> SUBSET Launchers] /\ served \subseteq Launchers \X Launchers
      BY DEF CallerInv, TypeOK
    <3>2. running[l] \cup {c} \in SUBSET Launchers /\ <<l, c>> \in Launchers \X Launchers
      BY <3>1
    <3>q. QED
      BY <2>1, <3>1, <3>2
  <2>3. asked' \subseteq Launchers
        /\ answer' \in [Launchers -> {"none", "started", "refused", "shutting"}]
        /\ UNCHANGED <<pc, exit, retry, link, mounted, pipeVars>>
    <3>1. CASE Answers(c, "started")
      BY <3>1 DEF Answers, CallerInv, TypeOK
    <3>2. CASE Answers(c, "refused")
      BY <3>2 DEF Answers, CallerInv, TypeOK
    <3>q. QED
      BY <2>1, <3>1, <3>2
  <2>q. QED
    BY <1>19, <2>2, <2>3 DEF CallerInv, TypeOK, pipeVars
<1>20. ASSUME NEW l \in Launchers, NEW c \in Launchers, TurnAway(l, c), UNCHANGED faults PROVE TypeOK'
    BY <1>20 DEF TurnAway, Answers, Linked, CallerInv, TypeOK, NoLink, clientVars, runVars, pipeVars,
                 moves
<1>21. ASSUME NEW l \in Launchers, NEW c \in Launchers, CloseSession(l, c), UNCHANGED faults
       PROVE  TypeOK'
  <2>1. /\ link' = Break({c}) /\ asked' = asked \ {c}
        /\ UNCHANGED <<pc, exit, retry, answer, runVars, pipeVars, faults>>
    BY <1>21 DEF CloseSession
  <2>2. link' \in [Launchers -> [to : Launchers \cup {NoLauncher},
                                 at : {"none", "pipe", "session", "gone", "broken"}]]
    BY <2>1 DEF Break, CallerInv, TypeOK
  <2>q. QED
    BY <2>1, <2>2 DEF CallerInv, TypeOK, runVars, pipeVars
<1>22. ASSUME NEW l \in Launchers, ProgramsEnd(l), UNCHANGED faults PROVE TypeOK'
    BY <1>22 DEF ProgramsEnd, CallerInv, TypeOK, NoLink, clientVars, runVars, pipeVars, moves
<1>23. ASSUME NEW l \in Launchers, Crash(l), UNCHANGED faults PROVE TypeOK'
    BY <1>23 DEF Crash, Leaves, Break, Linked, CallerInv, TypeOK, NoLink, clientVars, runVars, pipeVars,
                 moves
<1>24. CASE UNCHANGED vars
    BY <1>24 DEF vars, moves, CallerInv, TypeOK, CallerFits, GaveUp, NoLink, Linked, clientVars,
                 runVars,
                 pipeVars
<1>26. ASSUME NEW l \in Launchers, CallTimesOut(l), UNCHANGED faults PROVE TypeOK'
    BY <1>26 DEF CallTimesOut, Leaves, CallerInv, TypeOK, clientVars, runVars, pipeVars
<1>27. ASSUME NEW l \in Launchers, AcceptGone(l), UNCHANGED faults PROVE TypeOK'
  <2>1. link' \in [Launchers -> [to : Launchers \cup {NoLauncher}, at : Ats]]
    <3>1. PICK c \in Launchers : link' = Break({c})
      BY <1>27 DEF AcceptGone, Linked
    <3>2. link \in [Launchers -> [to : Launchers \cup {NoLauncher}, at : Ats]] /\ "broken" \in Ats
      BY DEF CallerInv, TypeOK, Ats
    <3>3. \A x \in Launchers : [link[x] EXCEPT !.at = "broken"] \in [to : Launchers \cup {NoLauncher}, at : Ats]
      BY <3>2
    <3>q. QED
      BY <3>1, <3>2, <3>3 DEF Break
  <2>2. /\ asked' \subseteq Launchers
        /\ listener' \in [Launchers -> {"none", "free", "taken", "abandoned"}]
        /\ UNCHANGED <<pc, exit, retry, answer, runVars, accepts, failures, ghosts>>
    BY <1>27 DEF AcceptGone, CallerInv, TypeOK
  <2>q. QED
    BY <1>27, <2>1, <2>2 DEF CallerInv, TypeOK, Ats, runVars
<1>28. ASSUME NEW l \in Launchers, PeerGone(l), UNCHANGED faults PROVE TypeOK'
  <2>1. PICK c \in Launchers : link' = [link EXCEPT ![c].at = IF c \in asked THEN "gone" ELSE "broken"]
    BY <1>28 DEF PeerGone, Linked
  <2>2. link' \in [Launchers -> [to : Launchers \cup {NoLauncher}, at : Ats]]
    <3>1. PICK at \in Ats : link' = [link EXCEPT ![c].at = at]
      BY <2>1 DEF Ats
    <3>2. link \in [Launchers -> [to : Launchers \cup {NoLauncher}, at : Ats]]
      BY DEF CallerInv, TypeOK, Ats
    <3>q. QED
      BY <3>1, <3>2
  <2>3. UNCHANGED <<pc, exit, retry, asked, answer, runVars, pipeVars>>
    BY <1>28 DEF PeerGone, AcceptUnchanged, pipeVars
  <2>q. QED
    BY <1>28, <2>2, <2>3 DEF CallerInv, TypeOK, Ats, runVars, pipeVars
<1>q. QED
    BY <1>1, <1>2, <1>3, <1>4, <1>5, <1>6, <1>7, <1>8, <1>9, <1>10, <1>11, <1>12, <1>13, <1>14, <1>15,
           <1>16, <1>17, <1>18, <1>19, <1>20, <1>21, <1>22, <1>23, <1>24, <1>26, <1>27, <1>28 DEF Next, Client, Accept,
           Master

\* A launcher which nothing happened to still agrees with its connection.
StaysAsItIs(x) ==
    /\ pc'[x] = pc[x] /\ exit'[x] = exit[x] /\ answer'[x] = answer[x] /\ link'[x] = link[x]
    /\ failures'[x] = failures[x]
    /\ x \in asked' => x \in asked
    /\ x \in accepts' => x \in accepts

LEMMA CallerFrame ==
    ASSUME NEW x \in Launchers, CallerFits(x), StaysAsItIs(x)
    PROVE  CallerFits(x)'
    BY DEF CallerFits, GaveUp, StaysAsItIs

\* Every action leaves a launcher and its connection in agreement.
LEMMA CallerStep ==
    ASSUME CallerInv, TypeOK',
           [Next]_vars
    PROVE  (\A x \in Launchers : CallerFits(x))'
<1> USE RaceAssumption
<1>1. ASSUME NEW l \in Launchers, Race(l), UNCHANGED faults
      PROVE  (\A x \in Launchers : CallerFits(x))'
  <2>1. \A x \in Launchers : x # l => StaysAsItIs(x)
    BY <1>1 DEF Race, Goes, StaysAsItIs, CallerInv, TypeOK, clientVars
  <2>2. CallerFits(l)'
    <3>1. /\ pc[l] = "race" /\ pc'[l] \in {"probe", "prepare"}
          /\ l \in accepts' => l \in accepts \/ pc'[l] = "prepare"
          /\ UNCHANGED <<exit, link, asked, answer, failures>>
      BY <1>1 DEF Race, Goes, CallerInv, TypeOK, clientVars
    <3>2. link[l].at = "none" /\ answer[l] = "none" /\ l \notin asked /\ exit[l] = "none" /\ l \notin accepts
          /\ failures[l].row <= failures[l].ever
      <4>1. failures[l].row \in Nat /\ failures[l].ever \in Nat
        BY RaceAssumption DEF CallerInv, TypeOK
      <4>q. QED
        BY <3>1, <4>1 DEF CallerInv, CallerFits, GaveUp, MasterPlaces
    <3>3. ~(failures'[l].row > failures'[l].ever)
      <4>1. failures[l].row \in Nat /\ failures[l].ever \in Nat
        BY RaceAssumption DEF CallerInv, TypeOK
      <4>q. QED
        BY <3>1, <3>2, <4>1
    <3>q. QED
      BY <3>1, <3>2, <3>3 DEF CallerFits, GaveUp, MasterPlaces
  <2>q. QED
    BY <2>1, <2>2, CallerFrame DEF CallerInv
<1>2. ASSUME NEW l \in Launchers, Probe(l), UNCHANGED faults PROVE (\A x \in Launchers : CallerFits(x))'
    BY <1>2 DEF Probe, Goes, Leaves, NameExists, Free, CallerInv, TypeOK, CallerFits, GaveUp, NoLink,
                MasterPlaces, clientVars, runVars, pipeVars, moves
<1>3. ASSUME NEW l \in Launchers, Connect(l), UNCHANGED faults
      PROVE  (\A x \in Launchers : CallerFits(x))'
    BY <1>3 DEF Connect, Goes, RaceAgain, NextShutdownRetry, Leaves, Free, CallerInv, TypeOK,
                CallerFits, GaveUp, NoLink, MasterPlaces, clientVars, runVars, pipeVars, moves
<1>4. ASSUME NEW l \in Launchers, Verify(l), UNCHANGED faults
      PROVE  (\A x \in Launchers : CallerFits(x))'
  <2>1. \A x \in Launchers : x # l => StaysAsItIs(x)
    BY <1>4 DEF Verify, Goes, Leaves, StaysAsItIs, CallerInv, TypeOK, pipeVars
  <2>2. CallerFits(l)'
    <3>1. pc[l] = "verify" /\ UNCHANGED <<link, answer, accepts, failures>> /\ exit[l] = "none"
      BY <1>4 DEF Verify, CallerInv, CallerFits, pipeVars
    <3>2. CASE pc'[l] = "left" /\ exit'[l] = "mismatch" /\ UNCHANGED asked
      BY <3>1, <3>2 DEF CallerInv, TypeOK, CallerFits, GaveUp, MasterPlaces
    <3>3. CASE /\ pc'[l] = "call" /\ UNCHANGED exit
               /\ asked' = IF link[l].at = "broken" THEN asked ELSE asked \cup {l}
      <4>1. link[l].at \in {"pipe", "session", "broken"} /\ answer[l] = "none" /\ l \notin asked
        BY <3>1 DEF CallerInv, TypeOK, CallerFits, GaveUp
      <4>q. QED
        BY <3>1, <3>3, <4>1 DEF CallerInv, TypeOK, CallerFits, GaveUp, MasterPlaces
    <3>q. QED
      BY <1>4, <3>2, <3>3 DEF Verify, Goes, Leaves, CallerInv, TypeOK
  <2>q. QED
    BY <2>1, <2>2, CallerFrame DEF CallerInv
<1>5. ASSUME NEW l \in Launchers, ReadAnswer(l), UNCHANGED faults
      PROVE  (\A x \in Launchers : CallerFits(x))'
  <2>1. pc[l] = "call" /\ answer[l] # "none" /\ LetsGo(l)
        /\ UNCHANGED <<asked, runVars, accepts, listener, failures>>
    BY <1>5 DEF ReadAnswer
  <2>2. \/ pc' = [pc EXCEPT ![l] = "race"] /\ UNCHANGED exit
        \/ pc' = [pc EXCEPT ![l] = "left"]
           /\ \E code \in Codes \ {"crashed"} : exit' = [exit EXCEPT ![l] = code]
    <3>1. CASE answer[l] = "started"
      BY <1>5, <3>1 DEF ReadAnswer, Leaves, Codes
    <3>2. CASE answer[l] = "refused"
      BY <1>5, <3>2 DEF ReadAnswer, Leaves, Codes
    <3>3. CASE answer[l] = "shutting"
      <4>1. RaceAgain(l)
        BY <1>5, <3>3 DEF ReadAnswer
      <4>q. QED
        BY <4>1 DEF RaceAgain, Leaves, Codes
    <3>q. QED
      BY <2>1, <3>1, <3>2, <3>3 DEF CallerInv, TypeOK
  <2>q. QED
    BY <2>1, <2>2 DEF LetsGo, CallerInv, TypeOK, CallerFits, GaveUp, NoLink, MasterPlaces, runVars
<1>6. ASSUME NEW l \in Launchers, CallBreaks(l), UNCHANGED faults
      PROVE  (\A x \in Launchers : CallerFits(x))'
    BY <1>6 DEF CallBreaks, RaceAgain, NextShutdownRetry, Leaves, LetsGo, CallerInv, TypeOK, CallerFits,
                GaveUp,
                NoLink, MasterPlaces, clientVars, runVars, pipeVars, moves
<1>7. ASSUME NEW l \in Launchers, AcceptClient(l), UNCHANGED faults
      PROVE  (\A x \in Launchers : CallerFits(x))'
    BY <1>7 DEF AcceptClient, AcceptUnchanged, Linked, CallerInv, TypeOK, CallerFits, GaveUp, NoLink,
                MasterPlaces, clientVars, runVars, pipeVars, moves
<1>8. ASSUME NEW l \in Launchers, AcceptAbandoned(l), UNCHANGED faults
      PROVE  (\A x \in Launchers : CallerFits(x))'
    BY <1>8 DEF AcceptAbandoned, AcceptUnchanged, CallerInv, TypeOK, CallerFits, GaveUp, NoLink,
                MasterPlaces,
                clientVars, runVars, pipeVars, moves
<1>9. ASSUME NEW l \in Launchers, CreateNextInstance(l), UNCHANGED faults
      PROVE  (\A x \in Launchers : CallerFits(x))'
    BY <1>9 DEF CreateNextInstance, AcceptUnchanged, CallerInv, TypeOK, CallerFits, GaveUp, NoLink,
                MasterPlaces, clientVars, runVars, pipeVars, moves
<1>10. ASSUME NEW l \in Launchers, HandleAcceptFailure(l), UNCHANGED faults
       PROVE  (\A x \in Launchers : CallerFits(x))'
    BY <1>10 DEF HandleAcceptFailure, AcceptUnchanged, CallerInv, TypeOK, CallerFits, GaveUp, NoLink,
                 MasterPlaces, clientVars, runVars, pipeVars, moves
<1>11. ASSUME NEW l \in Launchers, SessionEnds(l), UNCHANGED faults
       PROVE  (\A x \in Launchers : CallerFits(x))'
    BY <1>11 DEF SessionEnds, AcceptUnchanged, CallerInv, TypeOK, CallerFits, GaveUp, NoLink,
                 MasterPlaces,
                 clientVars, runVars, pipeVars, moves
<1>12. ASSUME NEW l \in Launchers, Prepare(l), UNCHANGED faults
       PROVE  (\A x \in Launchers : CallerFits(x))'
    BY <1>12 DEF Prepare, Goes, CallerInv, TypeOK, CallerFits, GaveUp, NoLink, MasterPlaces, clientVars,
                 runVars, pipeVars, moves
<1>13. ASSUME NEW l \in Launchers, PrepareFails(l), UNCHANGED faults
       PROVE  (\A x \in Launchers : CallerFits(x))'
    BY <1>13 DEF PrepareFails, Goes, CallerInv, TypeOK, CallerFits, GaveUp, NoLink, MasterPlaces,
                 clientVars,
                 runVars, pipeVars, moves
<1>14. ASSUME NEW l \in Launchers, EndRun(l), UNCHANGED faults
       PROVE  (\A x \in Launchers : CallerFits(x))'
    BY <1>14 DEF EndRun, Goes, CallerInv, TypeOK, CallerFits, GaveUp, NoLink, MasterPlaces, clientVars,
                 runVars,
                 pipeVars, moves
<1>15. ASSUME NEW l \in Launchers, Unmount(l), UNCHANGED faults
       PROVE  (\A x \in Launchers : CallerFits(x))'
    BY <1>15 DEF Unmount, Goes, CallerInv, TypeOK, CallerFits, GaveUp, NoLink, MasterPlaces, clientVars,
                 runVars, pipeVars, moves
<1>16. ASSUME NEW l \in Launchers, StopServing(l), UNCHANGED faults
       PROVE  (\A x \in Launchers : CallerFits(x))'
    BY <1>16 DEF StopServing, Goes, Linked, CallerInv, TypeOK, CallerFits, GaveUp, NoLink, MasterPlaces,
                 clientVars, runVars, pipeVars, moves
<1>17. ASSUME NEW l \in Launchers, AcceptStops(l), UNCHANGED faults
       PROVE  (\A x \in Launchers : CallerFits(x))'
    BY <1>17 DEF AcceptStops, Break, Linked, CallerInv, TypeOK, CallerFits, GaveUp, NoLink,
                 MasterPlaces,
                 clientVars, runVars, pipeVars, moves
<1>18. ASSUME NEW l \in Launchers, MasterLeaves(l), UNCHANGED faults
       PROVE  (\A x \in Launchers : CallerFits(x))'
    BY <1>18 DEF MasterLeaves, Goes, CallerInv, TypeOK, CallerFits, GaveUp, NoLink, MasterPlaces,
                 clientVars,
                 runVars, pipeVars, moves
<1>19. ASSUME NEW l \in Launchers, NEW c \in Launchers, ServeRequest(l, c), UNCHANGED faults
       PROVE  (\A x \in Launchers : CallerFits(x))'
  <2>0. PICK text \in {"started", "refused", "shutting"} : Answers(c, text) /\ c \in Queued(l)
    BY <1>19 DEF ServeRequest
  <2>1. \A x \in Launchers : x # c => StaysAsItIs(x)
    BY <2>0 DEF Answers, StaysAsItIs, CallerInv, TypeOK, pipeVars
  <2>2. CallerFits(c)'
    <3>1. c \in asked /\ link[c].at \in {"session", "gone"}
      BY <2>0, LinkedIsOn DEF Queued, IsOn, CallerInv
    <3>2. UNCHANGED <<pc, exit, link, accepts, failures>> /\ asked' = asked \ {c}
      BY <2>0 DEF Answers, pipeVars
    <3>3. answer'[c] # "none" => pc[c] = "call" /\ link[c].at = "session"
      BY <2>0, <3>1 DEF Answers, CallerInv, CallerFits, GaveUp
    <3>q. QED
      BY <3>1, <3>2, <3>3 DEF CallerInv, CallerFits, GaveUp
  <2>q. QED
    BY <2>1, <2>2, CallerFrame DEF CallerInv
<1>20. ASSUME NEW l \in Launchers, NEW c \in Launchers, TurnAway(l, c), UNCHANGED faults
       PROVE  (\A x \in Launchers : CallerFits(x))'
  <2>0. PICK text \in {"started", "refused", "shutting"} : Answers(c, text) /\ c \in Queued(l)
    BY <1>20 DEF TurnAway
  <2>1. \A x \in Launchers : x # c => StaysAsItIs(x)
    BY <2>0 DEF Answers, StaysAsItIs, CallerInv, TypeOK, pipeVars
  <2>2. CallerFits(c)'
    <3>1. c \in asked /\ link[c].at \in {"session", "gone"}
      BY <2>0, LinkedIsOn DEF Queued, IsOn, CallerInv
    <3>2. UNCHANGED <<pc, exit, link, accepts, failures>> /\ asked' = asked \ {c}
      BY <2>0 DEF Answers, pipeVars
    <3>3. answer'[c] # "none" => pc[c] = "call" /\ link[c].at = "session"
      BY <2>0, <3>1 DEF Answers, CallerInv, CallerFits, GaveUp
    <3>q. QED
      BY <3>1, <3>2, <3>3 DEF CallerInv, CallerFits, GaveUp
  <2>q. QED
    BY <2>1, <2>2, CallerFrame DEF CallerInv
<1>21. ASSUME NEW l \in Launchers, NEW c \in Launchers, CloseSession(l, c), UNCHANGED faults
       PROVE  (\A x \in Launchers : CallerFits(x))'
    BY <1>21 DEF CloseSession, Break, Linked, CallerInv, TypeOK, CallerFits, GaveUp, NoLink,
                 MasterPlaces,
                 clientVars, runVars, pipeVars, moves
<1>22. ASSUME NEW l \in Launchers, ProgramsEnd(l), UNCHANGED faults
       PROVE  (\A x \in Launchers : CallerFits(x))'
    BY <1>22 DEF ProgramsEnd, CallerInv, TypeOK, CallerFits, GaveUp, NoLink, MasterPlaces, clientVars,
                 runVars,
                 pipeVars, moves
<1>23. ASSUME NEW l \in Launchers, Crash(l), UNCHANGED faults
       PROVE  (\A x \in Launchers : CallerFits(x))'
    BY <1>23 DEF Crash, Leaves, Break, Linked, CallerInv, TypeOK, CallerFits, GaveUp, NoLink,
                 MasterPlaces,
                 clientVars, runVars, pipeVars, moves
<1>24. CASE UNCHANGED vars
    BY <1>24 DEF vars, moves, CallerInv, TypeOK, CallerFits, GaveUp, NoLink, MasterPlaces, Linked,
                 clientVars,
                 runVars, pipeVars
<1>26. ASSUME NEW l \in Launchers, CallTimesOut(l), UNCHANGED faults
       PROVE  (\A x \in Launchers : CallerFits(x))'
    BY <1>26 DEF CallTimesOut, Leaves, CallerInv, TypeOK, CallerFits, GaveUp, MasterPlaces, clientVars,
                 runVars, pipeVars
<1>27. ASSUME NEW l \in Launchers, AcceptGone(l), UNCHANGED faults
       PROVE  (\A x \in Launchers : CallerFits(x))'
    BY <1>27 DEF AcceptGone, Break, Linked, CallerInv, TypeOK, CallerFits, GaveUp, MasterPlaces, runVars
<1>28. ASSUME NEW l \in Launchers, PeerGone(l), UNCHANGED faults
       PROVE  (\A x \in Launchers : CallerFits(x))'
    BY <1>28 DEF PeerGone, AcceptUnchanged, Linked, CallerInv, TypeOK, CallerFits, GaveUp, MasterPlaces,
                 runVars
<1>q. QED
    BY <1>1, <1>2, <1>3, <1>4, <1>5, <1>6, <1>7, <1>8, <1>9, <1>10, <1>11, <1>12, <1>13, <1>14, <1>15,
           <1>16, <1>17, <1>18, <1>19, <1>20, <1>21, <1>22, <1>23, <1>24, <1>26, <1>27, <1>28 DEF Next, Client, Accept,
           Master

\* The connection of a launcher which gave up changes, and no other one.
LeftOne(m, c, from, to) ==
    /\ pc[c] = "left" /\ IsOn(c, m, from)
    /\ \A x \in Launchers : link'[x] = IF x = c THEN [to |-> m, at |-> to] ELSE link[x]

\* What each action which touches a connection does to it.
LEMMA LinkSteps ==
    ASSUME CallerInv, NEW l \in Launchers
    PROVE  /\ AcceptClient(l) =>
                \A x \in Launchers : link'[x] = IF IsOn(x, l, "pipe") THEN [to |-> l, at |-> "session"] ELSE link[x]
           /\ StopServing(l) =>
                \/ UNCHANGED link
                \/ \A x \in Launchers : link'[x] = IF IsOn(x, l, "pipe") THEN [to |-> l, at |-> "session"] ELSE link[x]
           /\ AcceptStops(l) =>
                \A x \in Launchers : link'[x] = IF IsOn(x, l, "pipe") THEN [to |-> l, at |-> "broken"] ELSE link[x]
           /\ \A c \in Launchers : CloseSession(l, c) =>
                \A x \in Launchers : link'[x] = IF x = c THEN [to |-> l, at |-> "broken"] ELSE link[x]
           /\ AcceptGone(l) => \E c \in Launchers : LeftOne(l, c, "pipe", "broken")
           /\ PeerGone(l) => \E c \in Launchers, at \in {"gone", "broken"} : LeftOne(l, c, "session", at)
           /\ Crash(l) =>
                \A x \in Launchers : link'[x] = IF IsOn(x, l, "pipe") \/ IsOn(x, l, "session") \/ IsOn(x, l, "gone")
                                              THEN [to |-> l, at |-> "broken"] ELSE link[x]
<1>1. TypeOK
    BY DEF CallerInv
<1>2. AcceptClient(l) =>
        \A x \in Launchers : link'[x] = IF IsOn(x, l, "pipe") THEN [to |-> l, at |-> "session"] ELSE link[x]
    BY <1>1, LinkedIsOn DEF AcceptClient
<1>3. StopServing(l) =>
        \/ UNCHANGED link
        \/ \A x \in Launchers : link'[x] = IF IsOn(x, l, "pipe") THEN [to |-> l, at |-> "session"] ELSE link[x]
    BY <1>1, LinkedIsOn DEF StopServing
<1>4. \A x \in Launchers : \A at \in {"pipe", "session", "gone"} :
        x \in Linked(l, at) => [link[x] EXCEPT !.at = "broken"] = [to |-> l, at |-> "broken"]
  <2>1. \A at : [[to |-> l, at |-> at] EXCEPT !.at = "broken"] = [to |-> l, at |-> "broken"]
    OBVIOUS
  <2>q. QED
    BY <2>1 DEF Linked
<1>5. AcceptStops(l) =>
        \A x \in Launchers : link'[x] = IF IsOn(x, l, "pipe") THEN [to |-> l, at |-> "broken"] ELSE link[x]
    BY <1>1, <1>4, LinkedIsOn DEF AcceptStops, Break
<1>6. \A c \in Launchers : CloseSession(l, c) =>
        \A x \in Launchers : link'[x] = IF x = c THEN [to |-> l, at |-> "broken"] ELSE link[x]
    BY <1>1, <1>4, LinkedIsOn DEF CloseSession, Break
<1>7. Crash(l) =>
        \A x \in Launchers : link'[x] = IF IsOn(x, l, "pipe") \/ IsOn(x, l, "session") \/ IsOn(x, l, "gone")
                                      THEN [to |-> l, at |-> "broken"] ELSE link[x]
    BY <1>1, <1>4, LinkedIsOn DEF Crash, Break
<1>8. AcceptGone(l) => \E c \in Launchers : LeftOne(l, c, "pipe", "broken")
  <2>1. SUFFICES ASSUME AcceptGone(l) PROVE \E c \in Launchers : LeftOne(l, c, "pipe", "broken")
    OBVIOUS
  <2>2. PICK c \in Linked(l, "pipe") : pc[c] = "left" /\ link' = Break({c})
    BY <2>1 DEF AcceptGone
  <2>3. c \in Launchers /\ IsOn(c, l, "pipe")
    BY <1>1, LinkedIsOn DEF Linked
  <2>q. QED
    BY <1>4, <2>2, <2>3 DEF Break, LeftOne
<1>9. PeerGone(l) => \E c \in Launchers, at \in {"gone", "broken"} : LeftOne(l, c, "session", at)
  <2>1. SUFFICES ASSUME PeerGone(l)
                 PROVE  \E c \in Launchers, at \in {"gone", "broken"} : LeftOne(l, c, "session", at)
    OBVIOUS
  <2>2. PICK c \in Linked(l, "session") :
          pc[c] = "left" /\ link' = [link EXCEPT ![c].at = IF c \in asked THEN "gone" ELSE "broken"]
    BY <2>1 DEF PeerGone
  <2>3. c \in Launchers /\ IsOn(c, l, "session") /\ link[c] = [to |-> l, at |-> "session"]
    BY <1>1, LinkedIsOn DEF Linked
  <2>4. \A at : [link[c] EXCEPT !.at = at] = [to |-> l, at |-> at]
    BY <2>3
  <2>5. \A x \in Launchers :
          link'[x] = IF x = c THEN [link[c] EXCEPT !.at = IF c \in asked THEN "gone" ELSE "broken"]
                              ELSE link[x]
    BY <1>1, <2>2, <2>3 DEF TypeOK
  <2>q. QED
    BY <2>2, <2>3, <2>4, <2>5 DEF LeftOne
<1>q. QED
    BY <1>2, <1>3, <1>5, <1>6, <1>7, <1>8, <1>9

LEMMA TakenFrame ==
    ASSUME \A m \in Launchers : TakenIsLinked(m),
           \A m \in Launchers : listener'[m] = "taken" =>
                /\ listener[m] = "taken"
                /\ \A x \in Launchers : IsOn(x, m, "pipe") => link'[x] = link[x]
    PROVE  (\A m \in Launchers : TakenIsLinked(m))'
    BY DEF TakenIsLinked, IsOn

\* An instance which is taken stays with the launcher which connected, until a session has it.
LEMMA TakenStep ==
    ASSUME CallerInv, [Next]_vars
    PROVE  (\A m \in Launchers : TakenIsLinked(m))'
<1> DEFINE Frame == \A m \in Launchers : listener'[m] = "taken" =>
                        /\ listener[m] = "taken"
                        /\ \A x \in Launchers : IsOn(x, m, "pipe") => link'[x] = link[x]
<1>0. TypeOK /\ (\A x \in Launchers : CallerFits(x)) /\ (\A m \in Launchers : TakenIsLinked(m))
    BY DEF CallerInv
<1>1. ASSUME NEW l \in Launchers, Race(l) PROVE Frame
    BY <1>0, <1>1 DEF Race, Goes, TypeOK, CallerFits, GaveUp, IsOn, clientVars, runVars, pipeVars
<1>2. ASSUME NEW l \in Launchers, Probe(l) PROVE Frame
    BY <1>0, <1>2 DEF Probe, Goes, Leaves, TypeOK, CallerFits, GaveUp, IsOn, clientVars, runVars,
                      pipeVars
<1>3. ASSUME NEW l \in Launchers, Connect(l) PROVE (\A m \in Launchers : TakenIsLinked(m))'
  <2>1. CASE UNCHANGED <<listener, link>>
    BY <1>0, <2>1 DEF TakenIsLinked, IsOn
  <2>2. ASSUME NEW m \in Launchers,
               listener' = [listener EXCEPT ![m] = "taken"],
               link' = [link EXCEPT ![l] = [to |-> m, at |-> "pipe"]],
               pc[l] = "connect"
        PROVE  (\A y \in Launchers : TakenIsLinked(y))'
    <3>1. ASSUME NEW y \in Launchers, listener'[y] = "taken", y # m
          PROVE  \E x \in Launchers : IsOn(x, y, "pipe")'
      <4>1. listener[y] = "taken"
        BY <1>0, <2>2, <3>1 DEF TypeOK
      <4>2. PICK x \in Launchers : IsOn(x, y, "pipe")
        BY <1>0, <4>1 DEF TakenIsLinked
      <4>3. x # l
        BY <1>0, <2>2, <4>2 DEF CallerFits, GaveUp, IsOn
      <4>4. link'[x] = link[x]
        BY <1>0, <2>2, <4>3 DEF TypeOK
      <4>q. QED
        BY <4>2, <4>4 DEF IsOn
    <3>2. IsOn(l, m, "pipe")'
      BY <1>0, <2>2 DEF TypeOK, IsOn
    <3>q. QED
      BY <3>1, <3>2 DEF TakenIsLinked
  <2>q. QED
    BY <1>3, <2>1, <2>2 DEF Connect, Goes, Free
<1>4. ASSUME NEW l \in Launchers, Verify(l) PROVE Frame
    BY <1>0, <1>4 DEF Verify, Goes, Leaves, TypeOK, CallerFits, GaveUp, IsOn, clientVars, runVars,
                      pipeVars
<1>5. ASSUME NEW l \in Launchers, ReadAnswer(l) PROVE Frame
    BY <1>0, <1>5 DEF ReadAnswer, LetsGo, TypeOK, CallerFits, GaveUp, IsOn, clientVars, runVars,
                      pipeVars
<1>6. ASSUME NEW l \in Launchers, CallBreaks(l) PROVE Frame
    BY <1>0, <1>6 DEF CallBreaks, RaceAgain, Leaves, LetsGo, TypeOK, CallerFits, GaveUp, IsOn,
                      clientVars,
                      runVars, pipeVars
<1>7. ASSUME NEW l \in Launchers, AcceptClient(l) PROVE Frame
  <2>1. \A x \in Launchers : link'[x] = IF IsOn(x, l, "pipe") THEN [to |-> l, at |-> "session"] ELSE link[x]
    BY <1>7, LinkSteps
  <2>2. \A m \in Launchers : listener'[m] = "taken" => listener[m] = "taken" /\ m # l
    BY <1>0, <1>7 DEF AcceptClient, TypeOK
  <2>q. QED
    BY <1>0, <2>1, <2>2 DEF IsOn
<1>8. ASSUME NEW l \in Launchers, AcceptAbandoned(l) PROVE Frame
    BY <1>0, <1>8 DEF AcceptAbandoned, AcceptUnchanged, TypeOK, CallerFits, GaveUp, IsOn, clientVars,
                      runVars,
                      pipeVars
<1>9. ASSUME NEW l \in Launchers, CreateNextInstance(l) PROVE Frame
    BY <1>0, <1>9 DEF CreateNextInstance, AcceptUnchanged, TypeOK, CallerFits, GaveUp, IsOn, clientVars,
                      runVars, pipeVars
<1>10. ASSUME NEW l \in Launchers, HandleAcceptFailure(l) PROVE Frame
    BY <1>0, <1>10 DEF HandleAcceptFailure, AcceptUnchanged, TypeOK, CallerFits, GaveUp, IsOn,
                       clientVars,
                       runVars, pipeVars
<1>11. ASSUME NEW l \in Launchers, SessionEnds(l) PROVE Frame
    BY <1>0, <1>11 DEF SessionEnds, AcceptUnchanged, TypeOK, CallerFits, GaveUp, IsOn, clientVars,
                       runVars,
                       pipeVars
<1>12. ASSUME NEW l \in Launchers, Prepare(l) PROVE Frame
    BY <1>0, <1>12 DEF Prepare, Goes, TypeOK, CallerFits, GaveUp, IsOn, clientVars, runVars, pipeVars
<1>13. ASSUME NEW l \in Launchers, PrepareFails(l) PROVE Frame
    BY <1>0, <1>13 DEF PrepareFails, Goes, TypeOK, CallerFits, GaveUp, IsOn, clientVars, runVars,
                       pipeVars
<1>14. ASSUME NEW l \in Launchers, EndRun(l) PROVE Frame
    BY <1>0, <1>14 DEF EndRun, Goes, TypeOK, CallerFits, GaveUp, IsOn, clientVars, runVars, pipeVars
<1>15. ASSUME NEW l \in Launchers, Unmount(l) PROVE Frame
    BY <1>0, <1>15 DEF Unmount, Goes, TypeOK, CallerFits, GaveUp, IsOn, clientVars, runVars, pipeVars
<1>16. ASSUME NEW l \in Launchers, StopServing(l) PROVE Frame
  <2>1. CASE UNCHANGED link
    BY <1>0, <1>16, <2>1 DEF StopServing, TypeOK
  <2>2. CASE link' # link
    <3>1. \A x \in Launchers : link'[x] = IF IsOn(x, l, "pipe") THEN [to |-> l, at |-> "session"] ELSE link[x]
      BY <1>16, <2>2, LinkSteps
    <3>2. \A m \in Launchers : listener'[m] = "taken" => listener[m] = "taken" /\ m # l
      BY <1>0, <1>16, <2>2 DEF StopServing, TypeOK
    <3>q. QED
      BY <1>0, <3>1, <3>2 DEF IsOn
  <2>q. QED
    BY <2>1, <2>2
<1>17. ASSUME NEW l \in Launchers, AcceptStops(l) PROVE Frame
  <2>1. \A x \in Launchers : link'[x] = IF IsOn(x, l, "pipe") THEN [to |-> l, at |-> "broken"] ELSE link[x]
    BY <1>17, LinkSteps
  <2>2. \A m \in Launchers : listener'[m] = "taken" => listener[m] = "taken" /\ m # l
    BY <1>0, <1>17 DEF AcceptStops, TypeOK
  <2>q. QED
    BY <1>0, <2>1, <2>2 DEF IsOn
<1>18. ASSUME NEW l \in Launchers, MasterLeaves(l) PROVE Frame
    BY <1>0, <1>18 DEF MasterLeaves, Goes, TypeOK, CallerFits, GaveUp, IsOn, clientVars, runVars,
                       pipeVars
<1>19. ASSUME NEW l \in Launchers, NEW c \in Launchers, ServeRequest(l, c) PROVE Frame
    BY <1>0, <1>19 DEF ServeRequest, Answers, TypeOK, CallerFits, GaveUp, IsOn, clientVars, runVars,
                       pipeVars
<1>20. ASSUME NEW l \in Launchers, NEW c \in Launchers, TurnAway(l, c) PROVE Frame
    BY <1>0, <1>20 DEF TurnAway, Answers, TypeOK, CallerFits, GaveUp, IsOn, clientVars, runVars,
                       pipeVars
<1>21. ASSUME NEW l \in Launchers, NEW c \in Launchers, CloseSession(l, c) PROVE Frame
  <2>1. \A x \in Launchers : link'[x] = IF x = c THEN [to |-> l, at |-> "broken"] ELSE link[x]
    BY <1>21, LinkSteps
  <2>2. UNCHANGED listener /\ c \in Linked(l, "session")
    BY <1>21 DEF CloseSession, pipeVars
  <2>3. IsOn(c, l, "session")
    BY <1>0, <2>2, LinkedIsOn
  <2>q. QED
    BY <1>0, <2>1, <2>2, <2>3 DEF IsOn
<1>22. ASSUME NEW l \in Launchers, ProgramsEnd(l) PROVE Frame
    BY <1>0, <1>22 DEF ProgramsEnd, TypeOK, CallerFits, GaveUp, IsOn, clientVars, runVars, pipeVars
<1>23. ASSUME NEW l \in Launchers, Crash(l) PROVE Frame
  <2>1. \A x \in Launchers : link'[x] = IF IsOn(x, l, "pipe") \/ IsOn(x, l, "session") \/ IsOn(x, l, "gone")
                                        THEN [to |-> l, at |-> "broken"] ELSE link[x]
    BY <1>23, LinkSteps
  <2>2. \A m \in Launchers : listener'[m] = "taken" => listener[m] = "taken" /\ m # l
    BY <1>0, <1>23 DEF Crash, TypeOK
  <2>q. QED
    BY <1>0, <2>1, <2>2 DEF IsOn
<1>24. CASE UNCHANGED vars
    BY <1>0, <1>24, TakenFrame DEF vars, moves, pipeVars, clientVars
<1>25. Frame => (\A m \in Launchers : TakenIsLinked(m))'
    BY <1>0, TakenFrame
<1>26. ASSUME NEW l \in Launchers, CallTimesOut(l) PROVE Frame
    BY <1>26 DEF CallTimesOut, clientVars, pipeVars
<1>27. ASSUME NEW l \in Launchers, AcceptGone(l) PROVE Frame
  <2>1. PICK c \in Launchers : LeftOne(l, c, "pipe", "broken")
    BY <1>27, LinkSteps
  <2>2. \A m \in Launchers : listener'[m] = "taken" => listener[m] = "taken" /\ m # l
    BY <1>0, <1>27 DEF AcceptGone, TypeOK
  <2>q. QED
    BY <1>0, <2>1, <2>2 DEF LeftOne, IsOn
<1>28. ASSUME NEW l \in Launchers, PeerGone(l) PROVE Frame
  <2>1. PICK c \in Launchers, at \in {"gone", "broken"} : LeftOne(l, c, "session", at)
    BY <1>28, LinkSteps
  <2>2. UNCHANGED listener
    BY <1>28 DEF PeerGone
  <2>q. QED
    BY <1>0, <2>1, <2>2 DEF LeftOne, IsOn
<1> HIDE DEF Frame
<1>q. QED
    BY <1>1, <1>2, <1>3, <1>4, <1>5, <1>6, <1>7, <1>8, <1>9, <1>10, <1>11, <1>12, <1>13, <1>14, <1>15,
           <1>16, <1>17, <1>18, <1>19, <1>20, <1>21, <1>22, <1>23, <1>24, <1>25, <1>26, <1>27, <1>28 DEF Next, Client,
           Accept, Master

\* Which launchers accept, and which have the sandbox mounted.
AcceptersFit ==
    /\ \A m \in Launchers : pc[m] \in {"prepare", "serve", "end", "stop"} <=> m \in accepts
    /\ \A m \in mounted : pc[m] \in {"prepare", "serve", "end"}

LEMMA HolderStep ==
    ASSUME HolderInv, CallerInv', [Next]_vars, faults \subseteq {"crash", "slow"}
    PROVE  /\ AcceptersFit'
           /\ \A m \in accepts' : HoldsName(m)'
           /\ \A m, n \in accepts' : m = n
<1> DEFINE Kept == \A m \in accepts' : m \in accepts /\ HoldsName(m)'
<1>0. /\ TypeOK /\ (\A x \in Launchers : CallerFits(x)) /\ (\A m \in Launchers : TakenIsLinked(m))
      /\ AcceptersFit
      /\ \A m \in accepts : HoldsName(m)
      /\ \A m, n \in accepts : m = n
      /\ TypeOK' /\ accepts \subseteq Launchers /\ accepts' \subseteq Launchers
    BY DEF HolderInv, HolderIsAlone, CallerInv, AcceptersFit, TypeOK
<1>h. /\ \A m \in Launchers : HoldsName(m) <=> \/ listener[m] # "none" \/ m \in ghosts
                                             \/ \E x \in Launchers : IsOn(x, m, "session")
      /\ \A m \in Launchers : HoldsName(m)' <=> \/ listener'[m] # "none" \/ m \in ghosts'
                                              \/ \E x \in Launchers : IsOn(x, m, "session")'
  <2>1. \A m, x \in Launchers : /\ x \in Linked(m, "session") <=> IsOn(x, m, "session")
                                /\ x \in Linked(m, "session")' <=> IsOn(x, m, "session")'
    BY <1>0 DEF Linked, IsOn, TypeOK
  <2>2. \A m \in Launchers : Linked(m, "session") \subseteq Launchers /\ Linked(m, "session")' \subseteq Launchers
    BY DEF Linked
  <2>q. QED
    BY <2>1, <2>2 DEF HoldsName
<1>1. ASSUME NEW l \in Launchers, Race(l)
      PROVE  /\ AcceptersFit'
             /\ \A m \in accepts' : HoldsName(m)'
             /\ \A m, n \in accepts' : m = n
  <2>1. CASE NameExists
    <3>1. /\ pc[l] = "race" /\ pc' = [pc EXCEPT ![l] = "probe"]
          /\ UNCHANGED <<accepts, listener, mounted, link, ghosts>>
      BY <1>1, <2>1 DEF Race, Goes, clientVars
    <3>2. AcceptersFit'
      BY <1>0, <3>1 DEF AcceptersFit, TypeOK
    <3>3. \A m \in accepts' : HoldsName(m)'
      BY <1>0, <1>h, <3>1 DEF IsOn
    <3>q. QED
      BY <1>0, <3>1, <3>2, <3>3
  <2>2. CASE ~NameExists
    <3>1. accepts = {}
      BY <1>0, <2>2 DEF NameExists
    <3>2. accepts' = {l} /\ listener'[l] = "free"
      BY <1>0, <1>1, <2>2, <3>1 DEF Race, TypeOK
    <3>3. AcceptersFit'
      BY <1>0, <1>1, <2>2, <3>1 DEF Race, Goes, AcceptersFit, TypeOK
    <3>q. QED
      BY <3>2, <3>3 DEF HoldsName
  <2>q. QED
    BY <2>1, <2>2
<1>2. ASSUME NEW l \in Launchers, Probe(l) PROVE Kept /\ AcceptersFit'
  <2>1. AcceptersFit' /\ accepts' \subseteq accepts
    <3>1. pc[l] = "probe" /\ (\E to \in {"connect", "left"} : pc' = [pc EXCEPT ![l] = to])
          /\ UNCHANGED <<mounted, accepts>>
      BY <1>2 DEF Probe, Goes, Leaves, runVars
    <3>q. QED
      BY <1>0, <3>1 DEF AcceptersFit, TypeOK
  <2>2. \A m \in accepts' : HoldsName(m)'
    BY <1>0, <1>h, <1>2, <2>1 DEF Probe, Goes, Leaves, AcceptersFit, TypeOK, CallerInv, CallerFits,
                                  GaveUp,
                                  TakenIsLinked, NoLink, IsOn, clientVars, runVars, pipeVars
  <2>q. QED
    BY <2>1, <2>2
<1>3. ASSUME NEW l \in Launchers, Connect(l) PROVE Kept /\ AcceptersFit'
  <2>0. /\ pc[l] \in {"connect", "verify", "call"} /\ UNCHANGED <<accepts, mounted>>
        /\ \E to \in {"race", "verify", "call", "left"} : pc' = [pc EXCEPT ![l] = to]
    BY <1>0, <1>3 DEF Connect, Goes, RaceAgain, Leaves, runVars
  <2>1. AcceptersFit' /\ accepts' \subseteq accepts
    BY <1>0, <2>0 DEF AcceptersFit, TypeOK
  <2>2. UNCHANGED ghosts /\ \A m \in Launchers : listener[m] # "none" => listener'[m] # "none"
    BY <1>0, <1>3 DEF Connect, TypeOK
  <2>3. \A x \in Launchers : link[x].at = "session" => link'[x] = link[x]
    <3>1. CASE UNCHANGED link
      BY <3>1
    <3>2. CASE \E m \in Free : pc[l] = "connect" /\ link' = [link EXCEPT ![l] = [to |-> m, at |-> "pipe"]]
      <4>1. PICK m \in Free : pc[l] = "connect" /\ link' = [link EXCEPT ![l] = [to |-> m, at |-> "pipe"]]
        BY <3>2
      <4>2. link[l].at # "session"
        BY <1>0, <4>1 DEF CallerFits, GaveUp
      <4>q. QED
        BY <1>0, <4>1, <4>2 DEF TypeOK
    <3>q. QED
      BY <1>3, <3>1, <3>2 DEF Connect, Goes
  <2>4. \A m \in accepts' : HoldsName(m)'
    BY <1>0, <1>h, <2>1, <2>2, <2>3 DEF IsOn
  <2>q. QED
    BY <2>1, <2>4
<1>4. ASSUME NEW l \in Launchers, Verify(l) PROVE Kept /\ AcceptersFit'
  <2>0. /\ pc[l] \in {"connect", "verify", "call"} /\ UNCHANGED <<accepts, mounted>>
        /\ \E to \in {"race", "verify", "call", "left"} : pc' = [pc EXCEPT ![l] = to]
    BY <1>0, <1>4 DEF Verify, Goes, Leaves, runVars, pipeVars
  <2>1. AcceptersFit' /\ accepts' \subseteq accepts
    BY <1>0, <2>0 DEF AcceptersFit, TypeOK
  <2>2. \A m \in accepts' : HoldsName(m)'
    BY <1>0, <1>h, <1>4, <2>1 DEF Verify, pipeVars, IsOn
  <2>q. QED
    BY <2>1, <2>2
<1>5. ASSUME NEW l \in Launchers, ReadAnswer(l) PROVE Kept /\ AcceptersFit'
  <2>a. \E to \in {"race", "left"} : pc' = [pc EXCEPT ![l] = to]
    <3>1. CASE answer[l] = "started"
      BY <1>5, <3>1 DEF ReadAnswer, Leaves
    <3>2. CASE answer[l] = "refused"
      BY <1>5, <3>2 DEF ReadAnswer, Leaves
    <3>3. CASE answer[l] = "shutting"
      BY <1>5, <3>3 DEF ReadAnswer, RaceAgain, Leaves
    <3>q. QED
      BY <1>0, <1>5, <3>1, <3>2, <3>3 DEF ReadAnswer, TypeOK
  <2>0. /\ pc[l] \in {"connect", "verify", "call"} /\ UNCHANGED <<accepts, mounted>>
        /\ \E to \in {"race", "verify", "call", "left"} : pc' = [pc EXCEPT ![l] = to]
    BY <1>0, <1>5, <2>a DEF ReadAnswer, runVars
  <2>1. AcceptersFit' /\ accepts' \subseteq accepts
    BY <1>0, <2>0 DEF AcceptersFit, TypeOK
  <2>2. LetsGo(l) /\ UNCHANGED listener /\ pc[l] = "call" /\ link[l].at \in {"session", "broken"}
    BY <1>0, <1>5 DEF ReadAnswer, CallerFits, GaveUp
  <2>3. /\ \A x \in Launchers : x # l => link'[x] = link[x]
        /\ ghosts \subseteq ghosts'
        /\ link[l].at = "session" => link[l].to \in ghosts'
    BY <1>0, <2>2 DEF LetsGo, TypeOK
  <2>4. \A m \in accepts' : HoldsName(m)'
    BY <1>0, <1>h, <2>1, <2>2, <2>3 DEF IsOn
  <2>q. QED
    BY <2>1, <2>4
<1>6. ASSUME NEW l \in Launchers, CallBreaks(l) PROVE Kept /\ AcceptersFit'
  <2>0. /\ pc[l] \in {"connect", "verify", "call"} /\ UNCHANGED <<accepts, mounted>>
        /\ \E to \in {"race", "verify", "call", "left"} : pc' = [pc EXCEPT ![l] = to]
    BY <1>0, <1>6 DEF CallBreaks, RaceAgain, Leaves, runVars
  <2>1. AcceptersFit' /\ accepts' \subseteq accepts
    BY <1>0, <2>0 DEF AcceptersFit, TypeOK
  <2>2. LetsGo(l) /\ UNCHANGED listener /\ pc[l] = "call" /\ link[l].at \in {"session", "broken"}
    BY <1>0, <1>6 DEF CallBreaks, CallerFits, GaveUp
  <2>3. /\ \A x \in Launchers : x # l => link'[x] = link[x]
        /\ ghosts \subseteq ghosts'
        /\ link[l].at = "session" => link[l].to \in ghosts'
    BY <1>0, <2>2 DEF LetsGo, TypeOK
  <2>4. \A m \in accepts' : HoldsName(m)'
    BY <1>0, <1>h, <2>1, <2>2, <2>3 DEF IsOn
  <2>q. QED
    BY <2>1, <2>4
<1>7. ASSUME NEW l \in Launchers, AcceptClient(l) PROVE Kept /\ AcceptersFit'
  <2>1. AcceptersFit' /\ accepts' \subseteq accepts
    BY <1>0, <1>7 DEF AcceptClient, AcceptUnchanged, AcceptersFit, runVars
  <2>2. \A x \in Launchers : link'[x] = IF IsOn(x, l, "pipe") THEN [to |-> l, at |-> "session"] ELSE link[x]
    BY <1>7, LinkSteps DEF HolderInv
  <2>3. /\ listener[l] = "taken" /\ UNCHANGED ghosts
        /\ \A m \in Launchers : m # l => listener'[m] = listener[m]
    BY <1>0, <1>7 DEF AcceptClient, TypeOK
  <2>4. HoldsName(l)'
    BY <1>0, <1>h, <2>2, <2>3 DEF TakenIsLinked, IsOn
  <2>5. \A m \in accepts' : m # l => HoldsName(m)'
    BY <1>0, <1>h, <2>1, <2>2, <2>3 DEF IsOn
  <2>q. QED
    BY <2>1, <2>4, <2>5
<1>8. ASSUME NEW l \in Launchers, AcceptAbandoned(l) PROVE Kept /\ AcceptersFit'
  <2>1. AcceptersFit' /\ accepts' \subseteq accepts
    BY <1>0, <1>8 DEF AcceptAbandoned, AcceptUnchanged, AcceptersFit, TypeOK, clientVars, runVars,
                      pipeVars
  <2>2. \A m \in accepts' : HoldsName(m)'
    BY <1>0, <1>h, <1>8, <2>1 DEF AcceptAbandoned, AcceptUnchanged, AcceptersFit, TypeOK, CallerInv,
                                  CallerFits, GaveUp, TakenIsLinked, NoLink, IsOn, clientVars, runVars,
                                  pipeVars
  <2>q. QED
    BY <2>1, <2>2
<1>9. ASSUME NEW l \in Launchers, CreateNextInstance(l) PROVE Kept /\ AcceptersFit'
  <2>1. AcceptersFit' /\ accepts' \subseteq accepts
    BY <1>0, <1>9 DEF CreateNextInstance, AcceptUnchanged, AcceptersFit, TypeOK, clientVars, runVars,
                      pipeVars
  <2>2. \A m \in accepts' : HoldsName(m)'
    BY <1>0, <1>h, <1>9, <2>1 DEF CreateNextInstance, AcceptUnchanged, AcceptersFit, TypeOK, CallerInv,
                                  CallerFits, GaveUp, TakenIsLinked, NoLink, IsOn, clientVars, runVars,
                                  pipeVars
  <2>q. QED
    BY <2>1, <2>2
<1>10. ASSUME NEW l \in Launchers, HandleAcceptFailure(l) PROVE Kept /\ AcceptersFit'
  <2>1. AcceptersFit' /\ accepts' \subseteq accepts
    BY <1>0, <1>10 DEF HandleAcceptFailure, AcceptUnchanged, AcceptersFit, TypeOK, clientVars, runVars,
                       pipeVars
  <2>2. \A m \in accepts' : HoldsName(m)'
    BY <1>0, <1>h, <1>10, <2>1 DEF HandleAcceptFailure, AcceptUnchanged, AcceptersFit, TypeOK,
           CallerInv, CallerFits, GaveUp, TakenIsLinked, NoLink, IsOn, clientVars, runVars, pipeVars
  <2>q. QED
    BY <2>1, <2>2
<1>11. ASSUME NEW l \in Launchers, SessionEnds(l) PROVE Kept /\ AcceptersFit'
  <2>1. AcceptersFit' /\ accepts' \subseteq accepts
    BY <1>0, <1>11 DEF SessionEnds, AcceptUnchanged, AcceptersFit, TypeOK, clientVars, runVars, pipeVars
  <2>2. /\ UNCHANGED <<listener, link, accepts>> /\ ghosts' = ghosts \ {l}
        /\ l \in accepts => listener[l] # "none"
    BY <1>11 DEF SessionEnds
  <2>3. \A m \in accepts' : HoldsName(m)'
    BY <1>0, <1>h, <2>2 DEF IsOn
  <2>q. QED
    BY <2>1, <2>3
<1>12. ASSUME NEW l \in Launchers, Prepare(l) PROVE Kept /\ AcceptersFit'
  <2>1. AcceptersFit' /\ accepts' \subseteq accepts
    BY <1>0, <1>12 DEF Prepare, Goes, AcceptersFit, TypeOK, clientVars, runVars, pipeVars
  <2>2. \A m \in accepts' : HoldsName(m)'
    BY <1>0, <1>h, <1>12, <2>1 DEF Prepare, Goes, AcceptersFit, TypeOK, CallerInv, CallerFits, GaveUp,
           TakenIsLinked, NoLink, IsOn, clientVars, runVars, pipeVars
  <2>q. QED
    BY <2>1, <2>2
<1>13. ASSUME NEW l \in Launchers, PrepareFails(l) PROVE Kept /\ AcceptersFit'
  <2>1. AcceptersFit' /\ accepts' \subseteq accepts
    BY <1>0, <1>13 DEF PrepareFails, Goes, AcceptersFit, TypeOK, clientVars, runVars, pipeVars
  <2>2. \A m \in accepts' : HoldsName(m)'
    BY <1>0, <1>h, <1>13, <2>1 DEF PrepareFails, Goes, AcceptersFit, TypeOK, CallerInv, CallerFits,
           GaveUp,
           TakenIsLinked, NoLink, IsOn, clientVars, runVars, pipeVars
  <2>q. QED
    BY <2>1, <2>2
<1>14. ASSUME NEW l \in Launchers, EndRun(l) PROVE Kept /\ AcceptersFit'
  <2>1. AcceptersFit' /\ accepts' \subseteq accepts
    BY <1>0, <1>14 DEF EndRun, Goes, AcceptersFit, TypeOK, clientVars, runVars, pipeVars
  <2>2. \A m \in accepts' : HoldsName(m)'
    BY <1>0, <1>h, <1>14, <2>1 DEF EndRun, Goes, AcceptersFit, TypeOK, CallerInv, CallerFits, GaveUp,
           TakenIsLinked, NoLink, IsOn, clientVars, runVars, pipeVars
  <2>q. QED
    BY <2>1, <2>2
<1>15. ASSUME NEW l \in Launchers, Unmount(l) PROVE Kept /\ AcceptersFit'
  <2>1. AcceptersFit' /\ accepts' \subseteq accepts
    BY <1>0, <1>15 DEF Unmount, Goes, AcceptersFit, TypeOK, clientVars, runVars, pipeVars
  <2>2. \A m \in accepts' : HoldsName(m)'
    BY <1>0, <1>h, <1>15, <2>1 DEF Unmount, Goes, AcceptersFit, TypeOK, CallerInv, CallerFits, GaveUp,
           TakenIsLinked, NoLink, IsOn, clientVars, runVars, pipeVars
  <2>q. QED
    BY <2>1, <2>2
<1>16. ASSUME NEW l \in Launchers, StopServing(l) PROVE Kept /\ AcceptersFit'
  <2>1. AcceptersFit' /\ accepts' \subseteq accepts
    BY <1>0, <1>16 DEF StopServing, Goes, AcceptersFit, TypeOK, clientVars, runVars, pipeVars
  <2>2. \A m \in accepts' : HoldsName(m)'
    BY <1>0, <1>h, <1>16, <2>1, LinkSteps DEF StopServing, Goes, AcceptersFit, TypeOK, CallerInv,
           CallerFits, GaveUp, TakenIsLinked, NoLink, IsOn, clientVars, runVars, pipeVars
  <2>q. QED
    BY <2>1, <2>2
<1>17. ASSUME NEW l \in Launchers, AcceptStops(l) PROVE Kept /\ AcceptersFit'
  <2>1. AcceptersFit' /\ accepts' \subseteq accepts
    BY <1>0, <1>17 DEF AcceptStops, AcceptersFit, runVars, pipeVars
  <2>2. \A x \in Launchers : link'[x] = IF IsOn(x, l, "pipe") THEN [to |-> l, at |-> "broken"] ELSE link[x]
    BY <1>17, LinkSteps DEF HolderInv
  <2>3. /\ l \notin accepts' /\ ghosts \ {l} \subseteq ghosts'
        /\ \A m \in Launchers : m # l => listener'[m] = listener[m]
    <3>1. pc[l] = "closing" /\ listener' = [listener EXCEPT ![l] = "none"] /\ UNCHANGED ghosts
      BY <1>17 DEF AcceptStops
    <3>2. l \notin accepts /\ listener \in [Launchers -> {"none", "free", "taken", "abandoned"}]
      BY <1>0, <3>1 DEF TypeOK, AcceptersFit
    <3>q. QED
      BY <2>1, <3>1, <3>2
  <2>4. \A m \in accepts' : HoldsName(m)'
    BY <1>0, <1>h, <2>1, <2>2, <2>3 DEF IsOn
  <2>q. QED
    BY <2>1, <2>4
<1>18. ASSUME NEW l \in Launchers, MasterLeaves(l) PROVE Kept /\ AcceptersFit'
  <2>1. AcceptersFit' /\ accepts' \subseteq accepts
    BY <1>0, <1>18 DEF MasterLeaves, Goes, AcceptersFit, TypeOK, clientVars, runVars, pipeVars
  <2>2. \A m \in accepts' : HoldsName(m)'
    BY <1>0, <1>h, <1>18, <2>1 DEF MasterLeaves, Goes, AcceptersFit, TypeOK, CallerInv, CallerFits,
           GaveUp,
           TakenIsLinked, NoLink, IsOn, clientVars, runVars, pipeVars
  <2>q. QED
    BY <2>1, <2>2
<1>19. ASSUME NEW l \in Launchers, NEW c \in Launchers, ServeRequest(l, c) PROVE Kept /\ AcceptersFit'
  <2>1. AcceptersFit' /\ accepts' \subseteq accepts
    BY <1>0, <1>19 DEF ServeRequest, Answers, AcceptersFit, TypeOK, clientVars, runVars, pipeVars
  <2>2. \A m \in accepts' : HoldsName(m)'
    BY <1>0, <1>h, <1>19, <2>1 DEF ServeRequest, Answers, AcceptersFit, TypeOK, CallerInv, CallerFits,
           GaveUp,
           TakenIsLinked, NoLink, IsOn, clientVars, runVars, pipeVars
  <2>q. QED
    BY <2>1, <2>2
<1>20. ASSUME NEW l \in Launchers, NEW c \in Launchers, TurnAway(l, c) PROVE Kept /\ AcceptersFit'
  <2>1. AcceptersFit' /\ accepts' \subseteq accepts
    BY <1>0, <1>20 DEF TurnAway, Answers, AcceptersFit, TypeOK, clientVars, runVars, pipeVars
  <2>2. \A m \in accepts' : HoldsName(m)'
    BY <1>0, <1>h, <1>20, <2>1 DEF TurnAway, Answers, AcceptersFit, TypeOK, CallerInv, CallerFits,
           GaveUp,
           TakenIsLinked, NoLink, IsOn, clientVars, runVars, pipeVars
  <2>q. QED
    BY <2>1, <2>2
<1>21. ASSUME NEW l \in Launchers, NEW c \in Launchers, CloseSession(l, c) PROVE Kept /\ AcceptersFit'
  <2>1. AcceptersFit' /\ accepts' \subseteq accepts
    BY <1>0, <1>21 DEF CloseSession, AcceptersFit, runVars, pipeVars
  <2>2. \A x \in Launchers : link'[x] = IF x = c THEN [to |-> l, at |-> "broken"] ELSE link[x]
    BY <1>21, LinkSteps DEF HolderInv
  <2>3. /\ l \notin accepts' /\ ghosts \ {l} \subseteq ghosts'
        /\ \A m \in Launchers : m # l => listener'[m] = listener[m]
    BY <1>0, <1>21, <2>1 DEF CloseSession, TypeOK, AcceptersFit, pipeVars
  <2>s. IsOn(c, l, "session")
    BY <1>0, <1>21, LinkedIsOn DEF CloseSession
  <2>4. \A m \in accepts' : HoldsName(m)'
    BY <1>0, <1>h, <2>1, <2>2, <2>3, <2>s DEF IsOn
  <2>q. QED
    BY <2>1, <2>4
<1>22. ASSUME NEW l \in Launchers, ProgramsEnd(l) PROVE Kept /\ AcceptersFit'
  <2>1. AcceptersFit' /\ accepts' \subseteq accepts
    BY <1>0, <1>22 DEF ProgramsEnd, AcceptersFit, TypeOK, clientVars, runVars, pipeVars
  <2>2. \A m \in accepts' : HoldsName(m)'
    BY <1>0, <1>h, <1>22, <2>1 DEF ProgramsEnd, AcceptersFit, TypeOK, CallerInv, CallerFits, GaveUp,
           TakenIsLinked, NoLink, IsOn, clientVars, runVars, pipeVars
  <2>q. QED
    BY <2>1, <2>2
<1>23. ASSUME NEW l \in Launchers, Crash(l) PROVE Kept /\ AcceptersFit'
  <2>1. AcceptersFit' /\ accepts' \subseteq accepts
    BY <1>0, <1>23 DEF Crash, Leaves, AcceptersFit, TypeOK
  <2>2. \A x \in Launchers : link'[x] = IF IsOn(x, l, "pipe") \/ IsOn(x, l, "session") \/ IsOn(x, l, "gone")
                                        THEN [to |-> l, at |-> "broken"] ELSE link[x]
    BY <1>23, LinkSteps DEF HolderInv
  <2>3. /\ l \notin accepts' /\ ghosts \ {l} \subseteq ghosts'
        /\ \A m \in Launchers : m # l => listener'[m] = listener[m]
    BY <1>0, <1>23, <2>1 DEF Crash, TypeOK, AcceptersFit, pipeVars
  <2>4. \A m \in accepts' : HoldsName(m)'
    BY <1>0, <1>h, <2>1, <2>2, <2>3 DEF IsOn
  <2>q. QED
    BY <2>1, <2>4
<1>24. CASE UNCHANGED vars
    BY <1>0, <1>24 DEF vars, moves, pipeVars, runVars, clientVars, AcceptersFit, HoldsName, Linked
<1>25. Kept => /\ \A m \in accepts' : HoldsName(m)'
               /\ \A m, n \in accepts' : m = n
    BY <1>0
<1>26. ASSUME NEW l \in Launchers, CallTimesOut(l) PROVE Kept /\ AcceptersFit'
  <2>1. AcceptersFit' /\ accepts' \subseteq accepts
    BY <1>0, <1>26 DEF CallTimesOut, Leaves, AcceptersFit, TypeOK, runVars, pipeVars
  <2>2. \A m \in accepts' : HoldsName(m)'
    BY <1>0, <1>h, <1>26, <2>1 DEF CallTimesOut, IsOn, clientVars, pipeVars
  <2>q. QED
    BY <2>1, <2>2
<1>27. ASSUME NEW l \in Launchers, AcceptGone(l) PROVE Kept /\ AcceptersFit'
  <2>1. AcceptersFit' /\ accepts' \subseteq accepts
    BY <1>0, <1>27 DEF AcceptGone, AcceptersFit, runVars
  <2>2. PICK c \in Launchers : LeftOne(l, c, "pipe", "broken")
    BY <1>27, LinkSteps DEF HolderInv
  <2>3. UNCHANGED ghosts /\ \A m \in Launchers : listener[m] # "none" => listener'[m] # "none"
    <3>1. listener' = [listener EXCEPT ![l] = "free"] /\ UNCHANGED ghosts
      BY <1>27 DEF AcceptGone
    <3>q. QED
      BY <1>0, <3>1 DEF TypeOK
  <2>4. \A m \in accepts' : HoldsName(m)'
    BY <1>0, <1>h, <2>1, <2>2, <2>3 DEF LeftOne, IsOn
  <2>q. QED
    BY <2>1, <2>4
<1>28. ASSUME NEW l \in Launchers, PeerGone(l) PROVE Kept /\ AcceptersFit'
  <2>1. AcceptersFit' /\ accepts' \subseteq accepts
    BY <1>0, <1>28 DEF PeerGone, AcceptUnchanged, AcceptersFit, runVars
  <2>2. PICK c \in Launchers, at \in {"gone", "broken"} : LeftOne(l, c, "session", at)
    BY <1>28, LinkSteps DEF HolderInv
  <2>3. UNCHANGED <<listener, ghosts>> /\ (l \in accepts => listener[l] # "none")
    BY <1>28 DEF PeerGone
  <2>4. \A m \in accepts' : HoldsName(m)'
    BY <1>0, <1>h, <2>1, <2>2, <2>3 DEF LeftOne, IsOn
  <2>q. QED
    BY <2>1, <2>4
<1> HIDE DEF Kept
<1>q. QED
    BY <1>1, <1>2, <1>3, <1>4, <1>5, <1>6, <1>7, <1>8, <1>9, <1>10, <1>11, <1>12, <1>13, <1>14, <1>15,
           <1>16, <1>17, <1>18, <1>19, <1>20, <1>21, <1>22, <1>23, <1>24, <1>25, <1>26, <1>27, <1>28 DEF Next, Client,
           Accept, Master

\* The living servers which started x are known to x, and are one.
KnownTo(x) ==
    /\ \A m \in Launchers : <<m, x>> \in served /\ exit[m] # "crashed" => StartIsKnown(m, x)
    /\ \A m, n \in Launchers : /\ <<m, x>> \in served /\ exit[m] # "crashed"
                              /\ <<n, x>> \in served /\ exit[n] # "crashed"
                              => m = n
    /\ pc[x] = "serve" \/ answer[x] = "started" \/ exit[x] = "ok"
          => \E m \in Launchers : <<m, x>> \in served

LEMMA KnownToAll == StartsAreKnown <=> \A x \in Launchers : KnownTo(x)
    BY DEF StartsAreKnown, KnownTo, Starters

\* A launcher which nothing happened to, but that its request may be off.
SameFor(x) ==
    /\ pc'[x] = pc[x] /\ exit'[x] = exit[x] /\ answer'[x] = answer[x]
    /\ link'[x].to = link[x].to
    /\ x \in asked' => x \in asked

DeathIsFinal == \A m \in Launchers : exit[m] = "crashed" => exit'[m] = "crashed"

LEMMA KnownFrame ==
    ASSUME NEW x \in Launchers, KnownTo(x), SameFor(x), DeathIsFinal,
           \A m \in Launchers : <<m, x>> \in served' <=> <<m, x>> \in served
    PROVE  KnownTo(x)'
    BY DEF KnownTo, StartIsKnown, GaveUp, SameFor, DeathIsFinal

\* A launcher which races, checks or prepares was started by nobody who lives.
Unstarted(x) == \A m \in Launchers : <<m, x>> \in served => exit[m] = "crashed"

LEMMA UnstartedFrame ==
    ASSUME NEW x \in Launchers, KnownTo(x), CallerFits(x), DeathIsFinal, UNCHANGED served,
           \/ pc[x] \in {"race", "probe", "connect", "verify", "prepare"}
           \/ pc[x] = "call" /\ answer[x] # "started",
           pc'[x] # "serve", answer'[x] # "started", exit'[x] # "ok"
    PROVE  KnownTo(x)'
<1>1. Unstarted(x)
    BY DEF Unstarted, KnownTo, StartIsKnown, GaveUp
<1>2. Unstarted(x)'
    BY <1>1 DEF Unstarted, DeathIsFinal
<1>q. QED
    BY <1>2 DEF Unstarted, KnownTo

\* A master instance on its way out keeps what it started for itself.
LEMMA MasterFrame ==
    ASSUME NEW x \in Launchers, KnownTo(x), DeathIsFinal, UNCHANGED served,
           pc[x] \in {"serve", "end", "stop", "closing"},
           pc'[x] \in {"end", "stop", "closing", "left"},
           \/ exit'[x] = exit[x]
           \/ pc[x] = "serve" /\ exit'[x] \in {"ok", "died"},
           answer'[x] = answer[x]
    PROVE  KnownTo(x)'
<1>1. \A m \in Launchers : <<m, x>> \in served' /\ exit'[m] # "crashed" => StartIsKnown(m, x)'
    BY DEF KnownTo, StartIsKnown, GaveUp, DeathIsFinal
<1>q. QED
    BY <1>1 DEF KnownTo, DeathIsFinal

\* The programs of a request are known to their launcher, whatever is lost on the way.
LEMMA StartStep ==
    ASSUME StartInv, CallerInv', [Next]_vars
    PROVE  StartsAreKnown'
<1> DEFINE All == \A x \in Launchers : KnownTo(x)'
<1>0. /\ TypeOK /\ (\A x \in Launchers : CallerFits(x))
      /\ TypeOK'
      /\ \A x \in Launchers : KnownTo(x)
    BY KnownToAll DEF StartInv, CallerInv
<1>1. ASSUME NEW l \in Launchers, Race(l) PROVE All
  <2>1. /\ \A x \in Launchers : x # l => SameFor(x)
        /\ DeathIsFinal /\ UNCHANGED served
    BY <1>0, <1>1 DEF Race, Goes, SameFor, DeathIsFinal, CallerFits, GaveUp, TypeOK, clientVars,
                      runVars,
                      pipeVars
  <2>2. \A x \in Launchers : x # l => KnownTo(x)'
    BY <1>0, <2>1, KnownFrame
  <2>3. pc[l] = "race" /\ pc'[l] # "serve" /\ answer'[l] # "started" /\ exit'[l] # "ok"
    BY <1>0, <1>1 DEF Race, Goes, CallerFits, GaveUp, TypeOK, clientVars
  <2>4. KnownTo(l)'
    BY <1>0, <2>1, <2>3, UnstartedFrame
  <2>q. QED
    BY <2>2, <2>4
<1>2. ASSUME NEW l \in Launchers, Probe(l) PROVE All
  <2>1. /\ \A x \in Launchers : x # l => SameFor(x)
        /\ DeathIsFinal /\ UNCHANGED served
    BY <1>0, <1>2 DEF Probe, Goes, Leaves, SameFor, DeathIsFinal, CallerFits, GaveUp, TypeOK,
                      clientVars,
                      runVars, pipeVars
  <2>2. \A x \in Launchers : x # l => KnownTo(x)'
    BY <1>0, <2>1, KnownFrame
  <2>3. pc[l] = "probe" /\ pc'[l] # "serve" /\ answer'[l] # "started" /\ exit'[l] # "ok"
    BY <1>0, <1>2 DEF Probe, Goes, Leaves, CallerFits, GaveUp, TypeOK, clientVars
  <2>4. KnownTo(l)'
    BY <1>0, <2>1, <2>3, UnstartedFrame
  <2>q. QED
    BY <2>2, <2>4
<1>3. ASSUME NEW l \in Launchers, Connect(l) PROVE All
  <2>1. /\ \A x \in Launchers : x # l => SameFor(x)
        /\ DeathIsFinal /\ UNCHANGED served
    BY <1>0, <1>3 DEF Connect, Goes, RaceAgain, Leaves, Free, SameFor, DeathIsFinal, CallerFits, GaveUp,
                      TypeOK,
                      clientVars, runVars, pipeVars
  <2>2. \A x \in Launchers : x # l => KnownTo(x)'
    BY <1>0, <2>1, KnownFrame
  <2>3. pc[l] = "connect" /\ pc'[l] # "serve" /\ answer'[l] # "started" /\ exit'[l] # "ok"
    <3>1. pc[l] = "connect" /\ UNCHANGED answer
          /\ \/ pc' = [pc EXCEPT ![l] = "verify"] /\ UNCHANGED exit
             \/ pc' = [pc EXCEPT ![l] = "race"] /\ UNCHANGED exit
             \/ pc' = [pc EXCEPT ![l] = "left"] /\ exit' = [exit EXCEPT ![l] = "timeout"]
      BY <1>3 DEF Connect, Goes, RaceAgain, Leaves
    <3>2. answer[l] # "started" /\ exit[l] = "none"
      BY <1>0, <3>1 DEF CallerFits
    <3>q. QED
      BY <1>0, <3>1, <3>2 DEF TypeOK
  <2>4. KnownTo(l)'
    BY <1>0, <2>1, <2>3, UnstartedFrame
  <2>q. QED
    BY <2>2, <2>4
<1>4. ASSUME NEW l \in Launchers, Verify(l) PROVE All
  <2>1. /\ \A x \in Launchers : x # l => SameFor(x)
        /\ DeathIsFinal /\ UNCHANGED served
    BY <1>0, <1>4 DEF Verify, Goes, Leaves, SameFor, DeathIsFinal, CallerFits, GaveUp, TypeOK,
                      clientVars,
                      runVars, pipeVars
  <2>2. \A x \in Launchers : x # l => KnownTo(x)'
    BY <1>0, <2>1, KnownFrame
  <2>3. /\ pc[l] = "verify" /\ pc'[l] # "serve" /\ answer'[l] # "started" /\ exit'[l] # "ok"
    BY <1>0, <1>4 DEF Verify, Goes, Leaves, CallerFits, TypeOK
  <2>4. KnownTo(l)'
    BY <1>0, <2>1, <2>3, UnstartedFrame
  <2>q. QED
    BY <2>2, <2>4
<1>5. ASSUME NEW l \in Launchers, ReadAnswer(l) PROVE All
  <2>1. pc[l] = "call" /\ answer[l] # "none" /\ LetsGo(l) /\ UNCHANGED served /\ exit[l] = "none"
    BY <1>0, <1>5 DEF ReadAnswer, runVars, CallerFits, GaveUp
  <2>2. \/ answer[l] = "started" /\ Leaves(l, "ok")
        \/ answer[l] = "refused" /\ Leaves(l, "refused")
        \/ answer[l] = "shutting" /\ UNCHANGED exit /\ pc' = [pc EXCEPT ![l] = "race"]
        \/ answer[l] = "shutting" /\ Leaves(l, "timeout")
    <3>1. CASE answer[l] = "started"
      BY <1>5, <3>1 DEF ReadAnswer
    <3>2. CASE answer[l] = "refused"
      BY <1>5, <3>2 DEF ReadAnswer
    <3>3. CASE answer[l] = "shutting"
      <4>1. RaceAgain(l)
        BY <1>5, <3>3 DEF ReadAnswer
      <4>q. QED
        BY <3>3, <4>1 DEF RaceAgain
    <3>q. QED
      BY <1>0, <1>5, <3>1, <3>2, <3>3 DEF ReadAnswer, TypeOK
  <2>3. /\ \A x \in Launchers : x # l => SameFor(x)
        /\ DeathIsFinal
    BY <1>0, <1>5, <2>1, <2>2 DEF ReadAnswer, LetsGo, Leaves, SameFor, DeathIsFinal, TypeOK
  <2>4. \A x \in Launchers : x # l => KnownTo(x)'
    BY <1>0, <2>1, <2>3, KnownFrame
  <2>5. ASSUME answer[l] = "started" PROVE KnownTo(l)'
    <3>1. \A m \in Launchers : <<m, l>> \in served /\ exit'[m] # "crashed" => m # l /\ exit[m] # "crashed"
      BY <1>0, <2>1, <2>3 DEF KnownTo, StartIsKnown, GaveUp, DeathIsFinal
    <3>2. pc'[l] = "left" /\ exit'[l] = "ok"
      BY <1>0, <2>2, <2>5 DEF Leaves, TypeOK
    <3>3. \A m \in Launchers : <<m, l>> \in served' /\ exit'[m] # "crashed" => StartIsKnown(m, l)'
      BY <2>1, <3>1, <3>2 DEF StartIsKnown, GaveUp
    <3>4. \A m, n \in Launchers : /\ <<m, l>> \in served' /\ exit'[m] # "crashed"
                                /\ <<n, l>> \in served' /\ exit'[n] # "crashed"
                                => m = n
      BY <1>0, <2>1, <3>1 DEF KnownTo
    <3>5. \E m \in Launchers : <<m, l>> \in served'
      BY <1>0, <2>1, <2>5 DEF KnownTo
    <3>q. QED
      BY <3>3, <3>4, <3>5 DEF KnownTo
  <2>6. ASSUME answer[l] # "started" PROVE KnownTo(l)'
    <3>1. pc'[l] # "serve" /\ answer'[l] # "started" /\ exit'[l] # "ok"
      BY <1>0, <2>1, <2>2, <2>6 DEF Leaves, LetsGo, TypeOK
    <3>2. pc[l] = "call" /\ answer[l] # "started" /\ UNCHANGED served /\ DeathIsFinal
      BY <2>1, <2>3, <2>6
    <3>q. QED
      BY <1>0, <3>1, <3>2, UnstartedFrame
  <2>q. QED
    BY <2>4, <2>5, <2>6
<1>6. ASSUME NEW l \in Launchers, CallBreaks(l) PROVE All
  <2>1. /\ \A x \in Launchers : x # l => SameFor(x)
        /\ DeathIsFinal /\ UNCHANGED served
    BY <1>0, <1>6 DEF CallBreaks, RaceAgain, Leaves, LetsGo, NoLink, SameFor, DeathIsFinal, CallerFits,
                      GaveUp,
                      TypeOK, clientVars, runVars, pipeVars
  <2>2. \A x \in Launchers : x # l => KnownTo(x)'
    BY <1>0, <2>1, KnownFrame
  <2>3. pc[l] = "call" /\ answer[l] = "none" /\ pc'[l] # "serve" /\ answer'[l] # "started" /\ exit'[l] # "ok"
    BY <1>0, <1>6 DEF CallBreaks, RaceAgain, Leaves, LetsGo, CallerFits, GaveUp, TypeOK
  <2>4. KnownTo(l)'
    BY <1>0, <2>1, <2>3, UnstartedFrame
  <2>q. QED
    BY <2>2, <2>4
<1>7. ASSUME NEW l \in Launchers, AcceptClient(l) PROVE All
  <2>0. \A x \in Launchers : link'[x] = IF IsOn(x, l, "pipe") THEN [to |-> l, at |-> "session"] ELSE link[x]
    BY <1>7, LinkSteps DEF StartInv
  <2>1. UNCHANGED <<pc, exit, answer, served, asked>>
    BY <1>7 DEF AcceptClient, AcceptUnchanged, clientVars, runVars, pipeVars
  <2>q. QED
    BY <1>0, <2>0, <2>1, KnownFrame DEF SameFor, DeathIsFinal, IsOn
<1>8. ASSUME NEW l \in Launchers, AcceptAbandoned(l) PROVE All
    BY <1>0, <1>8, KnownFrame DEF AcceptAbandoned, AcceptUnchanged, SameFor, DeathIsFinal, clientVars,
                                  runVars, pipeVars
<1>9. ASSUME NEW l \in Launchers, CreateNextInstance(l) PROVE All
    BY <1>0, <1>9, KnownFrame DEF CreateNextInstance, AcceptUnchanged, SameFor, DeathIsFinal,
                                  clientVars, runVars, pipeVars
<1>10. ASSUME NEW l \in Launchers, HandleAcceptFailure(l) PROVE All
    BY <1>0, <1>10, KnownFrame DEF HandleAcceptFailure, AcceptUnchanged, SameFor, DeathIsFinal,
           clientVars, runVars, pipeVars
<1>11. ASSUME NEW l \in Launchers, SessionEnds(l) PROVE All
    BY <1>0, <1>11, KnownFrame DEF SessionEnds, AcceptUnchanged, SameFor, DeathIsFinal, clientVars,
           runVars, pipeVars
<1>12. ASSUME NEW l \in Launchers, Prepare(l) PROVE All
  <2>1. /\ pc[l] = "prepare" /\ pc' = [pc EXCEPT ![l] = "serve"]
        /\ served' = served \cup {<<l, l>>}
        /\ UNCHANGED <<exit, answer, link, asked>>
    BY <1>12 DEF Prepare, Goes, clientVars
  <2>2. ASSUME NEW x \in Launchers, x # l PROVE KnownTo(x)'
    <3>1. SameFor(x) /\ DeathIsFinal
      BY <1>0, <2>1, <2>2 DEF SameFor, DeathIsFinal, TypeOK
    <3>2. \A m \in Launchers : <<m, x>> \in served' <=> <<m, x>> \in served
      BY <2>1, <2>2
    <3>q. QED
      BY <1>0, <2>2, <3>1, <3>2, KnownFrame
  <2>3. \A m \in Launchers : <<m, l>> \in served => exit[m] = "crashed"
    BY <1>0, <2>1 DEF KnownTo, StartIsKnown, GaveUp
  <2>4. KnownTo(l)'
    BY <1>0, <2>1, <2>3 DEF KnownTo, StartIsKnown, CallerFits, GaveUp, TypeOK
  <2>q. QED
    BY <2>2, <2>4
<1>13. ASSUME NEW l \in Launchers, PrepareFails(l) PROVE All
  <2>1. /\ \A x \in Launchers : x # l => SameFor(x)
        /\ DeathIsFinal /\ UNCHANGED served
    BY <1>0, <1>13 DEF PrepareFails, Goes, SameFor, DeathIsFinal, CallerFits, GaveUp, TypeOK,
                       clientVars,
                       runVars, pipeVars
  <2>2. \A x \in Launchers : x # l => KnownTo(x)'
    BY <1>0, <2>1, KnownFrame
  <2>3. pc[l] = "prepare" /\ pc'[l] # "serve" /\ answer'[l] # "started" /\ exit'[l] # "ok"
    BY <1>0, <1>13 DEF PrepareFails, Goes, CallerFits, GaveUp, TypeOK, clientVars
  <2>4. KnownTo(l)'
    BY <1>0, <2>1, <2>3, UnstartedFrame
  <2>q. QED
    BY <2>2, <2>4
<1>14. ASSUME NEW l \in Launchers, EndRun(l) PROVE All
  <2>1. /\ \A x \in Launchers : x # l => SameFor(x)
        /\ DeathIsFinal /\ UNCHANGED served
    BY <1>0, <1>14 DEF EndRun, Goes, SameFor, DeathIsFinal, CallerFits, GaveUp, TypeOK, clientVars,
                       runVars,
                       pipeVars
  <2>2. \A x \in Launchers : x # l => KnownTo(x)'
    BY <1>0, <2>1, KnownFrame
  <2>3. /\ pc[l] \in {"serve", "end", "stop", "closing"} /\ pc'[l] \in {"end", "stop", "closing", "left"}
        /\ \/ exit'[l] = exit[l]
           \/ pc[l] = "serve" /\ exit'[l] \in {"ok", "died"}
        /\ answer'[l] = answer[l]
    BY <1>0, <1>14 DEF EndRun, Goes, TypeOK, clientVars
  <2>4. KnownTo(l)'
    BY <1>0, <2>1, <2>3, MasterFrame
  <2>q. QED
    BY <2>2, <2>4
<1>15. ASSUME NEW l \in Launchers, Unmount(l) PROVE All
  <2>1. /\ \A x \in Launchers : x # l => SameFor(x)
        /\ DeathIsFinal /\ UNCHANGED served
    BY <1>0, <1>15 DEF Unmount, Goes, SameFor, DeathIsFinal, CallerFits, GaveUp, TypeOK, clientVars,
                       runVars,
                       pipeVars
  <2>2. \A x \in Launchers : x # l => KnownTo(x)'
    BY <1>0, <2>1, KnownFrame
  <2>3. /\ pc[l] \in {"serve", "end", "stop", "closing"} /\ pc'[l] \in {"end", "stop", "closing", "left"}
        /\ \/ exit'[l] = exit[l]
           \/ pc[l] = "serve" /\ exit'[l] \in {"ok", "died"}
        /\ answer'[l] = answer[l]
    BY <1>0, <1>15 DEF Unmount, Goes, TypeOK, clientVars
  <2>4. KnownTo(l)'
    BY <1>0, <2>1, <2>3, MasterFrame
  <2>q. QED
    BY <2>2, <2>4
<1>16. ASSUME NEW l \in Launchers, StopServing(l) PROVE All
  <2>0. \/ UNCHANGED link
        \/ \A x \in Launchers : link'[x] = IF IsOn(x, l, "pipe") THEN [to |-> l, at |-> "session"] ELSE link[x]
    BY <1>16, LinkSteps DEF StartInv
  <2>1. /\ \A x \in Launchers : x # l => SameFor(x)
        /\ DeathIsFinal /\ UNCHANGED served
    BY <1>0, <1>16, <2>0 DEF StopServing, Goes, SameFor, DeathIsFinal, IsOn, runVars, TypeOK
  <2>2. \A x \in Launchers : x # l => KnownTo(x)'
    BY <1>0, <2>1, KnownFrame
  <2>3. KnownTo(l)'
    <3>1. /\ pc[l] = "stop" /\ pc'[l] = "closing" /\ exit'[l] = exit[l] /\ answer'[l] = answer[l]
          /\ pc[l] \in {"serve", "end", "stop", "closing"}
          /\ pc'[l] \in {"end", "stop", "closing", "left"}
      BY <1>0, <1>16 DEF StopServing, Goes, TypeOK
    <3>2. KnownTo(l) /\ l \in Launchers /\ DeathIsFinal /\ UNCHANGED served
      BY <1>0, <2>1
    <3>q. QED
      BY <3>1, <3>2, MasterFrame
  <2>q. QED
    BY <2>2, <2>3
<1>17. ASSUME NEW l \in Launchers, AcceptStops(l) PROVE All
  <2>0. \A x \in Launchers : link'[x] = IF IsOn(x, l, "pipe") THEN [to |-> l, at |-> "broken"] ELSE link[x]
    BY <1>17, LinkSteps DEF StartInv
  <2>1. UNCHANGED <<pc, exit, answer, served>> /\ asked' \subseteq asked
    BY <1>17 DEF AcceptStops, clientVars, runVars, pipeVars
  <2>q. QED
    BY <1>0, <2>0, <2>1, KnownFrame DEF SameFor, DeathIsFinal, IsOn
<1>18. ASSUME NEW l \in Launchers, MasterLeaves(l) PROVE All
  <2>1. /\ \A x \in Launchers : x # l => SameFor(x)
        /\ DeathIsFinal /\ UNCHANGED served
    BY <1>0, <1>18 DEF MasterLeaves, Goes, SameFor, DeathIsFinal, CallerFits, GaveUp, TypeOK,
                       clientVars,
                       runVars, pipeVars
  <2>2. \A x \in Launchers : x # l => KnownTo(x)'
    BY <1>0, <2>1, KnownFrame
  <2>3. /\ pc[l] \in {"serve", "end", "stop", "closing"} /\ pc'[l] \in {"end", "stop", "closing", "left"}
        /\ \/ exit'[l] = exit[l]
           \/ pc[l] = "serve" /\ exit'[l] \in {"ok", "died"}
        /\ answer'[l] = answer[l]
    BY <1>0, <1>18 DEF MasterLeaves, Goes, TypeOK, clientVars
  <2>4. KnownTo(l)'
    BY <1>0, <2>1, <2>3, MasterFrame
  <2>q. QED
    BY <2>2, <2>4
<1>19. ASSUME NEW l \in Launchers, NEW c \in Launchers, ServeRequest(l, c) PROVE All
  <2>1. c \in asked /\ pc[l] = "serve" /\ link[c].to = l /\ link[c].at \in {"session", "gone"}
    BY <1>0, <1>19, LinkedIsOn DEF ServeRequest, Queued, IsOn
  <2>2. /\ answer[c] = "none" /\ c # l
        /\ (pc[c] = "call" /\ exit[c] = "none") \/ GaveUp(c)
    BY <1>0, <2>1 DEF CallerFits, GaveUp
  <2>3. \A m \in Launchers : <<m, c>> \in served => exit[m] = "crashed"
    BY <1>0, <2>1, <2>2 DEF KnownTo, StartIsKnown, GaveUp
  <2>4. UNCHANGED <<pc, exit, link>> /\ asked' = asked \ {c}
    BY <1>19 DEF ServeRequest, Answers
  <2>5. \/ served' = served \cup {<<l, c>>} /\ (pc[c] # "left" => answer'[c] = "started")
        \/ UNCHANGED served /\ answer'[c] # "started"
    BY <1>0, <1>19, <2>2 DEF ServeRequest, Answers, TypeOK
  <2>a. pc[c] = "left" => UNCHANGED answer
    BY <1>19 DEF ServeRequest, Answers
  <2>6. \A x \in Launchers : x # c => KnownTo(x)'
    <3>0. ASSUME NEW x \in Launchers, x # c PROVE answer'[x] = answer[x]
      BY <1>0, <1>19, <3>0 DEF ServeRequest, Answers, TypeOK
    <3>1. ASSUME NEW x \in Launchers, x # c
          PROVE  /\ SameFor(x) /\ DeathIsFinal
                 /\ \A m \in Launchers : <<m, x>> \in served' <=> <<m, x>> \in served
      BY <2>4, <2>5, <3>0, <3>1 DEF SameFor, DeathIsFinal
    <3>q. QED
      BY <1>0, <3>1, KnownFrame
  <2>7. KnownTo(c)'
    <3>1. \A m \in Launchers : <<m, c>> \in served' /\ exit'[m] # "crashed" => m = l /\ StartIsKnown(m, c)'
      BY <2>1, <2>2, <2>3, <2>4, <2>5 DEF StartIsKnown, GaveUp
    <3>2. pc'[c] = "serve" \/ answer'[c] = "started" \/ exit'[c] = "ok"
            => \E m \in Launchers : <<m, c>> \in served'
      BY <2>2, <2>4, <2>5, <2>a DEF GaveUp
    <3>q. QED
      BY <3>1, <3>2 DEF KnownTo
  <2>q. QED
    BY <2>6, <2>7
<1>20. ASSUME NEW l \in Launchers, NEW c \in Launchers, TurnAway(l, c) PROVE All
  <2>1. /\ \A x \in Launchers : x # c => SameFor(x)
        /\ DeathIsFinal /\ UNCHANGED served
    BY <1>0, <1>20 DEF TurnAway, Answers, SameFor, DeathIsFinal, CallerFits, GaveUp, TypeOK, clientVars,
                       runVars, pipeVars
  <2>2. \A x \in Launchers : x # c => KnownTo(x)'
    BY <1>0, <2>1, KnownFrame
  <2>3. KnownTo(c)'
    <3>1. c \in asked /\ link[c].at \in {"session", "gone"}
      BY <1>0, <1>20, LinkedIsOn DEF TurnAway, Queued, IsOn
    <3>2. /\ answer[c] = "none" /\ pc[c] # "serve" /\ exit[c] # "ok"
          /\ pc[c] = "call" \/ GaveUp(c)
      BY <1>0, <3>1 DEF CallerFits, GaveUp
    <3>3. \A m \in Launchers : <<m, c>> \in served => exit[m] = "crashed"
      BY <1>0, <3>1, <3>2 DEF KnownTo, StartIsKnown, GaveUp
    <3>4. UNCHANGED <<pc, exit, served>> /\ answer'[c] # "started"
      BY <1>0, <1>20, <3>2 DEF TurnAway, Answers, TypeOK
    <3>q. QED
      BY <3>2, <3>3, <3>4 DEF KnownTo
  <2>q. QED
    BY <2>2, <2>3
<1>21. ASSUME NEW l \in Launchers, NEW c \in Launchers, CloseSession(l, c) PROVE All
  <2>0. \A x \in Launchers : link'[x] = IF x = c THEN [to |-> l, at |-> "broken"] ELSE link[x]
    BY <1>21, LinkSteps DEF StartInv
  <2>s. IsOn(c, l, "session")
    BY <1>0, <1>21, LinkedIsOn DEF CloseSession
  <2>1. UNCHANGED <<pc, exit, answer, served>> /\ asked' \subseteq asked
    BY <1>21 DEF CloseSession, clientVars, runVars, pipeVars
  <2>q. QED
    BY <1>0, <2>0, <2>1, <2>s, KnownFrame DEF SameFor, DeathIsFinal, IsOn
<1>22. ASSUME NEW l \in Launchers, ProgramsEnd(l) PROVE All
    BY <1>0, <1>22, KnownFrame DEF ProgramsEnd, SameFor, DeathIsFinal, clientVars, runVars, pipeVars
<1>23. ASSUME NEW l \in Launchers, Crash(l) PROVE All
  <2>1. \A x \in Launchers : link'[x] = IF IsOn(x, l, "pipe") \/ IsOn(x, l, "session") \/ IsOn(x, l, "gone")
                                        THEN [to |-> l, at |-> "broken"] ELSE link[x]
    BY <1>23, LinkSteps DEF StartInv
  <2>2. /\ pc' = [pc EXCEPT ![l] = "left"] /\ exit' = [exit EXCEPT ![l] = "crashed"]
        /\ pc[l] \in {"prepare", "serve", "end", "stop", "closing"} /\ UNCHANGED served
        /\ asked' \subseteq asked
    BY <1>23 DEF Crash, Leaves
  <2>3. \A x \in Launchers : answer'[x] = answer[x] \/ (answer'[x] = "none" /\ link[x].to = l)
    <3>1. PICK some \in SUBSET (Linked(l, "pipe") \cup Linked(l, "session") \cup Linked(l, "gone")) :
            answer' = [x \in Launchers |-> IF x \in some THEN "none" ELSE answer[x]]
      BY <1>23 DEF Crash
    <3>2. \A x \in some : link[x].to = l
      BY <1>0, LinkedIsOn DEF IsOn, Linked
    <3>3. \A x \in Launchers : x \in some \/ answer'[x] = answer[x]
      BY <1>0, <3>1 DEF TypeOK
    <3>4. \A x \in some : answer'[x] = "none"
      BY <1>0, <3>1 DEF TypeOK, Linked
    <3>q. QED
      BY <3>2, <3>3, <3>4
  <2>4. \A x \in Launchers : link'[x].to = link[x].to
    BY <2>1 DEF IsOn
  <2>5. DeathIsFinal
    BY <1>0, <2>2 DEF DeathIsFinal, TypeOK
  <2>6. ASSUME NEW x \in Launchers, x # l, answer'[x] = answer[x] PROVE KnownTo(x)'
    BY <1>0, <2>2, <2>4, <2>5, <2>6, KnownFrame DEF SameFor, TypeOK
  <2>7. ASSUME NEW x \in Launchers, x # l, answer'[x] = "none", link[x].to = l PROVE KnownTo(x)'
    <3>1. pc'[x] = pc[x] /\ exit'[x] = exit[x] /\ exit'[l] = "crashed"
      BY <1>0, <2>2, <2>7 DEF TypeOK
    <3>2. ASSUME NEW m \in Launchers, <<m, x>> \in served', exit'[m] # "crashed"
          PROVE  exit[m] # "crashed" /\ <<m, x>> \in served /\ m # l
      BY <2>2, <2>5, <3>1, <3>2 DEF DeathIsFinal
    <3>3. \A m \in Launchers : <<m, x>> \in served' /\ exit'[m] # "crashed" => StartIsKnown(m, x)'
      BY <1>0, <2>4, <2>7, <3>1, <3>2 DEF KnownTo, StartIsKnown, GaveUp
    <3>q. QED
      BY <1>0, <2>2, <2>7, <3>1, <3>2, <3>3 DEF KnownTo
  <2>8. KnownTo(l)'
    <3>1. pc'[l] = "left" /\ exit'[l] = "crashed" /\ answer'[l] = "none"
      BY <1>0, <2>2, <2>3 DEF TypeOK, CallerFits, GaveUp
    <3>2. \A m \in Launchers : <<m, l>> \in served' => exit'[m] = "crashed"
      BY <1>0, <2>2, <2>5, <3>1 DEF KnownTo, StartIsKnown, GaveUp, DeathIsFinal
    <3>q. QED
      BY <3>1, <3>2 DEF KnownTo
  <2>q. QED
    BY <2>3, <2>6, <2>7, <2>8
<1>24. ASSUME UNCHANGED vars PROVE All
  <2>1. UNCHANGED <<pc, exit, answer, link, served, asked>>
    BY <1>24 DEF vars, moves, runVars, clientVars
  <2>q. QED
    <3>1. DeathIsFinal /\ \A x \in Launchers : SameFor(x)
      BY <2>1 DEF SameFor, DeathIsFinal
    <3>q. QED
      BY <1>0, <2>1, <3>1, KnownFrame
<1>25. All => StartsAreKnown'
    BY DEF StartsAreKnown, KnownTo, Starters
<1>26. ASSUME NEW l \in Launchers, CallTimesOut(l) PROVE All
  <2>1. /\ \A x \in Launchers : x # l => SameFor(x)
        /\ DeathIsFinal /\ UNCHANGED served
    BY <1>0, <1>26 DEF CallTimesOut, Leaves, SameFor, DeathIsFinal, CallerFits, TypeOK, clientVars,
                       runVars
  <2>2. \A x \in Launchers : x # l => KnownTo(x)'
    BY <1>0, <2>1, KnownFrame
  <2>3. pc[l] = "call" /\ answer[l] = "none" /\ pc'[l] # "serve" /\ answer'[l] # "started" /\ exit'[l] # "ok"
    BY <1>0, <1>26 DEF CallTimesOut, Leaves, TypeOK, clientVars
  <2>4. KnownTo(l)'
    BY <1>0, <2>1, <2>3, UnstartedFrame
  <2>q. QED
    BY <2>2, <2>4
<1>27. ASSUME NEW l \in Launchers, AcceptGone(l) PROVE All
  <2>0. PICK c \in Launchers : LeftOne(l, c, "pipe", "broken")
    BY <1>27, LinkSteps DEF StartInv
  <2>1. UNCHANGED <<pc, exit, answer, served>> /\ asked' \subseteq asked
    BY <1>27 DEF AcceptGone, runVars
  <2>q. QED
    BY <1>0, <2>0, <2>1, KnownFrame DEF SameFor, DeathIsFinal, LeftOne, IsOn
<1>28. ASSUME NEW l \in Launchers, PeerGone(l) PROVE All
  <2>0. PICK c \in Launchers, at \in {"gone", "broken"} : LeftOne(l, c, "session", at)
    BY <1>28, LinkSteps DEF StartInv
  <2>1. UNCHANGED <<pc, exit, answer, served, asked>>
    BY <1>28 DEF PeerGone, AcceptUnchanged, runVars
  <2>q. QED
    BY <1>0, <2>0, <2>1, KnownFrame DEF SameFor, DeathIsFinal, LeftOne, IsOn
<1> HIDE DEF All
<1>q. QED
    BY <1>1, <1>2, <1>3, <1>4, <1>5, <1>6, <1>7, <1>8, <1>9, <1>10, <1>11, <1>12, <1>13, <1>14, <1>15,
           <1>16, <1>17, <1>18, <1>19, <1>20, <1>21, <1>22, <1>23, <1>24, <1>25, <1>26, <1>27, <1>28 DEF Next, Client,
           Accept, Master

-----------------------------------------------------------------------------
(* The invariants, and the theorems.                                       *)

LEMMA CallerInvStep == CallerInv /\ [Next]_vars => CallerInv'
    BY TypeStep, CallerStep, TakenStep DEF CallerInv

LEMMA CallerInitially == Init => CallerInv
<1> SUFFICES ASSUME Init PROVE CallerInv
    OBVIOUS
<1> USE RaceAssumption
<1>1. PICK s \in Scenarios : /\ pc = [l \in Launchers |-> IF l \in s.comes THEN "race" ELSE "left"]
                             /\ retry = [l \in Launchers |-> [budget |-> s.budget, delay |-> 1]]
                             /\ faults = s.faults
    BY DEF Init
<1>2. s.budget \in 0 .. RaceBudget /\ s.faults \subseteq RaceFaults
    OBVIOUS
<1>3. retry \in [Launchers -> [budget : 0 .. RaceBudget, delay : 1 .. MaxDelay]]
    BY <1>1, <1>2
<1>4. failures \in [Launchers -> [ever : 0 .. MaxAcceptRetries, row : 0 .. MaxAcceptRetries + 1]]
    BY DEF Init
<1>5. TypeOK
    BY <1>1, <1>2, <1>3, <1>4 DEF Init, TypeOK, NoLink
<1>6. \A l \in Launchers : CallerFits(l) /\ TakenIsLinked(l)
    BY <1>1 DEF Init, CallerFits, GaveUp, TakenIsLinked, NoLink
<1>q. QED
    BY <1>5, <1>6 DEF CallerInv

\* Type correctness.
THEOREM RaceTypes == Spec => []TypeOK
<1>1. CallerInv => TypeOK
    BY DEF CallerInv
<1>q. QED
    BY <1>1, CallerInitially, CallerInvStep, PTL DEF Spec

LEMMA StartsKnown == Spec => []StartInv
<1>1. Init => StartInv
  <2>1. Init => StartsAreKnown
    BY RaceAssumption DEF Init, StartsAreKnown, Starters
  <2>q. QED
    BY <2>1, CallerInitially DEF StartInv
<1>2. StartInv /\ [Next]_vars => StartInv'
    BY CallerInvStep, StartStep DEF StartInv
<1>q. QED
    BY <1>1, <1>2, PTL DEF Spec

LEMMA HolderKnown == Spec => []HolderInv
<1>1. Init => HolderInv
  <2>1. Init => HolderIsAlone
    BY RaceAssumption DEF Init, HolderIsAlone
  <2>q. QED
    BY <2>1, CallerInitially DEF HolderInv
<1>2. HolderInv /\ [Next]_vars => HolderInv'
  <2>1. SUFFICES ASSUME HolderInv, [Next]_vars PROVE HolderIsAlone'
    BY CallerInvStep DEF HolderInv
  <2>2. faults' = faults
    BY <2>1 DEF Next, vars
  <2>3. CallerInv'
    BY <2>1, CallerInvStep DEF HolderInv
  <2>4. faults \subseteq {"crash", "slow"} =>
            /\ AcceptersFit'
            /\ \A m \in accepts' : HoldsName(m)'
            /\ \A m, n \in accepts' : m = n
    BY <2>1, <2>3, HolderStep
  <2>q. QED
    BY <2>2, <2>4 DEF HolderIsAlone, AcceptersFit
<1>q. QED
    BY <1>1, <1>2, PTL DEF Spec

LEMMA AtMostOne ==
    ASSUME NEW S, \A m, n \in S : m = n
    PROVE  Cardinality(S) <= 1
<1>1. CASE S = {}
    BY <1>1, FS_EmptySet
<1>2. CASE S # {}
  <2>1. PICK x \in S : S = {x}
    BY <1>2
  <2>q. QED
    BY <2>1, FS_Singleton
<1>q. QED
    BY <1>1, <1>2

\* However many launchers race, and whichever of them die, no two have the sandbox
\* mounted at a time, as long as an instance of the pipe exists while its server accepts.
THEOREM OneRuntimeAtATime == Spec => []OneRuntime
<1>1. HolderInv => OneRuntime
  <2>1. SUFFICES ASSUME HolderInv, faults \subseteq {"crash", "slow"} PROVE Cardinality(mounted) <= 1
    BY DEF OneRuntime
  <2>2. \A m \in mounted : m \in accepts
    BY <2>1 DEF HolderInv, HolderIsAlone, CallerInv, TypeOK
  <2>3. \A m, n \in mounted : m = n
    BY <2>1, <2>2 DEF HolderInv, HolderIsAlone
  <2>q. QED
    BY <2>3, AtMostOne
<1>q. QED
    BY <1>1, HolderKnown, PTL

\* However often a request is raced again, and whatever fails meanwhile, one living
\* server at most started its programs.
THEOREM ProgramsStartOnce == Spec => []StartedOnce
<1>1. StartInv => StartedOnce
  <2>1. SUFFICES ASSUME StartInv, NEW l \in Launchers PROVE Cardinality(Starters(l)) <= 1
    BY DEF StartedOnce
  <2>2. \A m, n \in Starters(l) : m = n
    BY <2>1 DEF StartInv, StartsAreKnown
  <2>q. QED
    BY <2>2, AtMostOne
<1>q. QED
    BY <1>1, StartsKnown, PTL

\* The exit code of a launcher tells whether its programs were started. Only one which gave
\* up waiting for its answer cannot tell, and no server but the one it asked started them.
THEOREM ExitCodesAreTrue == Spec => []OutcomeIsTrue
<1>1. StartInv => OutcomeIsTrue
  <2>1. SUFFICES ASSUME StartInv, NEW l \in Launchers
        PROVE  /\ exit[l] = "ok" => \E m \in Launchers : <<m, l>> \in served
               /\ exit[l] \in {"refused", "failed", "timeout", "denied", "mismatch"} => Starters(l) = {}
               /\ exit[l] = "unanswered" => Starters(l) \subseteq {link[l].to}
    BY DEF OutcomeIsTrue
  <2>2. exit[l] = "ok" => \E m \in Launchers : <<m, l>> \in served
    BY <2>1 DEF StartInv, StartsAreKnown
  <2>3. ASSUME exit[l] \in {"refused", "failed", "timeout", "denied", "mismatch"}
        PROVE  \A m \in Starters(l) : FALSE
    BY <2>1, <2>3 DEF StartInv, StartsAreKnown, StartIsKnown, GaveUp, CallerInv, CallerFits
  <2>4. ASSUME exit[l] = "unanswered" PROVE \A m \in Starters(l) : m = link[l].to
    BY <2>1, <2>4 DEF StartInv, StartsAreKnown, StartIsKnown, GaveUp, CallerInv, CallerFits
  <2>q. QED
    BY <2>2, <2>3, <2>4
<1>q. QED
    BY <1>1, StartsKnown, PTL
=============================================================================
