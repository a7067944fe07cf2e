-------------------------- MODULE ControlPlane_proofs --------------------------
(***************************************************************************)
(* Proofs about a run, for any number of requests and programs and every    *)
(* length of the queue: first about the set of its jobs alone, then about   *)
(* the control layer which is built on it, and at the end about the state  *)
(* query, which reads the counters and the programs of the run one after   *)
(* the other while the run goes on.                                        *)
(***************************************************************************)
EXTENDS RunState, SequenceTheorems, FiniteSetTheorems, TLAPS

-----------------------------------------------------------------------------
(* The set of jobs alone, for any number of jobs and threads.              *)

\* Every step of the set keeps the types.
LEMMA TypeStep == TypeOKSet /\ [NextSet]_setVars => TypeOKSet'
  <1> SUFFICES ASSUME TypeOKSet, [NextSet]_setVars PROVE TypeOKSet'
    OBVIOUS
  <1> USE DEF TypeOKSet
  <1>1. ASSUME NEW j \in Jobs, CreateJob(j) PROVE TypeOKSet'
    BY <1>1, JobSetAssumption DEF CreateJob, waitVars, FreshHandles, NewHandles
  <1>2. ASSUME NEW j \in Jobs, CreateJobFails(j) PROVE TypeOKSet'
    BY <1>2 DEF CreateJobFails, waitVars
  <1>3. ASSUME NEW j \in Jobs, CreateJobFailsLate(j) PROVE TypeOKSet'
    BY <1>3 DEF CreateJobFailsLate, waitVars, FreshHandles, NewHandles
  <1>4. ASSUME NEW j \in Jobs, AskIsEmpty(j) PROVE TypeOKSet'
    BY <1>4 DEF AskIsEmpty, waitVars
  <1>5. ASSUME NEW j \in Jobs, AdoptJob(j) PROVE TypeOKSet'
    BY <1>5 DEF AdoptJob, waitVars, JoinedMessage
  <1>6. ASSUME NEW o \in Owners, NEW refused \in SUBSET Jobs,
               TerminateRequest({j \in Entries : OwnerOf[j] = o}, refused)
        PROVE TypeOKSet'
    BY <1>6 DEF TerminateRequest, waitVars, Entries
  <1>7. CASE WaitAllCalled
    BY <1>7 DEF WaitAllCalled, jobVars
  <1>8. CASE WaitStep
    <2>1. CASE WaitCheck
      BY <2>1 DEF WaitCheck, WaitReturns, WaitStatus, jobVars
    <2>2. CASE WaitTakesWake
      BY <2>2 DEF WaitTakesWake, jobVars
    <2>3. CASE WaitClearsWoken
      BY <2>3 DEF WaitClearsWoken, WaitReturns, WaitStatus, jobVars
    <2>4. CASE WaitTakesJoined
      BY <2>4 DEF WaitTakesJoined, jobVars
    <2>5. CASE WaitTakesReport
      BY <2>5 DEF WaitTakesReport, Unreported, Entries
    <2>6. CASE WaitTimeout
      BY <2>6 DEF WaitTimeout, jobVars
    <2>7. CASE WaitExpires
      BY <2>7 DEF WaitExpires, WaitReturns, WaitStatus, jobVars
    <2>8. CASE WaitGoesOn
      BY <2>8 DEF WaitGoesOn, jobVars
    <2>9. CASE WaitFails
      BY <2>9 DEF WaitFails, WaitReturns, WaitStatus, jobVars
    <2>10. QED
      BY <1>8, <2>1, <2>2, <2>3, <2>4, <2>5, <2>6, <2>7, <2>8, <2>9 DEF WaitStep
  <1>9. ASSUME NEW j \in Jobs, ProcessesEnd(j) PROVE TypeOKSet'
    BY <1>9 DEF ProcessesEnd, waitVars, ZeroMessage
  <1>10. ASSUME NEW w \in Wakers, WakeExchange(w) PROVE TypeOKSet'
    BY <1>10 DEF WakeExchange, jobVars, waitVars
  <1>11. ASSUME NEW w \in Wakers, WakePost(w) PROVE TypeOKSet'
    BY <1>11 DEF WakePost, jobVars, waitVars, WakeMessage
  <1>12. CASE UNCHANGED setVars
    BY <1>12 DEF setVars, jobVars, waitVars
  <1>13. QED
    BY <1>1, <1>2, <1>3, <1>4, <1>5, <1>6, <1>7, <1>8, <1>9, <1>10, <1>11, <1>12
    DEF NextSet, ControlCall

LEMMA TypeInit == InitSet => TypeOKSet
  <1> SUFFICES ASSUME InitSet PROVE TypeOKSet
    OBVIOUS
  <1>1. stage \in [Jobs -> {"none", "failed", "created", "busy", "empty", "joined"}]
    BY DEF InitSet
  <1>2. procs \in [Jobs -> {"none", "running", "ended"}] /\ key \in [Jobs -> Handles \cup {NoHandle}]
    BY DEF InitSet
  <1>3. waker \in [Wakers -> {"idle", "posting", "done"}]
    BY DEF InitSet
  <1>4. QED
    BY <1>1, <1>2, <1>3 DEF InitSet, TypeOKSet

\* The types of the set hold in every state (ProcessJobSet::Data).
THEOREM TypeCorrect == SpecSet => []TypeOKSet
  BY TypeInit, TypeStep, PTL DEF SpecSet

-----------------------------------------------------------------------------
(* The wakeup mark.                                                        *)

\* WokenIsUnderWay is inductive by itself once the types are known.
LEMMA WokenStep == TypeOKSet /\ WokenIsUnderWay /\ [NextSet]_setVars => WokenIsUnderWay'
  <1> SUFFICES ASSUME TypeOKSet, WokenIsUnderWay, [NextSet]_setVars PROVE WokenIsUnderWay'
    OBVIOUS
  <1> USE DEF WokenIsUnderWay, WakeMessage
  <1>1. ASSUME NEW j \in Jobs, CreateJob(j) \/ CreateJobFails(j) \/ CreateJobFailsLate(j) \/ AskIsEmpty(j)
        PROVE WokenIsUnderWay'
    BY <1>1 DEF CreateJob, CreateJobFails, CreateJobFailsLate, AskIsEmpty, waitVars
  <1>2. ASSUME NEW j \in Jobs, AdoptJob(j) PROVE WokenIsUnderWay'
    BY <1>2 DEF AdoptJob, waitVars
  <1>3. ASSUME NEW doomed, NEW refused, TerminateRequest(doomed, refused) PROVE WokenIsUnderWay'
    BY <1>3 DEF TerminateRequest, waitVars
  <1>4. CASE WaitAllCalled
    BY <1>4 DEF WaitAllCalled, jobVars
  <1>5. CASE WaitStep
    <2>1. CASE WaitTakesReport
      BY <2>1 DEF WaitTakesReport
    <2>2. CASE WaitTakesJoined
      BY <2>2 DEF WaitTakesJoined, JoinedMessage
    <2>3. CASE WaitTakesWake \/ WaitClearsWoken
      BY <2>3 DEF WaitTakesWake, WaitClearsWoken, WaitReturns, jobVars
    <2>4. CASE WaitCheck \/ WaitTimeout \/ WaitExpires \/ WaitGoesOn \/ WaitFails
      BY <2>4 DEF WaitCheck, WaitTimeout, WaitExpires, WaitGoesOn, WaitFails, WaitReturns, jobVars
    <2>5. QED
      BY <1>5, <2>1, <2>2, <2>3, <2>4 DEF WaitStep
  <1>6. ASSUME NEW j \in Jobs, ProcessesEnd(j) PROVE WokenIsUnderWay'
    BY <1>6 DEF ProcessesEnd, waitVars
  <1>7. ASSUME NEW w \in Wakers, WakeExchange(w) PROVE WokenIsUnderWay'
    <2>1. CASE woken
      BY <1>7, <2>1 DEF WakeExchange, jobVars, waitVars, TypeOKSet
    <2>2. CASE ~woken
      BY <1>7, <2>2 DEF WakeExchange, jobVars, waitVars, TypeOKSet
    <2>3. QED
      BY <2>1, <2>2
  <1>8. ASSUME NEW w \in Wakers, WakePost(w) PROVE WokenIsUnderWay'
    BY <1>8 DEF WakePost, jobVars, waitVars, TypeOKSet
  <1>9. CASE UNCHANGED setVars
    BY <1>9 DEF setVars, jobVars, waitVars
  <1>10. QED
    BY <1>1, <1>2, <1>3, <1>4, <1>5, <1>6, <1>7, <1>8, <1>9 DEF NextSet, ControlCall

\* A wakeup marked as pending is really under way (Wake(), WaitAll()), whatever fails and
\* whether or not handle values are used again.
THEOREM WakeupIsUnderWay == SpecSet => []WokenIsUnderWay
  <1>1. InitSet => WokenIsUnderWay
    BY DEF InitSet, WokenIsUnderWay
  <1>2. QED
    BY <1>1, TypeCorrect, WokenStep, PTL DEF SpecSet
-----------------------------------------------------------------------------
(* The reports.  A report names its job by a handle value, so that what the *)
(* wait knows is right only while no two jobs ever had one value.           *)

KeysDistinct == \A j, k \in Jobs : j # k /\ key[j] # NoHandle => key[j] # key[k]

StagesAgree ==
    \A j \in Jobs :
        /\ stage[j] \in {"created", "busy", "empty", "joined"} => procs[j] # "none"
        /\ stage[j] = "none" => procs[j] = "none"
        /\ procs[j] # "none" <=> key[j] # NoHandle
        /\ stage[j] = "empty" => procs[j] = "ended"

\* A report in the port is one of a job whose processes ended.
MessagesTrue ==
    \A m \in port : m.kind = "zero" => m.key = key[m.of] /\ procs[m.of] = "ended"

\* A job which will be waited for, or is, has its report in the port as soon as it is due.
ReportsWait ==
    \A j \in Jobs :
        procs[j] = "ended" /\ (stage[j] \in {"created", "busy"} \/ j \in Unreported)
            => ZeroMessage(j) \in port

\* Nothing is joined while the control thread waits.
WaitIsAlone == waitPc # "out" => Starting = {}

\* The inductive invariant of the reports, without the counter.
ReportInv ==
    /\ TypeOKSet
    /\ KeysDistinct
    /\ StagesAgree
    /\ MessagesTrue
    /\ ReportsWait
    /\ WaitIsAlone
    /\ reported \subseteq Entries
    /\ ReportsAreTrue

LEMMA ReportInit == InitSet => ReportInv
  <1> SUFFICES ASSUME InitSet PROVE ReportInv
    OBVIOUS
  <1>1. TypeOKSet
    BY TypeInit
  <1>2. Entries = {} /\ Starting = {} /\ Unreported = {}
    BY DEF InitSet, Entries, Starting, Unreported
  <1>3. KeysDistinct /\ StagesAgree /\ MessagesTrue /\ ReportsWait /\ WaitIsAlone
    BY <1>2 DEF InitSet, KeysDistinct, StagesAgree, MessagesTrue, ReportsWait, WaitIsAlone
  <1>4. reported \subseteq Entries /\ ReportsAreTrue
    BY <1>2 DEF InitSet, ReportsAreTrue
  <1>5. QED
    BY <1>1, <1>3, <1>4 DEF ReportInv

\* A job object which is created gets a value no job had, unless values are used again.
LEMMA NewHandleIsNew ==
    ASSUME "reuse" \notin Faults, NEW h \in FreshHandles
    PROVE  h # NoHandle /\ \A k \in Jobs : key[k] # h
  BY JobSetAssumption DEF FreshHandles, NewHandles

\* What the creation of a job with a new handle leaves true.
LEMMA CreationKeepsReports ==
    ASSUME ReportInv, "reuse" \notin Faults, waitPc = "out", NEW j \in Jobs, stage[j] = "none",
           NEW h \in FreshHandles, NEW s \in {"created", "failed"},
           key' = [key EXCEPT ![j] = h], stage' = [stage EXCEPT ![j] = s],
           procs' = [procs EXCEPT ![j] = "running"],
           UNCHANGED <<reported, pending, port, waitPc>>, TypeOKSet'
    PROVE  ReportInv'
  <1> USE DEF ReportInv, TypeOKSet
  <1>1. h # NoHandle /\ \A k \in Jobs : key[k] # h
    BY NewHandleIsNew
  <1>2. procs[j] = "none" /\ key[j] = NoHandle
    BY DEF StagesAgree
  <1>3. Entries' = Entries /\ Unreported' = Unreported /\ j \notin Entries
    BY DEF Entries, Unreported
  <1>4. KeysDistinct'
    BY <1>1 DEF KeysDistinct
  <1>5. StagesAgree'
    BY <1>1 DEF StagesAgree
  <1>6. MessagesTrue'
    BY <1>2 DEF MessagesTrue, WakeMessage, JoinedMessage
  <1>7. ReportsWait'
    BY <1>2, <1>3 DEF ReportsWait, ZeroMessage
  <1>8. WaitIsAlone' /\ ReportsAreTrue'
    BY <1>3 DEF WaitIsAlone, ReportsAreTrue
  <1>9. QED
    BY <1>3, <1>4, <1>5, <1>6, <1>7, <1>8 DEF ReportInv

\* A step which changes nothing of what the invariant is about.
LEMMA SameReports ==
    ASSUME ReportInv, UNCHANGED <<stage, procs, key, reported, port, waitPc>>, TypeOKSet'
    PROVE  ReportInv'
  <1>1. Entries' = Entries /\ Unreported' = Unreported /\ Starting' = Starting
    BY DEF Entries, Unreported, Starting
  <1>2. QED
    BY <1>1 DEF ReportInv, KeysDistinct, StagesAgree, MessagesTrue, ReportsWait, WaitIsAlone,
       ReportsAreTrue, ZeroMessage

LEMMA ReportStep == ReportInv /\ "reuse" \notin Faults /\ [NextSet]_setVars => ReportInv'
  <1> SUFFICES ASSUME ReportInv, "reuse" \notin Faults, [NextSet]_setVars PROVE ReportInv'
    OBVIOUS
  <1>0. TypeOKSet /\ TypeOKSet'
    BY TypeStep DEF ReportInv
  <1>1. ASSUME waitPc = "out", NEW j \in Jobs, CreateJob(j) \/ CreateJobFailsLate(j) PROVE ReportInv'
    <2>1. PICK h \in FreshHandles, s \in {"created", "failed"} :
              /\ stage[j] = "none"
              /\ key' = [key EXCEPT ![j] = h]
              /\ stage' = [stage EXCEPT ![j] = s]
              /\ procs' = [procs EXCEPT ![j] = "running"]
      BY <1>1 DEF CreateJob, CreateJobFailsLate
    <2>2. UNCHANGED <<reported, pending, port, waitPc>>
      BY <1>1 DEF CreateJob, CreateJobFailsLate, waitVars
    <2>3. QED
      BY <1>0, <1>1, <2>1, <2>2, CreationKeepsReports
  <1>2. ASSUME waitPc = "out", NEW j \in Jobs, CreateJobFails(j) \/ AskIsEmpty(j) PROVE ReportInv'
    <2> USE <1>0, <1>2 DEF CreateJobFails, AskIsEmpty, waitVars
    <2>1. Entries' = Entries /\ Unreported' = Unreported
      BY DEF Entries, Unreported, TypeOKSet
    <2>2. KeysDistinct' /\ MessagesTrue' /\ WaitIsAlone'
      BY DEF ReportInv, KeysDistinct, MessagesTrue, WaitIsAlone
    <2>3. StagesAgree'
      BY DEF ReportInv, StagesAgree, TypeOKSet
    <2>4. ReportsWait'
      BY <2>1 DEF ReportInv, ReportsWait, ZeroMessage, TypeOKSet
    <2>5. ReportsAreTrue' /\ (reported \subseteq Entries)'
      BY <2>1 DEF ReportInv, ReportsAreTrue
    <2>6. QED
      BY <2>2, <2>3, <2>4, <2>5 DEF ReportInv
  <1>3. ASSUME waitPc = "out", NEW j \in Jobs, AdoptJob(j) PROVE ReportInv'
    <2> USE <1>0, <1>3 DEF AdoptJob, waitVars
    <2>1. Entries' = Entries \cup {j} /\ j \notin Entries
      BY DEF Entries, TypeOKSet
    <2>2. port \subseteq port' /\ port' \subseteq port \cup {JoinedMessage}
      OBVIOUS
    <2>3. KeysDistinct' /\ WaitIsAlone'
      BY DEF ReportInv, KeysDistinct, WaitIsAlone
    <2>4. MessagesTrue'
      BY <2>2 DEF ReportInv, MessagesTrue, JoinedMessage
    <2>5. StagesAgree'
      BY DEF ReportInv, StagesAgree, TypeOKSet
    <2>6. ReportsWait'
      <3>1. ASSUME NEW k \in Jobs, procs[k] = "ended",
                   stage'[k] \in {"created", "busy"} \/ k \in Unreported'
            PROVE  ZeroMessage(k) \in port
        <4>1. stage[k] \in {"created", "busy"} \/ k \in Unreported
          BY <3>1, <2>1 DEF TypeOKSet, Unreported
        <4>2. QED
          BY <3>1, <4>1 DEF ReportInv, ReportsWait
      <3>2. QED
        BY <3>1, <2>2 DEF ReportsWait, ZeroMessage
    <2>7. (reported \subseteq Entries)'
      BY <2>1 DEF ReportInv
    <2>8. ReportsAreTrue'
      BY <2>1 DEF ReportInv, ReportsAreTrue, StagesAgree
    <2>9. QED
      BY <2>3, <2>4, <2>5, <2>6, <2>7, <2>8 DEF ReportInv
  <1>4. ASSUME NEW doomed, NEW refused, TerminateRequest(doomed, refused) PROVE ReportInv'
    <2>1. UNCHANGED <<stage, procs, key, reported, port, waitPc>>
      BY <1>4 DEF TerminateRequest, waitVars
    <2>2. QED
      BY <1>0, <2>1, SameReports
  <1>5. CASE waitPc = "out" /\ Starting = {} /\ WaitAllCalled
    <2>1. UNCHANGED <<stage, procs, key, reported, port>>
      BY <1>5 DEF WaitAllCalled, jobVars
    <2>2. Entries' = Entries /\ Unreported' = Unreported /\ Starting' = Starting
      BY <2>1 DEF Entries, Unreported, Starting
    <2>3. QED
      BY <1>0, <1>5, <2>1, <2>2 DEF ReportInv, KeysDistinct, StagesAgree, MessagesTrue, ReportsWait,
         WaitIsAlone, ReportsAreTrue, ZeroMessage
  <1>6. CASE WaitStep
    <2>0. waitPc # "out" /\ Starting = {}
      BY <1>6 DEF WaitStep, WaitCheck, WaitTakesWake, WaitClearsWoken, WaitTakesJoined, WaitTakesReport,
         WaitTimeout, WaitExpires, WaitGoesOn, WaitFails, ReportInv, WaitIsAlone
    <2>1. CASE WaitTakesReport
      <3>1. PICK m \in port :
                /\ m.kind = "zero"
                /\ port' = port \ {m}
                /\ LET named == {j \in Unreported : key[j] = m.key}
                   IN  IF named = {}
                       THEN UNCHANGED <<reported, pending>>
                       ELSE \E j \in named : reported' = reported \cup {j}
        BY <2>1 DEF WaitTakesReport
      <3>2. UNCHANGED <<stage, procs, key>>
        BY <2>1 DEF WaitTakesReport
      <3>3. Entries' = Entries /\ Starting' = Starting
        BY <3>2 DEF Entries, Starting
      <3>4. m.of \in Jobs /\ m.key = key[m.of] /\ procs[m.of] = "ended" /\ key[m.of] # NoHandle
        BY <3>1, <1>0 DEF ReportInv, MessagesTrue, StagesAgree, TypeOKSet, WakeMessage, JoinedMessage
      <3>5. {j \in Unreported : key[j] = m.key} = Unreported \cap {m.of}
        BY <3>4 DEF ReportInv, KeysDistinct, Unreported, Entries
      <3>6. reported' = reported \cup (Unreported \cap {m.of})
        BY <3>1, <3>5
      <3>7. KeysDistinct' /\ StagesAgree' /\ MessagesTrue'
        BY <3>1, <3>2 DEF ReportInv, KeysDistinct, StagesAgree, MessagesTrue
      <3>8. WaitIsAlone'
        BY <2>0, <3>3 DEF WaitIsAlone
      <3>9. (reported \subseteq Entries)'
        BY <3>3, <3>6 DEF ReportInv, Unreported
      <3>10. ReportsAreTrue'
        BY <3>2, <3>3, <3>4, <3>6 DEF ReportInv, ReportsAreTrue
      <3>11. ReportsWait'
        <4>1. ASSUME NEW k \in Jobs, procs[k] = "ended",
                     stage[k] \in {"created", "busy"} \/ k \in Unreported'
              PROVE  ZeroMessage(k) \in port'
          <5>1. k \in Unreported /\ k # m.of
            BY <4>1, <2>0, <3>3, <3>6 DEF Unreported, Starting
          <5>2. ZeroMessage(k) \in port
            BY <4>1, <5>1 DEF ReportInv, ReportsWait
          <5>3. ZeroMessage(k) # m
            BY <5>1 DEF ZeroMessage
          <5>4. QED
            BY <3>1, <5>2, <5>3
        <4>2. QED
          BY <4>1, <3>2 DEF ReportsWait, ZeroMessage
      <3>12. QED
        BY <1>0, <3>7, <3>8, <3>9, <3>10, <3>11 DEF ReportInv
    <2>2. CASE WaitTakesWake \/ WaitTakesJoined
      <3>1. UNCHANGED <<stage, procs, key, reported>>
        BY <2>2 DEF WaitTakesWake, WaitTakesJoined, jobVars
      <3>2. Entries' = Entries /\ Unreported' = Unreported /\ Starting' = Starting
        BY <3>1 DEF Entries, Unreported, Starting
      <3>3. PICK m \in {WakeMessage, JoinedMessage} : port' = port \ {m}
        BY <2>2 DEF WaitTakesWake, WaitTakesJoined
      <3>4. MessagesTrue'
        BY <3>1, <3>3 DEF ReportInv, MessagesTrue
      <3>5. ReportsWait'
        BY <3>1, <3>2, <3>3 DEF ReportInv, ReportsWait, ZeroMessage, WakeMessage, JoinedMessage
      <3>6. QED
        BY <1>0, <2>0, <3>1, <3>2, <3>4, <3>5
        DEF ReportInv, KeysDistinct, StagesAgree, WaitIsAlone, ReportsAreTrue
    <2>3. CASE WaitCheck \/ WaitClearsWoken \/ WaitTimeout \/ WaitExpires \/ WaitGoesOn \/ WaitFails
      <3>1. UNCHANGED <<stage, procs, key, reported, port>>
        BY <2>3 DEF WaitCheck, WaitClearsWoken, WaitTimeout, WaitExpires, WaitGoesOn, WaitFails, jobVars
      <3>2. Entries' = Entries /\ Unreported' = Unreported /\ Starting' = Starting
        BY <3>1 DEF Entries, Unreported, Starting
      <3>3. QED
        BY <1>0, <2>0, <3>1, <3>2 DEF ReportInv, KeysDistinct, StagesAgree, MessagesTrue, ReportsWait,
           WaitIsAlone, ReportsAreTrue, ZeroMessage
    <2>4. QED
      BY <1>6, <2>1, <2>2, <2>3 DEF WaitStep
  <1>7. ASSUME NEW j \in Jobs, ProcessesEnd(j) PROVE ReportInv'
    <2> USE <1>0, <1>7 DEF ProcessesEnd, waitVars
    <2>1. Entries' = Entries /\ Unreported' = Unreported /\ Starting' = Starting
      BY DEF Entries, Unreported, Starting
    <2>2. KeysDistinct' /\ WaitIsAlone'
      BY <2>1 DEF ReportInv, KeysDistinct, WaitIsAlone
    <2>3. StagesAgree'
      BY DEF ReportInv, StagesAgree, TypeOKSet
    <2>4. MessagesTrue'
      BY DEF ReportInv, MessagesTrue, ZeroMessage, TypeOKSet, WakeMessage, JoinedMessage
    <2>5. ReportsWait'
      BY <2>1 DEF ReportInv, ReportsWait, ZeroMessage, TypeOKSet
    <2>6. ReportsAreTrue' /\ (reported \subseteq Entries)'
      BY <2>1 DEF ReportInv, ReportsAreTrue, Entries, TypeOKSet
    <2>7. QED
      BY <2>2, <2>3, <2>4, <2>5, <2>6 DEF ReportInv
  <1>8. ASSUME NEW w \in Wakers, WakeExchange(w) PROVE ReportInv'
    <2>1. UNCHANGED <<stage, procs, key, reported, port, waitPc>>
      BY <1>8 DEF WakeExchange, jobVars, waitVars
    <2>2. QED
      BY <1>0, <2>1, SameReports
  <1>9. ASSUME NEW w \in Wakers, WakePost(w) PROVE ReportInv'
    <2>1. UNCHANGED <<stage, procs, key, reported, waitPc>> /\ port \subseteq port'
          /\ port' \subseteq port \cup {WakeMessage}
      BY <1>9 DEF WakePost, jobVars, waitVars
    <2>2. Entries' = Entries /\ Unreported' = Unreported /\ Starting' = Starting
      BY <2>1 DEF Entries, Unreported, Starting
    <2>3. MessagesTrue'
      BY <2>1 DEF ReportInv, MessagesTrue, WakeMessage
    <2>4. QED
      BY <1>0, <2>1, <2>2, <2>3 DEF ReportInv, KeysDistinct, StagesAgree, ReportsWait, WaitIsAlone,
         ReportsAreTrue, ZeroMessage
  <1>10. CASE UNCHANGED setVars
    <2>1. UNCHANGED <<stage, procs, key, reported, port, waitPc>>
      BY <1>10 DEF setVars, jobVars, waitVars
    <2>2. QED
      BY <1>0, <2>1, SameReports
  <1>11. QED
    BY <1>1, <1>2, <1>3, <1>4, <1>5, <1>6, <1>7, <1>8, <1>9, <1>10 DEF NextSet, ControlCall

\* A report of the wait is true of its job (WaitAll(), Adopt()), while the value of a
\* closed job handle is not used again.
THEOREM ReportsTrue ==
    ASSUME "reuse" \notin Faults
    PROVE  SpecSet => []ReportsAreTrue
  <1>1. ReportInv => ReportsAreTrue
    BY DEF ReportInv
  <1>2. ReportInv /\ [NextSet]_setVars => ReportInv'
    BY ReportStep
  <1>3. QED
    BY <1>1, <1>2, ReportInit, PTL DEF SpecSet

\* No report is lost: an entry without processes is known to be empty, or its report
\* waits in the port (WaitAll(), Adopt()).
THEOREM NoLostReport ==
    ASSUME "reuse" \notin Faults
    PROVE  SpecSet => []NoReportLost
  <1>1. ReportInv => NoReportLost
    BY DEF ReportInv, ReportsWait, NoReportLost, Unreported, Entries
  <1>2. ReportInv /\ [NextSet]_setVars => ReportInv'
    BY ReportStep
  <1>3. QED
    BY <1>1, <1>2, ReportInit, PTL DEF SpecSet
-----------------------------------------------------------------------------
(* The counter of the wait.                                                *)

CountInv == ReportInv /\ PendingIsUnreported

LEMMA UnreportedIsFinite == IsFiniteSet(Unreported)
  <1>1. Unreported \subseteq Jobs
    BY DEF Unreported, Entries
  <1>2. QED
    BY <1>1, JobSetAssumption, FS_Subset

LEMMA CountStep == CountInv /\ "reuse" \notin Faults /\ [NextSet]_setVars => PendingIsUnreported'
  <1> SUFFICES ASSUME CountInv, "reuse" \notin Faults, [NextSet]_setVars PROVE PendingIsUnreported'
    OBVIOUS
  <1>0. TypeOKSet /\ pending = Cardinality(Unreported) /\ IsFiniteSet(Unreported)
    BY UnreportedIsFinite DEF CountInv, ReportInv, PendingIsUnreported
  <1>1. ASSUME pending' = pending, Unreported' = Unreported PROVE PendingIsUnreported'
    BY <1>0, <1>1 DEF PendingIsUnreported
  <1>2. ASSUME waitPc = "out", NEW j \in Jobs, AdoptJob(j) PROVE PendingIsUnreported'
    <2> USE <1>0, <1>2 DEF AdoptJob, Entries, Unreported, TypeOKSet
    <2>1. j \notin Unreported
      OBVIOUS
    <2>2. CASE stage[j] = "empty"
      <3>1. Unreported' = Unreported
        BY <2>2
      <3>2. QED
        BY <2>2, <3>1, <1>1
    <2>3. CASE stage[j] # "empty"
      <3>1. j \notin reported
        BY DEF CountInv, ReportInv
      <3>2. Unreported' = Unreported \cup {j}
        BY <2>3, <3>1
      <3>3. Cardinality(Unreported \cup {j}) = Cardinality(Unreported) + 1
        BY <2>1, FS_AddElement
      <3>4. QED
        BY <2>3, <3>2, <3>3 DEF PendingIsUnreported
    <2>4. QED
      BY <2>2, <2>3
  <1>3. ASSUME NEW j \in Jobs,
               CreateJob(j) \/ CreateJobFails(j) \/ CreateJobFailsLate(j) \/ AskIsEmpty(j)
        PROVE  PendingIsUnreported'
    <2>1. Unreported' = Unreported
      BY <1>0, <1>3 DEF CreateJob, CreateJobFails, CreateJobFailsLate, AskIsEmpty, TypeOKSet, Entries,
         Unreported
    <2>2. pending' = pending
      BY <1>3 DEF CreateJob, CreateJobFails, CreateJobFailsLate, AskIsEmpty
    <2>3. QED
      BY <1>1, <2>1, <2>2
  <1>4. CASE WaitTakesReport
    <2>1. PICK m \in port :
              /\ m.kind = "zero"
              /\ LET named == {j \in Unreported : key[j] = m.key}
                 IN  IF named = {}
                     THEN UNCHANGED <<reported, pending>>
                     ELSE \E j \in named :
                              /\ reported' = reported \cup {j}
                              /\ pending' = IF pending > 0 THEN pending - 1 ELSE pending
      BY <1>4 DEF WaitTakesReport
    <2>2. Entries' = Entries
      BY <1>4 DEF WaitTakesReport, Entries
    <2>3. CASE UNCHANGED <<reported, pending>>
      BY <1>1, <2>2, <2>3 DEF Unreported
    <2>4. ASSUME NEW j \in Unreported, reported' = reported \cup {j},
                 pending' = IF pending > 0 THEN pending - 1 ELSE pending
          PROVE  PendingIsUnreported'
      <3>1. Unreported' = Unreported \ {j}
        BY <2>2, <2>4 DEF Unreported
      <3>2. Cardinality(Unreported \ {j}) = Cardinality(Unreported) - 1
        BY <1>0, <2>4, FS_RemoveElement
      <3>3. Cardinality(Unreported \ {j}) \in Nat
        BY <1>0, FS_RemoveElement, FS_CardinalityType
      <3>4. pending > 0
        BY <1>0, <3>2, <3>3 DEF TypeOKSet
      <3>5. QED
        BY <1>0, <2>4, <3>1, <3>2, <3>4 DEF PendingIsUnreported
    <2>5. QED
      BY <2>1, <2>3, <2>4
  <1>5. CASE UNCHANGED <<stage, reported, pending>>
    BY <1>1, <1>5 DEF Unreported, Entries
  <1>6. CASE WaitStep
    <2>1. CASE ~WaitTakesReport
      <3>1. UNCHANGED <<stage, reported, pending>>
        BY <1>6, <2>1 DEF WaitStep, WaitCheck, WaitTakesWake, WaitClearsWoken, WaitTakesJoined,
           WaitTimeout, WaitExpires, WaitGoesOn, WaitFails, jobVars
      <3>2. QED
        BY <1>5, <3>1
    <2>2. QED
      BY <1>4, <2>1
  <1>7. ASSUME NEW doomed, NEW refused, TerminateRequest(doomed, refused)
        PROVE  UNCHANGED <<stage, reported, pending>>
    BY <1>7 DEF TerminateRequest
  <1>8. ASSUME NEW j \in Jobs, ProcessesEnd(j) PROVE UNCHANGED <<stage, reported, pending>>
    BY <1>8 DEF ProcessesEnd
  <1>9. ASSUME NEW w \in Wakers, WakeExchange(w) \/ WakePost(w)
        PROVE  UNCHANGED <<stage, reported, pending>>
    BY <1>9 DEF WakeExchange, WakePost, jobVars
  <1>10. CASE WaitAllCalled \/ UNCHANGED setVars
    BY <1>5, <1>10 DEF WaitAllCalled, setVars, jobVars
  <1>11. QED
    BY <1>2, <1>3, <1>5, <1>6, <1>7, <1>8, <1>9, <1>10 DEF NextSet, ControlCall

LEMMA CountInvariant ==
    ASSUME "reuse" \notin Faults
    PROVE  SpecSet => []CountInv
  <1>1. InitSet => CountInv
    <2> SUFFICES ASSUME InitSet PROVE CountInv
      OBVIOUS
    <2>1. Unreported = {}
      BY DEF InitSet, Unreported, Entries
    <2>2. QED
      BY <2>1, ReportInit, FS_EmptySet DEF InitSet, CountInv, PendingIsUnreported
  <1>2. CountInv /\ [NextSet]_setVars => CountInv'
    BY ReportStep, CountStep DEF CountInv
  <1>3. QED
    BY <1>1, <1>2, PTL DEF SpecSet

\* The counter of the wait is the number of entries which did not report (Adopt(),
\* WaitAll()), for any number of jobs.
THEOREM PendingIsExact ==
    ASSUME "reuse" \notin Faults
    PROVE  SpecSet => []PendingIsUnreported
  <1>1. CountInv => PendingIsUnreported
    BY DEF CountInv
  <1>2. QED
    BY <1>1, CountInvariant, PTL

\* WaitStatus::AllExited: at the moment WaitAll() returns it, no entry of the set holds a
\* running process, while the value of a closed job handle is not used again.
THEOREM AllExitedTrue ==
    ASSUME "reuse" \notin Faults
    PROVE  SpecSet => AllExitedIsTrue
  <1>1. ASSUME CountInv, [NextSet]_setVars, waitPc # "out", waitPc' = "out", waitResult' = "AllExited"
        PROVE  \A j \in Entries : procs[j] = "ended"
    <2>1. pending = 0
      BY <1>1 DEF CountInv, ReportInv, NextSet, ControlCall, WaitStep, WaitAllCalled, WaitCheck,
         WaitTakesWake, WaitClearsWoken, WaitTakesJoined, WaitTakesReport, WaitTimeout, WaitExpires,
         WaitGoesOn, WaitFails, WaitReturns, ProcessesEnd, WakeExchange, WakePost, setVars, waitVars
    <2>2. Unreported = {}
      BY <1>1, <2>1, UnreportedIsFinite, FS_EmptySet DEF CountInv, PendingIsUnreported
    <2>3. QED
      BY <1>1, <2>2 DEF CountInv, ReportInv, ReportsAreTrue, Unreported
  <1>2. CountInv /\ [NextSet]_setVars
        => [waitPc # "out" /\ waitPc' = "out" /\ waitResult' = "AllExited"
              => \A j \in Entries : procs[j] = "ended"]_setVars
    BY <1>1
  <1>3. QED
    BY <1>2, CountInvariant, PTL DEF SpecSet, AllExitedIsTrue

-----------------------------------------------------------------------------
(* The control layer.                                                       *)

\* Where the control thread holds a request, and where it ended the run.
Busy   == {"process", "rollback", "countRollback", "refuse", "count"}
Ending == {"swap", "turnAway", "stop", "reset", "gone"}

\* The control thread waits and starts programs in turn, and its place tells what it holds.
Shape ==
    /\ current # NoRequest <=> control \in Busy
    /\ waitPc # "out" => control = "wait"
    /\ \A j \in Starting :
        \/ control = "initial" /\ OwnerOf[j] = Initial
        \/ control = "process" /\ OwnerOf[j] = current
    /\ control = "prepare" => \A j \in Jobs : stage[j] = "none"
    /\ killed # 0 => control = "countRollback"
    /\ shuttingDown <=> control \in Ending
    /\ swapped # << >> => control = "turnAway"
    /\ control \in Ending \ {"swap"} => queue = << >>

Once(s) == \A i, k \in DOMAIN s : s[i] = s[k] => i = k

\* A request is in one place at most, and its place agrees with its handler and its answers.
Place(r) ==
    /\ Holds(queue, r) => current # r
    /\ requestId[r] < nextId
    /\ requestId[r] = 0 =>
        handler[r] \in {"new", "enqueue", "returned"} /\ answers[r] \in {<< >>, <<"refused">>}
    /\ handler[r] \in {"new", "enqueue"} => requestId[r] = 0
    /\ handler[r] \in {"new", "enqueue", "sayBusy", "sayShutdown"} => answers[r] = << >>
    /\ handler[r] = "sayShutdown" => shuttingDown
    /\ Waiting(r) => Accepted(r)
    /\ current = r /\ control = "count" => answers[r] = <<"started">> /\ Accepted(r)
    /\ Accepted(r) => (Waiting(r) <=> answers[r] = << >>)
    /\ Len(answers[r]) <= 1

Places ==
    /\ Once(queue) /\ Once(swapped)
    /\ \A r \in Requests : Place(r)
    /\ \A q, r \in Requests : q # r /\ requestId[q] = requestId[r] => requestId[q] = 0

\* What became of the programs of a request agrees with its place and its answer.
Bodies ==
    /\ \A j \in Jobs : stage[j] # "none" =>
        \/ OwnerOf[j] = Initial
        \/ OwnerOf[j] = current
        \/ answers[OwnerOf[j]] \in {<<"started">>, <<"startFailed">>}
    /\ control \in {"countRollback", "refuse"} /\ "kill" \notin Faults =>
        Programs(current) \cap Entries \subseteq terminated
    /\ control = "process" => \A j \in Programs(current) : stage[j] # "failed"
    /\ control = "count" => \A j \in Programs(current) : stage[j] = "joined"

Whole == Bodies /\ RequestIsWhole /\ RollbackIsOwn

\* The invariant of the requests.
RequestInv ==
    /\ TypeOK
    /\ Shape
    /\ Places
    /\ Whole
-----------------------------------------------------------------------------
(* The queue as a set of requests.                                         *)

LEMMA EmptyHolds == << >> \in Seq(Requests) /\ Once(<< >>) /\ \A q \in Requests : ~Holds(<< >>, q)
  BY EmptySeq DEF Once, Holds

LEMMA AppendHolds ==
    ASSUME NEW s \in Seq(Requests), NEW r \in Requests
    PROVE  /\ Append(s, r) \in Seq(Requests)
           /\ \A q \in Requests : Holds(Append(s, r), q) <=> Holds(s, q) \/ q = r
           /\ Once(s) /\ ~Holds(s, r) => Once(Append(s, r))
  <1> DEFINE t == Append(s, r)
  <1>1. t \in Seq(Requests) /\ Len(t) = Len(s) + 1 /\ Len(s) \in Nat /\ t[Len(s) + 1] = r
        /\ \A i \in 1..Len(s) : t[i] = s[i]
    BY AppendProperties, LenProperties
  <1>2. DOMAIN s = 1..Len(s) /\ DOMAIN t = 1..Len(s) + 1
    BY <1>1, LenProperties
  <1> HIDE DEF t
  <1>3. ASSUME NEW i \in DOMAIN t PROVE i = Len(s) + 1 \/ (i \in DOMAIN s /\ t[i] = s[i])
    <2>1. i \in 1..Len(s) + 1
      BY <1>2
    <2>2. i = Len(s) + 1 \/ i \in 1..Len(s)
      BY <1>1, <2>1
    <2>3. QED
      BY <1>1, <1>2, <2>2
  <1>4. \A i \in DOMAIN s : i \in DOMAIN t /\ t[i] = s[i]
    BY <1>1, <1>2
  <1>5. \A q \in Requests : Holds(t, q) <=> Holds(s, q) \/ q = r
    BY <1>1, <1>2, <1>3, <1>4 DEF Holds
  <1>6. Once(s) /\ ~Holds(s, r) => Once(t)
    BY <1>1, <1>3 DEF Once, Holds
  <1>7. QED
    BY <1>1, <1>5, <1>6 DEF t

LEMMA TailHolds ==
    ASSUME NEW s \in Seq(Requests), s # << >>
    PROVE  /\ Head(s) \in Requests
           /\ Tail(s) \in Seq(Requests)
           /\ Holds(s, Head(s))
           /\ Once(s) => Once(Tail(s))
           /\ Once(s) => \A q \in Requests : Holds(Tail(s), q) <=> Holds(s, q) /\ q # Head(s)
  <1> DEFINE t == Tail(s)
  <1>1. Head(s) \in Requests /\ t \in Seq(Requests) /\ Len(t) = Len(s) - 1
        /\ \A i \in 1..Len(t) : t[i] = s[i + 1]
    BY HeadTailProperties
  <1>2. Len(s) \in Nat \ {0} /\ DOMAIN s = 1..Len(s) /\ DOMAIN t = 1..Len(s) - 1
    BY <1>1, LenProperties, EmptySeq
  <1>3. Head(s) = s[1]
    OBVIOUS
  <1>4. \A i \in DOMAIN t : i + 1 \in DOMAIN s /\ i + 1 # 1 /\ t[i] = s[i + 1]
    BY <1>1, <1>2
  <1>5. \A i \in DOMAIN s : i = 1 \/ (i - 1 \in DOMAIN t /\ t[i - 1] = s[i])
    BY <1>1, <1>2
  <1>6. Holds(s, Head(s))
    BY <1>2, <1>3 DEF Holds
  <1>7. ASSUME Once(s), NEW i \in DOMAIN t, NEW k \in DOMAIN t, t[i] = t[k] PROVE i = k
    <2>1. i + 1 = k + 1
      BY <1>4, <1>7 DEF Once
    <2>2. QED
      BY <1>2, <2>1
  <1>8. ASSUME Once(s), NEW q \in Requests PROVE Holds(t, q) <=> Holds(s, q) /\ q # Head(s)
    <2>1. ASSUME NEW i \in DOMAIN t, t[i] = q PROVE Holds(s, q) /\ q # Head(s)
      BY <1>2, <1>3, <1>4, <1>8, <2>1 DEF Once, Holds
    <2>2. ASSUME NEW i \in DOMAIN s, s[i] = q, q # Head(s) PROVE Holds(t, q)
      BY <1>3, <1>5, <2>2 DEF Holds
    <2>3. QED
      BY <2>1, <2>2 DEF Holds
  <1>9. QED
    BY <1>1, <1>6, <1>7, <1>8 DEF Once

LEMMA OneAnswer ==
    /\ Len(<< >>) = 0
    /\ \A a \in Answers : Len(<<a>>) = 1 /\ <<a>> # << >>
    /\ \A a, b \in Answers : <<a>> = <<b>> => a = b
  OBVIOUS

\* An answer to a request without one is its only answer.
LEMMA FirstAnswer ==
    ASSUME TypeOK, NEW r \in Requests, NEW a \in Answers, Answer(r, a)
    PROVE  /\ answers' \in [Requests -> Seq(Answers)]
           /\ \A q \in Requests : q # r => answers'[q] = answers[q]
           /\ answers[r] = << >> => /\ answers'[r] = <<a>>
                                    /\ Len(answers'[r]) = 1
                                    /\ answers'[r] # << >>
                                    /\ \A b \in Answers \ {a} : answers'[r] # <<b>>
  <1>1. Append(answers[r], a) \in Seq(Answers)
    BY AppendProperties DEF TypeOK
  <1>2. answers' = [answers EXCEPT ![r] = Append(answers[r], a)] /\ answers \in [Requests -> Seq(Answers)]
    BY DEF TypeOK, Answer
  <1>3. Append(<< >>, a) = <<a>>
    OBVIOUS
  <1>4. QED
    BY <1>1, <1>2, <1>3, OneAnswer

(* Types, and the job set inside the control layer.                        *)

\* Enqueue() gives every request an id of its own, so that a rollback by id is one by owner.
LEMMA DoomedAreOwn ==
    ASSUME TypeOK, Places, NEW r \in Requests, requestId[r] # 0
    PROVE  {j \in Entries : OwnerOf[j] # Initial /\ IdOf(j) = requestId[r]}
                = {j \in Entries : OwnerOf[j] = r}
  BY ControlAssumption, JobSetAssumption DEF Places, IdOf, Entries

\* Every step is one of the job set, seen by itself, until its jobs are closed.
LEMMA SetStep ==
    ASSUME TypeOK, Shape, Places, [Next]_vars
    PROVE  [NextSet]_setVars \/ ReleaseJobs
  <1>1. CASE FinishStart
    BY <1>1 DEF FinishStart, Shape, Starting, NextSet, ControlCall
  <1>2. CASE StartInitial \/ StartProgram
    BY <1>2 DEF StartInitial, StartProgram, Shape, Unstarted, Programs, NextSet, ControlCall
  <1>3. CASE QueueDrained
    BY <1>3 DEF QueueDrained, Shape, NextSet, ControlCall
  <1>4. CASE Rollback
    <2>1. current \in Requests /\ requestId[current] # 0
      BY <1>4 DEF Rollback, Shape, Busy, Places, Place, Waiting, Accepted, TypeOK
    <2>2. PICK refused : TerminateRequest({j \in Entries : OwnerOf[j] = current}, refused)
      BY <1>4, <2>1, DoomedAreOwn DEF Rollback
    <2>3. refused \in SUBSET Jobs
      BY <2>2 DEF TerminateRequest, Entries
    <2>4. waitPc = "out" /\ Starting = {}
      BY <1>4 DEF Rollback, Shape
    <2>5. current \in Owners \ {Initial}
      BY <2>1, ControlAssumption
    <2>6. QED
      BY <2>2, <2>3, <2>4, <2>5 DEF NextSet, ControlCall
  <1>5. CASE ControlWaits
    BY <1>5 DEF ControlWaits, NextSet
  <1>6. ASSUME NEW r \in Requests, HandlerWakes(r) PROVE NextSet
    BY <1>6, ControlAssumption DEF HandlerWakes, NextSet
  <1>7. CASE AcceptWakes
    BY <1>7, ControlAssumption DEF AcceptWakes, NextSet
  <1>8. CASE Kernel
    BY <1>8 DEF Kernel, NextSet
  <1>9. CASE \E r \in Requests : Handler(r) /\ ~HandlerWakes(r)
    BY <1>9 DEF Handler, HandlerChecks, HandlerDrops, Enqueue, HandlerTurnsAway, HandlerCounts,
       HandlerCountsEarly
  <1>10. CASE AcceptFails \/ UNCHANGED vars
    BY <1>10 DEF AcceptFails, vars
  <1>11. CASE \/ Prepare \/ PrepareFails \/ InitialStarted \/ PollAcceptFailure \/ PopRequest
              \/ RefuseRequest \/ AnswerStarted \/ CountHandled \/ CountRollback \/ RefuseRolledBack
              \/ WaitReturned \/ CheckIdle \/ Collect \/ SetShuttingDown \/ SwapQueue \/ TurnAway
              \/ AllTurnedAway \/ StopPipe
    BY <1>11 DEF Prepare, PrepareFails, InitialStarted, PollAcceptFailure, PopRequest, RefuseRequest,
       AnswerStarted, CountHandled, CountRollback, RefuseRolledBack, WaitReturned, CheckIdle, Collect,
       SetShuttingDown, SwapQueue, TurnAway, AllTurnedAway, StopPipe
  <1>12. QED
    BY <1>1, <1>2, <1>3, <1>4, <1>5, <1>6, <1>7, <1>8, <1>9, <1>10, <1>11
    DEF Next, ControlThread, AcceptLoop

LEMMA SetTypes ==
    ASSUME TypeOK, Shape, Places, [Next]_vars
    PROVE  TypeOKSet'
  <1>1. CASE ReleaseJobs
    BY <1>1 DEF ReleaseJobs, TypeOK, TypeOKSet, waitVars
  <1>2. CASE [NextSet]_setVars
    BY <1>2, TypeStep DEF TypeOK
  <1>3. QED
    BY <1>1, <1>2, SetStep

LEMMA TypeStepControl ==
    ASSUME TypeOK, Shape, Places, [Next]_vars
    PROVE  TypeOK'
  <1> DEFINE RequestTypes == /\ handler \in [Requests -> HandlerPc]
                             /\ answers \in [Requests -> Seq(Answers)]
                             /\ requestId \in [Requests -> Nat]
                             /\ nextId \in Nat \ {0}
             WorkTypes    == /\ queue \in Seq(Requests)
                             /\ current \in Requests \cup {NoRequest}
                             /\ swapped \in Seq(Requests)
                             /\ killed \in Nat
             RunTypes     == /\ control \in ControlPc
                             /\ {prepared, runtime, shuttingDown, acceptFailed} \subseteq BOOLEAN
                             /\ queued \in Nat /\ queuedEarly \in Nat
                             /\ handled \in Nat /\ rolledBack \in Nat
                             /\ exitCode \in {"zero", "nonzero"}
  <1>0. TypeOKSet'
    BY SetTypes
  <1>a. RequestTypes /\ WorkTypes /\ RunTypes
    BY DEF TypeOK
  <1>b. RequestTypes' /\ WorkTypes' /\ RunTypes' => TypeOK'
    BY <1>0 DEF TypeOK
  <1>c. UNCHANGED requestVars => RequestTypes'
    BY <1>a DEF requestVars
  <1>d. UNCHANGED workVars => WorkTypes'
    BY <1>a DEF workVars
  <1>e. UNCHANGED <<control, runVars, countVars>> => RunTypes'
    BY <1>a DEF runVars, countVars
  <1>1. ASSUME NEW r \in Requests, Handler(r) PROVE TypeOK'
    <2>1. CASE HandlerChecks(r) \/ HandlerTurnsAway(r)
      <3>1. answers' \in [Requests -> Seq(Answers)]
        BY <1>a, <2>1, FirstAnswer DEF HandlerChecks, HandlerTurnsAway, Answers
      <3>2. RequestTypes'
        BY <1>a, <2>1, <3>1 DEF HandlerChecks, HandlerTurnsAway, HandlerPc
      <3>3. QED
        BY <1>b, <1>d, <1>e, <2>1, <3>2 DEF HandlerChecks, HandlerTurnsAway
    <2>2. CASE Enqueue(r)
      <3>1. handler' \in [Requests -> HandlerPc]
        BY <1>a, <2>2 DEF Enqueue, HandlerPc
      <3>2. requestId' \in [Requests -> Nat] /\ nextId' \in Nat \ {0} /\ UNCHANGED answers
        BY <1>a, <2>2 DEF Enqueue
      <3>3. queue' \in {queue, Append(queue, r)} /\ UNCHANGED <<current, swapped, killed>>
        BY <2>2 DEF Enqueue
      <3>4. queue' \in Seq(Requests)
        <4>1. queue \in Seq(Requests)
          BY <1>a
        <4>2. Append(queue, r) \in Seq(Requests)
          BY <4>1, AppendProperties
        <4>3. QED
          BY <3>3, <4>1, <4>2
      <3>5. RequestTypes' /\ WorkTypes'
        BY <1>a, <3>1, <3>2, <3>3, <3>4
      <3>6. QED
        BY <1>b, <1>e, <2>2, <3>5 DEF Enqueue
    <2>3. CASE HandlerDrops(r) \/ HandlerCounts(r) \/ HandlerCountsEarly(r)
      <3>1. RequestTypes'
        BY <1>a, <2>3 DEF HandlerDrops, HandlerCounts, HandlerCountsEarly, HandlerPc
      <3>2. RunTypes'
        <4>1. CASE HandlerDrops(r)
          BY <1>a, <4>1 DEF HandlerDrops, runVars, countVars
        <4>2. CASE HandlerCounts(r)
          BY <1>a, <4>2 DEF HandlerCounts, runVars, countVars
        <4>3. CASE HandlerCountsEarly(r)
          BY <1>a, <4>3 DEF HandlerCountsEarly, runVars, countVars
        <4>4. QED
          BY <2>3, <4>1, <4>2, <4>3
      <3>3. QED
        BY <1>b, <1>d, <2>3, <3>1, <3>2 DEF HandlerDrops, HandlerCounts, HandlerCountsEarly
    <2>4. CASE HandlerWakes(r)
      BY <1>b, <1>c, <1>d, <1>e, <2>4 DEF HandlerWakes, ctlVars
    <2>5. QED
      BY <1>1, <2>1, <2>2, <2>3, <2>4 DEF Handler
  <1>2. CASE AcceptLoop
    <2>1. UNCHANGED requestVars /\ UNCHANGED workVars
      BY <1>2 DEF AcceptLoop, AcceptFails, AcceptWakes, ctlVars
    <2>2. RunTypes'
      BY <1>2, <1>a DEF AcceptLoop, AcceptFails, AcceptWakes, ctlVars, runVars, countVars
    <2>3. QED
      BY <1>b, <1>c, <1>d, <2>1, <2>2
  <1>3. CASE Kernel \/ FinishStart \/ ControlWaits \/ UNCHANGED vars
    BY <1>b, <1>c, <1>d, <1>e, <1>3 DEF Kernel, FinishStart, ControlWaits, ctlVars, vars
  <1>4. CASE \/ Prepare \/ PrepareFails \/ StartInitial \/ InitialStarted \/ PollAcceptFailure
             \/ QueueDrained \/ StartProgram \/ WaitReturned \/ CheckIdle \/ Collect
             \/ SetShuttingDown \/ AllTurnedAway \/ StopPipe \/ ReleaseJobs
    <2>1. UNCHANGED requestVars /\ UNCHANGED workVars
      BY <1>4 DEF Prepare, PrepareFails, StartInitial, InitialStarted, PollAcceptFailure, QueueDrained,
         StartProgram, WaitReturned, CheckIdle, Collect, SetShuttingDown, AllTurnedAway, StopPipe,
         ReleaseJobs, ControlUnchanged
    <2>2. CASE WaitReturned
      <3>1. control' \in {"idle", "collect", "poll"} /\ exitCode' \in {"zero", "nonzero"}
        BY <1>a, <2>2 DEF WaitReturned
      <3>2. UNCHANGED <<prepared, runtime, shuttingDown, acceptFailed, countVars>>
        BY <2>2 DEF WaitReturned
      <3>3. RunTypes'
        BY <1>a, <3>1, <3>2 DEF ControlPc, countVars
      <3>4. QED
        BY <1>b, <1>c, <1>d, <2>1, <3>3
    <2>3. CASE ~WaitReturned
      <3>1. RunTypes'
        BY <1>4, <2>3, <1>a DEF Prepare, PrepareFails, StartInitial, InitialStarted, PollAcceptFailure,
           QueueDrained, StartProgram, CheckIdle, Collect, SetShuttingDown, AllTurnedAway, StopPipe,
           ReleaseJobs, ControlUnchanged, ControlPc, runVars, countVars
      <3>2. QED
        BY <1>b, <1>c, <1>d, <2>1, <3>1
    <2>4. QED
      BY <2>2, <2>3
  <1>5. CASE RefuseRequest \/ RefuseRolledBack \/ AnswerStarted
    <2>1. current \in Requests
      BY <1>5, <1>a DEF RefuseRequest, RefuseRolledBack, AnswerStarted, Shape, Busy
    <2>2. answers' \in [Requests -> Seq(Answers)]
      BY <1>5, <2>1, FirstAnswer DEF RefuseRequest, RefuseRolledBack, AnswerStarted, Answers
    <2>3. RequestTypes' /\ RunTypes'
      BY <1>5, <1>a, <2>2
      DEF RefuseRequest, RefuseRolledBack, AnswerStarted, ControlPc, runVars, countVars
    <2>4. WorkTypes'
      BY <1>5, <1>a DEF RefuseRequest, RefuseRolledBack, AnswerStarted, workVars
    <2>5. QED
      BY <1>b, <2>3, <2>4
  <1>6. CASE PopRequest \/ SwapQueue
    <2>1. WorkTypes'
      BY <1>6, <1>a, EmptyHolds, TailHolds DEF PopRequest, SwapQueue
    <2>2. RunTypes'
      BY <1>6, <1>a DEF PopRequest, SwapQueue, ControlUnchanged, ControlPc, runVars, countVars
    <2>3. QED
      BY <1>b, <1>c, <1>6, <2>1, <2>2 DEF PopRequest, SwapQueue, ControlUnchanged
  <1>7. CASE CountHandled \/ CountRollback
    <2>1. WorkTypes'
      BY <1>7, <1>a DEF CountHandled, CountRollback
    <2>2. CASE CountHandled
      <3>1. RunTypes'
        BY <1>a, <2>2 DEF CountHandled, ControlPc, runVars
      <3>2. QED
        BY <1>b, <1>c, <2>1, <2>2, <3>1 DEF CountHandled
    <2>3. CASE CountRollback
      <3>1. RunTypes'
        BY <1>a, <2>3 DEF CountRollback, ControlPc, runVars
      <3>2. QED
        BY <1>b, <1>c, <2>1, <2>3, <3>1 DEF CountRollback
    <2>4. QED
      BY <1>7, <2>2, <2>3
  <1>8. CASE Rollback
    <2>1. PICK ended \in SUBSET Jobs : killed' = Cardinality(ended)
      BY <1>8 DEF Rollback, Entries
    <2>2. killed' \in Nat
      BY <2>1, JobSetAssumption, FS_Subset, FS_CardinalityType
    <2>3. WorkTypes' /\ RunTypes'
      BY <1>8, <1>a, <2>2 DEF Rollback, ControlUnchanged, ControlPc, runVars, countVars
    <2>4. QED
      BY <1>b, <1>c, <1>8, <2>3 DEF Rollback, ControlUnchanged
  <1>9. CASE TurnAway
    <2>1. Head(swapped) \in Requests /\ Tail(swapped) \in Seq(Requests)
      BY <1>9, <1>a, TailHolds DEF TurnAway
    <2>2. answers' \in [Requests -> Seq(Answers)]
      BY <1>9, <2>1, FirstAnswer DEF TurnAway, Answers
    <2>3. RequestTypes' /\ WorkTypes'
      BY <1>9, <1>a, <2>1, <2>2 DEF TurnAway
    <2>4. QED
      BY <1>b, <1>e, <1>9, <2>3 DEF TurnAway
  <1>10. QED
    BY <1>1, <1>2, <1>3, <1>4, <1>5, <1>6, <1>7, <1>8, <1>9 DEF Next, ControlThread
-----------------------------------------------------------------------------
(* Where the control thread is.                                            *)

\* A step which leaves alone what Shape is about.
LEMMA SameShape ==
    ASSUME Shape, UNCHANGED <<control, current, waitPc, stage, killed, shuttingDown, swapped, queue>>
    PROVE  Shape'
  BY DEF Shape, Starting

LEMMA ShapeStep ==
    ASSUME TypeOK, Shape, Places, [Next]_vars
    PROVE  Shape'
  <1> USE DEF Shape, Busy, Ending, Starting
  <1>1. ASSUME NEW r \in Requests, Handler(r) PROVE Shape'
    <2>1. CASE Enqueue(r)
      BY <2>1 DEF Enqueue, runVars, setVars, jobVars, waitVars
    <2>2. CASE HandlerWakes(r)
      <3>1. UNCHANGED <<stage, waitPc>>
        BY <2>2 DEF HandlerWakes, WakeExchange, WakePost, jobVars, waitVars
      <3>2. QED
        BY <2>2, <3>1, SameShape DEF HandlerWakes, ctlVars, workVars, runVars
    <2>3. CASE HandlerChecks(r) \/ HandlerDrops(r) \/ HandlerTurnsAway(r) \/ HandlerCounts(r)
               \/ HandlerCountsEarly(r)
      BY <2>3, SameShape DEF HandlerChecks, HandlerDrops, HandlerTurnsAway, HandlerCounts,
         HandlerCountsEarly, workVars, runVars, setVars, jobVars, waitVars
    <2>4. QED
      BY <1>1, <2>1, <2>2, <2>3 DEF Handler
  <1>2. CASE AcceptLoop \/ Kernel \/ UNCHANGED vars
    BY <1>2, SameShape DEF AcceptLoop, AcceptFails, AcceptWakes, WakeExchange, WakePost, Kernel,
       ProcessesEnd, vars, ctlVars, workVars, runVars, setVars, jobVars, waitVars
  <1>3. CASE Prepare \/ PrepareFails
    BY <1>3 DEF Prepare, PrepareFails, workVars, setVars, jobVars, waitVars
  <1>4. CASE FinishStart
    <2>1. PICK j \in Starting : AskIsEmpty(j) \/ AdoptJob(j)
      BY <1>4 DEF FinishStart
    <2>2. \A k \in Jobs : stage'[k] = stage[k] \/ (k = j /\ stage'[k] \in {"busy", "empty", "joined"})
      BY <2>1 DEF AskIsEmpty, AdoptJob, TypeOK, TypeOKSet
    <2>3. UNCHANGED <<control, current, waitPc, killed, shuttingDown, swapped, queue>>
      BY <1>4, <2>1 DEF FinishStart, AskIsEmpty, AdoptJob, ctlVars, workVars, runVars, waitVars
    <2>4. control # "prepare"
      BY <1>4 DEF FinishStart
    <2>5. QED
      BY <2>1, <2>2, <2>3, <2>4
  <1>5. CASE StartInitial
    <2>1. PICK j \in Unstarted(Initial) : CreateJob(j) \/ CreateJobFails(j) \/ CreateJobFailsLate(j)
      BY <1>5 DEF StartInitial
    <2>2. \A k \in Jobs : stage'[k] = stage[k] \/ (k = j /\ stage'[k] \in {"created", "failed"})
      BY <2>1 DEF CreateJob, CreateJobFails, CreateJobFailsLate, TypeOK, TypeOKSet
    <2>3. UNCHANGED <<control, current, waitPc, killed, shuttingDown, swapped, queue>>
      BY <1>5, <2>1
      DEF StartInitial, CreateJob, CreateJobFails, CreateJobFailsLate, workVars, waitVars
    <2>4. QED
      BY <1>5, <2>1, <2>2, <2>3 DEF StartInitial, Unstarted, Programs
  <1>6. CASE StartProgram
    <2>1. PICK j \in Unstarted(current) : CreateJob(j) \/ CreateJobFails(j) \/ CreateJobFailsLate(j)
      BY <1>6 DEF StartProgram
    <2>2. Starting = {}
      BY <2>1 DEF CreateJob, CreateJobFails, CreateJobFailsLate
    <2>3. UNCHANGED <<current, waitPc, killed, shuttingDown, swapped, queue>>
      BY <1>6, <2>1 DEF StartProgram, CreateJob, CreateJobFails, CreateJobFailsLate, ControlUnchanged,
         runVars, workVars, waitVars
    <2>4. CASE control' = "process"
      <3>1. \A k \in Jobs : stage'[k] = stage[k] \/ k = j
        BY <2>1 DEF CreateJob, CreateJobFails, CreateJobFailsLate, TypeOK, TypeOKSet
      <3>2. QED
        BY <1>6, <2>1, <2>3, <2>4, <3>1 DEF StartProgram, Unstarted, Programs
    <2>5. CASE control' = "rollback"
      <3>1. \A k \in Jobs : stage'[k] = stage[k] \/ stage'[k] = "failed" \/ control' = control
        BY <1>6 DEF StartProgram, CreateJobFails, CreateJobFailsLate, TypeOK, TypeOKSet
      <3>2. QED
        BY <1>6, <2>2, <2>3, <2>5, <3>1 DEF StartProgram
    <2>6. QED
      BY <1>6, <2>4, <2>5 DEF StartProgram
  <1>7. CASE InitialStarted \/ PollAcceptFailure \/ CheckIdle \/ Collect \/ SetShuttingDown
    BY <1>7 DEF InitialStarted, PollAcceptFailure, CheckIdle, Collect, SetShuttingDown,
       ControlUnchanged, workVars, runVars, setVars, jobVars, waitVars
  <1>8. CASE PopRequest \/ SwapQueue
    <2>1. UNCHANGED <<waitPc, stage, shuttingDown, killed>>
      BY <1>8 DEF PopRequest, SwapQueue, ControlUnchanged, runVars, setVars, jobVars, waitVars
    <2>2. Head(queue) \in Requests \/ SwapQueue
      BY <1>8, TailHolds DEF PopRequest, TypeOK
    <2>3. QED
      BY <1>8, <2>1, <2>2, ControlAssumption DEF PopRequest, SwapQueue
  <1>9. CASE QueueDrained
    BY <1>9 DEF QueueDrained, WaitAllCalled, ControlUnchanged, workVars, runVars, jobVars
  <1>10. CASE RefuseRequest \/ RefuseRolledBack
    <2>1. UNCHANGED <<waitPc, stage, killed, shuttingDown, swapped, queue>>
      BY <1>10 DEF RefuseRequest, RefuseRolledBack, runVars, setVars, jobVars, waitVars
    <2>2. Starting = {}
      BY <1>10 DEF RefuseRequest, RefuseRolledBack, Unstarted, Programs
    <2>3. control' = "drain" /\ current' = NoRequest /\ control \in {"process", "refuse"}
      BY <1>10 DEF RefuseRequest, RefuseRolledBack
    <2>4. QED
      BY <2>1, <2>2, <2>3
  <1>11. CASE AnswerStarted \/ CountHandled
    BY <1>11 DEF AnswerStarted, CountHandled, workVars, runVars, setVars, jobVars, waitVars
  <1>12. CASE Rollback \/ CountRollback
    <2>1. UNCHANGED <<waitPc, stage, shuttingDown, swapped, queue, current>>
      BY <1>12 DEF Rollback, TerminateRequest, CountRollback, ControlUnchanged, runVars, setVars,
                   jobVars,
         waitVars
    <2>2. \/ control = "rollback" /\ control' = "countRollback"
          \/ control = "countRollback" /\ control' = "refuse" /\ killed' = 0
      BY <1>12 DEF Rollback, CountRollback
    <2>3. QED
      BY <2>1, <2>2
  <1>13. CASE ControlWaits
    <2>1. UNCHANGED stage
      BY <1>13 DEF ControlWaits, WaitStep, WaitCheck, WaitTakesWake, WaitClearsWoken, WaitTakesJoined,
         WaitTakesReport, WaitTimeout, WaitExpires, WaitGoesOn, WaitFails, jobVars
    <2>2. QED
      BY <1>13, <2>1 DEF ControlWaits, ctlVars, workVars, runVars
  <1>14. CASE WaitReturned
    <2>1. control' \in {"idle", "collect", "poll"}
      BY <1>14 DEF WaitReturned
    <2>2. UNCHANGED <<current, waitPc, stage, killed, shuttingDown, swapped, queue>>
          /\ control = "wait" /\ waitPc = "out"
      BY <1>14 DEF WaitReturned, workVars, setVars, jobVars, waitVars
    <2>3. QED
      BY <2>1, <2>2
  <1>15. CASE TurnAway \/ AllTurnedAway \/ StopPipe \/ ReleaseJobs
    BY <1>15 DEF TurnAway, AllTurnedAway, StopPipe, ReleaseJobs, ControlUnchanged, workVars, runVars,
       setVars, jobVars, waitVars
  <1>16. QED
    BY <1>1, <1>2, <1>3, <1>4, <1>5, <1>6, <1>7, <1>8, <1>9, <1>10, <1>11, <1>12, <1>13, <1>14, <1>15
    DEF Next, ControlThread
-----------------------------------------------------------------------------
(* Where the requests are.                                                 *)

LEMMA SamePlaces ==
    ASSUME Places, UNCHANGED <<queue, swapped, current, answers, handler, requestId, nextId>>,
           shuttingDown => shuttingDown',
           current = NoRequest \/ "count" \notin {control, control'}
    PROVE  Places'
  BY ControlAssumption DEF Places, Place, Waiting, Accepted, Holds, Once

\* The request in work has no answer yet, and the queue does not hold it.
LEMMA InWork ==
    ASSUME TypeOK, Shape, Places, control \in Busy
    PROVE  /\ current \in Requests
           /\ Accepted(current)
           /\ ~Holds(queue, current) /\ ~Holds(swapped, current)
           /\ control # "count" => answers[current] = << >>
  <1>1. current \in Requests
    BY DEF TypeOK, Shape
  <1>2. swapped = << >>
    BY DEF Shape, Busy
  <1>3. QED
    BY <1>1, <1>2, EmptyHolds DEF Places, Place, Waiting

\* A handler which turns its request away, or ends, leaves the other requests alone.
LEMMA PlacesHandler ==
    ASSUME TypeOK, Shape, Places, NEW r \in Requests, Handler(r)
    PROVE  Places'
  <1> USE DEF Waiting, Accepted
  <1>1. CASE HandlerChecks(r) \/ HandlerTurnsAway(r)
    <2>1. UNCHANGED <<queue, swapped, current, control, requestId, nextId, shuttingDown>>
      BY <1>1 DEF HandlerChecks, HandlerTurnsAway, workVars, runVars
    <2>2. answers[r] = << >> /\ ~Waiting(r)
      BY <1>1 DEF HandlerChecks, HandlerTurnsAway, Places, Place
    <2>3. \A q \in Requests \ {r} : handler'[q] = handler[q]
      BY <1>1 DEF HandlerChecks, HandlerTurnsAway, TypeOK
    <2>4. \/ handler[r] = "new" /\ handler'[r] = "enqueue" /\ UNCHANGED answers
          \/ handler'[r] = "returned" /\ handler[r] = "new" /\ Answer(r, "refused")
          \/ handler'[r] = "returned" /\ handler[r] = "sayShutdown" /\ Answer(r, "shuttingDown")
          \/ handler'[r] = "returned" /\ handler[r] = "sayBusy" /\ Answer(r, "busy")
      BY <1>1 DEF HandlerChecks, HandlerTurnsAway, TypeOK
    <2> DEFINE Answered == /\ \A q \in Requests \ {r} : answers'[q] = answers[q]
                           /\ Len(answers'[r]) <= 1
                           /\ \/ handler[r] = "new" /\ handler'[r] = "enqueue" /\ answers'[r] = << >>
                              \/ /\ handler'[r] = "returned"
                                 /\ \/ handler[r] = "new" /\ answers'[r] = <<"refused">>
                                    \/ handler[r] \in {"sayShutdown", "sayBusy"}
                                 /\ answers'[r] # << >>
                                 /\ handler[r] # "sayBusy" => answers'[r] # <<"busy">>
    <2>5. Answered
      <3>1. CASE UNCHANGED answers
        BY <2>2, <2>4, <3>1, OneAnswer, FirstAnswer DEF Answers
      <3>2. ASSUME NEW a \in {"refused", "shuttingDown", "busy"}, Answer(r, a), handler'[r] = "returned",
                   handler[r] \in {"new", "sayShutdown", "sayBusy"}, handler[r] = "new" <=> a = "refused",
                   handler[r] = "sayBusy" <=> a = "busy"
            PROVE  Answered
        <4>1. a \in Answers
          BY DEF Answers
        <4>2. Len(answers'[r]) = 1 /\ answers'[r] = <<a>> /\ \A q \in Requests \ {r} : answers'[q] = answers[q]
          BY <2>2, <3>2, <4>1, FirstAnswer
        <4>3. answers'[r] # << >> /\ (a # "busy" => answers'[r] # <<"busy">>)
          BY <2>2, <3>2, <4>1, FirstAnswer DEF Answers
        <4>4. QED
          BY <3>2, <4>2, <4>3
      <3>3. QED
        BY <2>4, <3>1, <3>2
    <2>6. \A q \in Requests : Holds(queue, q)' = Holds(queue, q) /\ Holds(swapped, q)' = Holds(swapped, q)
      BY <2>1 DEF Holds
    <2>7. ASSUME NEW q \in Requests \ {r} PROVE Place(q)'
      BY <2>1, <2>3, <2>5, <2>6 DEF Places, Place
    <2>9. requestId[r] \in Nat /\ (requestId[r] = 0 <=> handler[r] = "new")
      BY <2>4 DEF Places, Place, TypeOK
    <2>10. current # r \/ control = "count"
      BY <2>2
    <2>11. ~(current = r /\ control = "count")
      BY <2>2, <2>4 DEF Places, Place
    <2>12. Place(r)'
      BY <2>1, <2>2, <2>5, <2>6, <2>9, <2>10, <2>11 DEF Places, Place
    <2>13. QED
      BY <2>1, <2>7, <2>12 DEF Places, Once
  <1>2. CASE HandlerDrops(r) \/ HandlerCounts(r) \/ HandlerCountsEarly(r)
    <2>1. UNCHANGED <<queue, swapped, current, control, answers, requestId, nextId, shuttingDown>>
      BY <1>2 DEF HandlerDrops, HandlerCounts, HandlerCountsEarly, workVars, runVars
    <2>2. \A q \in Requests : \/ handler'[q] = handler[q]
                              \/ handler[q] = "new" /\ handler'[q] = "returned"
                              \/ handler[q] = "wake" /\ handler'[q] = "countEarly"
                              \/ handler[q] = "countEarly" /\ handler'[q] = "returned"
      BY <1>2 DEF HandlerDrops, HandlerCounts, HandlerCountsEarly, TypeOK
    <2>3. \A q \in Requests : Holds(queue, q)' = Holds(queue, q) /\ Holds(swapped, q)' = Holds(swapped, q)
      BY <2>1 DEF Holds
    <2>4. ASSUME NEW q \in Requests PROVE Place(q)'
      BY <2>1, <2>2, <2>3 DEF Places, Place
    <2>5. QED
      BY <2>1, <2>4 DEF Places, Once
  <1>3. CASE HandlerWakes(r)
    BY <1>3, SamePlaces DEF HandlerWakes, ctlVars, workVars, runVars, requestVars, Places, Place, Holds,
                            Once
  <1>4. CASE Enqueue(r)
    <2>1. UNCHANGED <<swapped, current, control, answers, shuttingDown>> /\ handler[r] = "enqueue"
      BY <1>4 DEF Enqueue, runVars
    <2>2. answers[r] = << >> /\ ~Waiting(r) /\ requestId[r] = 0
      BY <2>1 DEF Places, Place
    <2>3. /\ \A q \in Requests \ {r} : handler'[q] = handler[q] /\ requestId'[q] = requestId[q]
          /\ requestId'[r] = nextId /\ nextId' = nextId + 1 /\ nextId \in Nat \ {0}
          /\ \A q \in Requests : requestId[q] \in Nat /\ requestId[q] < nextId
      BY <1>4 DEF Enqueue, TypeOK, Places, Place
    <2>4. \/ handler'[r] = "sayShutdown" /\ queue' = queue /\ shuttingDown
          \/ handler'[r] = "sayBusy" /\ queue' = queue
          \/ handler'[r] = "wake" /\ queue' = Append(queue, r)
      BY <1>4 DEF Enqueue, TypeOK
    <2>5. /\ \A q \in Requests \ {r} : Holds(queue, q)' = Holds(queue, q)
          /\ Holds(queue, r)' <=> handler'[r] = "wake"
          /\ Once(queue)'
      <3>1. CASE queue' = queue
        <4>1. handler'[r] # "wake"
          <5>1. Len(queue) \in Nat /\ Len(Append(queue, r)) = Len(queue) + 1
            BY AppendProperties, LenProperties DEF TypeOK
          <5>2. QED
            BY <2>4, <3>1, <5>1
        <4>2. QED
          BY <2>2, <3>1, <4>1 DEF Places, Holds, Once
      <3>2. CASE queue' # queue
        <4>1. queue' = Append(queue, r) /\ handler'[r] = "wake" /\ ~Holds(queue, r)
          BY <2>2, <2>4, <3>2
        <4>2. queue \in Seq(Requests)
          BY DEF TypeOK
        <4>3. \A q \in Requests : Holds(queue', q) <=> Holds(queue, q) \/ q = r
          BY <4>1, <4>2, AppendHolds
        <4>4. Once(queue')
          BY <4>1, <4>2, AppendHolds DEF Places
        <4>5. QED
          BY <4>1, <4>3, <4>4 DEF Holds, Once
      <3>3. QED
        BY <3>1, <3>2
    <2>6. \A q \in Requests : Holds(swapped, q)' = Holds(swapped, q)
      BY <2>1 DEF Holds
    <2>7. ASSUME NEW q \in Requests \ {r} PROVE Place(q)'
      BY <2>1, <2>3, <2>5, <2>6 DEF Places, Place
    <2>8. current # r
      BY <2>1, <2>2 DEF Places, Place
    <2>9. Place(r)'
      BY <2>1, <2>2, <2>3, <2>4, <2>5, <2>6, <2>8 DEF Places, Place
    <2>10. (Once(swapped))'
      BY <2>1 DEF Places, Once
    <2>11. ASSUME NEW p \in Requests, NEW q \in Requests, p # q, requestId'[p] = requestId'[q]
           PROVE  requestId'[p] = 0
      BY <2>3, <2>11 DEF Places
    <2>12. QED
      BY <2>5, <2>7, <2>9, <2>10, <2>11 DEF Places
  <1>5. QED
    BY <1>1, <1>2, <1>3, <1>4 DEF Handler

\* An answer of the control thread to the request it works on, or to one Shutdown() took.
LEMMA PlacesAnswer ==
    ASSUME TypeOK, Shape, Places, NEW r \in Requests, NEW a \in Answers \ {"busy"}, Answer(r, a),
           Waiting(r), ~Waiting(r)', Accepted(r),
           UNCHANGED <<handler, requestId, nextId>>, shuttingDown => shuttingDown',
           \A q \in Requests \ {r} :
               /\ Holds(queue, q)' = Holds(queue, q)
               /\ Holds(swapped, q)' = Holds(swapped, q)
               /\ current' # q /\ current # q,
           Once(queue)', Once(swapped)', ~Holds(queue, r)',
           current' = r => a = "started" /\ control' = "count"
    PROVE  Places'
  <1>1. answers[r] = << >>
    BY DEF Places, Place
  <1>2. /\ \A q \in Requests : q # r => answers'[q] = answers[q]
        /\ answers'[r] = <<a>> /\ Len(answers'[r]) = 1 /\ answers'[r] # << >>
        /\ answers'[r] # <<"busy">>
    BY <1>1, FirstAnswer DEF Answers
  <1>3. Accepted(r)' /\ requestId[r] # 0
    BY <1>2 DEF Accepted
  <1>4. Place(r)'
    <2>1. requestId'[r] < nextId' /\ requestId'[r] # 0
      BY <1>3 DEF Places, Place
    <2>2. handler'[r] \notin {"new", "enqueue", "sayBusy", "sayShutdown"}
      BY <1>3 DEF Accepted, Places, Place
    <2>3. current' = r /\ control' = "count" => answers'[r] = <<"started">>
      BY <1>2
    <2>4. QED
      BY <1>2, <1>3, <2>1, <2>2, <2>3 DEF Place
  <1>5. ASSUME NEW q \in Requests \ {r} PROVE Place(q)'
    <2>1. answers'[q] = answers[q] /\ (Waiting(q)' <=> Waiting(q))
      BY <1>2 DEF Waiting
    <2>2. Accepted(q)' <=> Accepted(q)
      BY <2>1 DEF Accepted
    <2>3. Place(q)
      BY DEF Places
    <2>4. QED
      BY <2>1, <2>2, <2>3 DEF Place
  <1>6. QED
    BY <1>4, <1>5 DEF Places

LEMMA PlacesStep ==
    ASSUME TypeOK, Shape, Places, [Next]_vars
    PROVE  Places'
  <1>1. ASSUME NEW r \in Requests, Handler(r) PROVE Places'
    BY <1>1, PlacesHandler
  <1>2. CASE \/ AcceptLoop \/ Kernel \/ UNCHANGED vars \/ Prepare \/ PrepareFails \/ FinishStart
             \/ StartInitial \/ InitialStarted \/ PollAcceptFailure \/ QueueDrained
             \/ StartProgram \/ Rollback \/ CountRollback \/ ControlWaits \/ CheckIdle
             \/ Collect \/ SetShuttingDown \/ AllTurnedAway \/ StopPipe \/ ReleaseJobs
    <2>1. UNCHANGED <<queue, swapped, current, answers, handler, requestId, nextId>>
      BY <1>2 DEF AcceptLoop, AcceptFails, AcceptWakes, Kernel, vars, ctlVars, Prepare, PrepareFails,
         FinishStart, StartInitial, InitialStarted, PollAcceptFailure, QueueDrained, StartProgram,
         Rollback, CountRollback, ControlWaits, CheckIdle, Collect, SetShuttingDown,
         AllTurnedAway, StopPipe, ReleaseJobs, ControlUnchanged, requestVars, workVars
    <2>2. UNCHANGED shuttingDown \/ shuttingDown'
      BY <1>2 DEF AcceptLoop, AcceptFails, AcceptWakes, Kernel, vars, ctlVars, Prepare, PrepareFails,
         FinishStart, StartInitial, InitialStarted, PollAcceptFailure, QueueDrained, StartProgram,
         Rollback, CountRollback, ControlWaits, CheckIdle, Collect, SetShuttingDown,
         AllTurnedAway, StopPipe, ReleaseJobs, ControlUnchanged, runVars
    <2>3. UNCHANGED control \/ (control # "count" /\ control' # "count")
      BY <1>2 DEF AcceptLoop, AcceptFails, AcceptWakes, Kernel, vars, ctlVars, Prepare, PrepareFails,
         FinishStart, StartInitial, InitialStarted, PollAcceptFailure, QueueDrained, StartProgram,
         Rollback, CountRollback, ControlWaits, CheckIdle, Collect, SetShuttingDown,
         AllTurnedAway, StopPipe, ReleaseJobs
    <2>4. CASE UNCHANGED control
      BY <2>1, <2>2, <2>4 DEF Places, Place, Waiting, Accepted, Holds, Once
    <2>5. QED
      BY <2>1, <2>2, <2>3, <2>4, SamePlaces
  <1>3. CASE WaitReturned
    <2>1. UNCHANGED <<queue, swapped, current, answers, handler, requestId, nextId, shuttingDown>>
      BY <1>3 DEF WaitReturned, requestVars, workVars
    <2>2. current = NoRequest
      BY <1>3 DEF WaitReturned, Shape, Busy
    <2>3. shuttingDown => shuttingDown'
      BY <2>1
    <2>4. QED
      BY <2>1, <2>2, <2>3, SamePlaces
  <1>4. CASE PopRequest
    <2> DEFINE h == Head(queue)
    <2>1. /\ h \in Requests /\ current' = h /\ Holds(queue, h) /\ Once(queue)' /\ ~Holds(queue', h)
          /\ \A q \in Requests : Holds(queue', q) <=> Holds(queue, q) /\ q # h
      <3>1. queue \in Seq(Requests) /\ queue # << >> /\ Once(queue)
        BY <1>4 DEF PopRequest, TypeOK, Places
      <3>2. queue' = Tail(queue) /\ current' = h
        BY <1>4 DEF PopRequest
      <3>3. QED
        BY <3>1, <3>2, TailHolds DEF Once
    <2>2. UNCHANGED <<swapped, answers, handler, requestId, nextId, shuttingDown>>
      BY <1>4 DEF PopRequest, ControlUnchanged, requestVars, runVars
    <2>3. current = NoRequest /\ control = "drain" /\ control' = "process"
      BY <1>4 DEF PopRequest, Shape, Busy
    <2> HIDE DEF h
    <2>4. ASSUME NEW q \in Requests PROVE Place(q)'
      <3>1. Waiting(q)' <=> Waiting(q)
        BY <2>1, <2>2, <2>3, ControlAssumption DEF Waiting, Holds
      <3>2. Accepted(q)' <=> Accepted(q)
        BY <2>2 DEF Accepted
      <3>3. Holds(queue', q) => current' # q
        BY <2>1
      <3>4. QED
        BY <2>2, <2>3, <3>1, <3>2, <3>3 DEF Places, Place, Holds
    <2>5. QED
      BY <2>1, <2>2, <2>4 DEF Places, Once
  <1>5. CASE RefuseRequest \/ RefuseRolledBack \/ AnswerStarted
    <2>1. control \in Busy \ {"count"}
      BY <1>5 DEF RefuseRequest, RefuseRolledBack, AnswerStarted, Busy
    <2>2. PICK r \in Requests : r = current
      BY <2>1, InWork
    <2>3. PICK a \in Answers \ {"busy"} : Answer(r, a) /\ (a = "started" <=> control' = "count")
      BY <1>5, <2>2 DEF RefuseRequest, RefuseRolledBack, AnswerStarted, Answers, Answer
    <2>4. UNCHANGED <<queue, swapped, handler, requestId, nextId, shuttingDown>>
      BY <1>5 DEF RefuseRequest, RefuseRolledBack, AnswerStarted, workVars, runVars
    <2>5. \/ current' = NoRequest
          \/ current' = r /\ control' = "count"
      BY <1>5, <2>2 DEF RefuseRequest, RefuseRolledBack, AnswerStarted, workVars
    <2>6. Accepted(r) /\ ~Holds(queue, r) /\ ~Holds(swapped, r)
      BY <2>1, <2>2, InWork
    <2>7. Waiting(r) /\ ~Waiting(r)' /\ ~Holds(queue, r)'
      BY <2>1, <2>2, <2>4, <2>5, <2>6, ControlAssumption DEF Waiting, Holds, Busy
    <2>8. Once(queue)' /\ Once(swapped)'
      BY <2>4 DEF Places, Once
    <2>9. \A q \in Requests \ {r} :
               /\ Holds(queue, q)' = Holds(queue, q)
               /\ Holds(swapped, q)' = Holds(swapped, q)
               /\ current' # q /\ current # q
      BY <2>2, <2>4, <2>5, ControlAssumption DEF Holds
    <2>10. current' = r => a = "started" /\ control' = "count"
      BY <2>3, <2>5, ControlAssumption
    <2>11. shuttingDown => shuttingDown'
      BY <2>4
    <2>12. QED
      BY <2>3, <2>4, <2>6, <2>7, <2>8, <2>9, <2>10, <2>11, PlacesAnswer
  <1>6. CASE CountHandled
    <2>1. UNCHANGED <<queue, swapped, answers, handler, requestId, nextId, shuttingDown>>
      BY <1>6 DEF CountHandled, requestVars, runVars
    <2>2. control = "count" /\ control' = "drain" /\ current' = NoRequest
      BY <1>6 DEF CountHandled
    <2>3. ASSUME NEW q \in Requests PROVE Place(q)'
      <3>1. Waiting(q)' <=> Waiting(q)
        BY <2>1, <2>2, ControlAssumption DEF Waiting, Holds
      <3>2. Accepted(q)' <=> Accepted(q)
        BY <2>1 DEF Accepted
      <3>3. QED
        BY <2>1, <2>2, <3>1, <3>2, ControlAssumption DEF Places, Place, Holds
    <2>4. QED
      BY <2>1, <2>3 DEF Places, Once
  <1>7. CASE SwapQueue
    <2>1. UNCHANGED <<current, control, answers, handler, requestId, nextId,
                      shuttingDown>> \/ control' = "turnAway"
      BY <1>7 DEF SwapQueue
    <2>2. UNCHANGED <<current, answers, handler, requestId, nextId, shuttingDown>> /\ swapped' = queue
          /\ queue' = << >> /\ swapped = << >> /\ control = "swap" /\ current = NoRequest
      BY <1>7 DEF SwapQueue, ControlUnchanged, requestVars, runVars, Shape, Busy
    <2>3. \A q \in Requests : ~Holds(queue', q) /\ ~Holds(swapped, q) /\ (Holds(swapped', q) <=> Holds(queue, q))
      BY <2>2, EmptyHolds DEF Holds
    <2>4. ASSUME NEW q \in Requests PROVE Place(q)'
      <3>1. Waiting(q)' <=> Waiting(q)
        BY <2>2, <2>3, ControlAssumption DEF Waiting, Holds
      <3>2. Accepted(q)' <=> Accepted(q)
        BY <2>2 DEF Accepted
      <3>3. QED
        BY <2>2, <2>3, <3>1, <3>2, ControlAssumption DEF Places, Place, Holds
    <2>5. QED
      BY <2>2, <2>4 DEF Places, Once
  <1>8. CASE TurnAway
    <2>1. swapped \in Seq(Requests) /\ swapped # << >> /\ Once(swapped) /\ swapped' = Tail(swapped)
      BY <1>8 DEF TurnAway, TypeOK, Places
    <2>2. PICK h \in Requests : h = Head(swapped)
      BY <2>1, TailHolds
    <2>3. /\ Holds(swapped, h) /\ Once(swapped') /\ ~Holds(swapped', h)
          /\ \A q \in Requests : Holds(swapped', q) <=> Holds(swapped, q) /\ q # h
      BY <2>1, <2>2, TailHolds
    <2>4. UNCHANGED <<current, control, queue, handler, requestId, nextId, shuttingDown>>
          /\ Answer(h, "shuttingDown") /\ current = NoRequest /\ queue = << >>
      BY <1>8, <2>2 DEF TurnAway, runVars, Shape, Busy, Ending, Answer
    <2>5. \A q \in Requests : ~Holds(queue, q) /\ ~Holds(queue', q) /\ current # q /\ current' # q
      BY <2>4, EmptyHolds, ControlAssumption DEF Holds
    <2>6. Waiting(h) /\ ~Waiting(h)' /\ Accepted(h)
      BY <2>3, <2>5 DEF Waiting, Places, Place
    <2>7. "shuttingDown" \in Answers \ {"busy"}
      BY DEF Answers
    <2>8. Once(queue)' /\ Once(swapped)'
      BY <2>3, <2>4 DEF Places, Once
    <2>9. \A q \in Requests \ {h} :
               /\ Holds(queue, q)' = Holds(queue, q)
               /\ Holds(swapped, q)' = Holds(swapped, q)
               /\ current' # q /\ current # q
      BY <2>3, <2>5 DEF Holds
    <2>10. shuttingDown => shuttingDown'
      BY <2>4
    <2>11. ~Holds(queue, h)'
      BY <2>5
    <2>12. current' = h => "shuttingDown" = "started" /\ control' = "count"
      BY <2>5
    <2>13. QED
      BY <2>4, <2>6, <2>7, <2>8, <2>9, <2>10, <2>11, <2>12, PlacesAnswer
  <1>9. QED
    BY <1>1, <1>2, <1>3, <1>4, <1>5, <1>6, <1>7, <1>8 DEF Next, ControlThread
-----------------------------------------------------------------------------
(* What is started for a request, and what its rollback leaves.            *)

LEMMA SameWhole ==
    ASSUME Whole, UNCHANGED <<stage, terminated, current, answers>>,
           \/ UNCHANGED control
           \/ {control, control'} \cap {"process", "count", "countRollback", "refuse"} = {}
           \/ control = "countRollback" /\ control' = "refuse"
    PROVE  Whole'
  BY DEF Whole, Bodies, RequestIsWhole, RollbackIsOwn, Programs, Entries, Unstarted

\* A request without an answer, which is not in work, has no program.
LEMMA NothingStarted ==
    ASSUME TypeOK, Whole, NEW r \in Requests, answers[r] = << >>, current # r
    PROVE  \A j \in Programs(r) : stage[j] = "none"
  <1>1. answers[r] # <<"started">> /\ answers[r] # <<"startFailed">>
    BY OneAnswer DEF Answers
  <1>2. QED
    BY <1>1, ControlAssumption DEF Whole, Bodies, Programs

\* A request nothing was started for may be answered with a refusal.
LEMMA WholeRefusal ==
    ASSUME TypeOK, Whole, NEW r \in Requests, NEW a \in {"refused", "busy", "shuttingDown"}, Answer(r, a),
           answers[r] = << >>, \A j \in Programs(r) : stage[j] = "none",
           UNCHANGED <<stage, terminated>>,
           \/ UNCHANGED <<control, current>> /\ current # r
           \/ control = "process" /\ control' = "drain" /\ current' = NoRequest /\ current = r
    PROVE  Whole'
  <1>1. /\ \A q \in Requests \ {r} : answers'[q] = answers[q]
        /\ answers'[r] # <<"started">> /\ answers'[r] # <<"startFailed">>
    BY FirstAnswer DEF Answers
  <1>2. /\ \A o : Programs(o)' = Programs(o) /\ Unstarted(o)' = Unstarted(o)
        /\ Entries' = Entries
    BY DEF Programs, Unstarted, Entries
  <1>3. \A j \in Jobs : OwnerOf[j] = Initial \/ OwnerOf[j] \in Requests
    BY JobSetAssumption, ControlAssumption
  <1>4. Bodies'
    <2>1. ASSUME NEW j \in Jobs, stage[j] # "none", OwnerOf[j] # Initial, OwnerOf[j] # current'
          PROVE  answers'[OwnerOf[j]] \in {<<"started">>, <<"startFailed">>}
      <3>1. OwnerOf[j] # r
        BY <2>1 DEF Programs
      <3>2. OwnerOf[j] # current
        BY <2>1, <3>1
      <3>3. QED
        BY <1>1, <1>3, <2>1, <3>1, <3>2 DEF Whole, Bodies
    <2>2. QED
      BY <1>2, <2>1 DEF Whole, Bodies, Programs
  <1>5. RequestIsWhole'
    <2>1. Unstarted(r) = Programs(r)
      BY DEF Unstarted, Programs
    <2>2. ASSUME NEW q \in Requests \ {r} PROVE Programs(q) = Programs(q)' /\ answers'[q] = answers[q]
      BY <1>1, <1>2
    <2>3. QED
      BY <1>1, <1>2, <2>1, <2>2 DEF Whole, RequestIsWhole
  <1>6. RollbackIsOwn'
    <2>1. ASSUME NEW j \in terminated
          PROVE  /\ OwnerOf[j] # Initial
                 /\ \/ answers'[OwnerOf[j]] = <<"startFailed">>
                    \/ current' = OwnerOf[j] /\ control' \in {"countRollback", "refuse"}
      <3>1. j \in Jobs
        BY <2>1 DEF TypeOK, TypeOKSet
      <3>2. OwnerOf[j] # Initial
        BY <2>1 DEF Whole, RollbackIsOwn
      <3>3. CASE answers[OwnerOf[j]] = <<"startFailed">>
        <4>1. OwnerOf[j] # r
          BY <3>3, OneAnswer DEF Answers
        <4>2. QED
          BY <1>1, <1>3, <3>1, <3>2, <3>3, <4>1
      <3>4. CASE current = OwnerOf[j] /\ control \in {"countRollback", "refuse"} /\ current # r
        BY <3>2, <3>4
      <3>5. QED
        BY <2>1, <3>3, <3>4 DEF Whole, RollbackIsOwn
    <2>2. QED
      BY <2>1 DEF RollbackIsOwn
  <1>7. QED
    BY <1>4, <1>5, <1>6 DEF Whole

\* Programs which are created, or join, belong to the configuration or to the request in work.
LEMMA WholeStart ==
    ASSUME TypeOK, Shape, Places, Whole, UNCHANGED <<terminated, current, answers>>,
           \A j \in Jobs : \/ stage'[j] = stage[j]
                           \/ OwnerOf[j] = Initial /\ control = "initial"
                           \/ OwnerOf[j] = current /\ control = "process"
                              /\ (stage'[j] = "failed" => control' = "rollback"),
           control = "initial" => control' = "initial",
           control \in {"initial", "process"} /\ control' \in {"initial", "process", "rollback"}
    PROVE  Whole'
  <1>1. \A q \in Requests \ {current} : Programs(q)' = Programs(q) /\ Unstarted(q)' = Unstarted(q)
          /\ \A j \in Programs(q) : stage'[j] = stage[j]
    BY ControlAssumption DEF Programs, Unstarted
  <1>2. control = "process" => current \in Requests /\ answers[current] = << >>
    BY InWork DEF Busy
  <1>3. current \in Requests => control = "process" /\ answers[current] = << >>
    BY <1>2, ControlAssumption DEF Shape, Busy
  <1>4. Bodies'
    BY <1>1, <1>2 DEF Whole, Bodies, Programs
  <1>5. RequestIsWhole'
    <2>1. ASSUME NEW q \in Requests \ {current}
          PROVE  /\ Programs(q)' = Programs(q) /\ Unstarted(q)' = Unstarted(q) /\ answers'[q] = answers[q]
                 /\ Programs(q) \cap Entries = (Programs(q) \cap Entries)'
                 /\ \A j \in Programs(q) : stage'[j] = stage[j]
      BY <1>1 DEF Entries, Programs
    <2>2. current \in Requests => /\ answers'[current] = << >> /\ << >> # <<"started">> /\ << >> # <<"startFailed">>
                                  /\ << >> \notin {<<"refused">>, <<"busy">>, <<"shuttingDown">>}
      BY <1>3, OneAnswer DEF Answers
    <2>3. QED
      BY <2>1, <2>2 DEF Whole, RequestIsWhole
  <1>6. RollbackIsOwn'
    BY <1>2 DEF Whole, RollbackIsOwn
  <1>7. QED
    BY <1>4, <1>5, <1>6 DEF Whole

LEMMA WholeStep ==
    ASSUME TypeOK, Shape, Places, Whole, [Next]_vars
    PROVE  Whole'
  <1>1. ASSUME NEW r \in Requests, Handler(r) PROVE Whole'
    <2>1. UNCHANGED <<stage, terminated, current, control>>
      BY <1>1 DEF Handler, HandlerChecks, HandlerDrops, Enqueue, HandlerTurnsAway, HandlerWakes,
         WakeExchange, WakePost, HandlerCounts, HandlerCountsEarly, ctlVars, workVars, setVars, jobVars
    <2>2. CASE UNCHANGED answers
      BY <2>1, <2>2, SameWhole
    <2>3. CASE ~UNCHANGED answers
      <3>1. PICK a \in {"refused", "busy", "shuttingDown"} : Answer(r, a)
        BY <1>1, <2>3 DEF Handler, HandlerChecks, HandlerDrops, Enqueue, HandlerTurnsAway, HandlerWakes,
           HandlerCounts, HandlerCountsEarly, ctlVars, requestVars
      <3>2. handler[r] \in {"new", "sayBusy", "sayShutdown"}
        BY <1>1, <2>3 DEF Handler, HandlerChecks, HandlerDrops, Enqueue, HandlerTurnsAway, HandlerWakes,
           HandlerCounts, HandlerCountsEarly, ctlVars, requestVars
      <3>3. answers[r] = << >> /\ current # r
        BY <3>2 DEF Places, Place, Waiting, Accepted
      <3>4. QED
        BY <2>1, <3>1, <3>3, NothingStarted, WholeRefusal
    <2>4. QED
      BY <2>2, <2>3
  <1>2. CASE AcceptLoop \/ Kernel \/ UNCHANGED vars \/ ControlWaits \/ ReleaseJobs
    <2>1. UNCHANGED <<stage, terminated, current, answers>>
      BY <1>2 DEF AcceptLoop, AcceptFails, AcceptWakes, WakeExchange, WakePost, Kernel, ProcessesEnd,
                  vars,
         ControlWaits, WaitStep, WaitCheck, WaitTakesWake, WaitClearsWoken, WaitTakesJoined,
         WaitTakesReport, WaitTimeout, WaitExpires, WaitGoesOn, WaitFails, ReleaseJobs, ControlUnchanged,
         ctlVars, requestVars, workVars, setVars, jobVars
    <2>2. UNCHANGED control \/ (control = "reset" /\ control' = "gone")
      BY <1>2 DEF AcceptLoop, AcceptFails, AcceptWakes, Kernel, vars, ControlWaits, ReleaseJobs, ctlVars
    <2>3. QED
      BY <2>1, <2>2, SameWhole
  <1>3. CASE \/ Prepare \/ PrepareFails \/ InitialStarted \/ PollAcceptFailure \/ QueueDrained
             \/ CountRollback \/ CheckIdle \/ Collect \/ SetShuttingDown \/ SwapQueue
             \/ AllTurnedAway \/ StopPipe
    <2>1. UNCHANGED <<stage, terminated, current, answers>>
      BY <1>3 DEF Prepare, PrepareFails, InitialStarted, PollAcceptFailure, QueueDrained, WaitAllCalled,
         CountRollback, CheckIdle, Collect, SetShuttingDown, SwapQueue, AllTurnedAway, StopPipe,
         ControlUnchanged, requestVars, workVars, setVars, jobVars
    <2>2. \/ {control, control'} \cap {"process", "count", "countRollback", "refuse"} = {}
          \/ control = "countRollback" /\ control' = "refuse"
      BY <1>3 DEF Prepare, PrepareFails, InitialStarted, PollAcceptFailure, QueueDrained,
         CountRollback, CheckIdle, Collect, SetShuttingDown, SwapQueue, AllTurnedAway, StopPipe
    <2>3. QED
      BY <2>1, <2>2, SameWhole
  <1>4. CASE WaitReturned
    <2>1. UNCHANGED <<stage, terminated, current, answers>> /\ control = "wait"
      BY <1>4 DEF WaitReturned, requestVars, workVars, setVars, jobVars
    <2>2. control' \in {"idle", "collect", "poll"}
      BY <1>4 DEF WaitReturned
    <2>3. QED
      BY <2>1, <2>2, SameWhole
  <1>5. CASE FinishStart
    <2>1. PICK j \in Starting : AskIsEmpty(j) \/ AdoptJob(j)
      BY <1>5 DEF FinishStart
    <2>2. \A k \in Jobs : stage'[k] = stage[k] \/ (k = j /\ stage'[k] # "failed")
      BY <2>1 DEF AskIsEmpty, AdoptJob, TypeOK, TypeOKSet
    <2>3. UNCHANGED <<terminated, current, answers, control>> /\ control \in {"initial", "process"}
      BY <1>5, <2>1 DEF FinishStart, AskIsEmpty, AdoptJob, ctlVars, requestVars, workVars
    <2>4. QED
      BY <2>1, <2>2, <2>3, WholeStart DEF Shape
  <1>6. CASE StartInitial \/ StartProgram
    <2>1. PICK j \in Jobs : /\ \/ OwnerOf[j] = Initial /\ control = "initial" /\ control' = "initial"
                               \/ OwnerOf[j] = current /\ control = "process"
                            /\ CreateJob(j) \/ CreateJobFails(j) \/ CreateJobFailsLate(j)
                            /\ control = "process" => (control' = "process" /\ CreateJob(j)) \/ control' = "rollback"
      BY <1>6 DEF StartInitial, StartProgram, Unstarted, Programs
    <2>2. \A k \in Jobs : stage'[k] = stage[k] \/ (k = j /\ (CreateJob(j) => stage'[k] = "created"))
      BY <2>1 DEF CreateJob, CreateJobFails, CreateJobFailsLate, TypeOK, TypeOKSet
    <2>3. UNCHANGED <<terminated, current, answers>>
      BY <1>6, <2>1 DEF StartInitial, StartProgram, CreateJob, CreateJobFails, CreateJobFailsLate,
         ControlUnchanged, requestVars, workVars
    <2>4. QED
      BY <2>1, <2>2, <2>3, WholeStart
  <1>7. CASE PopRequest
    <2>1. UNCHANGED <<stage, terminated,
                      answers>> /\ control = "drain" /\ control' = "process" /\ current = NoRequest
      BY <1>7 DEF PopRequest, ControlUnchanged, requestVars, setVars, jobVars, Shape, Busy
    <2>2. PICK h \in Requests : h = current'
      BY <1>7, TailHolds DEF PopRequest, TypeOK
    <2>3. Holds(queue, h)
      BY <1>7, <2>2, TailHolds DEF PopRequest, TypeOK
    <2>4. \A j \in Programs(h) : stage[j] = "none"
      BY <2>1, <2>3, NothingStarted, ControlAssumption DEF Places, Place, Waiting
    <2>5. QED
      BY <2>1, <2>2, <2>4, ControlAssumption, JobSetAssumption
      DEF Whole, Bodies, RequestIsWhole, RollbackIsOwn, Programs, Entries, Unstarted
  <1>8. CASE RefuseRequest
    <2>1. PICK r \in Requests : r = current
      BY <1>8, InWork DEF RefuseRequest, Busy
    <2>2. answers[r] = << >> /\ \A j \in Programs(r) : stage[j] = "none"
      BY <1>8, <2>1, InWork DEF RefuseRequest, Busy, Unstarted
    <2>3. Answer(r, "refused") /\ UNCHANGED <<stage, terminated>>
          /\ control = "process" /\ control' = "drain" /\ current' = NoRequest
      BY <1>8, <2>1 DEF RefuseRequest, Answer, setVars, jobVars
    <2>4. QED
      BY <2>1, <2>2, <2>3, WholeRefusal
  <1>9. CASE TurnAway
    <2>1. PICK h \in Requests : h = Head(swapped) /\ Holds(swapped, h)
      BY <1>9, TailHolds DEF TurnAway, TypeOK
    <2>2. UNCHANGED <<stage, terminated, control, current>> /\ current = NoRequest /\ Answer(h,
                      "shuttingDown")
      BY <1>9, <2>1 DEF TurnAway, Answer, setVars, jobVars, Shape, Busy
    <2>3. answers[h] = << >>
      BY <2>1 DEF Places, Place, Waiting
    <2>4. QED
      BY <2>1, <2>2, <2>3, NothingStarted, WholeRefusal, ControlAssumption
  <1>10. CASE AnswerStarted
    <2>1. PICK r \in Requests : r = current
      BY <1>10, InWork DEF AnswerStarted, Busy
    <2>2. answers[r] = << >>
      BY <1>10, <2>1, InWork DEF AnswerStarted, Busy
    <2>3. Answer(r, "started") /\ UNCHANGED <<stage, terminated, current>> /\ control = "process" /\ control' = "count"
      BY <1>10, <2>1 DEF AnswerStarted, Answer, setVars, jobVars, workVars
    <2>4. \A j \in Programs(r) : stage[j] = "joined"
      BY <1>10, <2>1 DEF AnswerStarted, Whole, Bodies, Unstarted, Programs, Starting, TypeOK, TypeOKSet
    <2>5. \A j \in Programs(r) : j \notin terminated
      BY <2>1, <2>2, <2>3, OneAnswer DEF Whole, RollbackIsOwn, Programs, Answers
    <2>6. /\ \A q \in Requests \ {r} : answers'[q] = answers[q]
          /\ answers'[r] = <<"started">>
          /\ answers'[r] \notin {<<"startFailed">>, <<"refused">>, <<"busy">>, <<"shuttingDown">>}
      BY <2>2, <2>3, FirstAnswer DEF Answers
    <2>7. \A j \in terminated : answers[OwnerOf[j]] = <<"startFailed">> /\ OwnerOf[j] \in Requests \ {r}
      <3>1. control # "rollback" /\ RollbackIsOwn
        BY <2>3 DEF Whole
      <3>2. \A j \in terminated : j \in Jobs /\ OwnerOf[j] \in Requests
        BY <2>2, <2>3, OneAnswer, JobSetAssumption, ControlAssumption
        DEF Whole, RollbackIsOwn, Answers, TypeOK, TypeOKSet
      <3>3. \A j \in terminated : answers[OwnerOf[j]] = <<"startFailed">>
        BY <2>2, <2>3, <3>2, OneAnswer DEF Whole, RollbackIsOwn, Answers
      <3>4. answers[r] # <<"startFailed">>
        BY <2>2
      <3>5. QED
        BY <3>2, <3>3, <3>4
    <2>8. RollbackIsOwn'
      BY <2>3, <2>6, <2>7, ControlAssumption DEF RollbackIsOwn
    <2>9. Bodies'
      BY <2>1, <2>3, <2>4, <2>6, ControlAssumption, JobSetAssumption DEF Whole, Bodies, Programs
    <2>10. RequestIsWhole'
      BY <2>3, <2>4, <2>5, <2>6 DEF Whole, RequestIsWhole, Programs, Entries, Unstarted
    <2>11. QED
      BY <2>8, <2>9, <2>10 DEF Whole
  <1>11. CASE CountHandled
    <2>1. UNCHANGED <<stage, terminated, answers>> /\ control = "count" /\ control' = "drain"
          /\ current' = NoRequest /\ current \in Requests
      BY <1>11, InWork DEF CountHandled, requestVars, setVars, jobVars, Busy
    <2>2. answers[current] = <<"started">>
      BY <2>1 DEF Places, Place
    <2>3. QED
      BY <2>1, <2>2 DEF Whole, Bodies, RequestIsWhole, RollbackIsOwn, Programs, Entries, Unstarted
  <1>12. CASE Rollback
    <2>1. PICK r \in Requests : r = current
      BY <1>12, InWork DEF Rollback, Busy
    <2>2. answers[r] = << >> /\ requestId[r] # 0
      BY <1>12, <2>1, InWork DEF Rollback, Busy, Accepted
    <2>3. PICK refused : TerminateRequest({j \in Entries : OwnerOf[j] = r}, refused)
      BY <1>12, <2>1, <2>2, DoomedAreOwn DEF Rollback
    <2>4. UNCHANGED <<stage, current, answers>> /\ control' = "countRollback" /\ control = "rollback"
      BY <1>12, <2>3 DEF Rollback, TerminateRequest, ControlUnchanged, requestVars
    <2>5. terminated' = terminated \cup ({j \in Entries : OwnerOf[j] = r} \ refused)
          /\ ("kill" \notin Faults => refused = {})
      BY <2>3 DEF TerminateRequest
    <2>6. RollbackIsOwn'
      BY <2>1, <2>4, <2>5, ControlAssumption DEF Whole, RollbackIsOwn
    <2>7. Bodies'
      BY <2>1, <2>4, <2>5 DEF Whole, Bodies, Programs, Entries
    <2>8. RequestIsWhole'
      <3>1. << >> # <<"started">> /\ << >> # <<"startFailed">>
            /\ << >> \notin {<<"refused">>, <<"busy">>, <<"shuttingDown">>}
        BY OneAnswer DEF Answers
      <3>2. QED
        BY <2>2, <2>4, <2>5, <3>1 DEF Whole, RequestIsWhole, Programs, Entries, Unstarted
    <2>9. QED
      BY <2>6, <2>7, <2>8 DEF Whole
  <1>13. CASE RefuseRolledBack
    <2>1. PICK r \in Requests : r = current
      BY <1>13, InWork DEF RefuseRolledBack, Busy
    <2>2. answers[r] = << >>
      BY <1>13, <2>1, InWork DEF RefuseRolledBack, Busy
    <2>3. UNCHANGED <<stage,
                      terminated>> /\ control' = "drain" /\ control = "refuse" /\ current' = NoRequest
          /\ Answer(r, "startFailed")
      BY <1>13, <2>1 DEF RefuseRolledBack, Answer, setVars, jobVars
    <2>4. /\ \A q \in Requests \ {r} : answers'[q] = answers[q]
          /\ answers'[r] = <<"startFailed">>
          /\ answers'[r] \notin {<<"started">>, <<"refused">>, <<"busy">>, <<"shuttingDown">>}
      BY <2>2, <2>3, FirstAnswer DEF Answers
    <2>5. \A j \in Jobs : OwnerOf[j] = Initial \/ OwnerOf[j] \in Requests
      BY JobSetAssumption, ControlAssumption
    <2>6. Bodies'
      BY <2>1, <2>3, <2>4, <2>5 DEF Whole, Bodies, Programs
    <2>7. RequestIsWhole'
      BY <2>1, <2>3, <2>4 DEF Whole, Bodies, RequestIsWhole, Programs, Entries, Unstarted
    <2>8. RollbackIsOwn'
      BY <2>1, <2>3, <2>4, <2>5 DEF Whole, RollbackIsOwn, TypeOK, TypeOKSet
    <2>9. QED
      BY <2>6, <2>7, <2>8 DEF Whole
  <1>14. QED
    BY <1>1, <1>2, <1>3, <1>4, <1>5, <1>6, <1>7, <1>8, <1>9, <1>10, <1>11, <1>12, <1>13
    DEF Next, ControlThread

LEMMA RequestInit == Init => RequestInv
  <1> SUFFICES ASSUME Init PROVE RequestInv
    OBVIOUS
  <1>1. TypeOKSet
    BY TypeInit DEF Init
  <1>2. answers \in [Requests -> Seq(Answers)] /\ queue \in Seq(Requests) /\ swapped \in Seq(Requests)
    BY EmptySeq DEF Init
  <1>3a. handler \in [Requests -> HandlerPc] /\ requestId \in [Requests -> Nat]
    BY DEF Init, HandlerPc
  <1>3b. control \in ControlPc /\ {prepared, runtime, shuttingDown, acceptFailed} \subseteq BOOLEAN
    BY DEF Init, ControlPc
  <1>3. TypeOK
    BY <1>1, <1>2, <1>3a, <1>3b DEF Init, TypeOK
  <1>4. Shape
    BY ControlAssumption DEF Init, InitSet, Shape, Busy, Ending, Starting
  <1>5. \A r \in Requests : ~Waiting(r)
    BY EmptyHolds, ControlAssumption DEF Init, Waiting
  <1>6. Places
    BY <1>5, EmptyHolds, OneAnswer, ControlAssumption DEF Init, Places, Place, Accepted
  <1>7. << >> # <<"started">> /\ << >> # <<"startFailed">>
        /\ << >> \notin {<<"refused">>, <<"busy">>, <<"shuttingDown">>}
    BY OneAnswer DEF Answers
  <1>8. Whole
    BY <1>7 DEF Init, InitSet, Whole, Bodies, RequestIsWhole, RollbackIsOwn
  <1>9. QED
    BY <1>3, <1>4, <1>6, <1>8 DEF RequestInv

LEMMA RequestStep == RequestInv /\ [Next]_vars => RequestInv'
  BY TypeStepControl, ShapeStep, PlacesStep, WholeStep DEF RequestInv

LEMMA RequestInvariant == Spec => []RequestInv
  BY RequestInit, RequestStep, PTL DEF Spec

\* The types of the control layer (ControlPlane::Data) hold in every state.
THEOREM ControlTypes == Spec => []TypeOK
  <1>1. RequestInv => TypeOK
    BY DEF RequestInv
  <1>2. QED
    BY <1>1, RequestInvariant, PTL

\* No request is lost between its handler, the queue, the control thread and the end of
\* the run, and none is answered twice (Enqueue(), DrainQueue(), Shutdown()), for any
\* number of requests and every bound of the queue, whatever fails.
THEOREM NoneLost == Spec => []NoRequestLost
  <1>1. RequestInv => NoRequestLost
    BY DEF RequestInv, Places, Place, NoRequestLost
  <1>2. QED
    BY <1>1, RequestInvariant, PTL

\* "The run never carries half a request" (ProcessRequest()): what a request was answered
\* agrees with which of its programs run.
THEOREM RequestsAreWhole == Spec => []RequestIsWhole
  <1>1. RequestInv => RequestIsWhole
    BY DEF RequestInv, Whole
  <1>2. QED
    BY <1>1, RequestInvariant, PTL

\* A rollback terminates programs of its own request only (TerminateRequest()), because
\* Enqueue() gave every request an id of its own.
THEOREM RollbacksAreOwn == Spec => []RollbackIsOwn
  <1>1. RequestInv => RollbackIsOwn
    BY DEF RequestInv, Whole
  <1>2. QED
    BY <1>1, RequestInvariant, PTL
-----------------------------------------------------------------------------
(* The wakeups of the control thread.                                      *)

\* While the control thread waits with a request in the queue, a wakeup is under way, also
\* between two looks at the counter of the wait.
WakeupComes ==
    queue # << >> /\ control = "wait" /\ waitPc \in {"check", "get", "timedOut"} =>
        \/ WakeMessage \in port
        \/ \E r \in Requests : handler[r] = "wake" /\ waker[r] = "idle"
        \/ \E w \in Wakers : waker[w] = "posting"

\* A handler has not woken anybody before it queued its request.
WakersIdle == \A r \in Requests : handler[r] \in {"new", "enqueue"} => waker[r] = "idle"

WakeInv == RequestInv /\ WokenIsUnderWay /\ WakersIdle /\ WakeupComes

LEMMA WokenStepControl ==
    ASSUME RequestInv, WokenIsUnderWay, [Next]_vars
    PROVE  WokenIsUnderWay'
  <1>1. CASE [NextSet]_setVars
    BY <1>1, WokenStep DEF RequestInv, TypeOK
  <1>2. CASE ReleaseJobs
    BY <1>2 DEF ReleaseJobs, WokenIsUnderWay, waitVars
  <1>3. QED
    BY <1>1, <1>2, SetStep DEF RequestInv

LEMMA WakersIdleStep ==
    ASSUME RequestInv, WakersIdle, [Next]_vars
    PROVE  WakersIdle'
  <1> USE DEF WakersIdle, RequestInv
  <1>1. ASSUME NEW r \in Requests, HandlerWakes(r) PROVE WakersIdle'
    <2>1. \A q \in Requests : q # r => waker'[q] = waker[q]
      BY <1>1, ControlAssumption DEF HandlerWakes, WakeExchange, WakePost, TypeOK, TypeOKSet
    <2>2. UNCHANGED handler /\ handler[r] = "wake"
      BY <1>1 DEF HandlerWakes, ctlVars, requestVars
    <2>3. QED
      BY <2>1, <2>2
  <1>2. CASE AcceptWakes
    <2>1. \A q \in Requests : waker'[q] = waker[q]
      BY <1>2, ControlAssumption DEF AcceptWakes, WakeExchange, WakePost, TypeOK, TypeOKSet
    <2>2. UNCHANGED handler
      BY <1>2 DEF AcceptWakes, ctlVars, requestVars
    <2>3. QED
      BY <2>1, <2>2
  <1>3. ASSUME NEW r \in Requests, Handler(r), ~HandlerWakes(r) PROVE WakersIdle'
    <2>1. UNCHANGED waker
      BY <1>3 DEF Handler, HandlerChecks, HandlerDrops, Enqueue, HandlerTurnsAway, HandlerCounts,
         HandlerCountsEarly, setVars
    <2>2. \A q \in Requests : handler'[q] \in {"new", "enqueue"} => handler[q] \in {"new", "enqueue"}
      BY <1>3 DEF Handler, HandlerChecks, HandlerDrops, Enqueue, HandlerTurnsAway, HandlerCounts,
         HandlerCountsEarly, TypeOK
    <2>3. QED
      BY <2>1, <2>2
  <1>4. CASE \/ AcceptFails \/ Kernel \/ UNCHANGED vars \/ ControlThread
    <2>1. UNCHANGED handler
      BY <1>4 DEF AcceptFails, Kernel, vars, ctlVars, ControlThread, Prepare, PrepareFails, FinishStart,
         StartInitial, InitialStarted, PollAcceptFailure, PopRequest, QueueDrained, RefuseRequest,
         StartProgram, AnswerStarted, CountHandled, Rollback, CountRollback, RefuseRolledBack,
         ControlWaits, WaitReturned, CheckIdle, Collect, SetShuttingDown, SwapQueue, TurnAway,
         AllTurnedAway, StopPipe, ReleaseJobs, ControlUnchanged, requestVars
    <2>2. UNCHANGED waker
      BY <1>4 DEF AcceptFails, Kernel, ProcessesEnd, vars, setVars, ControlThread, Prepare,
                  PrepareFails,
         FinishStart, AskIsEmpty, AdoptJob, StartInitial, CreateJob, CreateJobFails,
         CreateJobFailsLate, InitialStarted, PollAcceptFailure, PopRequest, QueueDrained, WaitAllCalled,
         RefuseRequest, StartProgram, AnswerStarted, CountHandled, Rollback, TerminateRequest,
         CountRollback, RefuseRolledBack, ControlWaits, WaitStep, WaitCheck, WaitTakesWake,
         WaitClearsWoken, WaitTakesJoined, WaitTakesReport, WaitTimeout, WaitExpires, WaitGoesOn,
         WaitFails, WaitReturned, CheckIdle, Collect, SetShuttingDown, SwapQueue, TurnAway,
         AllTurnedAway, StopPipe, ReleaseJobs
    <2>3. QED
      BY <2>1, <2>2
  <1>5. QED
    BY <1>1, <1>2, <1>3, <1>4 DEF Next, AcceptLoop

\* A wakeup which is posted reaches the port, where posting does not fail.
LEMMA WakeupComesStep ==
    ASSUME WakeInv, "post" \notin Faults, [Next]_vars
    PROVE  WakeupComes'
  <1> USE DEF WakeInv, RequestInv
  <1>1. ASSUME NEW w \in Wakers, WakeExchange(w) \/ WakePost(w), UNCHANGED ctlVars PROVE WakeupComes'
    <2>1. UNCHANGED <<queue, control, waitPc, handler>>
      BY <1>1 DEF WakeExchange, WakePost, waitVars, ctlVars, requestVars, workVars
    <2>2. CASE WakePost(w)
      BY <2>1, <2>2 DEF WakePost, WakeupComes
    <2>3. CASE WakeExchange(w)
      <3>1. UNCHANGED port /\ waker' = [waker EXCEPT ![w] = IF woken THEN "done" ELSE "posting"]
            /\ waker[w] = "idle"
        BY <2>3 DEF WakeExchange
      <3>2. CASE woken
        <4>1. WakeMessage \in port \/ waitPc = "taken" \/ \E v \in Wakers : waker[v] = "posting"
          BY <3>2 DEF WokenIsUnderWay
        <4>2. ASSUME NEW v \in Wakers, waker[v] = "posting" PROVE waker'[v] = "posting"
          BY <3>1, <4>2 DEF TypeOK, TypeOKSet
        <4>3. QED
          BY <2>1, <3>1, <4>1, <4>2 DEF WakeupComes
      <3>3. CASE ~woken
        <4>1. waker'[w] = "posting"
          BY <3>1, <3>3 DEF TypeOK, TypeOKSet
        <4>2. QED
          BY <4>1 DEF WakeupComes
      <3>4. QED
        BY <3>2, <3>3
    <2>4. QED
      BY <1>1, <2>2, <2>3
  <1>2. ASSUME NEW r \in Requests, Handler(r) PROVE WakeupComes'
    <2>1. CASE HandlerWakes(r)
      BY <1>1, <2>1, ControlAssumption DEF HandlerWakes
    <2>2. CASE Enqueue(r)
      <3>1. UNCHANGED <<control, waitPc, waker, port>> /\ handler[r] = "enqueue"
        BY <2>2 DEF Enqueue, setVars, waitVars
      <3>2. CASE handler'[r] = "wake"
        BY <3>1, <3>2 DEF WakersIdle, WakeupComes
      <3>3. CASE handler'[r] # "wake"
        <4>1. UNCHANGED queue /\ \A q \in Requests : handler[q] = "wake" => handler'[q] = "wake"
          BY <2>2, <3>3 DEF Enqueue, TypeOK
        <4>2. QED
          BY <3>1, <4>1 DEF WakeupComes
      <3>4. QED
        BY <3>2, <3>3
    <2>3. CASE HandlerCounts(r)
      <3>1. UNCHANGED <<control, waitPc, waker, port, queue>> /\ waker[r] = "done"
        BY <2>3 DEF HandlerCounts, setVars, waitVars, workVars
      <3>2. \A q \in Requests : q # r => handler'[q] = handler[q]
        BY <2>3 DEF HandlerCounts, TypeOK
      <3>3. QED
        BY <3>1, <3>2 DEF WakeupComes
    <2>4. CASE HandlerChecks(r) \/ HandlerDrops(r) \/ HandlerTurnsAway(r) \/ HandlerCountsEarly(r)
      <3>1. UNCHANGED <<control, waitPc, waker, port, queue>>
        BY <2>4 DEF HandlerChecks, HandlerDrops, HandlerTurnsAway, HandlerCountsEarly, setVars,
                    waitVars,
           workVars
      <3>2. \A q \in Requests : handler[q] = "wake" => handler'[q] = "wake"
        BY <2>4 DEF HandlerChecks, HandlerDrops, HandlerTurnsAway, HandlerCountsEarly, TypeOK
      <3>3. QED
        BY <3>1, <3>2 DEF WakeupComes
    <2>5. QED
      BY <1>2, <2>1, <2>2, <2>3, <2>4 DEF Handler
  <1>3. CASE AcceptWakes
    BY <1>1, <1>3, ControlAssumption DEF AcceptWakes
  <1>4. CASE AcceptFails \/ UNCHANGED vars
    <2>1. UNCHANGED <<control, waitPc, waker, port, queue, handler>>
      BY <1>4 DEF AcceptFails, vars, ctlVars, setVars, waitVars, requestVars, workVars
    <2>2. QED
      BY <2>1 DEF WakeupComes
  <1>5. CASE Kernel
    <2>1. UNCHANGED <<control, waitPc, waker, queue, handler>> /\ port \subseteq port'
      BY <1>5 DEF Kernel, ProcessesEnd, ctlVars, waitVars, requestVars, workVars
    <2>2. QED
      BY <2>1 DEF WakeupComes
  <1>6. CASE ControlWaits
    <2>1. UNCHANGED <<control, waker, queue, handler>> /\ control = "wait"
      BY <1>6 DEF ControlWaits, WaitStep, WaitCheck, WaitTakesWake, WaitClearsWoken, WaitTakesJoined,
         WaitTakesReport, WaitTimeout, WaitExpires, WaitGoesOn, WaitFails, ctlVars, requestVars, workVars
    <2>2. \/ waitPc' \in {"out", "taken"}
          \/ waitPc \in {"check", "get", "timedOut"} /\ (WakeMessage \in port => WakeMessage \in port')
      BY <1>6 DEF ControlWaits, WaitStep, WaitReturns, WaitCheck, WaitTakesWake, WaitClearsWoken,
         WaitTakesJoined, WaitTakesReport, WaitTimeout, WaitExpires, WaitGoesOn, WaitFails, WakeMessage,
         JoinedMessage
    <2>3. QED
      BY <2>1, <2>2 DEF WakeupComes
  <1>7. CASE QueueDrained
    BY <1>7 DEF QueueDrained, workVars, WakeupComes
  <1>8. CASE ControlThread /\ ~ControlWaits /\ ~QueueDrained
    <2>1. control' # "wait"
      BY <1>8 DEF ControlThread, Prepare, PrepareFails, FinishStart, StartInitial, InitialStarted,
         PollAcceptFailure, PopRequest, RefuseRequest, StartProgram, AnswerStarted, CountHandled,
         Rollback, CountRollback, RefuseRolledBack, WaitReturned, CheckIdle, Collect, SetShuttingDown,
         SwapQueue, TurnAway, AllTurnedAway, StopPipe, ReleaseJobs, ctlVars
    <2>2. QED
      BY <2>1 DEF WakeupComes
  <1>9. QED
    BY <1>2, <1>3, <1>4, <1>5, <1>6, <1>7, <1>8 DEF Next, AcceptLoop

LEMMA WakeInvariant ==
    ASSUME "post" \notin Faults
    PROVE  Spec => []WakeInv
  <1>1. Init => WakeInv
    <2> SUFFICES ASSUME Init PROVE WakeInv
      OBVIOUS
    <2>1. WokenIsUnderWay /\ WakeupComes
      BY DEF Init, InitSet, WokenIsUnderWay, WakeupComes
    <2>2. WakersIdle
      BY ControlAssumption DEF Init, InitSet, WakersIdle
    <2>3. QED
      BY <2>1, <2>2, RequestInit DEF WakeInv
  <1>2. WakeInv /\ [Next]_vars => WakeInv'
    BY RequestStep, WokenStepControl, WakersIdleStep, WakeupComesStep DEF WakeInv
  <1>3. QED
    BY <1>1, <1>2, PTL DEF Spec

\* The control thread never sleeps through a request (Wake(), WaitAll(), DrainQueue()).
THEOREM WakeupsAreNotLost == Spec => []NoWakeupLost
  <1>1. CASE "post" \in Faults
    <2>1. NoWakeupLost
      BY <1>1 DEF NoWakeupLost
    <2>2. QED
      BY <2>1, PTL
  <1>2. CASE "post" \notin Faults
    <2>1. WakeInv => NoWakeupLost
      BY DEF WakeInv, WakeupComes, NoWakeupLost
    <2>2. QED
      BY <1>2, <2>1, WakeInvariant, PTL
  <1>3. QED
    BY <1>1, <1>2
-----------------------------------------------------------------------------
(* The end of the run.                                                     *)

\* Where the run goes on after every program it started has ended.
Over == {"idle", "collect", "shutdown", "swap", "turnAway", "stop"}

\* The control thread knows that the programs ended, and leaves the loop for no other reason.
EndInv ==
    /\ RequestInv
    /\ control # "gone" => CountInv
    /\ ~acceptFailed
    /\ waitResult # "Error"
    /\ control \in Over \/ (control = "wait" /\ waitPc = "out" /\ waitResult = "AllExited") =>
        \A j \in Entries : procs[j] = "ended"

LEMMA GoneStays == [Next]_vars /\ control = "gone" => control' = "gone"
  BY DEF Next, ControlThread, Prepare, PrepareFails, FinishStart, StartInitial, InitialStarted,
     PollAcceptFailure, PopRequest, QueueDrained, RefuseRequest, StartProgram, AnswerStarted, CountHandled,
     Rollback, CountRollback, RefuseRolledBack, ControlWaits, WaitReturned, CheckIdle, Collect,
     SetShuttingDown, SwapQueue, TurnAway, AllTurnedAway, StopPipe, ReleaseJobs, Handler, HandlerChecks,
     HandlerDrops, Enqueue, HandlerTurnsAway, HandlerWakes, HandlerCounts, HandlerCountsEarly, AcceptLoop,
     AcceptFails, AcceptWakes, Kernel, vars, ctlVars

\* The counter and the reports of the job set stay true inside the control layer.
LEMMA CountStepControl ==
    ASSUME EndInv, "reuse" \notin Faults, [Next]_vars
    PROVE  control' # "gone" => CountInv'
  <1>1. CASE control = "gone"
    BY <1>1, GoneStays
  <1>2. CASE ReleaseJobs
    BY <1>2 DEF ReleaseJobs
  <1>3. CASE [NextSet]_setVars /\ control # "gone"
    BY <1>3, ReportStep, CountStep DEF EndInv, CountInv
  <1>4. QED
    BY <1>1, <1>2, <1>3, SetStep DEF EndInv, RequestInv

LEMMA EndStep ==
    ASSUME EndInv, Faults \cap {"accept", "wait", "reuse"} = {}, [Next]_vars
    PROVE  EndInv'
  <1>1. RequestInv' /\ (control' # "gone" => CountInv')
    BY RequestStep, CountStepControl DEF EndInv
  <1>2. ~acceptFailed'
    <2>1. UNCHANGED acceptFailed
      BY DEF Next, ControlThread, Prepare, PrepareFails, FinishStart, StartInitial, InitialStarted,
         PollAcceptFailure, PopRequest, QueueDrained, RefuseRequest, StartProgram, AnswerStarted,
         CountHandled, Rollback, CountRollback, RefuseRolledBack, ControlWaits, WaitReturned, CheckIdle,
         Collect, SetShuttingDown, SwapQueue, TurnAway, AllTurnedAway, StopPipe, ReleaseJobs, Handler,
         HandlerChecks, HandlerDrops, Enqueue, HandlerTurnsAway, HandlerWakes, HandlerCounts,
         HandlerCountsEarly, AcceptLoop, AcceptFails, AcceptWakes, Kernel, vars, ctlVars, runVars,
         ControlUnchanged
    <2>2. QED
      BY <2>1 DEF EndInv
  <1> DEFINE Ends == \A j \in Entries : procs[j] = "ended"
  <1>3. CASE ControlWaits
    <2>1. control' = control /\ control = "wait" /\ WaitStep /\ CountInv /\ CountInv'
      BY <1>1, <1>3 DEF ControlWaits, ctlVars, EndInv
    <2>2. waitPc # "out" /\ waitResult' # "Error" /\ UNCHANGED <<stage, procs>>
      BY <2>1 DEF EndInv, WaitStep, WaitReturns, WaitCheck, WaitTakesWake, WaitClearsWoken,
         WaitTakesJoined, WaitTakesReport, WaitTimeout, WaitExpires, WaitGoesOn, WaitFails, jobVars
    <2>3. ASSUME waitPc' = "out", waitResult' = "AllExited" PROVE Ends'
      <3>1. pending = 0
        BY <2>1, <2>2, <2>3 DEF WaitStep, WaitReturns, WaitCheck, WaitTakesWake, WaitClearsWoken,
           WaitTakesJoined, WaitTakesReport, WaitTimeout, WaitExpires, WaitGoesOn, WaitFails
      <3>2. Unreported = {}
        BY <2>1, <3>1, UnreportedIsFinite, FS_EmptySet DEF CountInv, PendingIsUnreported
      <3>3. Ends
        BY <2>1, <3>2 DEF CountInv, ReportInv, ReportsAreTrue, Unreported
      <3>4. QED
        BY <2>2, <3>3 DEF Entries
    <2>4. QED
      BY <1>1, <1>2, <2>1, <2>2, <2>3 DEF EndInv, Over
  <1>4. CASE WaitReturned
    <2>1. UNCHANGED <<stage, procs, waitPc, waitResult>> /\ control = "wait" /\ waitPc = "out"
      BY <1>4 DEF WaitReturned, setVars, jobVars, waitVars
    <2>2. \/ control' = "idle" /\ waitResult = "AllExited"
          \/ control' = "poll"
      BY <1>4 DEF WaitReturned, EndInv
    <2>3. QED
      BY <1>1, <1>2, <2>1, <2>2 DEF EndInv, Over, Entries
  <1>5. CASE QueueDrained
    BY <1>1, <1>2, <1>5 DEF QueueDrained, WaitAllCalled, EndInv, Over
  <1>6. CASE PrepareFails
    <2>1. UNCHANGED <<stage, waitResult>> /\ control = "prepare" /\ control' = "shutdown"
      BY <1>6 DEF PrepareFails, setVars, jobVars, waitVars
    <2>2. \A j \in Jobs : stage'[j] = "none"
      BY <2>1 DEF EndInv, RequestInv, Shape
    <2>3. QED
      BY <1>1, <1>2, <2>1, <2>2 DEF EndInv, Entries
  <1>7. CASE FinishStart \/ StartInitial \/ StartProgram
    <2>1. UNCHANGED waitResult /\ control' \in {"initial", "process", "rollback"}
      BY <1>7 DEF FinishStart, StartInitial, StartProgram, AskIsEmpty, AdoptJob, CreateJob,
         CreateJobFails, CreateJobFailsLate, ctlVars, waitVars
    <2>2. QED
      BY <1>1, <1>2, <2>1 DEF EndInv, Over
  <1>8. CASE \/ Prepare \/ InitialStarted \/ PollAcceptFailure \/ PopRequest
             \/ RefuseRequest \/ AnswerStarted \/ CountHandled
             \/ Rollback \/ CountRollback \/ RefuseRolledBack
             \/ CheckIdle \/ Collect \/ SetShuttingDown \/ SwapQueue
             \/ TurnAway \/ AllTurnedAway \/ StopPipe
    <2>1. UNCHANGED <<stage, procs, waitResult>>
      BY <1>8 DEF Prepare, InitialStarted, PollAcceptFailure, PopRequest, RefuseRequest,
         AnswerStarted, CountHandled, Rollback, TerminateRequest, CountRollback, RefuseRolledBack,
         CheckIdle, Collect, SetShuttingDown, SwapQueue, TurnAway, AllTurnedAway, StopPipe,
         setVars, jobVars, waitVars
    <2>2. control' # "wait" /\ (control' \in Over => control \in Over)
      BY <1>8 DEF Prepare, InitialStarted, PollAcceptFailure, PopRequest, RefuseRequest,
         AnswerStarted, CountHandled, Rollback, CountRollback, RefuseRolledBack,
         CheckIdle, Collect, SetShuttingDown, SwapQueue, TurnAway, AllTurnedAway, StopPipe, Over, EndInv
    <2>3. QED
      BY <1>1, <1>2, <2>1, <2>2 DEF EndInv, Entries
  <1>9. CASE ReleaseJobs
    BY <1>1, <1>2, <1>9 DEF ReleaseJobs, EndInv, Over, waitVars
  <1>10. CASE (\E r \in Requests : Handler(r)) \/ AcceptLoop \/ Kernel \/ UNCHANGED vars
    <2>1. UNCHANGED <<stage, control, waitPc, waitResult>>
      BY <1>10 DEF Handler, HandlerChecks, HandlerDrops, Enqueue, HandlerTurnsAway, HandlerWakes,
         WakeExchange, WakePost, HandlerCounts, HandlerCountsEarly, AcceptLoop, AcceptFails, AcceptWakes,
         Kernel, ProcessesEnd, vars, ctlVars, setVars, jobVars, waitVars
    <2>2. UNCHANGED procs \/ \E j \in Jobs : ProcessesEnd(j)
      BY <1>10 DEF Handler, HandlerChecks, HandlerDrops, Enqueue, HandlerTurnsAway, HandlerWakes,
         WakeExchange, WakePost, HandlerCounts, HandlerCountsEarly, AcceptLoop, AcceptFails, AcceptWakes,
         Kernel, vars, setVars, jobVars
    <2>3. ASSUME Ends PROVE Ends'
      BY <2>1, <2>2, <2>3 DEF Entries, ProcessesEnd, EndInv, RequestInv, TypeOK, TypeOKSet
    <2>4. QED
      BY <1>1, <1>2, <2>1, <2>3 DEF EndInv
  <1>11. QED
    BY <1>3, <1>4, <1>5, <1>6, <1>7, <1>8, <1>9, <1>10 DEF Next, ControlThread

LEMMA EndInit == Init => EndInv
  <1> SUFFICES ASSUME Init PROVE EndInv
    OBVIOUS
  <1>1. Unreported = {}
    BY DEF Init, InitSet, Unreported, Entries
  <1>2. CountInv
    BY <1>1, ReportInit, FS_EmptySet DEF Init, InitSet, CountInv, PendingIsUnreported
  <1>3. QED
    BY <1>2, RequestInit DEF Init, InitSet, EndInv, Over

LEMMA EndInvariant ==
    ASSUME Faults \cap {"accept", "wait", "reuse"} = {}
    PROVE  Spec => []EndInv
  <1>1. EndInv /\ [Next]_vars => EndInv'
    BY EndStep
  <1>2. QED
    BY <1>1, EndInit, PTL DEF Spec

\* A run which is not cut short by a dead pipe or a failed wait ends after every program it
\* started, those of the requests included (WaitForPrograms(), main.cpp).
THEOREM RunOutlivesPrograms == Spec => []EndsAfterItsPrograms
  <1>1. CASE Faults \cap {"accept", "wait", "reuse"} = {}
    <2>1. EndInv => EndsAfterItsPrograms
      BY DEF EndInv, Over, EndsAfterItsPrograms
    <2>2. QED
      BY <1>1, <2>1, EndInvariant, PTL
  <1>2. CASE Faults \cap {"accept", "wait", "reuse"} # {}
    <2>1. EndsAfterItsPrograms
      BY <1>2 DEF EndsAfterItsPrograms
    <2>2. QED
      BY <2>1, PTL
  <1>3. QED
    BY <1>1, <1>2
-----------------------------------------------------------------------------
(* The exit code.                                                          *)

AfterRun == {"shutdown", "swap", "turnAway", "stop", "reset", "gone"}
Failed   == \E j \in Programs(Initial) : stage[j] = "failed"

\* The exit code is that of the starts until Collect() reads the programs, which are all there.
ExitInv ==
    /\ EndInv
    /\ control \notin {"prepare", "initial"} => \A j \in Programs(Initial) : stage[j] \in {"failed", "joined"}
    /\ control \notin AfterRun => (exitCode = "nonzero" <=> Failed)
    /\ control \in AfterRun => (exitCode = "nonzero" <=> Failed \/ Programs(Initial) \cap Failing # {})

LEMMA SameExit ==
    ASSUME ExitInv, EndInv', UNCHANGED exitCode,
           \A j \in Programs(Initial) : stage'[j] = stage[j],
           control \in AfterRun <=> control' \in AfterRun,
           control \in {"prepare", "initial"} => control' \in {"prepare", "initial"}
    PROVE  ExitInv'
  BY DEF ExitInv, Failed, Programs

LEMMA ExitStep ==
    ASSUME ExitInv, Faults \cap {"accept", "wait", "reuse", "prepare"} = {}, [Next]_vars
    PROVE  ExitInv'
  <1>0. EndInv' /\ TypeOK /\ Shape /\ Places
    BY EndStep DEF ExitInv, EndInv, RequestInv
  <1> USE DEF AfterRun
  <1>1. CASE (\E r \in Requests : Handler(r)) \/ AcceptLoop \/ Kernel \/ UNCHANGED vars \/ ControlWaits
    <2>1. UNCHANGED <<control, exitCode>>
      BY <1>1 DEF Handler, HandlerChecks, HandlerDrops, Enqueue, HandlerTurnsAway, HandlerWakes,
         HandlerCounts, HandlerCountsEarly, AcceptLoop, AcceptFails, AcceptWakes, Kernel, vars, ctlVars,
         ControlWaits, runVars
    <2>2. UNCHANGED stage
      BY <1>1 DEF Handler, HandlerChecks, HandlerDrops, Enqueue, HandlerTurnsAway, HandlerWakes,
         WakeExchange, WakePost, HandlerCounts, HandlerCountsEarly, AcceptLoop, AcceptFails, AcceptWakes,
         Kernel, ProcessesEnd, vars, setVars, jobVars, ControlWaits, WaitStep, WaitCheck, WaitTakesWake,
         WaitClearsWoken, WaitTakesJoined, WaitTakesReport, WaitTimeout, WaitExpires, WaitGoesOn, WaitFails
    <2>3. QED
      BY <1>0, <2>1, <2>2, SameExit
  <1>2. CASE \/ Prepare \/ PollAcceptFailure \/ PopRequest \/ QueueDrained \/ RefuseRequest
             \/ AnswerStarted \/ CountHandled \/ Rollback \/ CountRollback \/ RefuseRolledBack
             \/ CheckIdle \/ SetShuttingDown \/ SwapQueue \/ TurnAway \/ AllTurnedAway \/ StopPipe
             \/ ReleaseJobs
    <2>1. UNCHANGED <<stage, exitCode>>
      BY <1>2 DEF Prepare, PollAcceptFailure, PopRequest, QueueDrained, WaitAllCalled, RefuseRequest,
         AnswerStarted, CountHandled, Rollback, TerminateRequest, CountRollback, RefuseRolledBack,
         CheckIdle, SetShuttingDown, SwapQueue, TurnAway, AllTurnedAway, StopPipe, ReleaseJobs,
         ControlUnchanged, runVars, setVars, jobVars, ExitInv, EndInv
    <2>2. /\ control \in AfterRun <=> control' \in AfterRun
          /\ control \in {"prepare", "initial"} => control' \in {"prepare", "initial"}
      BY <1>2 DEF Prepare, PollAcceptFailure, PopRequest, QueueDrained, RefuseRequest, AnswerStarted,
         CountHandled, Rollback, CountRollback, RefuseRolledBack, CheckIdle, SetShuttingDown, SwapQueue,
         TurnAway, AllTurnedAway, StopPipe, ReleaseJobs
    <2>3. QED
      BY <1>0, <2>1, <2>2, SameExit
  <1>3. CASE PrepareFails
    BY <1>3 DEF PrepareFails
  <1>4. CASE FinishStart
    <2>1. PICK j \in Starting : AskIsEmpty(j) \/ AdoptJob(j)
      BY <1>4 DEF FinishStart
    <2>2. \A k \in Jobs : stage'[k] = stage[k] \/ (k = j /\ stage'[k] \in {"busy", "empty", "joined"})
      BY <1>0, <2>1 DEF AskIsEmpty, AdoptJob, TypeOK, TypeOKSet
    <2>3. UNCHANGED <<control, exitCode>> /\ control \in {"initial", "process"}
      BY <1>4 DEF FinishStart, ctlVars, runVars
    <2>4. Failed' <=> Failed
      BY <2>1, <2>2 DEF Failed, Starting, Programs
    <2>5. control = "process" => OwnerOf[j] # Initial
      BY <1>0, <2>1, ControlAssumption DEF Shape, Busy, TypeOK
    <2>6. QED
      BY <1>0, <2>2, <2>3, <2>4, <2>5 DEF ExitInv, Programs
  <1>5. CASE StartInitial
    <2>1. UNCHANGED control /\ control = "initial"
      BY <1>5 DEF StartInitial
    <2>2. PICK j \in Unstarted(Initial) :
              \/ CreateJob(j) /\ UNCHANGED exitCode
              \/ (CreateJobFails(j) \/ CreateJobFailsLate(j)) /\ exitCode' = "nonzero"
      BY <1>5 DEF StartInitial
    <2>3. CASE CreateJob(j) /\ UNCHANGED exitCode
      <3>1. Failed' <=> Failed
        BY <1>0, <2>3 DEF CreateJob, Failed, Programs, TypeOK, TypeOKSet
      <3>2. QED
        BY <1>0, <2>1, <2>3, <3>1 DEF ExitInv
    <2>4. CASE (CreateJobFails(j) \/ CreateJobFailsLate(j)) /\ exitCode' = "nonzero"
      <3>1. Failed'
        BY <1>0, <2>2, <2>4
        DEF CreateJobFails, CreateJobFailsLate, Failed, Unstarted, Programs, TypeOK, TypeOKSet
      <3>2. QED
        BY <1>0, <2>1, <2>4, <3>1 DEF ExitInv
    <2>5. QED
      BY <2>2, <2>3, <2>4
  <1>6. CASE InitialStarted
    <2>1. UNCHANGED <<stage, exitCode>> /\ control = "initial" /\ control' = "poll"
      BY <1>6 DEF InitialStarted, ControlUnchanged, runVars, setVars, jobVars
    <2>2. \A j \in Programs(Initial) : stage[j] \in {"failed", "joined"}
      BY <1>0, <1>6 DEF InitialStarted, Starting, Unstarted, Programs, TypeOK, TypeOKSet
    <2>3. QED
      BY <1>0, <2>1, <2>2 DEF ExitInv, Failed, Programs
  <1>7. CASE StartProgram
    <2>1. PICK j \in Unstarted(current) : CreateJob(j) \/ CreateJobFails(j) \/ CreateJobFailsLate(j)
      BY <1>7 DEF StartProgram
    <2>2. UNCHANGED exitCode /\ control = "process" /\ control' \in {"process", "rollback"}
      BY <1>7 DEF StartProgram, ControlUnchanged, runVars
    <2>3. \A k \in Programs(Initial) : stage'[k] = stage[k]
      BY <1>0, <2>1, <2>2, InWork, ControlAssumption
      DEF Busy, CreateJob, CreateJobFails, CreateJobFailsLate, Unstarted, Programs, TypeOK, TypeOKSet
    <2>4. QED
      BY <1>0, <2>2, <2>3, SameExit
  <1>8. CASE WaitReturned
    <2>1. UNCHANGED <<stage, exitCode>> /\ control = "wait" /\ control' \in {"idle", "poll"}
      BY <1>8 DEF WaitReturned, setVars, jobVars, ExitInv, EndInv
    <2>2. QED
      BY <1>0, <2>1, SameExit
  <1>9. CASE Collect
    <2>1. UNCHANGED stage /\ control = "collect" /\ control' = "shutdown"
      BY <1>9 DEF Collect, setVars, jobVars
    <2>2. \A j \in Programs(Initial) : stage[j] = "failed" \/ j \in Entries
      BY <2>1 DEF ExitInv, Programs, Entries
    <2>3. \A j \in Entries : procs[j] # "running"
      BY <2>1 DEF ExitInv, EndInv, Over
    <2>4. exitCode' = "nonzero" <=> exitCode = "nonzero" \/ \E j \in Programs(Initial) \cap Entries : j \in Failing
      BY <1>9, <2>3 DEF Collect
    <2>5. exitCode' = "nonzero" <=> Failed \/ Programs(Initial) \cap Failing # {}
      BY <2>1, <2>2, <2>4 DEF ExitInv, Failed
    <2>6. QED
      BY <1>0, <2>1, <2>5 DEF ExitInv, Failed, Programs
  <1>10. QED
    BY <1>1, <1>2, <1>3, <1>4, <1>5, <1>6, <1>7, <1>8, <1>9 DEF Next, ControlThread

\* Only the programs of the configuration decide the exit code (MainLauncher()), while the
\* value of a closed job handle is not used again: a report taken for another job would let
\* the run collect the code of a program which still runs.
THEOREM ExitCodeOfTheConfiguration ==
    ASSUME "reuse" \notin Faults
    PROVE  Spec => []ExitCodeIsOfTheConfiguration
  <1>1. CASE Faults \cap {"accept", "wait", "prepare"} = {}
    <2>1. Init => ExitInv
      BY EndInit DEF Init, InitSet, ExitInv, AfterRun, Failed, Programs
    <2>2. ExitInv /\ [Next]_vars => ExitInv'
      BY <1>1, ExitStep
    <2>3. ExitInv => ExitCodeIsOfTheConfiguration
      BY DEF ExitInv, AfterRun, Failed, ExitCodeIsOfTheConfiguration
    <2>4. QED
      BY <2>1, <2>2, <2>3, PTL DEF Spec
  <1>2. CASE Faults \cap {"accept", "wait", "prepare"} # {}
    <2>1. ExitCodeIsOfTheConfiguration
      BY <1>2 DEF ExitCodeIsOfTheConfiguration
    <2>2. QED
      BY <2>1, PTL
  <1>3. QED
    BY <1>1, <1>2
-----------------------------------------------------------------------------
(* The counters of the state query.                                        *)

StartedRequests == {r \in Requests : answers[r] = <<"started">>}
CountingEarly   == {r \in Requests : handler[r] = "countEarly"}

RollbackCounted == rolledBack + killed = Cardinality(terminated)
HandledCounted  == handled + (IF control = "count" THEN 1 ELSE 0) = Cardinality(StartedRequests)
EarlyCounted    == queuedEarly + Cardinality(CountingEarly) <= queued

CounterInv == RequestInv /\ RollbackCounted /\ HandledCounted /\ EarlyCounted

LEMMA CountedAreFinite ==
    ASSUME TypeOK
    PROVE  /\ IsFiniteSet(terminated) /\ Cardinality(terminated) \in Nat
           /\ IsFiniteSet(StartedRequests) /\ Cardinality(StartedRequests) \in Nat
           /\ IsFiniteSet(CountingEarly) /\ Cardinality(CountingEarly) \in Nat
  <1>1. terminated \subseteq Jobs /\ StartedRequests \subseteq Requests /\ CountingEarly \subseteq Requests
    BY DEF TypeOK, TypeOKSet, StartedRequests, CountingEarly
  <1>2. IsFiniteSet(terminated) /\ IsFiniteSet(StartedRequests) /\ IsFiniteSet(CountingEarly)
    BY <1>1, FS_Subset, JobSetAssumption, ControlAssumption
  <1>3. QED
    BY <1>2, FS_CardinalityType

\* Only a rollback terminates programs, and it counts exactly those.
LEMMA RollbackCountedStep ==
    ASSUME CounterInv, [Next]_vars
    PROVE  RollbackCounted'
  <1> USE DEF CounterInv, RequestInv
  <1>1. CASE Rollback
    <2>1. PICK r \in Requests : r = current /\ answers[r] = << >> /\ requestId[r] # 0
      BY <1>1, InWork DEF Rollback, Busy, Accepted
    <2>2. {j \in Entries : OwnerOf[j] # Initial /\ IdOf(j) = requestId[current]} = {j \in Entries : OwnerOf[j] = r}
      BY <2>1, DoomedAreOwn
    <2>3. PICK ended \in SUBSET {j \in Entries : OwnerOf[j] = r} :
              terminated' = terminated \cup ended /\ killed' = Cardinality(ended)
      BY <1>1, <2>2 DEF Rollback, TerminateRequest
    <2>4. killed = 0 /\ UNCHANGED rolledBack
      BY <1>1 DEF Rollback, Shape, ControlUnchanged, countVars
    <2>5. terminated \cap ended = {}
      BY <1>1, <2>1, OneAnswer DEF Rollback, Whole, RollbackIsOwn, Answers
    <2>6. IsFiniteSet(ended) /\ Cardinality(ended) \in Nat
      BY JobSetAssumption, FS_Subset, FS_CardinalityType DEF Entries
    <2>7. Cardinality(terminated \cup ended) = Cardinality(terminated) + Cardinality(ended)
      <3>1. Cardinality(terminated \cup ended)
                = Cardinality(terminated) + Cardinality(ended) - Cardinality(terminated \cap ended)
        BY <2>6, CountedAreFinite, FS_Union
      <3>2. Cardinality(terminated \cap ended) = 0
        BY <2>5, FS_EmptySet
      <3>3. QED
        BY <2>6, <3>1, <3>2, CountedAreFinite
    <2>8. rolledBack + Cardinality(ended) = Cardinality(terminated) + Cardinality(ended)
      BY <2>4, CountedAreFinite DEF RollbackCounted, TypeOK
    <2>9. QED
      BY <2>3, <2>4, <2>7, <2>8 DEF RollbackCounted
  <1>2. CASE CountRollback
    BY <1>2 DEF CountRollback, RollbackCounted, TypeOK, setVars, jobVars
  <1>3. CASE ~Rollback /\ ~CountRollback
    <2>1. UNCHANGED terminated
      BY <1>3 DEF Next, ControlThread, Prepare, PrepareFails, FinishStart, AskIsEmpty, AdoptJob,
         StartInitial, CreateJob, CreateJobFails, CreateJobFailsLate, InitialStarted, PollAcceptFailure,
         PopRequest, QueueDrained, WaitAllCalled, RefuseRequest, StartProgram, AnswerStarted,
         CountHandled, RefuseRolledBack, ControlWaits, WaitStep, WaitCheck, WaitTakesWake,
         WaitClearsWoken, WaitTakesJoined, WaitTakesReport, WaitTimeout, WaitExpires, WaitGoesOn,
         WaitFails, WaitReturned, CheckIdle, Collect, SetShuttingDown, SwapQueue, TurnAway,
         AllTurnedAway, StopPipe, ReleaseJobs, Handler, HandlerChecks, HandlerDrops, Enqueue,
         HandlerTurnsAway, HandlerWakes, WakeExchange, WakePost, HandlerCounts, HandlerCountsEarly,
         AcceptLoop, AcceptFails, AcceptWakes, Kernel, ProcessesEnd, vars, setVars, jobVars
    <2>2. UNCHANGED <<rolledBack, killed>>
      BY <1>3 DEF Next, ControlThread, Prepare, PrepareFails, FinishStart,
         StartInitial, InitialStarted, PollAcceptFailure,
         PopRequest, QueueDrained, RefuseRequest, StartProgram, AnswerStarted,
         CountHandled, RefuseRolledBack, ControlWaits, WaitReturned, CheckIdle, Collect,
         SetShuttingDown, SwapQueue, TurnAway,
         AllTurnedAway, StopPipe, ReleaseJobs, Handler, HandlerChecks, HandlerDrops, Enqueue,
         HandlerTurnsAway, HandlerWakes, HandlerCounts, HandlerCountsEarly,
         AcceptLoop, AcceptFails, AcceptWakes, Kernel, vars, ctlVars, workVars, countVars,
         ControlUnchanged
    <2>3. QED
      BY <2>1, <2>2 DEF RollbackCounted
  <1>4. QED
    BY <1>1, <1>2, <1>3

\* A step answers one request at most, which has no answer yet.
LEMMA AnswerStep ==
    ASSUME RequestInv, [Next]_vars
    PROVE  \/ UNCHANGED answers
           \/ AnswerStarted /\ answers[current] = << >> /\ current \in Requests
           \/ \E r \in Requests, a \in Answers \ {"started"} : answers[r] = << >> /\ Answer(r, a)
  <1> USE DEF RequestInv
  <1>1. CASE RefuseRequest \/ RefuseRolledBack \/ AnswerStarted
    <2>1. PICK r \in Requests : r = current /\ answers[r] = << >>
      BY <1>1, InWork DEF RefuseRequest, RefuseRolledBack, AnswerStarted, Busy
    <2>2. AnswerStarted \/ \E a \in {"refused", "startFailed"} : Answer(r, a)
      BY <1>1, <2>1 DEF RefuseRequest, RefuseRolledBack, Answer
    <2>3. QED
      BY <2>1, <2>2 DEF Answers
  <1>2. CASE TurnAway
    <2>1. PICK h \in Requests : h = Head(swapped) /\ Holds(swapped, h)
      BY <1>2, TailHolds DEF TurnAway, TypeOK
    <2>2. answers[h] = << >> /\ Answer(h, "shuttingDown")
      BY <1>2, <2>1 DEF TurnAway, Answer, Places, Place, Waiting
    <2>3. QED
      BY <2>2 DEF Answers
  <1>3. ASSUME NEW r \in Requests, HandlerChecks(r) \/ HandlerTurnsAway(r), ~UNCHANGED answers
        PROVE  \E q \in Requests, a \in Answers \ {"started"} : answers[q] = << >> /\ Answer(q, a)
    <2>1. answers[r] = << >>
      BY <1>3 DEF HandlerChecks, HandlerTurnsAway, Places, Place
    <2>2. PICK a \in {"refused", "busy", "shuttingDown"} : Answer(r, a)
      BY <1>3 DEF HandlerChecks, HandlerTurnsAway
    <2>3. QED
      BY <2>1, <2>2 DEF Answers
  <1>4. CASE WaitReturned
    BY <1>4 DEF WaitReturned, requestVars
  <1>5. CASE ~(WaitReturned \/ RefuseRequest \/ RefuseRolledBack \/ AnswerStarted \/ TurnAway
               \/ \E r \in Requests : HandlerChecks(r) \/ HandlerTurnsAway(r))
    BY <1>5 DEF Next, ControlThread, Prepare, PrepareFails, FinishStart, StartInitial,
       InitialStarted, PollAcceptFailure, PopRequest, QueueDrained, StartProgram, Rollback,
       CountRollback, CountHandled, ControlWaits, CheckIdle, Collect, SetShuttingDown, SwapQueue,
       AllTurnedAway, StopPipe, ReleaseJobs, Handler, HandlerDrops, Enqueue, HandlerWakes,
       HandlerCounts, HandlerCountsEarly, AcceptLoop, AcceptFails, AcceptWakes, Kernel, vars, ctlVars,
       requestVars, ControlUnchanged
  <1>6. QED
    BY <1>1, <1>2, <1>3, <1>4, <1>5

\* A request is counted after it was answered as started, and no other is.
LEMMA HandledCountedStep ==
    ASSUME CounterInv, [Next]_vars
    PROVE  HandledCounted'
  <1> USE DEF CounterInv, RequestInv
  <1>1. ASSUME NEW r \in Requests, answers[r] = << >>, NEW a \in Answers, Answer(r, a)
        PROVE  StartedRequests' = StartedRequests \cup (IF a = "started" THEN {r} ELSE {}) /\ r \notin StartedRequests
    <2>1. /\ \A q \in Requests : q # r => answers'[q] = answers[q]
          /\ answers'[r] = <<a>> /\ \A b \in Answers \ {a} : answers'[r] # <<b>>
      BY <1>1, FirstAnswer
    <2>2. answers'[r] = <<"started">> <=> a = "started"
      BY <2>1 DEF Answers
    <2>3. answers[r] # <<"started">>
      BY <1>1, OneAnswer DEF Answers
    <2>4. QED
      BY <2>1, <2>2, <2>3 DEF StartedRequests
  <1>2. CASE AnswerStarted
    <2>1. PICK r \in Requests : r = current /\ answers[r] = << >>
      BY <1>2, InWork DEF AnswerStarted, Busy
    <2>2. Answer(r, "started") /\ control = "process" /\ control' = "count" /\ UNCHANGED handled
      BY <1>2, <2>1 DEF AnswerStarted, Answer, countVars
    <2>3. StartedRequests' = StartedRequests \cup {r} /\ r \notin StartedRequests
      BY <1>1, <2>1, <2>2 DEF Answers
    <2>4. Cardinality(StartedRequests \cup {r}) = Cardinality(StartedRequests) + 1
      BY <2>3, CountedAreFinite, FS_AddElement
    <2>5. QED
      BY <2>2, <2>3, <2>4 DEF HandledCounted, TypeOK
  <1>3. CASE CountHandled
    <2>1. handled' = handled + 1 /\ control = "count" /\ control' = "drain" /\ UNCHANGED answers
      BY <1>3 DEF CountHandled, requestVars
    <2>2. StartedRequests' = StartedRequests
      BY <2>1 DEF StartedRequests
    <2>3. QED
      BY <2>1, <2>2 DEF HandledCounted, TypeOK
  <1>4. CASE ~AnswerStarted /\ ~CountHandled
    <2>1. UNCHANGED handled /\ ((control # "count" /\ control' # "count") \/ UNCHANGED control)
      <3>1. CASE WaitReturned
        BY <3>1 DEF WaitReturned, countVars
      <3>2. CASE ~WaitReturned
        BY <1>4, <3>2 DEF Next, ControlThread, Prepare, PrepareFails, FinishStart,
         StartInitial, InitialStarted, PollAcceptFailure, PopRequest, QueueDrained, RefuseRequest,
         StartProgram, Rollback, CountRollback, RefuseRolledBack, ControlWaits, WaitReturned,
         CheckIdle, Collect, SetShuttingDown, SwapQueue, TurnAway, AllTurnedAway, StopPipe, ReleaseJobs,
         Handler, HandlerChecks, HandlerDrops, Enqueue, HandlerTurnsAway, HandlerWakes, HandlerCounts,
         HandlerCountsEarly, AcceptLoop, AcceptFails, AcceptWakes, Kernel, vars, ctlVars,
           countVars, ControlUnchanged
      <3>3. QED
        BY <3>1, <3>2
    <2>2. StartedRequests' = StartedRequests
      <3>1. CASE UNCHANGED answers
        BY <3>1 DEF StartedRequests
      <3>2. CASE \E r \in Requests, a \in Answers \ {"started"} : answers[r] = << >> /\ Answer(r, a)
        BY <1>1, <3>2
      <3>3. QED
        BY <1>4, <3>1, <3>2, AnswerStep
    <2>3. QED
      BY <2>1, <2>2 DEF HandledCounted
  <1>5. QED
    BY <1>2, <1>3, <1>4

\* A request is counted as early only after it was counted as queued.
LEMMA EarlyCountedStep ==
    ASSUME CounterInv, [Next]_vars
    PROVE  EarlyCounted'
  <1> USE DEF CounterInv, RequestInv
  <1>1. CASE \E r \in Requests : HandlerCounts(r)
    <2>1. PICK r \in Requests : HandlerCounts(r)
      BY <1>1
    <2>2. CountingEarly' = CountingEarly \cup {r} /\ r \notin CountingEarly
      BY <2>1 DEF HandlerCounts, CountingEarly, TypeOK
    <2>3. Cardinality(CountingEarly \cup {r}) = Cardinality(CountingEarly) + 1
      BY <2>2, CountedAreFinite, FS_AddElement
    <2>4. queued' = queued + 1 /\ queuedEarly' = queuedEarly
      BY <2>1 DEF HandlerCounts
    <2>5. PICK c \in Nat : c = Cardinality(CountingEarly)
      BY CountedAreFinite
    <2>6. queued \in Nat /\ queuedEarly \in Nat /\ queuedEarly + c <= queued
      BY <2>5 DEF EarlyCounted, TypeOK
    <2>7. Cardinality(CountingEarly') = c + 1
      BY <2>2, <2>3, <2>5
    <2>8. queuedEarly' + Cardinality(CountingEarly') <= queued'
      BY <2>4, <2>6, <2>7
    <2>9. QED
      BY <2>8 DEF EarlyCounted
  <1>2. CASE \E r \in Requests : HandlerCountsEarly(r)
    <2>1. PICK r \in Requests : HandlerCountsEarly(r)
      BY <1>2
    <2>2. CountingEarly' = CountingEarly \ {r} /\ r \in CountingEarly
      BY <2>1 DEF HandlerCountsEarly, CountingEarly, TypeOK
    <2>3. Cardinality(CountingEarly \ {r}) = Cardinality(CountingEarly) - 1
      BY <2>2, CountedAreFinite, FS_RemoveElement
    <2>4. queued' = queued /\ queuedEarly' \in {queuedEarly, queuedEarly + 1}
      BY <2>1 DEF HandlerCountsEarly
    <2>5. PICK c \in Nat : c = Cardinality(CountingEarly)
      BY CountedAreFinite
    <2>6. queued \in Nat /\ queuedEarly \in Nat /\ queuedEarly + c <= queued
      BY <2>5 DEF EarlyCounted, TypeOK
    <2>7. Cardinality(CountingEarly') = c - 1
      BY <2>2, <2>3, <2>5
    <2>8. queuedEarly' + Cardinality(CountingEarly') <= queued'
      <3>1. queuedEarly' = queuedEarly \/ queuedEarly' = queuedEarly + 1
        BY <2>4
      <3>2. queuedEarly + (c - 1) <= queued /\ queuedEarly + 1 + (c - 1) <= queued
        BY <2>6
      <3>3. QED
        BY <2>4, <2>7, <3>1, <3>2
    <2>9. QED
      BY <2>8 DEF EarlyCounted
  <1>3. CASE ~\E r \in Requests : HandlerCounts(r) \/ HandlerCountsEarly(r)
    <2>1. UNCHANGED <<queued, queuedEarly>>
      <3>1. CASE WaitReturned
        BY <3>1 DEF WaitReturned, countVars
      <3>2. CASE ~WaitReturned
        BY <1>3, <3>2 DEF Next, ControlThread, Prepare, PrepareFails, FinishStart,
           StartInitial, InitialStarted, PollAcceptFailure, PopRequest, QueueDrained, RefuseRequest,
           StartProgram, Rollback, CountRollback, RefuseRolledBack, ControlWaits, AnswerStarted,
           CountHandled, CheckIdle, Collect, SetShuttingDown, SwapQueue, TurnAway, AllTurnedAway,
           StopPipe, ReleaseJobs, Handler, HandlerChecks, HandlerDrops, Enqueue, HandlerTurnsAway,
           HandlerWakes, AcceptLoop, AcceptFails, AcceptWakes, Kernel, vars, ctlVars, countVars,
           ControlUnchanged
      <3>3. QED
        BY <3>1, <3>2
    <2>2. UNCHANGED handler \/ \E r \in Requests :
                  handler[r] # "countEarly" /\ \E pc \in HandlerPc \ {"countEarly"} :
                      handler' = [handler EXCEPT ![r] = pc]
      <3>1. CASE WaitReturned
        BY <3>1 DEF WaitReturned, requestVars
      <3>2. CASE ~WaitReturned
        BY <1>3, <3>2 DEF Next, ControlThread, Prepare, PrepareFails, FinishStart,
           StartInitial, InitialStarted, PollAcceptFailure, PopRequest, QueueDrained, RefuseRequest,
           StartProgram, Rollback, CountRollback, RefuseRolledBack, ControlWaits, AnswerStarted,
           CountHandled, CheckIdle, Collect, SetShuttingDown, SwapQueue, TurnAway, AllTurnedAway,
           StopPipe, ReleaseJobs, Handler, HandlerChecks, HandlerDrops, Enqueue, HandlerTurnsAway,
           HandlerWakes, AcceptLoop, AcceptFails, AcceptWakes, Kernel, vars, ctlVars, requestVars,
           ControlUnchanged, HandlerPc
      <3>3. QED
        BY <3>1, <3>2
    <2>3. CountingEarly' = CountingEarly
      BY <2>2 DEF CountingEarly, TypeOK
    <2>4. QED
      BY <2>1, <2>3 DEF EarlyCounted
  <1>4. QED
    BY <1>1, <1>2, <1>3

LEMMA CounterInit == Init => CounterInv
  <1> SUFFICES ASSUME Init PROVE CounterInv
    OBVIOUS
  <1>1. terminated = {} /\ StartedRequests = {} /\ CountingEarly = {}
    BY OneAnswer DEF Init, InitSet, StartedRequests, CountingEarly, Answers
  <1>2. Cardinality(terminated) = 0 /\ Cardinality(StartedRequests) = 0 /\ Cardinality(CountingEarly) = 0
    BY <1>1, FS_EmptySet
  <1>3. QED
    BY <1>2, RequestInit DEF Init, CounterInv, RollbackCounted, HandledCounted, EarlyCounted

\* The state query reports what happened: every terminated program is counted before the
\* refusal of its request, every started request once, after its answer, and no request is
\* counted as early before it was counted at all (ProcessRequest(), Enqueue()).
THEOREM CountersExact == Spec => []CountersAreExact
  <1>1. CounterInv /\ [Next]_vars => CounterInv'
    <2>1. SUFFICES ASSUME CounterInv, [Next]_vars PROVE CounterInv'
      OBVIOUS
    <2>2. RequestInv /\ RequestInv'
      BY <2>1, RequestStep DEF CounterInv
    <2>3. RollbackCounted' /\ HandledCounted' /\ EarlyCounted'
      BY <2>1, <2>2, RollbackCountedStep, HandledCountedStep, EarlyCountedStep DEF CounterInv
    <2>4. QED
      BY <2>2, <2>3 DEF CounterInv
  <1>2. CounterInv => CountersAreExact
    BY CountedAreFinite
    DEF CounterInv, RequestInv, RollbackCounted, HandledCounted, EarlyCounted, CountersAreExact,
        StartedRequests, TypeOK
  <1>3. QED
    BY <1>1, <1>2, CounterInit, PTL DEF Spec
-----------------------------------------------------------------------------
(* The requests as the other launchers see them: StartService.             *)

Unasked(r) == handler[r] = "new" \/ (handler[r] = "returned" /\ requestId[r] = 0)

LEMMA Meanings ==
    /\ Meaning("started") = "started"
    /\ Meaning("shuttingDown") = "closed"
    /\ \A a \in {"refused", "busy", "startFailed"} : Meaning(a) = "failed"
  BY DEF Meaning

LEMMA HeadOfOne == \A a \in Answers : <<a>> # << >> /\ Head(<<a>>) = a
  OBVIOUS

\* A request which is not answered yet is new, waiting or in work.
LEMMA Unanswered ==
    ASSUME NEW r \in Requests, answers[r] = << >>
    PROVE  /\ current = r => StatusOf(r) = "working"
           /\ current # r /\ Unasked(r) => StatusOf(r) = "new"
           /\ current # r /\ ~Unasked(r) => StatusOf(r) = "waiting"
  BY DEF StatusOf, Unasked

\* A request looks the same while its answer, its handler and the control thread stay.
LEMMA SameStatus ==
    ASSUME NEW r \in Requests, answers'[r] = answers[r],
           answers[r] # << >> \/ ((current' = r <=> current = r) /\ (Unasked(r)' <=> Unasked(r)))
    PROVE  StatusOf(r)' = StatusOf(r)
  BY DEF StatusOf, Unasked

\* The first answer to a request decides what its launcher sees from then on.
LEMMA AnswerMoves ==
    ASSUME TypeOK, NEW r \in Requests, NEW a \in Answers, Answer(r, a), answers[r] = << >>,
           UNCHANGED requestId, \A q \in Requests \ {r} : handler'[q] = handler[q],
           \A q \in Requests \ {r} : current' = q <=> current = q
    PROVE  /\ StatusOf(r)' = Meaning(a)
           /\ \A q \in Requests \ {r} : StatusOf(q)' = StatusOf(q)
  <1>1. answers'[r] = <<a>> /\ \A q \in Requests \ {r} : answers'[q] = answers[q]
    BY FirstAnswer
  <1>2. StatusOf(r)' = Meaning(a)
    BY <1>1, HeadOfOne DEF StatusOf
  <1>3. ASSUME NEW q \in Requests \ {r} PROVE StatusOf(q)' = StatusOf(q)
    BY <1>1, <1>3, SameStatus DEF Unasked
  <1>4. QED
    BY <1>2, <1>3

\* Nothing a launcher sees changes while no request is answered, taken or asked.
LEMMA SameService ==
    ASSUME \A r \in Requests : StatusOf(r)' = StatusOf(r), UNCHANGED shuttingDown
    PROVE  UNCHANGED Service!serviceVars
  BY DEF Service!serviceVars

LEMMA MoveOf ==
    ASSUME NEW r \in Requests, NEW from, NEW to, StatusOf(r) \in from, StatusOf(r)' = to,
           \A q \in Requests \ {r} : StatusOf(q)' = StatusOf(q), UNCHANGED shuttingDown
    PROVE  Service!Move(r, from, to) /\ UNCHANGED ~shuttingDown
  BY DEF Service!Move

\* The handler asks for its request, refuses it or turns it away.
LEMMA ServiceHandler ==
    ASSUME RequestInv, NEW r \in Requests, Handler(r)
    PROVE  [Service!Next]_(Service!serviceVars)
  <1> USE DEF RequestInv
  <1>1. UNCHANGED <<current, control, shuttingDown>>
    BY DEF Handler, HandlerChecks, HandlerDrops, Enqueue, HandlerTurnsAway, HandlerWakes, HandlerCounts,
       HandlerCountsEarly, ctlVars, workVars, runVars
  <1>2. \A q \in Requests \ {r} : handler'[q] = handler[q] /\ requestId'[q] = requestId[q]
    BY DEF Handler, HandlerChecks, HandlerDrops, Enqueue, HandlerTurnsAway, HandlerWakes, HandlerCounts,
       HandlerCountsEarly, ctlVars, requestVars, TypeOK
  <1>3. CASE HandlerChecks(r)
    <2>1. answers[r] = << >> /\ handler[r] = "new" /\ UNCHANGED requestId
      BY <1>3 DEF HandlerChecks, Places, Place
    <2>2. current # r
      <3>1. requestId[r] = 0
        BY <2>1 DEF Places, Place
      <3>2. ~Accepted(r)
        BY <3>1 DEF Accepted
      <3>3. ~(current = r /\ control # "count") /\ ~(current = r /\ control = "count")
        BY <3>2 DEF Places, Place, Waiting
      <3>4. QED
        BY <3>3
    <2>3. StatusOf(r) = "new"
      BY <2>1, <2>2, Unanswered DEF Unasked
    <2>4. CASE Answer(r, "refused")
      <3>1. StatusOf(r)' = "failed" /\ \A q \in Requests \ {r} : StatusOf(q)' = StatusOf(q)
        BY <1>1, <1>2, <2>1, <2>4, AnswerMoves, Meanings DEF Answers
      <3>2. Service!Refuse(r)
        BY <1>1, <2>3, <3>1, MoveOf DEF Service!Refuse
      <3>3. QED
        BY <3>2 DEF Service!Next
    <2>5. CASE UNCHANGED answers /\ handler' = [handler EXCEPT ![r] = "enqueue"]
      <3>1. answers'[r] = << >> /\ current' # r /\ handler'[r] = "enqueue"
        BY <1>1, <2>1, <2>2, <2>5 DEF TypeOK
      <3>2. StatusOf(r)' = "waiting"
        BY <3>1 DEF StatusOf
      <3>3. \A q \in Requests \ {r} : StatusOf(q)' = StatusOf(q)
        BY <1>1, <1>2, <2>1, <2>5, SameStatus DEF Unasked
      <3>4. Service!Ask(r)
        BY <1>1, <2>3, <3>2, <3>3, MoveOf DEF Service!Ask
      <3>5. QED
        BY <3>4 DEF Service!Next
    <2>6. QED
      BY <1>3, <2>4, <2>5 DEF HandlerChecks
  <1>4. CASE HandlerTurnsAway(r)
    <2>1. answers[r] = << >> /\ requestId[r] # 0 /\ handler[r] \in {"sayShutdown", "sayBusy"}
          /\ UNCHANGED requestId
      BY <1>4 DEF HandlerTurnsAway, Places, Place
    <2>2. current # r
      <3>1. ~Accepted(r)
        BY <2>1 DEF Accepted
      <3>2. ~(current = r /\ control # "count") /\ ~(current = r /\ control = "count")
        BY <3>1 DEF Places, Place, Waiting
      <3>3. QED
        BY <3>2
    <2>3. StatusOf(r) = "waiting"
      BY <2>1, <2>2, Unanswered DEF Unasked
    <2>4. CASE handler[r] = "sayBusy"
      <3>1. Answer(r, "busy")
        BY <1>4, <2>4 DEF HandlerTurnsAway
      <3>2. StatusOf(r)' = "failed" /\ \A q \in Requests \ {r} : StatusOf(q)' = StatusOf(q)
        BY <1>1, <1>2, <2>1, <3>1, AnswerMoves, Meanings DEF Answers
      <3>3. Service!Refuse(r)
        BY <1>1, <2>3, <3>2, MoveOf DEF Service!Refuse
      <3>4. QED
        BY <3>3 DEF Service!Next
    <2>5. CASE handler[r] = "sayShutdown"
      <3>1. Answer(r, "shuttingDown") /\ shuttingDown
        BY <1>4, <2>5 DEF HandlerTurnsAway, Places, Place
      <3>2. StatusOf(r)' = "closed" /\ \A q \in Requests \ {r} : StatusOf(q)' = StatusOf(q)
        BY <1>1, <1>2, <2>1, <3>1, AnswerMoves, Meanings DEF Answers
      <3>3. Service!TurnAway(r)
        BY <1>1, <2>3, <3>1, <3>2, MoveOf DEF Service!TurnAway
      <3>4. QED
        BY <3>3 DEF Service!Next
    <2>6. QED
      BY <2>1, <2>4, <2>5
  <1>5. CASE HandlerDrops(r) \/ Enqueue(r) \/ HandlerWakes(r) \/ HandlerCounts(r) \/ HandlerCountsEarly(r)
    <2>1. UNCHANGED answers
      BY <1>5 DEF HandlerDrops, Enqueue, HandlerWakes, HandlerCounts, HandlerCountsEarly, ctlVars,
         requestVars
    <2>2. Unasked(r)' <=> Unasked(r)
      <3>1. CASE HandlerDrops(r)
        BY <3>1 DEF HandlerDrops, Unasked, TypeOK, Places, Place
      <3>2. CASE Enqueue(r)
        BY <3>2 DEF Enqueue, Unasked, TypeOK
      <3>3. CASE HandlerWakes(r)
        BY <3>3 DEF HandlerWakes, Unasked, ctlVars, requestVars
      <3>4. CASE HandlerCounts(r)
        BY <3>4 DEF HandlerCounts, Unasked, TypeOK, Places, Place
      <3>5. CASE HandlerCountsEarly(r)
        BY <3>5 DEF HandlerCountsEarly, Unasked, TypeOK, Places, Place
      <3>6. QED
        BY <1>5, <3>1, <3>2, <3>3, <3>4, <3>5
    <2>3. \A q \in Requests : StatusOf(q)' = StatusOf(q)
      BY <1>1, <1>2, <2>1, <2>2, SameStatus DEF Unasked
    <2>4. QED
      BY <1>1, <2>3, SameService
  <1>6. QED
    BY <1>3, <1>4, <1>5 DEF Handler

LEMMA NoneWorking ==
    ASSUME current = NoRequest, NEW r \in Requests
    PROVE  StatusOf(r) # "working"
  <1>1. \A a : Meaning(a) # "working"
    BY DEF Meaning
  <1>2. QED
    BY <1>1, ControlAssumption DEF StatusOf

\* The control thread begins, finishes and refuses requests, closes and turns away.
LEMMA ServiceControl ==
    ASSUME RequestInv,
           \/ PopRequest \/ AnswerStarted \/ CountHandled \/ RefuseRequest \/ RefuseRolledBack
           \/ SetShuttingDown \/ TurnAway
    PROVE  [Service!Next]_(Service!serviceVars)
  <1> USE DEF RequestInv
  <1>1. CASE PopRequest
    <2>1. PICK r \in Requests : r = Head(queue) /\ Holds(queue, r)
      BY <1>1, TailHolds DEF PopRequest, TypeOK
    <2>2. answers[r] = << >> /\ Accepted(r)
      BY <2>1 DEF Places, Place, Waiting
    <2>3. UNCHANGED <<answers, handler, requestId, shuttingDown>> /\ current' = r
          /\ current = NoRequest /\ ~shuttingDown
      BY <1>1, <2>1 DEF PopRequest, ControlUnchanged, requestVars, runVars, Shape, Busy, Ending
    <2>4. ~Unasked(r) /\ current # r
      BY <2>2, <2>3, ControlAssumption DEF Accepted, Unasked, Places, Place
    <2>5. StatusOf(r) = "waiting"
      BY <2>2, <2>4, Unanswered
    <2>6. StatusOf(r)' = "working"
      BY <2>2, <2>3 DEF StatusOf
    <2>7. \A q \in Requests \ {r} : StatusOf(q)' = StatusOf(q)
      BY <2>3, SameStatus, ControlAssumption DEF Unasked
    <2>8. Service!Begin(r)
      BY <2>3, <2>5, <2>6, <2>7, MoveOf, NoneWorking DEF Service!Begin
    <2>9. QED
      BY <2>8 DEF Service!Next
  <1>2. CASE AnswerStarted \/ RefuseRequest \/ RefuseRolledBack
    <2>1. PICK r \in Requests : r = current /\ answers[r] = << >>
      BY <1>2, InWork DEF AnswerStarted, RefuseRequest, RefuseRolledBack, Busy
    <2>2. UNCHANGED <<handler, requestId, shuttingDown>> /\ current' \in {r, NoRequest} /\ ~shuttingDown
      BY <1>2, <2>1 DEF AnswerStarted, RefuseRequest, RefuseRolledBack, workVars, runVars, Shape, Ending
    <2>3. StatusOf(r) = "working"
      BY <2>1, Unanswered
    <2>4. \A q \in Requests \ {r} : current' = q <=> current = q
      BY <2>1, <2>2, ControlAssumption
    <2>5. CASE AnswerStarted
      <3>1. Answer(r, "started")
        BY <2>1, <2>5 DEF AnswerStarted
      <3>2. StatusOf(r)' = "started" /\ \A q \in Requests \ {r} : StatusOf(q)' = StatusOf(q)
        BY <2>1, <2>2, <2>4, <3>1, AnswerMoves, Meanings DEF Answers
      <3>3. Service!Finish(r)
        BY <2>2, <2>3, <3>2, MoveOf DEF Service!Finish
      <3>4. QED
        BY <3>3 DEF Service!Next
    <2>6. CASE RefuseRequest \/ RefuseRolledBack
      <3>1. PICK a \in {"refused", "startFailed"} : Answer(r, a)
        BY <2>1, <2>6 DEF RefuseRequest, RefuseRolledBack
      <3>2. StatusOf(r)' = "failed" /\ \A q \in Requests \ {r} : StatusOf(q)' = StatusOf(q)
        BY <2>1, <2>2, <2>4, <3>1, AnswerMoves, Meanings DEF Answers
      <3>3. Service!Refuse(r)
        BY <2>2, <2>3, <3>2, MoveOf DEF Service!Refuse
      <3>4. QED
        BY <3>3 DEF Service!Next
    <2>7. QED
      BY <1>2, <2>5, <2>6
  <1>3. CASE CountHandled
    <2>1. PICK r \in Requests : r = current /\ answers[r] # << >>
      BY <1>3, InWork, OneAnswer DEF CountHandled, Busy, Places, Place, Answers, Shape
    <2>2. UNCHANGED <<answers, handler, requestId, shuttingDown>> /\ current' = NoRequest
      BY <1>3 DEF CountHandled, requestVars, runVars
    <2>3. \A q \in Requests : StatusOf(q)' = StatusOf(q)
      BY <2>1, <2>2, SameStatus, ControlAssumption DEF Unasked
    <2>4. QED
      BY <2>2, <2>3, SameService
  <1>4. CASE SetShuttingDown
    <2>1. UNCHANGED <<answers, handler, requestId, current>> /\ shuttingDown' /\ current = NoRequest
      BY <1>4 DEF SetShuttingDown, requestVars, workVars, Shape, Busy
    <2>2. \A q \in Requests : StatusOf(q)' = StatusOf(q)
      BY <2>1, SameStatus DEF Unasked
    <2>3. (~shuttingDown)' = FALSE
      BY <2>1
    <2>4. Service!Close
      BY <2>1, <2>2, <2>3, NoneWorking DEF Service!Close
    <2>5. QED
      BY <2>4 DEF Service!Next
  <1>5. CASE TurnAway
    <2>1. PICK r \in Requests : r = Head(swapped) /\ Holds(swapped, r)
      BY <1>5, TailHolds DEF TurnAway, TypeOK
    <2>2. answers[r] = << >> /\ Accepted(r)
      BY <2>1 DEF Places, Place, Waiting
    <2>3. UNCHANGED <<handler, requestId, shuttingDown, current>> /\ current = NoRequest /\ shuttingDown
          /\ Answer(r, "shuttingDown")
      BY <1>5, <2>1 DEF TurnAway, requestVars, workVars, runVars, Shape, Busy, Ending
    <2>4. ~Unasked(r) /\ current # r
      BY <2>2, <2>3, ControlAssumption DEF Accepted, Unasked, Places, Place
    <2>5. StatusOf(r) = "waiting"
      BY <2>2, <2>4, Unanswered
    <2>6. StatusOf(r)' = "closed" /\ \A q \in Requests \ {r} : StatusOf(q)' = StatusOf(q)
      BY <2>2, <2>3, AnswerMoves, Meanings DEF Answers
    <2>7. Service!TurnAway(r)
      BY <2>3, <2>5, <2>6, MoveOf DEF Service!TurnAway
    <2>8. QED
      BY <2>7 DEF Service!Next
  <1>6. QED
    BY <1>1, <1>2, <1>3, <1>4, <1>5

\* The queue, the wakeups, the rollback and the shutdown of the control layer serve requests
\* one at a time and as a whole, with one final answer each, and nothing is started once the
\* sandbox closes (docs/Launcher.md, "Two instances of one sandbox").
THEOREM ServesOneAtATime == Spec => ImplementsStartService
  <1>1. Init => Service!Init
    <2> SUFFICES ASSUME Init PROVE Service!Init
      OBVIOUS
    <2>1. \A r \in Requests : answers[r] = << >> /\ current # r /\ Unasked(r)
      BY ControlAssumption DEF Init, Unasked
    <2>2. \A r \in Requests : StatusOf(r) = "new"
      BY <2>1, Unanswered
    <2>3. QED
      BY <2>2 DEF Service!Init, Init
  <1>2. RequestInv /\ [Next]_vars => [Service!Next]_(Service!serviceVars)
    <2> SUFFICES ASSUME RequestInv, [Next]_vars PROVE [Service!Next]_(Service!serviceVars)
      OBVIOUS
    <2>1. CASE \E r \in Requests : Handler(r)
      BY <2>1, ServiceHandler
    <2>2. CASE PopRequest \/ AnswerStarted \/ CountHandled \/ RefuseRequest \/ RefuseRolledBack
               \/ SetShuttingDown \/ TurnAway
      BY <2>2, ServiceControl
    <2>3. CASE ~(\/ \E r \in Requests : Handler(r)
                 \/ PopRequest \/ AnswerStarted \/ CountHandled \/ RefuseRequest \/ RefuseRolledBack
                 \/ SetShuttingDown \/ TurnAway)
      <3>1. UNCHANGED <<answers, handler, requestId, current, shuttingDown>>
        <4>1. CASE WaitReturned
          BY <4>1 DEF WaitReturned, requestVars, workVars
        <4>2. CASE ~WaitReturned
          BY <2>3, <4>2 DEF Next, ControlThread, Prepare, PrepareFails, FinishStart, StartInitial,
             InitialStarted, PollAcceptFailure, QueueDrained, StartProgram, Rollback, CountRollback,
             ControlWaits, CheckIdle, Collect, SwapQueue, AllTurnedAway, StopPipe, ReleaseJobs,
             AcceptLoop, AcceptFails, AcceptWakes, Kernel, vars, ctlVars, requestVars, workVars, runVars,
             ControlUnchanged
        <4>3. QED
          BY <4>1, <4>2
      <3>2. \A r \in Requests : StatusOf(r)' = StatusOf(r)
        BY <3>1, SameStatus DEF Unasked
      <3>3. QED
        BY <3>1, <3>2, SameService
    <2>4. QED
      BY <2>1, <2>2, <2>3
  <1>3. QED
    BY <1>1, <1>2, RequestInvariant, PTL DEF Spec, ImplementsStartService, Service!Spec

-----------------------------------------------------------------------------
(* The state query.                                                        *)

\* The terminated programs of the requests which were answered before the query began.
OfKnown == {j \in terminated : OwnerOf[j] \in known}

\* What TerminateRequest() returned is not counted yet, and belongs to the request in work.
KilledIsOwn ==
    control = "countRollback" => killed = Cardinality({j \in terminated : OwnerOf[j] = current})

KnownAnswered ==
    /\ known \subseteq Requests
    /\ \A r \in known : answers[r] # << >>

CounterRead ==
    query \in {"programs", "answered"} =>
        Cardinality(OfKnown) <= seen.rolledBack /\ seen.rolledBack <= rolledBack

ProgramsRead ==
    query = "answered" =>
        /\ OfKnown \subseteq seen.terminated
        /\ seen.rolledBack <= Cardinality(seen.terminated)

QueryInv == CounterInv /\ TypeOKQuery /\ KilledIsOwn /\ KnownAnswered /\ CounterRead /\ ProgramsRead
-----------------------------------------------------------------------------
LEMMA QueryTypes == TypeOKQuery /\ TypeOK /\ [NextQuery]_stateVars => TypeOKQuery'
  <1> SUFFICES ASSUME TypeOKQuery, TypeOK, [NextQuery]_stateVars PROVE TypeOKQuery'
    OBVIOUS
  <1>1. CASE QueryArrives
    BY <1>1 DEF QueryArrives, TypeOKQuery
  <1>2. CASE FillCounters
    <2>1. {queued, queuedEarly, handled, rolledBack} \subseteq Nat
      BY DEF TypeOK
    <2>2. QED
      BY <1>2, <2>1 DEF FillCounters, ReadCounter, TypeOKQuery
  <1>3. CASE Snapshot
    <2>1. Entries \cap reported \subseteq Jobs /\ terminated \subseteq Jobs
      BY DEF TypeOK, TypeOKSet
    <2>2. QED
      BY <1>3, <2>1 DEF Snapshot, TypeOKQuery
  <1>4. CASE UNCHANGED queryVars
    BY <1>4 DEF queryVars, TypeOKQuery
  <1>5. QED
    BY <1>1, <1>2, <1>3, <1>4 DEF NextQuery, stateVars

\* The run goes on below a query, and a query changes nothing of it.
LEMMA QueryStep == [NextQuery]_stateVars => [Next]_vars
  BY DEF NextQuery, stateVars, QueryArrives, FillCounters, ReadCounter, Snapshot

LEMMA CounterStep == CounterInv /\ [Next]_vars => CounterInv'
  BY RequestStep, RollbackCountedStep, HandledCountedStep, EarlyCountedStep DEF CounterInv

LEMMA FiniteKnown ==
    ASSUME TypeOK, NEW S \in SUBSET terminated
    PROVE  IsFiniteSet(S) /\ Cardinality(S) \in Nat /\ Cardinality(S) <= Cardinality(terminated)
  <1>1. IsFiniteSet(terminated) /\ IsFiniteSet(S)
    BY CountedAreFinite, FS_Subset
  <1>2. QED
    BY <1>1, FS_CardinalityType, FS_Subset

\* A rollback terminates programs of the request in work, and keeps what it terminated.
LEMMA TerminatedStep ==
    ASSUME CounterInv, [Next]_vars
    PROVE  /\ ~Rollback => UNCHANGED terminated
           /\ Rollback => \E ended \in SUBSET {j \in Jobs : OwnerOf[j] = current} :
                /\ terminated' = terminated \cup ended
                /\ killed' = Cardinality(ended)
  <1> USE DEF CounterInv, RequestInv
  <1>1. CASE Rollback
    <2>1. PICK r \in Requests : r = current /\ requestId[r] # 0
      BY <1>1, InWork DEF Rollback, Busy, Accepted
    <2>2. {j \in Entries : OwnerOf[j] # Initial /\ IdOf(j) = requestId[current]} = {j \in Entries : OwnerOf[j] = r}
      BY <2>1, DoomedAreOwn
    <2>3. PICK ended \in SUBSET {j \in Entries : OwnerOf[j] = r} :
              terminated' = terminated \cup ended /\ killed' = Cardinality(ended)
      BY <1>1, <2>2 DEF Rollback, TerminateRequest
    <2>4. QED
      BY <1>1, <2>1, <2>3 DEF Entries
  <1>2. CASE ~Rollback
    BY <1>2 DEF Next, ControlThread, Prepare, PrepareFails, FinishStart, AskIsEmpty, AdoptJob,
       StartInitial, CreateJob, CreateJobFails, CreateJobFailsLate, InitialStarted, PollAcceptFailure,
       PopRequest, QueueDrained, WaitAllCalled, RefuseRequest, StartProgram, AnswerStarted,
       CountHandled, CountRollback, RefuseRolledBack, ControlWaits, WaitStep, WaitCheck, WaitTakesWake,
       WaitClearsWoken, WaitTakesJoined, WaitTakesReport, WaitTimeout, WaitExpires, WaitGoesOn,
       WaitFails, WaitReturned, CheckIdle, Collect, SetShuttingDown, SwapQueue, TurnAway,
       AllTurnedAway, StopPipe, ReleaseJobs, Handler, HandlerChecks, HandlerDrops, Enqueue,
       HandlerTurnsAway, HandlerWakes, WakeExchange, WakePost, HandlerCounts, HandlerCountsEarly,
       AcceptLoop, AcceptFails, AcceptWakes, Kernel, ProcessesEnd, vars, setVars, jobVars
  <1>3. QED
    BY <1>1, <1>2

LEMMA KilledStep ==
    ASSUME CounterInv, KilledIsOwn, [Next]_vars
    PROVE  KilledIsOwn'
  <1> USE DEF CounterInv, RequestInv
  <1>1. CASE Rollback
    <2>1. PICK r \in Requests : r = current /\ answers[r] = << >>
      BY <1>1, InWork DEF Rollback, Busy
    <2>2. PICK ended \in SUBSET {j \in Jobs : OwnerOf[j] = r} :
              terminated' = terminated \cup ended /\ killed' = Cardinality(ended)
      BY <1>1, <2>1, TerminatedStep
    <2>3. \A j \in terminated : OwnerOf[j] # r
      BY <1>1, <2>1, OneAnswer DEF Rollback, Whole, RollbackIsOwn, Answers
    <2>4. current' = r
      BY <1>1, <2>1 DEF Rollback
    <2>5. {j \in terminated' : OwnerOf[j] = current'} = ended
      BY <2>2, <2>3, <2>4
    <2>6. QED
      BY <2>2, <2>5 DEF KilledIsOwn
  <1>2. CASE ~Rollback
    <2>1. UNCHANGED terminated
      BY <1>2, TerminatedStep
    <2>2. control' # "countRollback" \/ UNCHANGED <<control, current, killed>>
      <3>1. CASE WaitReturned
        BY <3>1 DEF WaitReturned
      <3>2. CASE ~WaitReturned
        BY <1>2, <3>2 DEF Next, ControlThread, Prepare, PrepareFails, FinishStart, StartInitial,
           InitialStarted, PollAcceptFailure, PopRequest, QueueDrained, RefuseRequest, StartProgram,
           AnswerStarted, CountHandled, CountRollback, RefuseRolledBack, ControlWaits, CheckIdle,
           Collect, SetShuttingDown, SwapQueue, TurnAway, AllTurnedAway, StopPipe, ReleaseJobs, Handler,
           HandlerChecks, HandlerDrops, Enqueue, HandlerTurnsAway, HandlerWakes, HandlerCounts,
           HandlerCountsEarly, AcceptLoop, AcceptFails, AcceptWakes, Kernel, vars, ctlVars, workVars
      <3>3. QED
        BY <3>1, <3>2
    <2>3. QED
      BY <2>1, <2>2 DEF KilledIsOwn
  <1>3. QED
    BY <1>1, <1>2

\* An answer is never taken back.
LEMMA AnsweredStays ==
    ASSUME CounterInv, [Next]_vars, NEW r \in Requests, answers[r] # << >>
    PROVE  answers'[r] # << >>
  <1> USE DEF CounterInv, RequestInv
  <1>1. ASSUME NEW q \in Requests, NEW a \in Answers, answers[q] = << >>, Answer(q, a)
        PROVE  answers'[r] # << >>
    BY <1>1, FirstAnswer
  <1>2. CASE AnswerStarted
    BY <1>1, <1>2, AnswerStep DEF AnswerStarted, Answer, Answers, Shape
  <1>3. QED
    BY <1>1, <1>2, AnswerStep

LEMMA KnownStep ==
    ASSUME CounterInv, TypeOKQuery, KnownAnswered, [NextQuery]_stateVars
    PROVE  KnownAnswered'
  <1>1. UNCHANGED known \/ (QueryArrives /\ UNCHANGED answers)
    BY DEF NextQuery, stateVars, queryVars, QueryArrives, FillCounters, ReadCounter, Snapshot, vars,
       ctlVars,
       requestVars
  <1>2. CASE UNCHANGED known
    BY <1>2, QueryStep, AnsweredStays DEF KnownAnswered
  <1>3. CASE QueryArrives /\ UNCHANGED answers
    BY <1>3 DEF QueryArrives, KnownAnswered
  <1>4. QED
    BY <1>1, <1>2, <1>3

\* The rollback of a request which was answered is over.
LEMMA OfKnownStays ==
    ASSUME CounterInv, KnownAnswered, [Next]_vars, UNCHANGED known
    PROVE  OfKnown' = OfKnown
  <1> USE DEF CounterInv, RequestInv
  <1>1. CASE ~Rollback
    BY <1>1, TerminatedStep DEF OfKnown
  <1>2. CASE Rollback
    <2>1. PICK r \in Requests : r = current /\ answers[r] = << >>
      BY <1>2, InWork DEF Rollback, Busy
    <2>2. PICK ended \in SUBSET {j \in Jobs : OwnerOf[j] = r} : terminated' = terminated \cup ended
      BY <1>2, <2>1, TerminatedStep
    <2>3. r \notin known
      BY <2>1 DEF KnownAnswered
    <2>4. QED
      BY <2>2, <2>3 DEF OfKnown
  <1>3. QED
    BY <1>1, <1>2

\* Every rollback of an answered request is counted.
LEMMA KnownCounted ==
    ASSUME CounterInv, KilledIsOwn, KnownAnswered
    PROVE  Cardinality(OfKnown) <= rolledBack
  <1> USE DEF CounterInv, RequestInv
  <1>1. OfKnown \subseteq terminated
    BY DEF OfKnown
  <1>2. CASE control # "countRollback"
    <2>1. killed = 0
      BY <1>2 DEF Shape
    <2>2. QED
      BY <1>1, <2>1, FiniteKnown DEF RollbackCounted, TypeOK
  <1>3. CASE control = "countRollback"
    <2> DEFINE own == {j \in terminated : OwnerOf[j] = current}
    <2>1. answers[current] = << >>
      BY <1>3, InWork DEF Busy
    <2>2. OfKnown \cap own = {}
      BY <2>1 DEF OfKnown, KnownAnswered
    <2>3. IsFiniteSet(OfKnown) /\ IsFiniteSet(own) /\ Cardinality(OfKnown) \in Nat /\ Cardinality(own) \in Nat
      BY <1>1, FiniteKnown
    <2>4. OfKnown \cup own \subseteq terminated
      BY <1>1
    <2>5. Cardinality(OfKnown \cup own) \in Nat /\ Cardinality(OfKnown \cup own) <= Cardinality(terminated)
      BY <2>4, FiniteKnown
    <2>6. Cardinality(OfKnown \cup own) = Cardinality(OfKnown) + Cardinality(own) - Cardinality(OfKnown \cap own)
      BY <2>3, FS_Union
    <2>7. Cardinality(OfKnown \cap own) = 0
      BY <2>2, FS_EmptySet
    <2>8. killed = Cardinality(own)
      BY <1>3 DEF KilledIsOwn
    <2>9. rolledBack \in Nat /\ rolledBack + Cardinality(own) = Cardinality(terminated)
          /\ Cardinality(terminated) \in Nat
      BY <2>8, CountedAreFinite DEF RollbackCounted, TypeOK
    <2> HIDE DEF own
    <2>10. QED
      BY <2>3, <2>5, <2>6, <2>7, <2>9
  <1>4. QED
    BY <1>2, <1>3

LEMMA QueryInvStep == QueryInv /\ [NextQuery]_stateVars => QueryInv'
  <1> SUFFICES ASSUME QueryInv, [NextQuery]_stateVars PROVE QueryInv'
    OBVIOUS
  <1> USE DEF QueryInv
  <1>1. [Next]_vars /\ CounterInv' /\ TypeOKQuery' /\ TypeOK
    BY QueryStep, CounterStep, QueryTypes DEF CounterInv, RequestInv
  <1>2. KilledIsOwn' /\ KnownAnswered'
    BY <1>1, KilledStep, KnownStep
  <1>3. UNCHANGED known => OfKnown' = OfKnown
    BY <1>1, OfKnownStays
  <1>4. rolledBack' >= rolledBack /\ rolledBack \in Nat /\ rolledBack' \in Nat
    <2>1. rolledBack' = rolledBack \/ rolledBack' = rolledBack + killed
      <3>1. CASE WaitReturned
        BY <3>1 DEF WaitReturned, countVars
      <3>2. CASE ~WaitReturned
        BY <1>1, <3>2 DEF Next, ControlThread, Prepare, PrepareFails, FinishStart, StartInitial,
           InitialStarted, PollAcceptFailure, PopRequest, QueueDrained, RefuseRequest, StartProgram,
           AnswerStarted, CountHandled, Rollback, CountRollback, RefuseRolledBack, ControlWaits, CheckIdle,
           Collect, SetShuttingDown, SwapQueue, TurnAway, AllTurnedAway, StopPipe, ReleaseJobs, Handler,
           HandlerChecks, HandlerDrops, Enqueue, HandlerTurnsAway, HandlerWakes, HandlerCounts,
           HandlerCountsEarly, AcceptLoop, AcceptFails, AcceptWakes, Kernel, vars, ctlVars, countVars,
           ControlUnchanged
      <3>3. QED
        BY <3>1, <3>2
    <2>2. QED
      BY <1>1, <2>1 DEF TypeOK
  <1>5. Cardinality(OfKnown) <= rolledBack
    BY KnownCounted
  <1>6. CASE Snapshot
    <2>1. UNCHANGED <<known, terminated, rolledBack>> /\ query = "programs" /\ query' = "answered"
          /\ seen'.rolledBack = seen.rolledBack /\ seen'.terminated = terminated
      BY <1>6 DEF Snapshot, TypeOKQuery, vars, ctlVars, countVars, setVars, jobVars
    <2>2. rolledBack <= Cardinality(terminated) /\ Cardinality(terminated) \in Nat
      BY <1>1, CountedAreFinite DEF CounterInv, RollbackCounted, TypeOK
    <2>3. CounterRead'
      BY <1>3, <2>1 DEF CounterRead
    <2>4. OfKnown \subseteq terminated
      BY DEF OfKnown
    <2>5. seen.rolledBack \in Nat
      BY DEF TypeOKQuery
    <2>6. ProgramsRead'
      BY <1>3, <1>4, <2>1, <2>2, <2>4, <2>5 DEF ProgramsRead, CounterRead
    <2>7. QED
      BY <1>1, <1>2, <2>3, <2>6
  <1>7. CASE FillCounters
    <2>1. UNCHANGED <<known, rolledBack>> /\ query' # "answered"
      BY <1>7 DEF FillCounters, ReadCounter, vars, ctlVars, countVars
    <2>2. query' = "programs" => seen'.rolledBack = rolledBack
      BY <1>7 DEF FillCounters, ReadCounter, TypeOKQuery
    <2>3. QED
      BY <1>1, <1>2, <1>3, <1>4, <1>5, <2>1, <2>2 DEF CounterRead, ProgramsRead
  <1>8. CASE QueryArrives
    <2>1. query' = "queued"
      BY <1>8 DEF QueryArrives
    <2>2. QED
      BY <1>1, <1>2, <2>1 DEF CounterRead, ProgramsRead
  <1>9. CASE UNCHANGED queryVars
    <2>1. UNCHANGED <<query, seen, known>>
      BY <1>9 DEF queryVars
    <2>2. seen.rolledBack \in Nat
      BY DEF TypeOKQuery
    <2>3. CounterRead'
      BY <1>3, <1>4, <2>1, <2>2 DEF CounterRead
    <2>4. ProgramsRead'
      BY <1>3, <2>1 DEF ProgramsRead
    <2>5. QED
      BY <1>1, <1>2, <2>3, <2>4
  <1>10. QED
    BY <1>6, <1>7, <1>8, <1>9 DEF NextQuery, stateVars

LEMMA QueryInvInit == Init /\ InitQuery => QueryInv
  <1> SUFFICES ASSUME Init, InitQuery PROVE QueryInv
    OBVIOUS
  <1>1. CounterInv
    BY CounterInit
  <1>2. TypeOKQuery
    BY DEF InitQuery, TypeOKQuery
  <1>3. QED
    BY <1>1, <1>2 DEF QueryInv, Init, InitQuery, KilledIsOwn, KnownAnswered, CounterRead, ProgramsRead

\* "The rollback runs before the client of the refused request receives its answer, so the
\* count is complete when that client leaves" (docs/Launcher.md): a query which begins after
\* the answer counts and names every program the rollback terminated, and its list carries
\* every rollback its counter names, whatever happens between its reads (FillRunState()).
THEOREM RollbacksReported == SpecQuery => []RollbackIsReported
  <1>1. QueryInv => RollbackIsReported
    BY DEF QueryInv, CounterRead, ProgramsRead, OfKnown, RollbackIsReported
  <1>2. QED
    BY <1>1, QueryInvInit, QueryInvStep, PTL DEF SpecQuery

\* A run which is asked for its state does what a run does which is not asked: what is proved
\* of the control layer holds beside a query as well (FillRunState() only reads).
THEOREM QueryOnlyReads == SpecQuery => Spec
  BY QueryStep, PTL DEF SpecQuery, Spec
=============================================================================
