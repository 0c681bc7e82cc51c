----------------------- MODULE SelfExtension_proofs -----------------------
(***************************************************************************)
(* What the self-extension gate guarantees for every number of names,      *)
(* sources, agents and operators, every table of verdicts and every set of *)
(* faults: TypeOK and GateInv are inductive, and the safety of             *)
(* tools/enabled, its write-once rule and the refinement of ActiveTools    *)
(* follow from them.                                                       *)
(***************************************************************************)
EXTENDS SelfExtension, TLAPS

(* The helpers that move an agent or an operator keep its record's type. *)
LEMMA GotoType ==
  ASSUME ag \in [Agents -> AgentRecords], NEW a \in Agents,
         NEW pc \in AgentSteps \cup {"down", "idle"}, Goto(a, pc)
  PROVE  ag' \in [Agents -> AgentRecords]
  BY DEF Goto, AgentRecords

(* Answering an agent keeps its record's type. *)
LEMMA AnswerType ==
  ASSUME ag \in [Agents -> AgentRecords], NEW a \in Agents,
         NEW reply \in {"none", "ok", "refused", "error"}, Answer(a, reply)
  PROVE  ag' \in [Agents -> AgentRecords]
  BY DEF Answer, AgentRecords

(* An operator's next step keeps its record's type. *)
LEMMA ProceedType ==
  ASSUME op \in [Operators -> OperatorRecords], NEW o \in Operators,
         NEW pc \in OperatorSteps, Proceed(o, pc)
  PROVE  op' \in [Operators -> OperatorRecords]
  BY DEF Proceed, OperatorRecords

(* Leaving activate keeps the operator's record type. *)
LEMMA ExitType ==
  ASSUME op \in [Operators -> OperatorRecords], NEW o \in Operators,
         NEW code \in ExitCodes, Exit(o, code)
  PROVE  op' \in [Operators -> OperatorRecords]
  BY DEF Exit, OperatorRecords

(* Writing a record, or failing to, leaves a trail of records. *)
LEMMA AuditsType ==
  ASSUME trail \subseteq Records, NEW e \in Events, NEW n \in Names, NEW s \in Sources,
         Audits(e, n, s)
  PROVE  trail' \subseteq Records
  BY DEF Audits, Rec, Records

(* The initial state is well typed. *)
LEMMA TypeInit == Init => TypeOK
<1> SUFFICES ASSUME Init PROVE TypeOK
  OBVIOUS
<1> PICK n \in Names :
       /\ ag = [a \in Agents |-> AgentAt("down", n, Torn, FALSE, "none")]
       /\ op = [o \in Operators |-> OperatorAt("idle", n, Torn, FALSE, NotExited)]
  BY DEF Init
<1>1. AgentAt("down", n, Torn, FALSE, "none") \in AgentRecords
  BY SourcesAssumption DEF AgentAt, AgentRecords
<1>2. OperatorAt("idle", n, Torn, FALSE, NotExited) \in OperatorRecords
  BY SourcesAssumption DEF OperatorAt, OperatorRecords, ExitCodes
<1> QED
  BY <1>1, <1>2 DEF Init, TypeOK

(* What a process remembers is of the right kind. *)
LEMMA Fields ==
  ASSUME TypeOK
  PROVE  /\ \A a \in Agents : ag[a].name \in Names /\ ag[a].src \in Sources
         /\ \A o \in Operators : op[o].name \in Names /\ op[o].src \in Sources
  BY DEF TypeOK, AgentRecords, OperatorRecords

(* Every step of an agent, an operator or a tamperer keeps the types. *)
LEMMA TypeStep == TypeOK /\ [Next]_vars => TypeOK'
<1> SUFFICES ASSUME TypeOK, [Next]_vars PROVE TypeOK'
  OBVIOUS
<1>f. /\ \A a \in Agents : ag[a].name \in Names /\ ag[a].src \in Sources
      /\ \A o \in Operators : op[o].name \in Names /\ op[o].src \in Sources
  BY Fields
<1> USE DEF TypeOK
<1>u. CASE UNCHANGED vars
  BY <1>u DEF vars
<1>1. ASSUME NEW a \in Agents, StartAgent(a) PROVE TypeOK'
  BY <1>1, <1>f, GotoType DEF StartAgent
<1>2. ASSUME NEW a \in Agents, NEW n \in Names, NEW s \in Sources, BeginPropose(a, n, s)
      PROVE TypeOK'
  <2>1. ag' \in [Agents -> AgentRecords]
    BY <1>2 DEF BeginPropose, AgentAt, AgentRecords, AgentSteps
  <2> QED
    BY <2>1, <1>2 DEF BeginPropose
<1>3. ASSUME NEW a \in Agents, LookEnabled(a) PROVE TypeOK'
  BY <1>3, <1>f, GotoType, AnswerType DEF LookEnabled, AgentSteps
<1>4. ASSUME NEW a \in Agents, LookStaged(a) PROVE TypeOK'
  BY <1>4, <1>f, GotoType, AnswerType DEF LookStaged, AgentSteps
<1>5. ASSUME NEW a \in Agents, CreateStaged(a) PROVE TypeOK'
  <2>1. ag' \in [Agents -> AgentRecords]
    BY <1>5, AnswerType DEF CreateStaged, AgentRecords, AgentSteps
  <2> QED
    BY <2>1, <1>5, <1>f, SourcesAssumption DEF CreateStaged
<1>6. ASSUME NEW a \in Agents, WriteStaged(a) PROVE TypeOK'
  BY <1>6, <1>f, GotoType, AnswerType DEF WriteStaged, AgentSteps
<1>7. ASSUME NEW a \in Agents, RecordProposal(a) PROVE TypeOK'
  BY <1>7, <1>f, GotoType, AuditsType DEF RecordProposal, AgentSteps, Events
<1>8. ASSUME NEW a \in Agents, Reply(a) PROVE TypeOK'
  BY <1>8, <1>f, AnswerType DEF Reply
<1>9. ASSUME NEW a \in Agents, StopAgent(a) PROVE TypeOK'
  <2>1. ag' \in [Agents -> AgentRecords]
    BY <1>9, <1>f, SourcesAssumption DEF StopAgent, AgentAt, AgentRecords
  <2> QED
    BY <2>1, <1>9 DEF StopAgent
<1>10. ASSUME NEW o \in Operators, NEW n \in Names, Invoke(o, n) PROVE TypeOK'
  <2>a. OperatorAt("load", n, Torn, FALSE, NotExited) \in OperatorRecords
    BY SourcesAssumption DEF OperatorAt, OperatorRecords, OperatorSteps, ExitCodes
  <2>b. OperatorAt("idle", n, Torn, FALSE, Aborted) \in OperatorRecords
    BY SourcesAssumption DEF OperatorAt, OperatorRecords, ExitCodes
  <2>1. op' \in [Operators -> OperatorRecords]
    BY <2>a, <2>b, <1>10 DEF Invoke
  <2> QED
    BY <2>1, <1>10 DEF Invoke
<1>11. ASSUME NEW o \in Operators, LoadStaged(o) PROVE TypeOK'
  BY <1>11, <1>f, ProceedType, ExitType DEF LoadStaged, OperatorSteps, ExitCodes
<1>12. ASSUME NEW o \in Operators, ReadAndCheck(o) PROVE TypeOK'
  <2> DEFINE n == op[o].name
  <2>0. PICK b \in Contents(staged[n]) :
          \/ Exit(o, Uncaught)
          \/ Exit(o, Aborted)
          \/ b \in Sources /\ op' = [op EXCEPT ![o] = OperatorAt("idle", n, b, FALSE, Rejected)]
          \/ b \in Sources /\ op' = [op EXCEPT ![o] = OperatorAt("confirm", n, b, FALSE, NotExited)]
    BY <1>12 DEF ReadAndCheck
  <2>1. op' \in [Operators -> OperatorRecords]
    <3>1. CASE Exit(o, Uncaught) \/ Exit(o, Aborted)
      BY <3>1, ExitType DEF ExitCodes
    <3>2. CASE b \in Sources
      <4>1. /\ OperatorAt("idle", n, b, FALSE, Rejected) \in OperatorRecords
            /\ OperatorAt("confirm", n, b, FALSE, NotExited) \in OperatorRecords
        BY <3>2, <1>f DEF OperatorAt, OperatorRecords, OperatorSteps, ExitCodes
      <4> HIDE DEF n
      <4> QED
        BY <2>0, <3>1, <4>1
    <3> QED
      BY <2>0, <3>1, <3>2
  <2>2. trail' \subseteq Records
    BY <1>12, <1>f, AuditsType DEF ReadAndCheck, Events
  <2> QED
    BY <2>1, <2>2, <1>12 DEF ReadAndCheck
<1>13. ASSUME NEW o \in Operators, Confirm(o) PROVE TypeOK'
  BY <1>13, <1>f, ProceedType DEF Confirm, OperatorSteps
<1>14. ASSUME NEW o \in Operators, Decline(o) PROVE TypeOK'
  BY <1>14, <1>f, ExitType, AuditsType DEF Decline, ExitCodes, Events
<1>15. ASSUME NEW o \in Operators, Interrupt(o) PROVE TypeOK'
  BY <1>15, <1>f, ExitType DEF Interrupt, ExitCodes
<1>16. ASSUME NEW o \in Operators, Recheck(o) PROVE TypeOK'
  <2>1. op' \in [Operators -> OperatorRecords]
    BY <1>16, ExitType, ProceedType DEF Recheck, OperatorSteps, ExitCodes
  <2>2. trail' \subseteq Records
    BY <1>16, <1>f, AuditsType DEF Recheck, Events
  <2> QED
    BY <2>1, <2>2, <1>16 DEF Recheck
<1>17. ASSUME NEW o \in Operators, CreateEnabled(o) PROVE TypeOK'
  <2>1. op' \in [Operators -> OperatorRecords]
    BY <1>17, ExitType DEF CreateEnabled, OperatorRecords, OperatorSteps, ExitCodes
  <2> QED
    BY <2>1, <1>17, <1>f, SourcesAssumption DEF CreateEnabled
<1>18. ASSUME NEW o \in Operators, WriteEnabled(o) PROVE TypeOK'
  BY <1>18, <1>f, ProceedType, ExitType DEF WriteEnabled, OperatorSteps, ExitCodes
<1>19. ASSUME NEW o \in Operators, UnlinkStaged(o) PROVE TypeOK'
  BY <1>19, <1>f, ProceedType, ExitType DEF UnlinkStaged, OperatorSteps, ExitCodes
<1>20. ASSUME NEW o \in Operators, RecordActivation(o) PROVE TypeOK'
  BY <1>20, <1>f, ProceedType, AuditsType DEF RecordActivation, OperatorSteps, Events
<1>21. ASSUME NEW o \in Operators, ExitActivate(o) PROVE TypeOK'
  BY <1>21, <1>f, ExitType DEF ExitActivate, ExitCodes
<1>22. ASSUME NEW o \in Operators, KillOperator(o) PROVE TypeOK'
  <2>1. op' \in [Operators -> OperatorRecords]
    BY <1>22, <1>f, SourcesAssumption
    DEF KillOperator, OperatorAt, OperatorRecords, ExitCodes
  <2> QED
    BY <2>1, <1>22 DEF KillOperator
<1>23. ASSUME NEW n \in Names, Tamper(n) PROVE TypeOK'
  BY <1>23 DEF Tamper
<1> QED
  BY <1>u, <1>1, <1>2, <1>3, <1>4, <1>5, <1>6, <1>7, <1>8, <1>9, <1>10, <1>11, <1>12, <1>13, <1>14,
     <1>15, <1>16, <1>17, <1>18, <1>19, <1>20, <1>21, <1>22, <1>23
  DEF Next, AgentStep, OperatorStep

(* Every variable keeps to its kind of value, under any faults and for any *)
(* numbers of names, sources, agents and operators.                        *)
THEOREM TypeCorrect == Spec => []TypeOK
  BY TypeInit, TypeStep, PTL DEF Spec

-----------------------------------------------------------------------------
(* A step that leaves the operators and tools/enabled alone, and records   *)
(* no activation, keeps the invariant.                                     *)
LEMMA QuietStep ==
  ASSUME TypeOK, GateInv, UNCHANGED <<enabled, approved, installed, op>>,
         \A n \in Names, s \in Sources :
           Rec("tool_activated", n, s) \in trail' => Rec("tool_activated", n, s) \in trail
  PROVE  GateInv'
  BY DEF GateInv, InstalledIsApproved, OneInstaller, ReviewedBeforeInstall,
         ActivatedRecordIsTrue

(* Recording another event adds no activation. *)
LEMMA OtherRecord ==
  ASSUME NEW e \in Events \ {"tool_activated"}, NEW n, NEW s, Audits(e, n, s)
  PROVE  \A m \in Names, t \in Sources :
           Rec("tool_activated", m, t) \in trail' => Rec("tool_activated", m, t) \in trail
  BY DEF Audits, Rec, Events

(* What leaving the process does to the operators. *)
LEMMA ExitEffect ==
  ASSUME TypeOK, NEW o \in Operators, NEW code, Exit(o, code)
  PROVE  /\ op'[o].pc = "idle"
         /\ \A p \in Operators \ {o} : op'[p] = op[p]
  BY DEF TypeOK, Exit, OperatorRecords

(* What the next step does to the operators. *)
LEMMA ProceedEffect ==
  ASSUME TypeOK, NEW o \in Operators, NEW pc, Proceed(o, pc)
  PROVE  /\ op'[o].pc = pc /\ op'[o].name = op[o].name /\ op'[o].src = op[o].src
         /\ \A p \in Operators \ {o} : op'[p] = op[p]
  BY DEF TypeOK, Proceed, OperatorRecords

(* What setting an operator's whole record does to the operators. *)
LEMMA SetEffect ==
  ASSUME TypeOK, NEW o \in Operators, NEW r, op' = [op EXCEPT ![o] = r]
  PROVE  /\ op'[o] = r
         /\ \A p \in Operators \ {o} : op'[p] = op[p]
  BY DEF TypeOK

(* The invariant also survives an operator that moves on alone, outside    *)
(* tools/enabled.                                                          *)
LEMMA LocalStep ==
  ASSUME TypeOK, GateInv, UNCHANGED <<enabled, approved, installed>>,
         NEW o \in Operators,
         \A p \in Operators \ {o} : op'[p] = op[p],
         \/ op'[o].pc \in {"idle", "load", "read"}
         \/ op'[o].pc = "confirm" /\ Verdict[op'[o].name][op'[o].src] = "clean"
         \/ /\ \/ op[o].pc = "recheck" /\ op'[o].pc = "create"
               \/ op[o].pc = "unlink" /\ op'[o].pc = "record"
               \/ op[o].pc = "record" /\ op'[o].pc = "exit"
            /\ op'[o].name = op[o].name
            /\ op'[o].src = op[o].src,
         \A n \in Names, s \in Sources :
           Rec("tool_activated", n, s) \in trail' =>
             Rec("tool_activated", n, s) \in trail \/ installed[n] = s
  PROVE  GateInv'
<1>1. InstalledIsApproved'
  BY DEF GateInv, InstalledIsApproved
<1>2. OneInstaller'
  BY DEF GateInv, OneInstaller, Installing
<1>3. ReviewedBeforeInstall'
  BY DEF GateInv, ReviewedBeforeInstall, Installing
<1>4. ActivatedRecordIsTrue'
  <2> SUFFICES ASSUME NEW n \in Names, NEW s \in Sources,
                      Rec("tool_activated", n, s) \in trail'
               PROVE  installed[n] = s /\ enabled[n] = s
    BY DEF ActivatedRecordIsTrue
  <2>1. installed[n] = s
    BY DEF GateInv, ActivatedRecordIsTrue
  <2> QED
    BY <2>1, SourcesAssumption DEF GateInv, InstalledIsApproved
<1> QED
  BY <1>1, <1>2, <1>3, <1>4 DEF GateInv

(* Nothing is approved, installed or under way at first. *)
LEMMA GateInit == Init => GateInv
<1> SUFFICES ASSUME Init PROVE GateInv
  OBVIOUS
<1>1. \A o \in Operators : op[o].pc = "idle"
  BY DEF Init, OperatorAt
<1> QED
  BY <1>1 DEF Init, GateInv, InstalledIsApproved, OneInstaller, ReviewedBeforeInstall,
              ActivatedRecordIsTrue, Installing

(* The invariant is inductive: every step of the gate keeps it. *)
LEMMA GateStep == TypeOK /\ GateInv /\ [Next]_vars => GateInv'
<1> SUFFICES ASSUME TypeOK, GateInv, [Next]_vars PROVE GateInv'
  OBVIOUS
<1>f. /\ \A a \in Agents : ag[a].name \in Names /\ ag[a].src \in Sources
      /\ \A o \in Operators : op[o].name \in Names /\ op[o].src \in Sources
  BY Fields
<1>u. CASE UNCHANGED vars
  BY <1>u, QuietStep DEF vars
<1>1. ASSUME NEW a \in Agents,
             StartAgent(a) \/ (\E n \in Names, s \in Sources : BeginPropose(a, n, s))
             \/ LookEnabled(a) \/ LookStaged(a) \/ CreateStaged(a) \/ WriteStaged(a)
             \/ Reply(a) \/ StopAgent(a)
      PROVE GateInv'
  <2>1. UNCHANGED <<enabled, approved, installed, op, trail>>
    BY <1>1 DEF StartAgent, BeginPropose, LookEnabled, LookStaged, CreateStaged, WriteStaged,
                Reply, StopAgent
  <2> QED
    BY <2>1, QuietStep
<1>2. ASSUME NEW a \in Agents, RecordProposal(a) PROVE GateInv'
  BY <1>2, QuietStep, OtherRecord DEF RecordProposal, Events
<1>3. ASSUME NEW n \in Names, Tamper(n) PROVE GateInv'
  BY <1>3, QuietStep DEF Tamper
<1>4. ASSUME NEW o \in Operators, NEW n \in Names, Invoke(o, n) PROVE GateInv'
  <2>1. op'[o].pc \in {"load", "idle"} /\ \A p \in Operators \ {o} : op'[p] = op[p]
    BY <1>4 DEF Invoke, OperatorAt, TypeOK
  <2> QED
    BY <1>4, <2>1, LocalStep DEF Invoke
<1>5. ASSUME NEW o \in Operators, LoadStaged(o) PROVE GateInv'
  BY <1>5, LocalStep, ProceedEffect, ExitEffect DEF LoadStaged
<1>6. ASSUME NEW o \in Operators, Interrupt(o) PROVE GateInv'
  BY <1>6, LocalStep, ExitEffect DEF Interrupt
<1>7. ASSUME NEW o \in Operators, KillOperator(o) PROVE GateInv'
  <2>1. op'[o].pc = "idle" /\ \A p \in Operators \ {o} : op'[p] = op[p]
    BY <1>7 DEF KillOperator, OperatorAt, TypeOK
  <2> QED
    BY <1>7, <2>1, LocalStep DEF KillOperator
<1>8. ASSUME NEW o \in Operators, ExitActivate(o) PROVE GateInv'
  BY <1>8, LocalStep, ExitEffect DEF ExitActivate
<1>9. ASSUME NEW o \in Operators, Decline(o) PROVE GateInv'
  BY <1>9, LocalStep, ExitEffect, OtherRecord DEF Decline, Events
<1>10. ASSUME NEW o \in Operators, Recheck(o) PROVE GateInv'
  BY <1>10, LocalStep, ProceedEffect, ExitEffect, OtherRecord DEF Recheck, Events
<1>11. ASSUME NEW o \in Operators, ReadAndCheck(o) PROVE GateInv'
  <2> DEFINE n == op[o].name
  <2>1. UNCHANGED <<enabled, approved, installed>>
    BY <1>11 DEF ReadAndCheck
  <2>2. CASE UNCHANGED trail /\ (Exit(o, Uncaught) \/ Exit(o, Aborted))
    BY <2>1, <2>2, LocalStep, ExitEffect
  <2>3. CASE \E b \in Sources :
               /\ Audits("tool_rejected", n, b)
               /\ op' = [op EXCEPT ![o] = OperatorAt("idle", n, b, FALSE, Rejected)]
    <3>1. op'[o].pc = "idle" /\ \A p \in Operators \ {o} : op'[p] = op[p]
      BY <2>3 DEF OperatorAt, TypeOK
    <3> QED
      BY <2>1, <2>3, <3>1, LocalStep, OtherRecord DEF Events
  <2>4. CASE \E b \in Sources :
               /\ Verdict[n][b] = "clean"
               /\ op' = [op EXCEPT ![o] = OperatorAt("confirm", n, b, FALSE, NotExited)]
               /\ UNCHANGED trail
    <3>1. PICK b \in Sources :
            /\ Verdict[n][b] = "clean"
            /\ op' = [op EXCEPT ![o] = OperatorAt("confirm", n, b, FALSE, NotExited)]
      BY <2>4
    <3>2. /\ op'[o] = OperatorAt("confirm", n, b, FALSE, NotExited)
          /\ \A p \in Operators \ {o} : op'[p] = op[p]
      BY <3>1, SetEffect
    <3>3. op'[o].pc = "confirm" /\ Verdict[op'[o].name][op'[o].src] = "clean"
      BY <3>1, <3>2 DEF OperatorAt
    <3> QED
      BY <2>1, <2>4, <3>2, <3>3, LocalStep
  <2> QED
    BY <1>11, <2>2, <2>3, <2>4 DEF ReadAndCheck
<1>12. ASSUME NEW o \in Operators, UnlinkStaged(o) PROVE GateInv'
  BY <1>12, LocalStep, ProceedEffect, ExitEffect DEF UnlinkStaged
<1>13. ASSUME NEW o \in Operators, RecordActivation(o) PROVE GateInv'
  <2>1. installed[op[o].name] = op[o].src
    BY <1>13 DEF RecordActivation, GateInv, ReviewedBeforeInstall, Installing
  <2>2. ASSUME NEW n \in Names, NEW s \in Sources, Rec("tool_activated", n, s) \in trail'
        PROVE  Rec("tool_activated", n, s) \in trail \/ installed[n] = s
    BY <2>1, <2>2, <1>13 DEF RecordActivation, Audits, Rec
  <2> QED
    BY <1>13, <2>2, LocalStep, ProceedEffect DEF RecordActivation
<1>14. ASSUME NEW o \in Operators, Confirm(o) PROVE GateInv'
  <2>1. /\ op'[o].pc = "recheck" /\ op'[o].name = op[o].name /\ op'[o].src = op[o].src
        /\ \A p \in Operators \ {o} : op'[p] = op[p]
    BY <1>14, ProceedEffect DEF Confirm
  <2>2. InstalledIsApproved'
    BY <1>14 DEF Confirm, GateInv, InstalledIsApproved
  <2>3. OneInstaller'
    BY <1>14, <2>1 DEF Confirm, GateInv, OneInstaller, Installing
  <2>4. ReviewedBeforeInstall'
    BY <1>14, <2>1 DEF Confirm, GateInv, ReviewedBeforeInstall, Installing
  <2>5. ActivatedRecordIsTrue'
    BY <1>14 DEF Confirm, GateInv, ActivatedRecordIsTrue
  <2> QED
    BY <2>2, <2>3, <2>4, <2>5 DEF GateInv
<1>15. ASSUME NEW o \in Operators, CreateEnabled(o) PROVE GateInv'
  <2> DEFINE n == op[o].name
  <2>1. CASE UNCHANGED enabled
    <3>1. op'[o].pc = "idle" /\ \A p \in Operators \ {o} : op'[p] = op[p]
      <4>1. ~(enabled[n] = NoFile /\ enabled' = [enabled EXCEPT ![n] = Torn])
        BY <2>1, <1>f, SourcesAssumption DEF TypeOK
      <4> QED
        BY <4>1, <1>15, ExitEffect DEF CreateEnabled
    <3> QED
      BY <2>1, <3>1, <1>15, LocalStep DEF CreateEnabled
  <2>2. CASE /\ enabled[n] = NoFile
             /\ enabled' = [enabled EXCEPT ![n] = Torn]
             /\ op' = [op EXCEPT ![o].pc = "write", ![o].made = TRUE]
    <3>1. /\ op'[o].pc = "write" /\ op'[o].name = n /\ op'[o].src = op[o].src
          /\ \A p \in Operators \ {o} : op'[p] = op[p]
      BY <2>2 DEF TypeOK, OperatorRecords
    <3>2. installed[n] = NoFile
      BY <2>2, <1>f DEF GateInv, InstalledIsApproved
    <3>3. /\ enabled'[n] # NoFile
          /\ \A m \in Names \ {n} : enabled'[m] = enabled[m]
      BY <2>2, <1>f, SourcesAssumption DEF TypeOK
    <3>4. UNCHANGED <<approved, installed, trail>> /\ op[o].pc = "create"
      BY <1>15 DEF CreateEnabled
    <3>5. InstalledIsApproved'
      BY <3>2, <3>3, <3>4 DEF GateInv, InstalledIsApproved
    <3>6. \A p \in Operators \ {o} : op[p].name = n => op[p].pc \notin Installing
      BY <2>2, <3>2, SourcesAssumption, <1>f DEF GateInv, ReviewedBeforeInstall, Installing
    <3>7. OneInstaller'
      BY <3>1, <3>6 DEF GateInv, OneInstaller
    <3>8. ReviewedBeforeInstall'
      BY <3>1, <3>2, <3>3, <3>4, <1>f DEF GateInv, ReviewedBeforeInstall, Installing
    <3>9. ActivatedRecordIsTrue'
      BY <3>2, <3>3, <3>4, SourcesAssumption DEF GateInv, ActivatedRecordIsTrue
    <3> QED
      BY <3>5, <3>7, <3>8, <3>9 DEF GateInv
  <2> QED
    BY <1>15, <2>1, <2>2 DEF CreateEnabled
<1>16. ASSUME NEW o \in Operators, WriteEnabled(o) PROVE GateInv'
  <2> DEFINE n == op[o].name
             s == op[o].src
  <2>1. CASE Exit(o, Uncaught) /\ UNCHANGED <<enabled, installed>>
    BY <2>1, <1>16, LocalStep, ExitEffect DEF WriteEnabled
  <2>2. CASE /\ enabled' = [enabled EXCEPT ![n] = s]
             /\ installed' = [installed EXCEPT ![n] = s]
             /\ Proceed(o, "unlink")
    <3>1. /\ op'[o].pc = "unlink" /\ op'[o].name = n /\ op'[o].src = s
          /\ \A p \in Operators \ {o} : op'[p] = op[p]
      BY <2>2, ProceedEffect
    <3>2. UNCHANGED <<approved, trail>> /\ op[o].pc = "write"
      BY <1>16 DEF WriteEnabled
    <3>3. installed[n] = NoFile /\ <<n, s>> \in approved /\ Verdict[n][s] = "clean"
      BY <3>2 DEF GateInv, ReviewedBeforeInstall, Installing
    <3>4. /\ enabled'[n] = s /\ installed'[n] = s
          /\ \A m \in Names \ {n} : enabled'[m] = enabled[m] /\ installed'[m] = installed[m]
      BY <2>2, <1>f DEF TypeOK
    <3>5. InstalledIsApproved'
      BY <3>2, <3>3, <3>4 DEF GateInv, InstalledIsApproved
    <3>6. \A p \in Operators \ {o} : op[p].name = n => op[p].pc \notin Installing
      BY <3>2 DEF GateInv, OneInstaller, Installing
    <3>7. OneInstaller'
      BY <3>1, <3>6 DEF GateInv, OneInstaller
    <3>8. ReviewedBeforeInstall'
      BY <3>1, <3>2, <3>3, <3>4, <3>6, <1>f DEF GateInv, ReviewedBeforeInstall, Installing
    <3>9. ActivatedRecordIsTrue'
      BY <3>2, <3>3, <3>4, SourcesAssumption DEF GateInv, ActivatedRecordIsTrue
    <3> QED
      BY <3>5, <3>7, <3>8, <3>9 DEF GateInv
  <2> QED
    BY <1>16, <2>1, <2>2 DEF WriteEnabled
<1> QED
  BY <1>u, <1>1, <1>2, <1>3, <1>4, <1>5, <1>6, <1>7, <1>8, <1>9, <1>10, <1>11, <1>12, <1>13, <1>14, <1>15, <1>16
  DEF Next, AgentStep, OperatorStep

(* Types and the invariant of the gate hold in every reachable state. *)
LEMMA Inductive == Spec => [](TypeOK /\ GateInv)
  BY TypeInit, TypeStep, GateInit, GateStep, PTL DEF Spec

(* Under any faults, whatever is installed was confirmed by a human under   *)
(* its name, passed the static check, and is still what the file holds.     *)
THEOREM InstallsOnlyTheApproved == Spec => []InstalledIsApproved
  BY Inductive, PTL DEF GateInv

(* However many activations of one name run, one at most installs.          *)
THEOREM ExclusiveInstall == Spec => []OneInstaller
  BY Inductive, PTL DEF GateInv

(* An activation record names what the enabled file holds, for good.        *)
THEOREM RecordsTellTheTruth == Spec => []ActivatedRecordIsTrue
  BY Inductive, PTL DEF GateInv

-----------------------------------------------------------------------------
(* The steps that can be seen from outside: a confirmation, the two steps   *)
(* that touch tools/enabled, and an activation record.                      *)
Unseen == UNCHANGED <<enabled, approved, installed>> /\ Announced' = Announced

(* A record of another event is not announced. *)
LEMMA OtherRecordUnseen ==
  ASSUME TypeOK, NEW e \in Events \ {"tool_activated"}, NEW n, NEW s, Audits(e, n, s)
  PROVE  Announced' = Announced
<1>1. {t \in trail' : t.event = "tool_activated"} = {t \in trail : t.event = "tool_activated"}
  BY DEF Audits, Rec, Events
<1> QED
  BY <1>1 DEF Announced

(* Only Confirm, WriteEnabled and RecordActivation change what the abstract *)
(* register shows.                                                          *)
LEMMA SeenSteps ==
  ASSUME TypeOK, [Next]_vars
  PROVE  \/ Unseen
         \/ \E o \in Operators : Confirm(o) \/ CreateEnabled(o) \/ WriteEnabled(o)
                                \/ RecordActivation(o)
<1>u. CASE UNCHANGED vars
  BY <1>u DEF vars, Unseen, Announced
<1>1. ASSUME NEW a \in Agents,
             StartAgent(a) \/ (\E n \in Names, s \in Sources : BeginPropose(a, n, s))
             \/ LookEnabled(a) \/ LookStaged(a) \/ CreateStaged(a) \/ WriteStaged(a)
             \/ Reply(a) \/ StopAgent(a)
      PROVE Unseen
  BY <1>1 DEF StartAgent, BeginPropose, LookEnabled, LookStaged, CreateStaged, WriteStaged,
              Reply, StopAgent, Unseen, Announced
<1>2. ASSUME NEW a \in Agents, RecordProposal(a) PROVE Unseen
  BY <1>2, OtherRecordUnseen DEF RecordProposal, Unseen, Events
<1>3. ASSUME NEW n \in Names, Tamper(n) PROVE Unseen
  BY <1>3 DEF Tamper, Unseen, Announced
<1>4. ASSUME NEW o \in Operators,
             (\E n \in Names : Invoke(o, n)) \/ LoadStaged(o) \/ Interrupt(o)
             \/ UnlinkStaged(o) \/ ExitActivate(o) \/ KillOperator(o)
      PROVE Unseen
  BY <1>4 DEF Invoke, LoadStaged, Interrupt, UnlinkStaged, ExitActivate, KillOperator,
              Unseen, Announced
<1>5. ASSUME NEW o \in Operators, Decline(o) PROVE Unseen
  BY <1>5, OtherRecordUnseen DEF Decline, Unseen, Events
<1>6. ASSUME NEW o \in Operators, Recheck(o) \/ ReadAndCheck(o) PROVE Unseen
  <2>1. UNCHANGED <<enabled, approved, installed>>
    BY <1>6 DEF Recheck, ReadAndCheck
  <2>2. \/ UNCHANGED trail
        \/ \E e \in Events \ {"tool_activated"}, n \in Names, s \in Sources : Audits(e, n, s)
    BY <1>6, Fields DEF Recheck, ReadAndCheck, Events
  <2>3. CASE UNCHANGED trail
    BY <2>1, <2>3 DEF Unseen, Announced
  <2> QED
    BY <2>1, <2>2, <2>3, OtherRecordUnseen DEF Unseen
<1> QED
  BY <1>u, <1>1, <1>2, <1>3, <1>4, <1>5, <1>6 DEF Next, AgentStep, OperatorStep

(* Under the invariant, a step writes to tools/enabled at most as an         *)
(* installer, and never to an installed file.                               *)
LEMMA WriteOnce == TypeOK /\ GateInv /\ [Next]_vars => WriteOnceStep
<1> SUFFICES ASSUME TypeOK, GateInv, [Next]_vars, NEW n \in Names, enabled'[n] # enabled[n]
             PROVE  /\ installed[n] = NoFile
                    /\ \E o \in Operators : /\ op[o].name = n
                                            /\ op[o].pc \in {"create", "write"}
                                            /\ op'[o].pc # op[o].pc
  BY DEF WriteOnceStep
<1>1. PICK o \in Operators : CreateEnabled(o) \/ WriteEnabled(o)
  BY SeenSteps DEF Unseen, Confirm, RecordActivation
<1>2. CASE CreateEnabled(o)
  <2>1. op[o].pc = "create" /\ op[o].name = n /\ enabled[n] = NoFile
    BY <1>2 DEF CreateEnabled, TypeOK
  <2>2. op'[o].pc # "create"
    BY <1>2, ExitEffect DEF CreateEnabled, TypeOK, OperatorRecords
  <2> QED
    BY <2>1, <2>2 DEF GateInv, InstalledIsApproved
<1>3. CASE WriteEnabled(o)
  <2>1. op[o].pc = "write" /\ op[o].name = n
    BY <1>3 DEF WriteEnabled, TypeOK
  <2>2. op'[o].pc # "write"
    BY <1>3, ExitEffect, ProceedEffect DEF WriteEnabled
  <2> QED
    BY <2>1, <2>2 DEF GateInv, ReviewedBeforeInstall
<1> QED
  BY <1>1, <1>2, <1>3

(* tools/enabled is written once per name, by an installer's own steps.     *)
THEOREM WrittenOnce == Spec => EnabledIsWriteOnce
  BY Inductive, WriteOnce, PTL DEF Spec, EnabledIsWriteOnce

-----------------------------------------------------------------------------
(* The initial states of the gate map to that of the register. *)
LEMMA RefineInit == Init => Abstract!Init
  BY DEF Init, Abstract!Init, Active, Announced

(* Every step of the gate is a step of the register or leaves it alone. *)
LEMMA RefineStep == TypeOK /\ GateInv /\ [Next]_vars => [Abstract!Next]_(Abstract!vars)
<1> SUFFICES ASSUME TypeOK, GateInv, [Next]_vars PROVE Abstract!Next \/ UNCHANGED Abstract!vars
  OBVIOUS
<1>f. \A o \in Operators : op[o].name \in Names /\ op[o].src \in Sources
  BY Fields
<1>1. CASE Unseen
  BY <1>1 DEF Unseen, Active, Abstract!vars
<1>2. ASSUME NEW o \in Operators, Confirm(o) PROVE Abstract!Next
  <2>1. Verdict[op[o].name][op[o].src] = "clean"
    BY <1>2 DEF Confirm, GateInv, ReviewedBeforeInstall
  <2>2. UNCHANGED <<Active, Announced>>
    BY <1>2 DEF Confirm, Active, Announced
  <2>3. Abstract!Approve(op[o].name, op[o].src)
    BY <1>2, <2>1, <2>2 DEF Confirm, Abstract!Approve
  <2> QED
    BY <2>3, <1>f DEF Abstract!Next
<1>3. ASSUME NEW o \in Operators, CreateEnabled(o) PROVE UNCHANGED Abstract!vars
  <2>1. UNCHANGED <<approved, installed, trail>>
    BY <1>3 DEF CreateEnabled
  <2>2. \A n \in Names : installed[n] # NoFile => enabled'[n] = enabled[n]
    BY <1>3, <1>f DEF CreateEnabled, GateInv, InstalledIsApproved, TypeOK
  <2> QED
    BY <2>1, <2>2 DEF Active, Announced, Abstract!vars
<1>4. ASSUME NEW o \in Operators, WriteEnabled(o)
      PROVE  Abstract!Next \/ UNCHANGED Abstract!vars
  <2> DEFINE n == op[o].name
             s == op[o].src
  <2>1. UNCHANGED <<approved, trail>>
    BY <1>4 DEF WriteEnabled
  <2>2. CASE UNCHANGED <<enabled, installed>>
    BY <2>1, <2>2 DEF Active, Announced, Abstract!vars
  <2>3. CASE /\ enabled' = [enabled EXCEPT ![n] = s]
             /\ installed' = [installed EXCEPT ![n] = s]
    <3>1. installed[n] = NoFile /\ <<n, s>> \in approved
      BY <1>4 DEF WriteEnabled, GateInv, ReviewedBeforeInstall, Installing
    <3>2. Active' = [Active EXCEPT ![n] = s]
      BY <2>3, <1>f, SourcesAssumption DEF Active, TypeOK
    <3>3. Abstract!Activate(n, s)
      BY <2>1, <3>1, <3>2, <1>f DEF Abstract!Activate, Active, Announced
    <3> QED
      BY <3>3, <1>f DEF Abstract!Next
  <2> QED
    BY <1>4, <2>2, <2>3 DEF WriteEnabled
<1>5. ASSUME NEW o \in Operators, RecordActivation(o)
      PROVE  Abstract!Next \/ UNCHANGED Abstract!vars
  <2> DEFINE n == op[o].name
             s == op[o].src
  <2>1. UNCHANGED <<approved, Active>>
    BY <1>5 DEF RecordActivation, Active
  <2>2. CASE UNCHANGED trail
    BY <2>1, <2>2 DEF Announced, Abstract!vars
  <2>3. CASE trail' = trail \cup {Rec("tool_activated", n, s)}
    <3>1. Announced' = Announced \cup {<<n, s>>}
      <4> DEFINE r == Rec("tool_activated", n, s)
      <4>1. {t \in trail' : t.event = "tool_activated"} =
              {t \in trail : t.event = "tool_activated"} \cup {r}
        BY <2>3 DEF Rec
      <4>2. r.name = n /\ r.src = s
        BY DEF Rec
      <4> HIDE DEF r, n, s
      <4> QED
        BY <4>1, <4>2 DEF Announced
    <3>2. Active[n] = s
      BY <1>5, <1>f, SourcesAssumption
      DEF RecordActivation, GateInv, ReviewedBeforeInstall, InstalledIsApproved, Installing, Active
    <3>3. Abstract!Announce(n, s)
      BY <2>1, <3>1, <3>2 DEF Abstract!Announce
    <3> QED
      BY <3>3, <1>f DEF Abstract!Next
  <2> QED
    BY <1>5, <2>2, <2>3 DEF RecordActivation, Audits
<1> QED
  BY <1>1, <1>2, <1>3, <1>4, <1>5, SeenSteps

(* The gate implements the write-once register of confirmed sources.        *)
THEOREM Refinement == Spec => ImplementsActiveTools
  BY Inductive, RefineInit, RefineStep, PTL DEF Spec, ImplementsActiveTools, Abstract!Spec
=============================================================================
