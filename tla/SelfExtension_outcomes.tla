----------------------- MODULE SelfExtension_outcomes -----------------------
(***************************************************************************)
(* What comes of a proposal, for every number of agents and operators and  *)
(* every table of verdicts: what they are told of it is true, and once it  *)
(* is on record it lasts until it is the installed tool.                   *)
(***************************************************************************)
EXTENDS SelfExtension_proofs

-----------------------------------------------------------------------------
(* Answers.  They are true while the disk and the audit log work; kills,   *)
(* interrupts and other writers of staging are allowed.  A reply or an     *)
(* exit code speaks of a past step, so AnswerInv carries for each process  *)
(* what its later answer will claim, and each step that somebody else      *)
(* takes has to leave it true.                                             *)

AgentTold(a) ==
  LET n == ag[a].name IN
  /\ ag[a].pc \in {"look_enabled", "look_staged", "create"} => ~ag[a].made
  /\ ag[a].pc \in AgentSteps => ag[a].reply = "none"
  /\ ag[a].pc = "reply" => Rec("tool_proposed", n, ag[a].src) \in trail
  /\ ag[a].reply = "ok" => Rec("tool_proposed", n, ag[a].src) \in trail
  /\ ag[a].reply = "refused" => ~ag[a].made
  /\ ag[a].reply = "error" => n \in Imported

OperatorTold(o) ==
  LET n == op[o].name
      s == op[o].src IN
  /\ op[o].pc \in {"load", "read", "confirm", "recheck", "create"} => ~op[o].made
  /\ op[o].pc = "exit" => Rec("tool_activated", n, s) \in trail
  /\ op[o].pc = "idle" =>
       /\ op[o].exit = Activated => installed[n] = s /\ Rec("tool_activated", n, s) \in trail
       /\ op[o].exit = Rejected => Rec("tool_rejected", n, s) \in trail
       /\ op[o].exit = Declined => Rec("tool_declined", n, s) \in trail
       /\ op[o].exit \in {Rejected, Declined, Aborted} => ~op[o].made
       /\ op[o].exit = Uncaught /\ op[o].made => installed[n] = s

AnswerInv == /\ \A a \in Agents : AgentTold(a)
             /\ \A o \in Operators : OperatorTold(o)

(* What lasts: records stay on the trail and tools installed. *)
Lasting == /\ trail \subseteq trail'
           /\ \A n \in Names : installed[n] # NoFile => installed'[n] = installed[n]

-----------------------------------------------------------------------------
(* One process moves *)

LEMMA AgentTurn ==
  ASSUME TypeOK, AnswerInv, Lasting, op' = op, NEW a \in Agents,
         \A b \in Agents \ {a} : ag'[b] = ag[b], AgentTold(a)'
  PROVE  AnswerInv'
<1>1. \A b \in Agents : AgentTold(b)'
  BY DEF AnswerInv, AgentTold, Lasting
<1>2. \A o \in Operators : op[o].name \in Names /\ op[o].src \in Sources
  BY Fields
<1>3. \A o \in Operators : OperatorTold(o)'
  BY <1>2, SourcesAssumption DEF AnswerInv, OperatorTold, Lasting
<1> QED
  BY <1>1, <1>3 DEF AnswerInv

LEMMA OperatorTurn ==
  ASSUME TypeOK, AnswerInv, Lasting, ag' = ag, NEW o \in Operators,
         \A p \in Operators \ {o} : op'[p] = op[p], OperatorTold(o)'
  PROVE  AnswerInv'
<1>1. \A b \in Agents : AgentTold(b)'
  BY DEF AnswerInv, AgentTold, Lasting
<1>2. \A p \in Operators : op[p].name \in Names /\ op[p].src \in Sources
  BY Fields
<1>3. \A p \in Operators : OperatorTold(p)'
  BY <1>2, SourcesAssumption DEF AnswerInv, OperatorTold, Lasting
<1> QED
  BY <1>1, <1>3 DEF AnswerInv

(* Nobody moves: a stutter, or somebody else at the staged file. *)
LEMMA NobodyMoves ==
  ASSUME AnswerInv, UNCHANGED <<ag, op, trail, installed>>
  PROVE  AnswerInv'
  BY DEF AnswerInv, AgentTold, OperatorTold

(* An agent goes on, or gets its answer. *)
LEMMA AgentGoes ==
  ASSUME TypeOK, NEW a \in Agents, NEW pc, Goto(a, pc)
  PROVE  /\ ag'[a].pc = pc /\ ag'[a].name = ag[a].name /\ ag'[a].src = ag[a].src
         /\ ag'[a].made = ag[a].made /\ ag'[a].reply = ag[a].reply
         /\ \A b \in Agents \ {a} : ag'[b] = ag[b]
  BY DEF TypeOK, Goto, AgentRecords

LEMMA AgentHears ==
  ASSUME TypeOK, NEW a \in Agents, NEW reply, Answer(a, reply)
  PROVE  /\ ag'[a].pc = "idle" /\ ag'[a].name = ag[a].name /\ ag'[a].src = ag[a].src
         /\ ag'[a].made = ag[a].made /\ ag'[a].reply = reply
         /\ \A b \in Agents \ {a} : ag'[b] = ag[b]
  BY DEF TypeOK, Answer, AgentRecords

(* An operator goes on, or the process exits. *)
LEMMA OperatorGoes ==
  ASSUME TypeOK, NEW o \in Operators, NEW pc, Proceed(o, pc)
  PROVE  /\ op'[o].pc = pc /\ op'[o].name = op[o].name /\ op'[o].src = op[o].src
         /\ op'[o].made = op[o].made
         /\ \A p \in Operators \ {o} : op'[p] = op[p]
  BY DEF TypeOK, Proceed, OperatorRecords

LEMMA OperatorHears ==
  ASSUME TypeOK, NEW o \in Operators, NEW code, Exit(o, code)
  PROVE  /\ op'[o].pc = "idle" /\ op'[o].name = op[o].name /\ op'[o].src = op[o].src
         /\ op'[o].made = op[o].made /\ op'[o].exit = code
         /\ \A p \in Operators \ {o} : op'[p] = op[p]
  BY DEF TypeOK, Exit, OperatorRecords

(* While the audit log works, a record is written. *)
LEMMA IsRecorded ==
  ASSUME "audit" \notin Faults, NEW e, NEW n, NEW s, Audits(e, n, s)
  PROVE  Rec(e, n, s) \in trail' /\ trail \subseteq trail'
  BY DEF Audits

(* The exit codes are different. *)
LEMMA CodesDiffer ==
  /\ Activated \notin {Uncaught, Rejected, Declined, Aborted, NotExited, Killed}
  /\ Uncaught \notin {Rejected, Declined, Aborted, NotExited, Killed}
  /\ Rejected \notin {Declined, Aborted, NotExited, Killed}
  /\ Declined \notin {Aborted, NotExited, Killed}
  /\ Aborted \notin {NotExited, Killed}
  BY DEF Activated, Uncaught, Rejected, Declined, Aborted, NotExited, Killed

-----------------------------------------------------------------------------
(* The steps of an agent *)

LEMMA AgentStepTold ==
  ASSUME "disk" \notin Faults, "audit" \notin Faults, TypeOK, AnswerInv,
         NEW a \in Agents,
         \/ StartAgent(a) \/ AgentStep(a) \/ StopAgent(a)
         \/ \E n \in Names, s \in Sources : BeginPropose(a, n, s)
  PROVE  AnswerInv'
<1>t. AgentTold(a)
  BY DEF AnswerInv
<1>1. CASE StartAgent(a)
  <2>1. AgentTold(a)' /\ \A b \in Agents \ {a} : ag'[b] = ag[b]
    BY <1>1, <1>t, AgentGoes DEF StartAgent, AgentTold, AgentSteps
  <2> QED
    BY <1>1, <2>1, AgentTurn DEF StartAgent, Lasting
<1>2. ASSUME NEW n \in Names, NEW s \in Sources, BeginPropose(a, n, s) PROVE AnswerInv'
  <2>1. PICK r \in {AgentAt("look_enabled", n, s, FALSE, "none"),
                    AgentAt("idle", n, s, FALSE, "refused")} : ag' = [ag EXCEPT ![a] = r]
    BY <1>2 DEF BeginPropose
  <2>2. ag'[a] = r /\ \A b \in Agents \ {a} : ag'[b] = ag[b]
    BY <2>1 DEF TypeOK
  <2>3. AgentTold(a)'
    BY <2>2 DEF AgentTold, AgentAt, AgentSteps
  <2> QED
    BY <1>2, <2>2, <2>3, AgentTurn DEF BeginPropose, Lasting
<1>3. CASE LookEnabled(a)
  <2>1. \/ Answer(a, "refused") \/ Goto(a, "look_staged")
    BY <1>3 DEF LookEnabled
  <2>2. AgentTold(a)' /\ \A b \in Agents \ {a} : ag'[b] = ag[b]
    BY <1>3, <1>t, <2>1, AgentGoes, AgentHears DEF LookEnabled, AgentTold, AgentSteps
  <2> QED
    BY <1>3, <2>2, AgentTurn DEF LookEnabled, Lasting
<1>4. CASE LookStaged(a)
  <2>1. \/ Answer(a, "refused") \/ Goto(a, "create")
    BY <1>4 DEF LookStaged
  <2>2. AgentTold(a)' /\ \A b \in Agents \ {a} : ag'[b] = ag[b]
    BY <1>4, <1>t, <2>1, AgentGoes, AgentHears DEF LookStaged, AgentTold, AgentSteps
  <2> QED
    BY <1>4, <2>2, AgentTurn DEF LookStaged, Lasting
<1>5. CASE CreateStaged(a)
  <2>1. CASE ag' = [ag EXCEPT ![a].pc = "write", ![a].made = TRUE]
    <3>1. /\ ag'[a].pc = "write" /\ ag'[a].reply = ag[a].reply
          /\ \A b \in Agents \ {a} : ag'[b] = ag[b]
      BY <2>1 DEF TypeOK, AgentRecords
    <3>2. AgentTold(a)'
      BY <1>5, <1>t, <3>1 DEF CreateStaged, AgentTold, AgentSteps
    <3> QED
      BY <1>5, <3>1, <3>2, AgentTurn DEF CreateStaged, Lasting
  <2>2. CASE Answer(a, "refused")
    <3>1. AgentTold(a)' /\ \A b \in Agents \ {a} : ag'[b] = ag[b]
      BY <1>5, <1>t, <2>2, AgentHears DEF CreateStaged, AgentTold, AgentSteps
    <3> QED
      BY <1>5, <3>1, AgentTurn DEF CreateStaged, Lasting
  <2> QED
    BY <1>5, <2>1, <2>2 DEF CreateStaged
<1>6. CASE WriteStaged(a)
  <2>1. Goto(a, "record")
    BY <1>6 DEF WriteStaged
  <2>2. AgentTold(a)' /\ \A b \in Agents \ {a} : ag'[b] = ag[b]
    BY <1>6, <1>t, <2>1, AgentGoes DEF WriteStaged, AgentTold, AgentSteps
  <2> QED
    BY <1>6, <2>2, AgentTurn DEF WriteStaged, Lasting
<1>7. CASE RecordProposal(a)
  <2>1. Goto(a, "reply") /\ ag[a].pc = "record" /\ installed' = installed /\ op' = op
    BY <1>7 DEF RecordProposal
  <2>2. Rec("tool_proposed", ag[a].name, ag[a].src) \in trail' /\ trail \subseteq trail'
    BY <1>7, IsRecorded DEF RecordProposal
  <2>3. AgentTold(a)' /\ \A b \in Agents \ {a} : ag'[b] = ag[b]
    BY <1>t, <2>1, <2>2, AgentGoes DEF AgentTold, AgentSteps
  <2> QED
    BY <2>1, <2>2, <2>3, AgentTurn DEF Lasting
<1>8. CASE Reply(a)
  <2>1. PICK reply \in {"error", "ok"} :
          Answer(a, reply) /\ (reply = "error" => ag[a].name \in Imported)
    BY <1>8 DEF Reply
  <2>2. AgentTold(a)' /\ \A b \in Agents \ {a} : ag'[b] = ag[b]
    BY <1>8, <1>t, <2>1, AgentHears DEF Reply, AgentTold, AgentSteps
  <2> QED
    BY <1>8, <2>2, AgentTurn DEF Reply, Lasting
<1>9. CASE StopAgent(a)
  <2>1. /\ ag'[a] = AgentAt("down", ag[a].name, Torn, FALSE, "none")
        /\ \A b \in Agents \ {a} : ag'[b] = ag[b]
    BY <1>9 DEF StopAgent, TypeOK
  <2>2. AgentTold(a)'
    BY <2>1 DEF AgentTold, AgentAt, AgentSteps
  <2> QED
    BY <1>9, <2>1, <2>2, AgentTurn DEF StopAgent, Lasting
<1> QED
  BY <1>1, <1>2, <1>3, <1>4, <1>5, <1>6, <1>7, <1>8, <1>9 DEF AgentStep

-----------------------------------------------------------------------------
(* The steps of an operator *)

(* An operator that goes on or exits, touching no installed tool.          *)
LEMMA OperatorMoves ==
  ASSUME TypeOK, AnswerInv, trail \subseteq trail', UNCHANGED <<ag, installed>>,
         NEW o \in Operators,
         \/ \E pc \in OperatorSteps : /\ Proceed(o, pc)
                                      /\ pc = "create" => ~op[o].made
                                      /\ pc \in {"load", "read", "confirm", "recheck"} => ~op[o].made
                                      /\ pc = "exit" => Rec("tool_activated", op[o].name, op[o].src) \in trail'
         \/ \E code \in {Uncaught, Declined, Aborted} :
              /\ Exit(o, code)
              /\ code = Declined => Rec("tool_declined", op[o].name, op[o].src) \in trail'
              /\ code \in {Declined, Aborted} => ~op[o].made
              /\ code = Uncaught /\ op[o].made => installed[op[o].name] = op[o].src
  PROVE  AnswerInv'
<1>1. CASE \E pc \in OperatorSteps : /\ Proceed(o, pc)
                                     /\ pc = "create" => ~op[o].made
                                     /\ pc \in {"load", "read", "confirm", "recheck"} => ~op[o].made
                                     /\ pc = "exit" => Rec("tool_activated", op[o].name, op[o].src) \in trail'
  <2>1. OperatorTold(o)' /\ \A p \in Operators \ {o} : op'[p] = op[p]
    BY <1>1, OperatorGoes DEF OperatorTold, OperatorSteps
  <2> QED
    BY <2>1, OperatorTurn DEF Lasting
<1>2. CASE \E code \in {Uncaught, Declined, Aborted} :
             /\ Exit(o, code)
             /\ code = Declined => Rec("tool_declined", op[o].name, op[o].src) \in trail'
             /\ code \in {Declined, Aborted} => ~op[o].made
             /\ code = Uncaught /\ op[o].made => installed[op[o].name] = op[o].src
  <2>1. OperatorTold(o)' /\ \A p \in Operators \ {o} : op'[p] = op[p]
    BY <1>2, OperatorHears, CodesDiffer DEF OperatorTold
  <2> QED
    BY <2>1, OperatorTurn DEF Lasting
<1> QED
  BY <1>1, <1>2

(* What an activation has recorded or created when it is cut short. *)
LEMMA OperatorSet ==
  ASSUME TypeOK, AnswerInv, trail \subseteq trail', UNCHANGED <<ag, installed>>,
         NEW o \in Operators, NEW r, op' = [op EXCEPT ![o] = r], OperatorTold(o)'
  PROVE  AnswerInv'
<1>1. \A p \in Operators \ {o} : op'[p] = op[p]
  BY DEF TypeOK
<1> QED
  BY <1>1, OperatorTurn DEF Lasting

LEMMA ReviewTold ==
  ASSUME "audit" \notin Faults, TypeOK, AnswerInv, NEW o \in Operators, ReadAndCheck(o)
  PROVE  AnswerInv'
<1> DEFINE n == op[o].name
<1>1. op[o].pc = "read" /\ ~op[o].made /\ UNCHANGED <<ag, installed>>
  BY DEF ReadAndCheck, AnswerInv, OperatorTold
<1>2. PICK b \in Contents(staged[n]) :
        \/ \E code \in {Uncaught, Aborted} : Exit(o, code) /\ UNCHANGED trail
        \/ /\ Audits("tool_rejected", n, b)
           /\ op' = [op EXCEPT ![o] = OperatorAt("idle", n, b, FALSE, Rejected)]
        \/ /\ op' = [op EXCEPT ![o] = OperatorAt("confirm", n, b, FALSE, NotExited)]
           /\ UNCHANGED trail
  BY DEF ReadAndCheck
<1>3. CASE \E code \in {Uncaught, Aborted} : Exit(o, code) /\ UNCHANGED trail
  BY <1>1, <1>3, OperatorMoves, CodesDiffer
<1>4. CASE /\ Audits("tool_rejected", n, b)
           /\ op' = [op EXCEPT ![o] = OperatorAt("idle", n, b, FALSE, Rejected)]
  <2>1. Rec("tool_rejected", n, b) \in trail' /\ trail \subseteq trail'
    BY <1>4, IsRecorded
  <2>2. op'[o] = OperatorAt("idle", n, b, FALSE, Rejected)
    BY <1>4 DEF TypeOK
  <2>3. OperatorTold(o)'
    BY <2>1, <2>2, CodesDiffer DEF OperatorTold, OperatorAt
  <2> QED
    BY <1>1, <1>4, <2>1, <2>3, OperatorSet
<1>5. CASE /\ op' = [op EXCEPT ![o] = OperatorAt("confirm", n, b, FALSE, NotExited)]
           /\ UNCHANGED trail
  <2>1. op'[o] = OperatorAt("confirm", n, b, FALSE, NotExited)
    BY <1>5 DEF TypeOK
  <2>2. OperatorTold(o)'
    BY <2>1 DEF OperatorTold, OperatorAt
  <2> QED
    BY <1>1, <1>5, <2>2, OperatorSet
<1> QED
  BY <1>2, <1>3, <1>4, <1>5

LEMMA OperatorStepTold ==
  ASSUME "disk" \notin Faults, "audit" \notin Faults, TypeOK, GateInv, AnswerInv,
         NEW o \in Operators,
         \/ OperatorStep(o) \/ Interrupt(o) \/ KillOperator(o)
         \/ \E n \in Names : Invoke(o, n)
  PROVE  AnswerInv'
<1>t. OperatorTold(o)
  BY DEF AnswerInv
<1>g. op[o].pc \in Installing \ {"write"} => installed[op[o].name] = op[o].src
  BY DEF GateInv, ReviewedBeforeInstall
<1>1. ASSUME NEW n \in Names, Invoke(o, n) PROVE AnswerInv'
  <2>1. PICK r \in {OperatorAt("load", n, Torn, FALSE, NotExited),
                    OperatorAt("idle", n, Torn, FALSE, Aborted)} : op' = [op EXCEPT ![o] = r]
    BY <1>1 DEF Invoke
  <2>2. op'[o] = r
    BY <2>1 DEF TypeOK
  <2>3. OperatorTold(o)'
    BY <2>2, CodesDiffer DEF OperatorTold, OperatorAt
  <2> QED
    BY <1>1, <2>1, <2>3, OperatorSet DEF Invoke
<1>2. CASE LoadStaged(o)
  BY <1>2, <1>t, OperatorMoves, CodesDiffer DEF LoadStaged, OperatorTold, OperatorSteps
<1>3. CASE ReadAndCheck(o)
  BY <1>3, ReviewTold
<1>4. CASE Confirm(o)
  BY <1>4, <1>t, OperatorMoves DEF Confirm, OperatorTold, OperatorSteps
<1>5. CASE Decline(o)
  <2>1. Rec("tool_declined", op[o].name, op[o].src) \in trail' /\ trail \subseteq trail'
    BY <1>5, IsRecorded DEF Decline
  <2> QED
    BY <1>5, <1>t, <2>1, OperatorMoves, CodesDiffer DEF Decline, OperatorTold
<1>6. CASE Interrupt(o)
  BY <1>6, <1>t, OperatorMoves, CodesDiffer DEF Interrupt, OperatorTold
<1>7. CASE Recheck(o)
  <2>1. trail \subseteq trail'
    BY <1>7, IsRecorded DEF Recheck
  <2>2. Exit(o, Uncaught) \/ Exit(o, Aborted) \/ Proceed(o, "create")
    BY <1>7 DEF Recheck
  <2>3. ~op[o].made /\ UNCHANGED <<ag, installed>>
    BY <1>7, <1>t DEF Recheck, OperatorTold
  <2> QED
    BY <2>1, <2>2, <2>3, OperatorMoves, CodesDiffer DEF OperatorSteps
<1>8. CASE CreateEnabled(o)
  <2>1. CASE op' = [op EXCEPT ![o].pc = "write", ![o].made = TRUE]
    <3>1. op'[o].pc = "write" /\ \A p \in Operators \ {o} : op'[p] = op[p]
      BY <2>1 DEF TypeOK, OperatorRecords
    <3>2. OperatorTold(o)'
      BY <3>1 DEF OperatorTold
    <3> QED
      BY <1>8, <3>1, <3>2, OperatorTurn DEF CreateEnabled, Lasting
  <2>2. CASE Exit(o, Aborted) \/ Exit(o, Uncaught)
    BY <1>8, <1>t, <2>2, OperatorMoves, CodesDiffer DEF CreateEnabled, OperatorTold
  <2> QED
    BY <1>8, <2>1, <2>2 DEF CreateEnabled
<1>9. CASE WriteEnabled(o)
  <2>1. /\ op[o].pc = "write" /\ Proceed(o, "unlink") /\ UNCHANGED <<trail, ag>>
        /\ installed' = [installed EXCEPT ![op[o].name] = op[o].src]
    BY <1>9 DEF WriteEnabled
  <2>2. installed[op[o].name] = NoFile
    BY <2>1 DEF GateInv, ReviewedBeforeInstall
  <2>3. Lasting
    BY <2>1, <2>2 DEF Lasting, TypeOK
  <2>4. OperatorTold(o)' /\ \A p \in Operators \ {o} : op'[p] = op[p]
    BY <2>1, OperatorGoes DEF OperatorTold
  <2> QED
    BY <2>1, <2>3, <2>4, OperatorTurn
<1>10. CASE UnlinkStaged(o)
  <2>1. /\ op[o].pc = "unlink" /\ UNCHANGED <<trail, ag, installed>>
        /\ Proceed(o, "record") \/ Exit(o, Uncaught)
    BY <1>10 DEF UnlinkStaged
  <2> QED
    BY <1>g, <2>1, OperatorMoves, CodesDiffer DEF Installing, OperatorSteps
<1>11. CASE RecordActivation(o)
  <2>1. Rec("tool_activated", op[o].name, op[o].src) \in trail' /\ trail \subseteq trail'
    BY <1>11, IsRecorded DEF RecordActivation
  <2> QED
    BY <1>11, <2>1, OperatorMoves DEF RecordActivation, OperatorSteps
<1>12. CASE ExitActivate(o)
  <2>1. PICK code \in {Uncaught, Activated} : Exit(o, code)
    BY <1>12 DEF ExitActivate
  <2>2. /\ installed[op[o].name] = op[o].src
        /\ Rec("tool_activated", op[o].name, op[o].src) \in trail
        /\ UNCHANGED <<trail, ag, installed>>
    BY <1>12, <1>g, <1>t DEF ExitActivate, OperatorTold, Installing
  <2>3. OperatorTold(o)' /\ \A p \in Operators \ {o} : op'[p] = op[p]
    BY <2>1, <2>2, OperatorHears, CodesDiffer DEF OperatorTold
  <2> QED
    BY <2>2, <2>3, OperatorTurn DEF Lasting
<1>13. CASE KillOperator(o)
  <2>1. op' = [op EXCEPT ![o] = OperatorAt("idle", op[o].name, Torn, FALSE, Killed)]
        /\ UNCHANGED <<trail, ag, installed>>
    BY <1>13 DEF KillOperator
  <2>2. op'[o] = OperatorAt("idle", op[o].name, Torn, FALSE, Killed)
    BY <2>1 DEF TypeOK
  <2>3. OperatorTold(o)'
    BY <2>2, CodesDiffer DEF OperatorTold, OperatorAt
  <2> QED
    BY <2>1, <2>3, OperatorSet
<1> QED
  BY <1>1, <1>2, <1>3, <1>4, <1>5, <1>6, <1>7, <1>8, <1>9, <1>10, <1>11, <1>12, <1>13 DEF OperatorStep

-----------------------------------------------------------------------------
(* Theorems *)

LEMMA AnswerInit == Init => AnswerInv
<1> SUFFICES ASSUME Init PROVE AnswerInv
  OBVIOUS
<1>1. PICK n \in Names :
        /\ ag = [a \in Agents |-> AgentAt("down", n, Torn, FALSE, "none")]
        /\ op = [o \in Operators |-> OperatorAt("idle", n, Torn, FALSE, NotExited)]
  BY DEF Init
<1>2. \A a \in Agents : AgentTold(a)
  BY <1>1 DEF AgentTold, AgentAt, AgentSteps
<1>3. \A o \in Operators : OperatorTold(o)
  BY <1>1, CodesDiffer DEF OperatorTold, OperatorAt
<1> QED
  BY <1>2, <1>3 DEF AnswerInv

LEMMA AnswersHold ==
  ASSUME "disk" \notin Faults, "audit" \notin Faults
  PROVE  Spec => []AnswerInv
<1>1. TypeOK /\ GateInv /\ AnswerInv /\ [Next]_vars => AnswerInv'
  <2> SUFFICES ASSUME TypeOK, GateInv, AnswerInv, [Next]_vars PROVE AnswerInv'
    OBVIOUS
  <2>1. CASE UNCHANGED vars
    BY <2>1, NobodyMoves DEF vars
  <2>2. ASSUME NEW n \in Names, Tamper(n) PROVE AnswerInv'
    BY <2>2, NobodyMoves DEF Tamper
  <2> QED
    BY <2>1, <2>2, AgentStepTold, OperatorStepTold DEF Next
<1>2. Init => TypeOK /\ GateInv /\ AnswerInv
  BY TypeInit, GateInit, AnswerInit
<1>3. TypeOK /\ GateInv /\ AnswerInv /\ [Next]_vars => (TypeOK /\ GateInv /\ AnswerInv)'
  BY <1>1, TypeStep, GateStep
<1> QED
  BY <1>2, <1>3, PTL DEF Spec

(* While the disk and the audit log work, an agent that is told ok has its *)
(* proposal on record, and one that is refused has created nothing.        *)
THEOREM RepliesTell ==
  ASSUME "disk" \notin Faults, "audit" \notin Faults
  PROVE  Spec => []ReplyIsTrue
<1>1. AnswerInv => ReplyIsTrue
  BY DEF AnswerInv, AgentTold, ReplyIsTrue
<1> QED
  BY <1>1, AnswersHold, PTL

(* Under the same proviso an exit code of activate says what has become of *)
(* tools/enabled and of the audit trail, for 0, 2, 3, 4 and a traceback.   *)
THEOREM ExitCodesTell ==
  ASSUME "disk" \notin Faults, "audit" \notin Faults
  PROVE  Spec => []ExitCodeIsTrue
<1>1. AnswerInv => ExitCodeIsTrue
  BY DEF AnswerInv, OperatorTold, ExitCodeIsTrue
<1> QED
  BY <1>1, AnswersHold, PTL

-----------------------------------------------------------------------------
(* Proposals.  A recorded one survives any crashes and failed writes, as   *)
(* long as only narrowgate writes to staging and no unfinished file passes *)
(* the static check.  Without the second hypothesis a prefix could be      *)
(* confirmed and installed, and the unlink would then take the finished    *)
(* proposal away.                                                          *)

(* The proposal is in staging, finished, or it is the installed tool. *)
Kept(n, s) == (staged[n] = s /\ writer[n] = NoOne) \/ installed[n] = s

RecordedKept ==
  \A n \in Names, s \in Sources : Rec("tool_proposed", n, s) \in trail => Kept(n, s)
AgentsInv ==
  /\ \A a \in Agents : ag[a].pc = "record" => Kept(ag[a].name, ag[a].src)
  /\ \A a \in Agents : ag[a].pc = "write" => writer[ag[a].name] = a
  /\ \A n \in Names, a \in Agents :
       writer[n] = a => staged[n] = Torn /\ ag[a].pc = "write" /\ ag[a].name = n
OperatorsInv ==
  /\ \A n \in Names : staged[n] # Odd
  /\ \A o \in Operators : op[o].pc = "create" =>
       staged[op[o].name] = op[o].src \/ enabled[op[o].name] # NoFile
  /\ \A o \in Operators : op[o].pc \in {"write", "unlink"} => staged[op[o].name] = op[o].src
ProposalInv == RecordedKept /\ AgentsInv /\ OperatorsInv

(* No proposal is on record or under way at first. *)
LEMMA ProposalInit == Init => ProposalInv
<1> SUFFICES ASSUME Init PROVE ProposalInv
  OBVIOUS
<1>1. (\A a \in Agents : ag[a].pc = "down") /\ (\A o \in Operators : op[o].pc = "idle")
  BY DEF Init, AgentAt, OperatorAt
<1> QED
  BY <1>1, SourcesAssumption, ProcessAssumption
  DEF Init, ProposalInv, RecordedKept, AgentsInv, OperatorsInv

NoNewProposal ==
  \A n \in Names, s \in Sources :
    Rec("tool_proposed", n, s) \in trail' => Rec("tool_proposed", n, s) \in trail

(* Recording anything else adds no proposal. *)
LEMMA NotAProposal ==
  ASSUME NEW e \in Events \ {"tool_proposed"}, NEW n, NEW s, Audits(e, n, s)
  PROVE  NoNewProposal
  BY DEF Audits, Rec, Events, NoNewProposal

(* What an answer does to the agents. *)
LEMMA AnswerEffect ==
  ASSUME TypeOK, NEW a \in Agents, NEW reply, Answer(a, reply)
  PROVE  /\ ag'[a].pc = "idle"
         /\ \A b \in Agents \ {a} : ag'[b] = ag[b]
  BY DEF TypeOK, Answer, AgentRecords

(* What an agent's next step does to the agents. *)
LEMMA GotoEffect ==
  ASSUME TypeOK, NEW a \in Agents, NEW pc, Goto(a, pc)
  PROVE  /\ ag'[a].pc = pc /\ ag'[a].name = ag[a].name /\ ag'[a].src = ag[a].src
         /\ \A b \in Agents \ {a} : ag'[b] = ag[b]
  BY DEF TypeOK, Goto, AgentRecords

(* Steps of an agent that touch no file. *)
LEMMA AgentMoves ==
  ASSUME TypeOK, ProposalInv, UNCHANGED <<staged, writer, enabled, installed, op>>,
         NEW a \in Agents, ag[a].pc # "write", ag'[a].pc \notin {"write", "record"},
         \A b \in Agents \ {a} : ag'[b] = ag[b],
         \A n \in Names, s \in Sources :
           Rec("tool_proposed", n, s) \in trail' =>
             Rec("tool_proposed", n, s) \in trail \/ Kept(n, s)
  PROVE  ProposalInv'
<1>1. RecordedKept'
  BY DEF ProposalInv, RecordedKept, Kept
<1>2. AgentsInv'
  BY DEF ProposalInv, AgentsInv, Kept
<1>3. OperatorsInv'
  BY DEF ProposalInv, OperatorsInv
<1> QED
  BY <1>1, <1>2, <1>3 DEF ProposalInv

(* Steps of an operator that neither touch a file nor get it to the        *)
(* exclusive open.                                                         *)
LEMMA OperatorOnly ==
  ASSUME TypeOK, ProposalInv, UNCHANGED <<staged, writer, enabled, installed, ag>>,
         NEW o \in Operators, op'[o].pc \notin {"create", "write", "unlink"},
         \A p \in Operators \ {o} : op'[p] = op[p], NoNewProposal
  PROVE  ProposalInv'
<1>1. RecordedKept'
  BY DEF ProposalInv, RecordedKept, Kept, NoNewProposal
<1>2. AgentsInv'
  BY DEF ProposalInv, AgentsInv, Kept
<1>3. OperatorsInv'
  BY DEF ProposalInv, OperatorsInv
<1> QED
  BY <1>1, <1>2, <1>3 DEF ProposalInv

NoCleanPrefix == \A n \in Names : Verdict[n][Torn] # "clean"

(* Without tampering, every step of the gate keeps the proposals. *)
LEMMA ProposalStep ==
  ASSUME "tamper" \notin Faults, NoCleanPrefix, TypeOK, GateInv, ProposalInv, [Next]_vars
  PROVE  ProposalInv'
<1>f. /\ \A a \in Agents : ag[a].name \in Names /\ ag[a].src \in Sources
      /\ \A o \in Operators : op[o].name \in Names /\ op[o].src \in Sources
  BY Fields
<1>c. \A o \in Operators : op[o].pc \in {"confirm", "recheck", "create"} \cup Installing =>
        op[o].src # Torn
  BY <1>f DEF NoCleanPrefix, GateInv, ReviewedBeforeInstall
<1>u. CASE UNCHANGED vars
  BY <1>u DEF vars, ProposalInv, RecordedKept, AgentsInv, OperatorsInv, Kept
<1>1. ASSUME NEW a \in Agents, StartAgent(a) PROVE ProposalInv'
  <2>1. ag[a].pc # "write" /\ ag'[a].pc \notin {"write", "record"}
    BY <1>1, GotoEffect DEF StartAgent
  <2>2. \A b \in Agents \ {a} : ag'[b] = ag[b]
    BY <1>1, GotoEffect DEF StartAgent
  <2>3. UNCHANGED <<staged, writer, enabled, installed, op, trail>>
    BY <1>1 DEF StartAgent
  <2> QED
    BY <2>1, <2>2, <2>3, AgentMoves
<1>2. ASSUME NEW a \in Agents, LookEnabled(a) PROVE ProposalInv'
  <2>1. ag[a].pc # "write" /\ ag'[a].pc \notin {"write", "record"}
    BY <1>2, GotoEffect, AnswerEffect DEF LookEnabled
  <2>2. \A b \in Agents \ {a} : ag'[b] = ag[b]
    BY <1>2, GotoEffect, AnswerEffect DEF LookEnabled
  <2>3. UNCHANGED <<staged, writer, enabled, installed, op, trail>>
    BY <1>2 DEF LookEnabled
  <2> QED
    BY <2>1, <2>2, <2>3, AgentMoves
<1>3. ASSUME NEW a \in Agents, LookStaged(a) PROVE ProposalInv'
  <2>1. ag[a].pc # "write" /\ ag'[a].pc \notin {"write", "record"}
    BY <1>3, GotoEffect, AnswerEffect DEF LookStaged
  <2>2. \A b \in Agents \ {a} : ag'[b] = ag[b]
    BY <1>3, GotoEffect, AnswerEffect DEF LookStaged
  <2>3. UNCHANGED <<staged, writer, enabled, installed, op, trail>>
    BY <1>3 DEF LookStaged
  <2> QED
    BY <2>1, <2>2, <2>3, AgentMoves
<1>4. ASSUME NEW a \in Agents, Reply(a) PROVE ProposalInv'
  <2>1. ag[a].pc # "write" /\ ag'[a].pc \notin {"write", "record"}
    BY <1>4, AnswerEffect DEF Reply
  <2>2. \A b \in Agents \ {a} : ag'[b] = ag[b]
    BY <1>4, AnswerEffect DEF Reply
  <2>3. UNCHANGED <<staged, writer, enabled, installed, op, trail>>
    BY <1>4 DEF Reply
  <2> QED
    BY <2>1, <2>2, <2>3, AgentMoves
<1>5. ASSUME NEW a \in Agents, NEW n \in Names, NEW s \in Sources, BeginPropose(a, n, s)
      PROVE  ProposalInv'
  <2>1. ag[a].pc # "write" /\ ag'[a].pc \notin {"write", "record"}
    BY <1>5 DEF BeginPropose, AgentAt, TypeOK
  <2>2. \A b \in Agents \ {a} : ag'[b] = ag[b]
    BY <1>5 DEF BeginPropose, TypeOK
  <2>3. UNCHANGED <<staged, writer, enabled, installed, op, trail>>
    BY <1>5 DEF BeginPropose
  <2> QED
    BY <2>1, <2>2, <2>3, AgentMoves
<1>6. ASSUME NEW a \in Agents, RecordProposal(a) PROVE ProposalInv'
  <2>1. ag[a].pc # "write" /\ ag'[a].pc \notin {"write", "record"}
    BY <1>6, GotoEffect DEF RecordProposal
  <2>2. \A b \in Agents \ {a} : ag'[b] = ag[b]
    BY <1>6, GotoEffect DEF RecordProposal
  <2>3. UNCHANGED <<staged, writer, enabled, installed, op>>
    BY <1>6 DEF RecordProposal
  <2>4. Kept(ag[a].name, ag[a].src)
    BY <1>6 DEF RecordProposal, ProposalInv, AgentsInv
  <2>5. ASSUME NEW n \in Names, NEW s \in Sources, Rec("tool_proposed", n, s) \in trail'
        PROVE  Rec("tool_proposed", n, s) \in trail \/ Kept(n, s)
    BY <1>6, <2>4, <2>5 DEF RecordProposal, Audits, Rec
  <2> QED
    BY <2>1, <2>2, <2>3, <2>5, AgentMoves
<1>7. ASSUME NEW a \in Agents, CreateStaged(a) PROVE ProposalInv'
  <2> DEFINE n == ag[a].name
  <2>1. UNCHANGED <<enabled, installed, op, trail>> /\ ag[a].pc = "create"
    BY <1>7 DEF CreateStaged
  <2>2. CASE Answer(a, "refused") /\ UNCHANGED <<staged, writer>>
    <3>1. ag[a].pc # "write" /\ ag'[a].pc \notin {"write", "record"}
          /\ \A b \in Agents \ {a} : ag'[b] = ag[b]
      BY <2>1, <2>2, AnswerEffect
    <3> QED
      BY <2>1, <2>2, <3>1, AgentMoves
  <2>3. CASE /\ staged[n] = NoFile
             /\ staged' = [staged EXCEPT ![n] = Torn]
             /\ writer' = [writer EXCEPT ![n] = a]
             /\ ag' = [ag EXCEPT ![a].pc = "write", ![a].made = TRUE]
    <3>1. /\ ag'[a].pc = "write" /\ ag'[a].name = n
          /\ \A b \in Agents \ {a} : ag'[b] = ag[b]
      BY <2>3 DEF TypeOK, AgentRecords
    <3>2. /\ staged'[n] = Torn /\ writer'[n] = a
          /\ \A m \in Names \ {n} : staged'[m] = staged[m] /\ writer'[m] = writer[m]
      BY <2>3, <1>f DEF TypeOK
    <3>3. \A m \in Names, s \in Sources : Kept(m, s) => Kept(m, s)'
      BY <2>1, <2>3, <3>2, SourcesAssumption DEF Kept
    <3>4. RecordedKept'
      BY <2>1, <3>3 DEF ProposalInv, RecordedKept
    <3>5. AgentsInv'
      <4>1. ASSUME NEW b \in Agents, ag'[b].pc = "record" PROVE Kept(ag[b].name, ag[b].src)'
        <5>1. Kept(ag[b].name, ag[b].src)
          BY <4>1, <3>1 DEF ProposalInv, AgentsInv
        <5> QED
          BY <5>1, <4>1, <3>1, <3>3, <1>f DEF Kept
      <4>2. ASSUME NEW b \in Agents, ag'[b].pc = "write" PROVE writer'[ag'[b].name] = b
        <5>1. CASE b = a
          BY <5>1, <3>1, <3>2
        <5>2. CASE b # a
          <6>1. ag'[b] = ag[b] /\ writer[ag[b].name] = b
            BY <5>2, <4>2, <3>1 DEF ProposalInv, AgentsInv
          <6>2. ag[b].name # n
            BY <6>1, <2>3, <1>f, SourcesAssumption DEF ProposalInv, AgentsInv
          <6> QED
            BY <6>1, <6>2, <3>2, <1>f
        <5> QED
          BY <5>1, <5>2
      <4>3. \A m \in Names, b \in Agents :
              writer'[m] = b => staged'[m] = Torn /\ ag'[b].pc = "write" /\ ag'[b].name = m
        BY <3>1, <3>2, <2>1, <1>f DEF ProposalInv, AgentsInv
      <4> QED
        BY <4>1, <4>2, <4>3, <3>1 DEF AgentsInv
    <3>6. OperatorsInv'
      BY <2>1, <2>3, <3>2, <1>f, SourcesAssumption DEF ProposalInv, OperatorsInv
    <3> QED
      BY <3>4, <3>5, <3>6 DEF ProposalInv
  <2> QED
    BY <1>7, <2>2, <2>3 DEF CreateStaged
<1>8. ASSUME NEW a \in Agents, WriteStaged(a) PROVE ProposalInv'
  <2> DEFINE n == ag[a].name
             s == ag[a].src
  <2>1. UNCHANGED <<enabled, installed, op, trail>> /\ ag[a].pc = "write"
    BY <1>8 DEF WriteStaged
  <2>2. writer[n] = a /\ staged[n] = Torn
    BY <2>1, <1>f DEF ProposalInv, AgentsInv
  <2>3. /\ writer'[n] = NoOne
        /\ \A m \in Names \ {n} : writer'[m] = writer[m] /\ staged'[m] = staged[m]
    BY <1>8, <2>2, <1>f DEF WriteStaged, TypeOK
  <2>4. \/ staged'[n] = s /\ ag'[a].pc = "record" /\ ag'[a].name = n /\ ag'[a].src = s
        \/ staged'[n] = Torn /\ ag'[a].pc = "idle"
    BY <1>8, <2>2, <1>f, GotoEffect, AnswerEffect DEF WriteStaged, TypeOK
  <2>5. \A b \in Agents \ {a} : ag'[b] = ag[b]
    BY <1>8, GotoEffect, AnswerEffect DEF WriteStaged
  <2>6. \A m \in Names, r \in Sources : Kept(m, r) => Kept(m, r)'
    BY <2>1, <2>2, <2>3, ProcessAssumption DEF Kept
  <2>7. RecordedKept'
    BY <2>1, <2>6 DEF ProposalInv, RecordedKept
  <2>8. AgentsInv'
    <3>1. ASSUME NEW b \in Agents, ag'[b].pc = "record"
          PROVE  Kept(ag[b].name, ag[b].src)' 
      <4>1. CASE b = a
        BY <4>1, <3>1, <2>3, <2>4 DEF Kept
      <4>2. CASE b # a
        <5>1. ag'[b] = ag[b] /\ Kept(ag[b].name, ag[b].src)
          BY <4>2, <3>1, <2>5 DEF ProposalInv, AgentsInv
        <5> QED
          BY <5>1, <2>1, <2>2, <2>3, <1>f, ProcessAssumption DEF Kept
      <4> QED
        BY <4>1, <4>2
    <3>2. \A b \in Agents : ag'[b].pc = "write" => writer'[ag'[b].name] = b
      BY <2>2, <2>3, <2>4, <2>5, <1>f DEF ProposalInv, AgentsInv
    <3>3. \A m \in Names, b \in Agents :
            writer'[m] = b => staged'[m] = Torn /\ ag'[b].pc = "write" /\ ag'[b].name = m
      BY <2>2, <2>3, <2>4, <2>5, <1>f, ProcessAssumption DEF ProposalInv, AgentsInv
    <3> QED
      BY <3>1, <3>2, <3>3 DEF AgentsInv
  <2>9. OperatorsInv'
    <3>1. \A m \in Names : staged'[m] # Odd
      BY <2>3, <2>4, <1>f, SourcesAssumption DEF ProposalInv, OperatorsInv
    <3>2. \A o \in Operators : op[o].pc \in {"create", "write", "unlink"} =>
            (staged[op[o].name] = op[o].src => op[o].name # n)
      BY <2>2, <1>c DEF Installing
    <3>3. \A o \in Operators : op[o].pc \in {"write", "unlink"} => staged'[op[o].name] = op[o].src
      BY <3>2, <2>3, <1>f DEF ProposalInv, OperatorsInv
    <3>4. \A o \in Operators : op[o].pc = "create" =>
            staged'[op[o].name] = op[o].src \/ enabled[op[o].name] # NoFile
      BY <3>2, <2>3, <1>f DEF ProposalInv, OperatorsInv
    <3> QED
      BY <3>1, <3>3, <3>4, <2>1 DEF OperatorsInv
  <2> QED
    BY <2>7, <2>8, <2>9 DEF ProposalInv
<1>9. ASSUME NEW a \in Agents, StopAgent(a) PROVE ProposalInv'
  <2>1. UNCHANGED <<staged, enabled, installed, op, trail>>
    BY <1>9 DEF StopAgent
  <2>2. ag'[a].pc = "down" /\ \A b \in Agents \ {a} : ag'[b] = ag[b]
    BY <1>9 DEF StopAgent, AgentAt, TypeOK
  <2>3. \A n \in Names : writer'[n] = IF writer[n] = a THEN NoOne ELSE writer[n]
    BY <1>9 DEF StopAgent
  <2>4. RecordedKept'
    BY <2>1, <2>3 DEF ProposalInv, RecordedKept, Kept
  <2>5. AgentsInv'
    BY <2>1, <2>2, <2>3, <1>f, ProcessAssumption DEF ProposalInv, AgentsInv, Kept
  <2>6. OperatorsInv'
    BY <2>1 DEF ProposalInv, OperatorsInv
  <2> QED
    BY <2>4, <2>5, <2>6 DEF ProposalInv
<1>10. ASSUME NEW o \in Operators, LoadStaged(o) PROVE ProposalInv'
  <2>1. /\ op'[o].pc \notin {"create", "write", "unlink"}
        /\ \A p \in Operators \ {o} : op'[p] = op[p]
    BY <1>10, ProceedEffect, ExitEffect DEF LoadStaged
  <2>2. UNCHANGED <<staged, writer, enabled, installed, ag>> /\ NoNewProposal
    BY <1>10, NotAProposal DEF LoadStaged, Events, NoNewProposal
  <2> QED
    BY <2>1, <2>2, OperatorOnly
<1>11. ASSUME NEW o \in Operators, Confirm(o) PROVE ProposalInv'
  <2>1. /\ op'[o].pc \notin {"create", "write", "unlink"}
        /\ \A p \in Operators \ {o} : op'[p] = op[p]
    BY <1>11, ProceedEffect DEF Confirm
  <2>2. UNCHANGED <<staged, writer, enabled, installed, ag>> /\ NoNewProposal
    BY <1>11, NotAProposal DEF Confirm, Events, NoNewProposal
  <2> QED
    BY <2>1, <2>2, OperatorOnly
<1>12. ASSUME NEW o \in Operators, Decline(o) PROVE ProposalInv'
  <2>1. /\ op'[o].pc \notin {"create", "write", "unlink"}
        /\ \A p \in Operators \ {o} : op'[p] = op[p]
    BY <1>12, ExitEffect DEF Decline
  <2>2. UNCHANGED <<staged, writer, enabled, installed, ag>> /\ NoNewProposal
    BY <1>12, NotAProposal DEF Decline, Events, NoNewProposal
  <2> QED
    BY <2>1, <2>2, OperatorOnly
<1>13. ASSUME NEW o \in Operators, Interrupt(o) PROVE ProposalInv'
  <2>1. /\ op'[o].pc \notin {"create", "write", "unlink"}
        /\ \A p \in Operators \ {o} : op'[p] = op[p]
    BY <1>13, ExitEffect DEF Interrupt
  <2>2. UNCHANGED <<staged, writer, enabled, installed, ag>> /\ NoNewProposal
    BY <1>13, NotAProposal DEF Interrupt, Events, NoNewProposal
  <2> QED
    BY <2>1, <2>2, OperatorOnly
<1>14. ASSUME NEW o \in Operators, RecordActivation(o) PROVE ProposalInv'
  <2>1. /\ op'[o].pc \notin {"create", "write", "unlink"}
        /\ \A p \in Operators \ {o} : op'[p] = op[p]
    BY <1>14, ProceedEffect DEF RecordActivation
  <2>2. UNCHANGED <<staged, writer, enabled, installed, ag>> /\ NoNewProposal
    BY <1>14, NotAProposal DEF RecordActivation, Events, NoNewProposal
  <2> QED
    BY <2>1, <2>2, OperatorOnly
<1>15. ASSUME NEW o \in Operators, ExitActivate(o) PROVE ProposalInv'
  <2>1. /\ op'[o].pc \notin {"create", "write", "unlink"}
        /\ \A p \in Operators \ {o} : op'[p] = op[p]
    BY <1>15, ExitEffect DEF ExitActivate
  <2>2. UNCHANGED <<staged, writer, enabled, installed, ag>> /\ NoNewProposal
    BY <1>15, NotAProposal DEF ExitActivate, Events, NoNewProposal
  <2> QED
    BY <2>1, <2>2, OperatorOnly
<1>16. ASSUME NEW o \in Operators, KillOperator(o) \/ (\E n \in Names : Invoke(o, n))
      PROVE  ProposalInv'
  <2>1. /\ op'[o].pc \notin {"create", "write", "unlink"}
        /\ \A p \in Operators \ {o} : op'[p] = op[p]
    BY <1>16 DEF KillOperator, Invoke, OperatorAt, TypeOK
  <2>2. UNCHANGED <<staged, writer, enabled, installed, ag>> /\ NoNewProposal
    BY <1>16 DEF KillOperator, Invoke, NoNewProposal
  <2> QED
    BY <2>1, <2>2, OperatorOnly
<1>17. ASSUME NEW o \in Operators, ReadAndCheck(o) PROVE ProposalInv'
  <2> DEFINE n == op[o].name
  <2>1. UNCHANGED <<staged, writer, enabled, installed, ag>>
    BY <1>17 DEF ReadAndCheck
  <2>2. PICK b \in Contents(staged[n]) :
          \/ UNCHANGED trail /\ (Exit(o, Uncaught) \/ Exit(o, Aborted))
          \/ /\ Audits("tool_rejected", n, b)
             /\ op' = [op EXCEPT ![o] = OperatorAt("idle", n, b, FALSE, Rejected)]
          \/ /\ UNCHANGED trail
             /\ op' = [op EXCEPT ![o] = OperatorAt("confirm", n, b, FALSE, NotExited)]
    BY <1>17 DEF ReadAndCheck
  <2>3. NoNewProposal
    BY <2>2, NotAProposal DEF Events, NoNewProposal
  <2>4. CASE Exit(o, Uncaught) \/ Exit(o, Aborted)
    BY <2>1, <2>3, <2>4, ExitEffect, OperatorOnly
  <2>5. CASE \/ op' = [op EXCEPT ![o] = OperatorAt("idle", n, b, FALSE, Rejected)]
             \/ op' = [op EXCEPT ![o] = OperatorAt("confirm", n, b, FALSE, NotExited)]
    <3>1. op'[o].pc \in {"idle", "confirm"} /\ \A p \in Operators \ {o} : op'[p] = op[p]
      BY <2>5 DEF OperatorAt, TypeOK
    <3> QED
      BY <2>1, <2>3, <3>1, OperatorOnly
  <2> QED
    BY <2>2, <2>4, <2>5
<1>18. ASSUME NEW o \in Operators, Recheck(o) PROVE ProposalInv'
  <2> DEFINE n == op[o].name
  <2>1. UNCHANGED <<staged, writer, enabled, installed, ag>>
    BY <1>18 DEF Recheck
  <2>2. NoNewProposal
    BY <1>18, NotAProposal DEF Recheck, Events, NoNewProposal
  <2>3. Contents(staged[n]) = {staged[n]}
    BY <1>f DEF Contents, ProposalInv, OperatorsInv
  <2>4. CASE Exit(o, Uncaught) \/ Exit(o, Aborted)
    BY <2>1, <2>2, <2>4, ExitEffect, OperatorOnly
  <2>5. CASE staged[n] = op[o].src /\ Proceed(o, "create")
    <3>1. /\ op'[o].pc = "create" /\ op'[o].name = n /\ op'[o].src = op[o].src
          /\ \A p \in Operators \ {o} : op'[p] = op[p]
      BY <2>5, ProceedEffect
    <3>2. RecordedKept'
      BY <2>1, <2>2 DEF ProposalInv, RecordedKept, Kept, NoNewProposal
    <3>3. AgentsInv'
      BY <2>1 DEF ProposalInv, AgentsInv, Kept
    <3>4. OperatorsInv'
      BY <2>1, <2>5, <3>1 DEF ProposalInv, OperatorsInv
    <3> QED
      BY <3>2, <3>3, <3>4 DEF ProposalInv
  <2> QED
    BY <1>18, <2>3, <2>4, <2>5 DEF Recheck
<1>19. ASSUME NEW o \in Operators, CreateEnabled(o) PROVE ProposalInv'
  <2> DEFINE n == op[o].name
  <2>1. UNCHANGED <<staged, writer, installed, ag, trail>> /\ op[o].pc = "create"
    BY <1>19 DEF CreateEnabled
  <2>2. CASE (Exit(o, Uncaught) \/ Exit(o, Aborted)) /\ UNCHANGED enabled
    BY <2>1, <2>2, ExitEffect, OperatorOnly DEF NoNewProposal
  <2>3. CASE /\ enabled[n] = NoFile
             /\ enabled' = [enabled EXCEPT ![n] = Torn]
             /\ op' = [op EXCEPT ![o].pc = "write", ![o].made = TRUE]
    <3>1. /\ op'[o].pc = "write" /\ op'[o].name = n /\ op'[o].src = op[o].src
          /\ \A p \in Operators \ {o} : op'[p] = op[p]
      BY <2>3 DEF TypeOK, OperatorRecords
    <3>2. /\ enabled'[n] # NoFile
          /\ \A m \in Names \ {n} : enabled'[m] = enabled[m]
      BY <2>3, <1>f, SourcesAssumption DEF TypeOK
    <3>3. RecordedKept'
      BY <2>1 DEF ProposalInv, RecordedKept, Kept
    <3>4. AgentsInv'
      BY <2>1 DEF ProposalInv, AgentsInv, Kept
    <3>5. OperatorsInv'
      <4>1. staged[n] = op[o].src
        BY <2>1, <2>3 DEF ProposalInv, OperatorsInv
      <4>2. ASSUME NEW p \in Operators, op'[p].pc = "create"
            PROVE  staged[op[p].name] = op[p].src \/ enabled'[op[p].name] # NoFile
        <5>1. op[p].pc = "create" /\ p # o
          BY <4>2, <3>1
        <5>2. staged[op[p].name] = op[p].src \/ enabled[op[p].name] # NoFile
          BY <5>1 DEF ProposalInv, OperatorsInv
        <5> QED
          BY <5>2, <3>2, <1>f
      <4>3. ASSUME NEW p \in Operators, op'[p].pc \in {"write", "unlink"}
            PROVE  staged[op'[p].name] = op'[p].src
        BY <4>1, <4>3, <3>1 DEF ProposalInv, OperatorsInv
      <4>4. \A m \in Names : staged[m] # Odd
        BY DEF ProposalInv, OperatorsInv
      <4> QED
        BY <4>2, <4>3, <4>4, <2>1, <3>1 DEF OperatorsInv
    <3> QED
      BY <3>3, <3>4, <3>5 DEF ProposalInv
  <2> QED
    BY <1>19, <2>2, <2>3 DEF CreateEnabled
<1>20. ASSUME NEW o \in Operators, WriteEnabled(o) PROVE ProposalInv'
  <2> DEFINE n == op[o].name
             s == op[o].src
  <2>1. UNCHANGED <<staged, writer, ag, trail>> /\ op[o].pc = "write"
    BY <1>20 DEF WriteEnabled
  <2>2. CASE Exit(o, Uncaught) /\ UNCHANGED <<enabled, installed>>
    BY <2>1, <2>2, ExitEffect, OperatorOnly DEF NoNewProposal
  <2>3. CASE /\ enabled' = [enabled EXCEPT ![n] = s]
             /\ installed' = [installed EXCEPT ![n] = s]
             /\ Proceed(o, "unlink")
    <3>1. /\ op'[o].pc = "unlink" /\ op'[o].name = n /\ op'[o].src = s
          /\ \A p \in Operators \ {o} : op'[p] = op[p]
      BY <2>3, ProceedEffect
    <3>2. installed[n] = NoFile
      BY <2>1 DEF GateInv, ReviewedBeforeInstall
    <3>3. /\ enabled'[n] = s /\ installed'[n] = s
          /\ \A m \in Names \ {n} : enabled'[m] = enabled[m] /\ installed'[m] = installed[m]
      BY <2>3, <1>f DEF TypeOK
    <3>4. \A m \in Names, r \in Sources : Kept(m, r) => Kept(m, r)'
      BY <2>1, <3>2, <3>3, SourcesAssumption DEF Kept
    <3>5. RecordedKept'
      BY <2>1, <3>4 DEF ProposalInv, RecordedKept
    <3>6. AgentsInv'
      <4>1. ASSUME NEW b \in Agents, ag[b].pc = "record" PROVE Kept(ag[b].name, ag[b].src)'
        <5>1. Kept(ag[b].name, ag[b].src)
          BY <4>1 DEF ProposalInv, AgentsInv
        <5> QED
          BY <5>1, <2>1, <3>2, <3>3, <1>f, SourcesAssumption DEF Kept
      <4> QED
        BY <2>1, <4>1 DEF ProposalInv, AgentsInv
    <3>7. OperatorsInv'
      BY <2>1, <3>1, <3>3, <1>f, SourcesAssumption DEF ProposalInv, OperatorsInv
    <3> QED
      BY <3>5, <3>6, <3>7 DEF ProposalInv
  <2> QED
    BY <1>20, <2>2, <2>3 DEF WriteEnabled
<1>21. ASSUME NEW o \in Operators, UnlinkStaged(o) PROVE ProposalInv'
  <2> DEFINE n == op[o].name
             s == op[o].src
  <2>1. UNCHANGED <<enabled, installed, ag, trail>> /\ op[o].pc = "unlink"
    BY <1>21 DEF UnlinkStaged
  <2>2. CASE Exit(o, Uncaught) /\ UNCHANGED <<staged, writer>>
    BY <2>1, <2>2, ExitEffect, OperatorOnly DEF NoNewProposal
  <2>3. CASE /\ staged' = [staged EXCEPT ![n] = NoFile]
             /\ writer' = [writer EXCEPT ![n] = NoOne]
             /\ Proceed(o, "record")
    <3>1. /\ op'[o].pc = "record" /\ \A p \in Operators \ {o} : op'[p] = op[p]
      BY <2>3, ProceedEffect
    <3>2. staged[n] = s /\ installed[n] = s /\ s # Torn
      BY <2>1, <1>c DEF GateInv, ReviewedBeforeInstall, ProposalInv, OperatorsInv, Installing
    <3>3. /\ staged'[n] = NoFile /\ writer'[n] = NoOne
          /\ \A m \in Names \ {n} : staged'[m] = staged[m] /\ writer'[m] = writer[m]
      BY <2>3, <1>f DEF TypeOK
    <3>4. \A m \in Names, r \in Sources : Kept(m, r) => Kept(m, r)'
      BY <2>1, <3>2, <3>3 DEF Kept
    <3>5. RecordedKept'
      BY <2>1, <3>4 DEF ProposalInv, RecordedKept
    <3>6. AgentsInv'
      <4>1. ASSUME NEW b \in Agents, ag[b].pc = "record" PROVE Kept(ag[b].name, ag[b].src)'
        <5>1. Kept(ag[b].name, ag[b].src)
          BY <4>1 DEF ProposalInv, AgentsInv
        <5> QED
          BY <5>1, <2>1, <3>2, <3>3, <1>f DEF Kept
      <4>2. \A b \in Agents : ag[b].pc = "write" => writer'[ag[b].name] = b
        BY <3>2, <3>3, <1>f DEF ProposalInv, AgentsInv
      <4>3. \A m \in Names, b \in Agents :
              writer'[m] = b => staged'[m] = Torn /\ ag[b].pc = "write" /\ ag[b].name = m
        BY <3>3, ProcessAssumption, <1>f DEF ProposalInv, AgentsInv
      <4> QED
        BY <2>1, <4>1, <4>2, <4>3 DEF AgentsInv
    <3>7. OperatorsInv'
      <4>1. \A m \in Names : staged'[m] # Odd
        BY <3>3, SourcesAssumption DEF ProposalInv, OperatorsInv
      <4>2. enabled[n] # NoFile
        BY <3>2, <1>f, SourcesAssumption DEF GateInv, InstalledIsApproved
      <4>3. \A p \in Operators \ {o} : op[p].name = n => op[p].pc \notin {"write", "unlink"}
        BY <2>1 DEF GateInv, OneInstaller, Installing
      <4> QED
        BY <2>1, <3>1, <3>3, <4>1, <4>2, <4>3, <1>f DEF ProposalInv, OperatorsInv
    <3> QED
      BY <3>5, <3>6, <3>7 DEF ProposalInv
  <2> QED
    BY <1>21, <2>2, <2>3 DEF UnlinkStaged
<1>22. ASSUME NEW n \in Names, Tamper(n) PROVE ProposalInv'
  BY <1>22 DEF Tamper
<1> QED
  BY <1>u, <1>1, <1>2, <1>3, <1>4, <1>5, <1>6, <1>7, <1>8, <1>9, <1>10, <1>11, <1>12,
     <1>13, <1>14, <1>15, <1>16, <1>17, <1>18, <1>19, <1>20, <1>21, <1>22
  DEF Next, AgentStep, OperatorStep

(* What the proposals rest on holds in every reachable state. *)
LEMMA ProposalsHold ==
  ASSUME "tamper" \notin Faults, NoCleanPrefix
  PROVE  Spec => []ProposalInv
<1>1. Init => TypeOK /\ GateInv /\ ProposalInv
  BY TypeInit, GateInit, ProposalInit
<1>2. TypeOK /\ GateInv /\ ProposalInv /\ [Next]_vars => (TypeOK /\ GateInv /\ ProposalInv)'
  BY TypeStep, GateStep, ProposalStep
<1> QED
  BY <1>1, <1>2, PTL DEF Spec

(* A proposal on record is neither lost nor altered until it is installed.  *)
THEOREM ProposalsSurvive ==
  ASSUME "tamper" \notin Faults, NoCleanPrefix
  PROVE  Spec => []ProposalSurvives
<1>1. ProposalInv => ProposalSurvives
  BY DEF ProposalInv, RecordedKept, Kept, ProposalSurvives
<1> QED
  BY <1>1, ProposalsHold, PTL

(* activate unlinks the bytes it has installed and nothing else.            *)
THEOREM UnlinksTheReviewed ==
  ASSUME "tamper" \notin Faults, NoCleanPrefix
  PROVE  Spec => UnlinkRemovesTheReviewed
<1>1. ProposalInv => UnlinkStep
  BY DEF ProposalInv, OperatorsInv, UnlinkStep
<1> QED
  BY <1>1, ProposalsHold, PTL DEF UnlinkRemovesTheReviewed
=============================================================================
