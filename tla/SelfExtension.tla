--------------------------- MODULE SelfExtension ---------------------------
(***************************************************************************)
(* The self-extension gate of narrowgate.  Agents (harness processes that  *)
(* call `propose_tool`) write staged/<name>.py; operators (processes of    *)
(* `narrowgate activate <name>`) review a staged file and install it as    *)
(* enabled/<name>.py.  They share nothing but the file system and the      *)
(* audit log, and one action is one visible step of one process: a system  *)
(* call on a shared file, an audit record or the answer of the human.      *)
(*                                                                         *)
(* Abstracted: a file's bytes are one member of Sources, and a file whose  *)
(* write has not finished (just created, or a prefix) holds Torn; the      *)
(* static checker and the decoder are the table Verdict; a digest is the   *)
(* bytes themselves; the audit trail is the set of its records.            *)
(***************************************************************************)
EXTENDS Integers

CONSTANTS
  Names,         \* tool names somebody may ask for
  ValidNames,    \* those validate_tool_name accepts
  Imported,      \* names that are keys of sys.modules (json, ast, ...)
  Sources,       \* what a file may hold
  Torn,          \* the member of Sources an unfinished write leaves
  Parses,        \* the sources ast.parse accepts
  Verdict,       \* Verdict[n][s]: what the static check makes of s under name n
  Agents, Operators,
  SharedEnabled, \* TRUE: propose_tool looks in the directory activate fills
  Builtins,      \* the tools build_registry registers
  Faults,        \* which of AllFaults may happen
  NoFile,        \* nothing at the path
  Odd,           \* a symlink, a directory or an oversized file at the path
  NoOne          \* no agent holds the staged file open

AllFaults == {"crash", "disk", "audit", "tamper", "interrupt"}

ASSUME NamesAssumption == ValidNames \subseteq Names /\ Imported \subseteq Names
ASSUME SourcesAssumption == /\ Torn \in Sources
                            /\ Parses \subseteq Sources
                            /\ NoFile \notin Sources
                            /\ Odd \notin Sources
                            /\ NoFile # Odd
(* "binary": not UTF-8; "deep": parses, but nested too deep for the checker's *)
(* visitor, which raises RecursionError.                                      *)
Verdicts == {"clean", "dirty", "binary", "deep"}
ASSUME VerdictAssumption == Verdict \in [Names -> [Sources -> Verdicts]]
ASSUME ProcessAssumption == NoOne \notin Agents
ASSUME SwitchAssumption == SharedEnabled \in BOOLEAN /\ Faults \subseteq AllFaults

VARIABLES
  staged,     \* staged[n]: what is at tools_staged/<n>.py
  writer,     \* writer[n]: the agent that has that very file open for writing
  enabled,    \* enabled[n]: what is at tools/enabled/<n>.py
  trail,      \* the records in the audit log
  ag,         \* ag[a]: where agent a is in propose_tool
  op,         \* op[o]: where operator o is in activate
  registered, \* registered[a]: the registry of agent a's process
  approved,   \* history: the <<name, source>> pairs a human confirmed
  installed   \* history: installed[n] is what activate finished writing

vars == <<staged, writer, enabled, trail, ag, op, registered, approved, installed>>

Events == {"tool_proposed", "tool_rejected", "tool_declined",
           "tool_activation_aborted", "tool_activated"}
Records == [event: Events, name: Names, src: Sources]
Rec(e, n, s) == [event |-> e, name |-> n, src |-> s]

(* AuditLog.record answers False when it cannot write, and both callers ignore it. *)
Audits(e, n, s) ==
  \/ trail' = trail \cup {Rec(e, n, s)}
  \/ "audit" \in Faults /\ trail' = trail

-----------------------------------------------------------------------------
(* propose_tool, run by an agent *)

AgentSteps == {"look_enabled", "look_staged", "create", "write", "record", "reply"}

(* The agent's record: `made` is history, whether this call created a file. *)
AgentAt(pc, n, s, made, reply) ==
  [pc |-> pc, name |-> n, src |-> s, made |-> made, reply |-> reply]

AgentRecords == [pc : AgentSteps \cup {"down", "idle"}, name : Names, src : Sources,
                 made : BOOLEAN, reply : {"none", "ok", "refused", "error"}]

Goto(a, pc) == ag' = [ag EXCEPT ![a].pc = pc]
Answer(a, reply) == ag' = [ag EXCEPT ![a].pc = "idle", ![a].reply = reply]

(* Slip: the start scans tools/enabled. *)
StartAgentDiscovering(a) ==
  /\ ag[a].pc = "down"
  /\ Goto(a, "idle")
  /\ registered' = [registered EXCEPT ![a] =
                      Builtins \cup {n \in Names : enabled[n] # NoFile}]
  /\ UNCHANGED <<staged, writer, enabled, trail, op, approved, installed>>

StartAgent(a) ==
  /\ ag[a].pc = "down"
  /\ Goto(a, "idle")
  /\ registered' = [registered EXCEPT ![a] = Builtins]
  /\ UNCHANGED <<staged, writer, enabled, trail, op, approved, installed>>

(* Name, texts, syntax and path are checked before anything is looked at. *)
AcceptsProposal(n, s) == n \in ValidNames /\ s \in Parses

BeginPropose(a, n, s) ==
  /\ ag[a].pc = "idle"
  /\ ag' = [ag EXCEPT ![a] = IF AcceptsProposal(n, s)
                             THEN AgentAt("look_enabled", n, s, FALSE, "none")
                             ELSE AgentAt("idle", n, s, FALSE, "refused")]
  /\ UNCHANGED <<staged, writer, enabled, trail, op, registered, approved, installed>>

LookEnabled(a) ==
  /\ ag[a].pc = "look_enabled"
  /\ IF SharedEnabled /\ enabled[ag[a].name] # NoFile
     THEN Answer(a, "refused")
     ELSE Goto(a, "look_staged")
  /\ UNCHANGED <<staged, writer, enabled, trail, op, registered, approved, installed>>

LookStaged(a) ==
  /\ ag[a].pc = "look_staged"
  /\ IF staged[ag[a].name] # NoFile THEN Answer(a, "refused") ELSE Goto(a, "create")
  /\ UNCHANGED <<staged, writer, enabled, trail, op, registered, approved, installed>>

(* Slip: a file that is already there counts as success. *)
CreateStagedLenient(a) ==
  LET n == ag[a].name IN
  /\ ag[a].pc = "create"
  /\ \/ /\ staged[n] = NoFile
        /\ staged' = [staged EXCEPT ![n] = Torn]
        /\ writer' = [writer EXCEPT ![n] = a]
        /\ ag' = [ag EXCEPT ![a].pc = "write", ![a].made = TRUE]
     \/ staged[n] # NoFile /\ Answer(a, "ok") /\ UNCHANGED <<staged, writer>>
  /\ UNCHANGED <<enabled, trail, op, registered, approved, installed>>

CreateStaged(a) ==
  LET n == ag[a].name IN
  /\ ag[a].pc = "create"
  /\ \/ /\ staged[n] = NoFile
        /\ staged' = [staged EXCEPT ![n] = Torn]
        /\ writer' = [writer EXCEPT ![n] = a]
        /\ ag' = [ag EXCEPT ![a].pc = "write", ![a].made = TRUE]
     \/ /\ staged[n] # NoFile \/ "disk" \in Faults
        /\ Answer(a, "refused")
        /\ UNCHANGED <<staged, writer>>
  /\ UNCHANGED <<enabled, trail, op, registered, approved, installed>>

(* The file that was created is written and closed.  If it was unlinked or *)
(* replaced in the meantime, the bytes go to a file nobody can name.       *)
WriteStaged(a) ==
  LET n == ag[a].name IN
  /\ ag[a].pc = "write"
  /\ \/ /\ staged' = IF writer[n] = a THEN [staged EXCEPT ![n] = ag[a].src] ELSE staged
        /\ Goto(a, "record")
     \/ /\ "disk" \in Faults
        /\ Answer(a, "refused")
        /\ UNCHANGED staged
  /\ writer' = IF writer[n] = a THEN [writer EXCEPT ![n] = NoOne] ELSE writer
  /\ UNCHANGED <<enabled, trail, op, registered, approved, installed>>

RecordProposal(a) ==
  /\ ag[a].pc = "record"
  /\ Audits("tool_proposed", ag[a].name, ag[a].src)
  /\ Goto(a, "reply")
  /\ UNCHANGED <<staged, writer, enabled, op, registered, approved, installed>>

(* The final assertion; Registry turns an AssertionError into ok=False. *)
Reply(a) ==
  /\ ag[a].pc = "reply"
  /\ Answer(a, IF ag[a].name \in Imported THEN "error" ELSE "ok")
  /\ UNCHANGED <<staged, writer, enabled, trail, op, registered, approved, installed>>

(* The process ends: at the prompt, or anywhere if it is killed. *)
StopAgent(a) ==
  /\ ag[a].pc # "down"
  /\ ag[a].pc = "idle" \/ "crash" \in Faults
  /\ ag' = [ag EXCEPT ![a] = AgentAt("down", ag[a].name, Torn, FALSE, "none")]
  /\ writer' = [n \in Names |-> IF writer[n] = a THEN NoOne ELSE writer[n]]
  /\ registered' = [registered EXCEPT ![a] = {}]
  /\ UNCHANGED <<staged, enabled, trail, op, approved, installed>>

AgentStep(a) ==
  \/ LookEnabled(a) \/ LookStaged(a) \/ CreateStaged(a) \/ WriteStaged(a)
  \/ RecordProposal(a) \/ Reply(a)

-----------------------------------------------------------------------------
(* activate, run by an operator *)

OperatorSteps == {"load", "read", "confirm", "recheck", "create", "write",
                  "unlink", "record", "exit"}

(* Exit codes of the process; NotExited while it runs, Uncaught for an     *)
(* exception that main does not catch, Killed for a signal.                *)
NotExited == -1
Killed == -2
Activated == 0
Uncaught == 1
Rejected == 2
Declined == 3
Aborted == 4
ExitCodes == {NotExited, Killed, Activated, Uncaught, Rejected, Declined, Aborted}

(* The operator's record: `made` is history, whether it created the enabled file. *)
OperatorAt(pc, n, s, made, exit) ==
  [pc |-> pc, name |-> n, src |-> s, made |-> made, exit |-> exit]

OperatorRecords == [pc : OperatorSteps \cup {"idle"}, name : Names, src : Sources,
                    made : BOOLEAN, exit : ExitCodes]

Proceed(o, pc) == op' = [op EXCEPT ![o].pc = pc]
Exit(o, code) == op' = [op EXCEPT ![o].pc = "idle", ![o].exit = code]

(* The bytes read_bytes may return for what is at a path: through a link   *)
(* anything, or nothing readable.                                          *)
Contents(f) == IF f = Odd THEN Sources \cup {NoFile} ELSE {f}

(* No terminal, no configuration, or a name that is not a tool name: exit 4. *)
Invoke(o, n) ==
  /\ op[o].pc = "idle"
  /\ \/ /\ n \in ValidNames
        /\ op' = [op EXCEPT ![o] = OperatorAt("load", n, Torn, FALSE, NotExited)]
     \/ op' = [op EXCEPT ![o] = OperatorAt("idle", n, Torn, FALSE, Aborted)]
  /\ UNCHANGED <<staged, writer, enabled, trail, ag, registered, approved, installed>>

(* Slip: activate waits for a proposal to appear. *)
LoadStagedWaiting(o) ==
  /\ op[o].pc = "load"
  /\ staged[op[o].name] \notin {NoFile, Odd}
  /\ Proceed(o, "read")
  /\ UNCHANGED <<staged, writer, enabled, trail, ag, registered, approved, installed>>

LoadStaged(o) ==
  /\ op[o].pc = "load"
  /\ IF staged[op[o].name] \in {NoFile, Odd} THEN Exit(o, Aborted) ELSE Proceed(o, "read")
  /\ UNCHANGED <<staged, writer, enabled, trail, ag, registered, approved, installed>>

(* read_bytes, then everything that depends on those bytes alone: decoding, *)
(* the listing, the static check and the record of a rejection.             *)
ReadAndCheck(o) ==
  LET n == op[o].name IN
  /\ op[o].pc = "read"
  /\ \E b \in Contents(staged[n]) :
       \/ b = NoFile /\ Exit(o, Uncaught) /\ UNCHANGED trail
       \/ /\ b \in Sources
          /\ Verdict[n][b] = "binary"
          /\ Exit(o, Aborted)
          /\ UNCHANGED trail
       \/ /\ b \in Sources
          /\ Verdict[n][b] = "deep"
          /\ Exit(o, Uncaught)
          /\ UNCHANGED trail
       \/ /\ b \in Sources
          /\ Verdict[n][b] = "dirty"
          /\ Audits("tool_rejected", n, b)
          /\ op' = [op EXCEPT ![o] = OperatorAt("idle", n, b, FALSE, Rejected)]
       \/ /\ b \in Sources
          /\ Verdict[n][b] = "clean"
          /\ op' = [op EXCEPT ![o] = OperatorAt("confirm", n, b, FALSE, NotExited)]
          /\ UNCHANGED trail
  /\ UNCHANGED <<staged, writer, enabled, ag, registered, approved, installed>>

(* The human types the name, types something else, or leaves with Ctrl-C/D. *)
Confirm(o) ==
  /\ op[o].pc = "confirm"
  /\ Proceed(o, "recheck")
  /\ approved' = approved \cup {<<op[o].name, op[o].src>>}
  /\ UNCHANGED <<staged, writer, enabled, trail, ag, registered, installed>>

(* Slip: any answer confirms. *)
DeclineIgnored(o) ==
  /\ op[o].pc = "confirm"
  /\ Proceed(o, "recheck")
  /\ UNCHANGED <<staged, writer, enabled, trail, ag, registered, approved, installed>>

(* Slip: declining leaves no record. *)
DeclineSilently(o) ==
  /\ op[o].pc = "confirm"
  /\ Exit(o, Declined)
  /\ UNCHANGED <<staged, writer, enabled, trail, ag, registered, approved, installed>>

Decline(o) ==
  /\ op[o].pc = "confirm"
  /\ Audits("tool_declined", op[o].name, op[o].src)
  /\ Exit(o, Declined)
  /\ UNCHANGED <<staged, writer, enabled, ag, registered, approved, installed>>

Interrupt(o) ==
  /\ op[o].pc = "confirm"
  /\ "interrupt" \in Faults
  /\ Exit(o, Uncaught)
  /\ UNCHANGED <<staged, writer, enabled, trail, ag, registered, approved, installed>>

(* Slip: the second read takes the file away from staging. *)
RecheckTaking(o) ==
  LET n == op[o].name IN
  /\ op[o].pc = "recheck"
  /\ \/ staged[n] # op[o].src /\ Exit(o, Aborted) /\ UNCHANGED <<staged, writer>>
     \/ /\ staged[n] = op[o].src
        /\ staged' = [staged EXCEPT ![n] = NoFile]
        /\ writer' = [writer EXCEPT ![n] = NoOne]
        /\ Proceed(o, "create")
  /\ UNCHANGED <<enabled, trail, ag, registered, approved, installed>>

(* Slip: the comparison is the wrong way round. *)
RecheckInverted(o) ==
  /\ op[o].pc = "recheck"
  /\ IF staged[op[o].name] = op[o].src THEN Exit(o, Aborted) ELSE Proceed(o, "create")
  /\ UNCHANGED <<staged, writer, enabled, trail, ag, registered, approved, installed>>

(* The staged file is read again and must still hold the reviewed bytes. *)
Recheck(o) ==
  LET n == op[o].name IN
  /\ op[o].pc = "recheck"
  /\ \E b \in Contents(staged[n]) :
       \/ b = NoFile /\ Exit(o, Uncaught) /\ UNCHANGED trail
       \/ /\ b \in Sources
          /\ b # op[o].src
          /\ Audits("tool_activation_aborted", n, op[o].src)
          /\ Exit(o, Aborted)
       \/ b = op[o].src /\ Proceed(o, "create") /\ UNCHANGED trail
  /\ UNCHANGED <<staged, writer, enabled, ag, registered, approved, installed>>

(* Slip: mode "wb" instead of "xb". *)
CreateEnabledOverwriting(o) ==
  /\ op[o].pc = "create"
  /\ enabled' = [enabled EXCEPT ![op[o].name] = Torn]
  /\ op' = [op EXCEPT ![o].pc = "write", ![o].made = TRUE]
  /\ UNCHANGED <<staged, writer, trail, ag, registered, approved, installed>>

(* Slip: the activation is recorded before the file is written. *)
CreateEnabledRecording(o) ==
  LET n == op[o].name IN
  /\ op[o].pc = "create"
  /\ Audits("tool_activated", n, op[o].src)
  /\ \/ /\ enabled[n] = NoFile
        /\ enabled' = [enabled EXCEPT ![n] = Torn]
        /\ op' = [op EXCEPT ![o].pc = "write", ![o].made = TRUE]
     \/ enabled[n] # NoFile /\ Exit(o, Aborted) /\ UNCHANGED enabled
  /\ UNCHANGED <<staged, writer, ag, registered, approved, installed>>

CreateEnabled(o) ==
  LET n == op[o].name IN
  /\ op[o].pc = "create"
  /\ \/ /\ enabled[n] = NoFile
        /\ enabled' = [enabled EXCEPT ![n] = Torn]
        /\ op' = [op EXCEPT ![o].pc = "write", ![o].made = TRUE]
     \/ enabled[n] # NoFile /\ Exit(o, Aborted) /\ UNCHANGED enabled
     \/ "disk" \in Faults /\ Exit(o, Uncaught) /\ UNCHANGED enabled
  /\ UNCHANGED <<staged, writer, trail, ag, registered, approved, installed>>

(* Slip: the staged file is copied instead of the bytes that were reviewed. *)
WriteEnabledCopying(o) ==
  LET n == op[o].name IN
  /\ op[o].pc = "write"
  /\ staged[n] \in Sources
  /\ enabled' = [enabled EXCEPT ![n] = staged[n]]
  /\ installed' = [installed EXCEPT ![n] = staged[n]]
  /\ Proceed(o, "unlink")
  /\ UNCHANGED <<staged, writer, trail, ag, registered, approved>>

WriteEnabled(o) ==
  LET n == op[o].name IN
  /\ op[o].pc = "write"
  /\ \/ /\ enabled' = [enabled EXCEPT ![n] = op[o].src]
        /\ installed' = [installed EXCEPT ![n] = op[o].src]
        /\ Proceed(o, "unlink")
     \/ "disk" \in Faults /\ Exit(o, Uncaught) /\ UNCHANGED <<enabled, installed>>
  /\ UNCHANGED <<staged, writer, trail, ag, registered, approved>>

(* unlink removes whatever is at the path now. *)
UnlinkStaged(o) ==
  LET n == op[o].name IN
  /\ op[o].pc = "unlink"
  /\ \/ /\ staged[n] # NoFile
        /\ staged' = [staged EXCEPT ![n] = NoFile]
        /\ writer' = [writer EXCEPT ![n] = NoOne]
        /\ Proceed(o, "record")
     \/ /\ staged[n] \in {NoFile, Odd} \/ "disk" \in Faults
        /\ Exit(o, Uncaught)
        /\ UNCHANGED <<staged, writer>>
  /\ UNCHANGED <<enabled, trail, ag, registered, approved, installed>>

RecordActivation(o) ==
  /\ op[o].pc = "record"
  /\ Audits("tool_activated", op[o].name, op[o].src)
  /\ Proceed(o, "exit")
  /\ UNCHANGED <<staged, writer, enabled, ag, registered, approved, installed>>

ExitActivate(o) ==
  /\ op[o].pc = "exit"
  /\ Exit(o, IF op[o].name \in Imported THEN Uncaught ELSE Activated)
  /\ UNCHANGED <<staged, writer, enabled, trail, ag, registered, approved, installed>>

KillOperator(o) ==
  /\ op[o].pc # "idle"
  /\ "crash" \in Faults
  /\ op' = [op EXCEPT ![o] = OperatorAt("idle", op[o].name, Torn, FALSE, Killed)]
  /\ UNCHANGED <<staged, writer, enabled, trail, ag, registered, approved, installed>>

OperatorStep(o) ==
  \/ LoadStaged(o) \/ ReadAndCheck(o) \/ Confirm(o) \/ Decline(o) \/ Recheck(o)
  \/ CreateEnabled(o) \/ WriteEnabled(o) \/ UnlinkStaged(o)
  \/ RecordActivation(o) \/ ExitActivate(o)

-----------------------------------------------------------------------------
(* Somebody else replaces or removes a staged file (never the open one in  *)
(* place).  Nobody but activate writes to tools/enabled.                   *)
Tamper(n) ==
  /\ "tamper" \in Faults
  /\ \E f \in Sources \cup {NoFile, Odd} : staged' = [staged EXCEPT ![n] = f]
  /\ writer' = [writer EXCEPT ![n] = NoOne]
  /\ UNCHANGED <<enabled, trail, ag, op, registered, approved, installed>>

Init ==
  /\ staged = [n \in Names |-> NoFile]
  /\ writer = [n \in Names |-> NoOne]
  /\ enabled = [n \in Names |-> NoFile]
  /\ trail = {}
  /\ \E n \in Names :
       /\ ag = [a \in Agents |-> AgentAt("down", n, Torn, FALSE, "none")]
       /\ op = [o \in Operators |-> OperatorAt("idle", n, Torn, FALSE, NotExited)]
  /\ registered = [a \in Agents |-> {}]
  /\ approved = {}
  /\ installed = [n \in Names |-> NoFile]

Next ==
  \/ \E a \in Agents : \/ StartAgent(a) \/ AgentStep(a) \/ StopAgent(a)
                       \/ \E n \in Names, s \in Sources : BeginPropose(a, n, s)
  \/ \E o \in Operators : \/ OperatorStep(o) \/ Interrupt(o) \/ KillOperator(o)
                          \/ \E n \in Names : Invoke(o, n)
  \/ \E n \in Names : Tamper(n)

Spec == Init /\ [][Next]_vars

(* A process that runs takes its next step, and the human answers the      *)
(* prompt.  Nobody has to start a process or a proposal.                   *)
Fairness == /\ \A a \in Agents : WF_vars(AgentStep(a))
            /\ \A o \in Operators : WF_vars(OperatorStep(o))

FairSpec == Spec /\ Fairness

-----------------------------------------------------------------------------
(* Properties *)

TypeOK ==
  /\ staged \in [Names -> Sources \cup {NoFile, Odd}]
  /\ writer \in [Names -> Agents \cup {NoOne}]
  /\ enabled \in [Names -> Sources \cup {NoFile}]
  /\ trail \subseteq Records
  /\ ag \in [Agents -> AgentRecords]
  /\ op \in [Operators -> OperatorRecords]
  /\ registered \in [Agents -> SUBSET Builtins]
  /\ approved \subseteq Names \X Sources
  /\ installed \in [Names -> Sources \cup {NoFile}]

(* The promise of the gate: an installed tool is one whose bytes passed    *)
(* the static check and were confirmed by a human under that very name,    *)
(* and the enabled file still holds exactly those bytes, whatever agents,  *)
(* rivals, other writers of staging, crashes and failed writes do.         *)
InstalledIsApproved ==
  \A n \in Names : installed[n] # NoFile =>
    /\ enabled[n] = installed[n]
    /\ <<n, installed[n]>> \in approved
    /\ Verdict[n][installed[n]] = "clean"

Installing == {"write", "unlink", "record", "exit"}

(* Only one activation of a name ever gets past the exclusive open.        *)
OneInstaller ==
  \A o, p \in Operators :
    /\ op[o].pc \in Installing
    /\ op[p].pc \in Installing
    /\ op[o].name = op[p].name
    => o = p

(* What an activation relies on at each step: the verdict and the approval *)
(* of the bytes it carries, a file of its own while it writes.             *)
ReviewedBeforeInstall ==
  \A o \in Operators :
    LET n == op[o].name
        s == op[o].src IN
    /\ op[o].pc \in {"confirm", "recheck", "create"} \cup Installing =>
         Verdict[n][s] = "clean"
    /\ op[o].pc \in {"recheck", "create"} \cup Installing => <<n, s>> \in approved
    /\ op[o].pc = "write" => enabled[n] # NoFile /\ installed[n] = NoFile
    /\ op[o].pc \in Installing \ {"write"} => installed[n] = s

(* The activation record is true: what it names is the enabled tool, so    *)
(* the log never reports two versions of one name.                         *)
ActivatedRecordIsTrue ==
  \A n \in Names, s \in Sources :
    Rec("tool_activated", n, s) \in trail => installed[n] = s /\ enabled[n] = s

(* The inductive invariant of the gate. *)
GateInv == InstalledIsApproved /\ OneInstaller /\ ReviewedBeforeInstall /\ ActivatedRecordIsTrue

(* The exit code tells the operator's shell the truth: 0 means installed   *)
(* and recorded, 2 and 3 that the verdict is on record, after 2, 3 or 4    *)
(* this activation has put nothing into tools/enabled, and even an         *)
(* exception that main does not catch leaves a whole tool there or none.   *)
ExitCodeIsTrue ==
  \A o \in Operators : op[o].pc = "idle" =>
    LET n == op[o].name
        s == op[o].src IN
    /\ op[o].exit = Activated => /\ installed[n] = s
                                 /\ Rec("tool_activated", n, s) \in trail
    /\ op[o].exit = Rejected => Rec("tool_rejected", n, s) \in trail
    /\ op[o].exit = Declined => Rec("tool_declined", n, s) \in trail
    /\ op[o].exit \in {Rejected, Declined, Aborted} => ~op[o].made
    /\ op[o].exit = Uncaught /\ op[o].made => installed[n] = s

(* A proposal on record is neither lost nor altered: it is staged just as  *)
(* recorded until it is the installed tool.                                *)
ProposalSurvives ==
  \A n \in Names, s \in Sources :
    Rec("tool_proposed", n, s) \in trail => staged[n] = s \/ installed[n] = s

(* What the agent is told is true: a call that is answered ok has put its  *)
(* proposal on record; one that is not has created nothing, whatever rival *)
(* agents and activations did meanwhile, but for the names that are also   *)
(* imported modules: there the last assertion fails after the fact.        *)
ReplyIsTrue ==
  \A a \in Agents :
    LET n == ag[a].name IN
    /\ ag[a].reply = "ok" => Rec("tool_proposed", n, ag[a].src) \in trail
    /\ ag[a].reply = "refused" => ~ag[a].made
    /\ ag[a].reply = "error" => n \in Imported

(* An installed file never changes again, and no step other than the       *)
(* installer's own touches the directory.                                  *)
WriteOnceStep ==
  \A n \in Names : enabled'[n] # enabled[n] =>
    /\ installed[n] = NoFile
    /\ \E o \in Operators : /\ op[o].name = n
                            /\ op[o].pc \in {"create", "write"}
                            /\ op'[o].pc # op[o].pc

(* tools/enabled is write-once, in every step of everybody. *)
EnabledIsWriteOnce == [][WriteOnceStep]_vars

(* unlink removes the bytes that were installed, never a file that nobody  *)
(* has reviewed.                                                           *)
UnlinkStep ==
  \A o \in Operators : op[o].pc = "unlink" /\ op'[o].pc = "record" =>
    staged[op[o].name] = op[o].src

(* Every unlink of activate is such a step. *)
UnlinkRemovesTheReviewed == [][UnlinkStep]_vars

(* Every call of propose_tool and every activation comes to an end.        *)
CallsEnd ==
  /\ \A a \in Agents : ag[a].pc \in AgentSteps ~> ag[a].pc \notin AgentSteps
  /\ \A o \in Operators : op[o].pc \in OperatorSteps ~> op[o].pc = "idle"

(* Once a human has confirmed a source, the name becomes an installed tool, *)
(* by this activation or by a rival that was faster.                        *)
ConfirmedGetsInstalled ==
  \A o \in Operators, n \in Names :
    op[o].pc = "recheck" /\ op[o].name = n ~> installed[n] # NoFile

(* The gate implements ActiveTools: the active source is what the enabled   *)
(* file holds once activate has finished writing it.                        *)
Active == [n \in Names |-> IF installed[n] = NoFile THEN NoFile ELSE enabled[n]]
Announced == {<<r.name, r.src>> : r \in {t \in trail : t.event = "tool_activated"}}

Abstract == INSTANCE ActiveTools WITH Nothing <- NoFile, active <- Active,
                                      announced <- Announced
ImplementsActiveTools == Abstract!Spec
-----------------------------------------------------------------------------
(* What docstrings, comments and messages say and the code does not do.    *)
(* README.md has the quotations and the traces.                            *)

(* Only the documented codes: 0 activated, 2 rejected, 3 declined, 4 aborted. *)
ExitCodeIsDocumented == \A o \in Operators : op[o].exit # Uncaught

(* tools/enabled holds no part of a file: whatever is there is an          *)
(* installed tool or one that is being written this moment.                *)
NoPartialTool ==
  \A n \in Names : enabled[n] # NoFile =>
    \/ installed[n] # NoFile
    \/ \E o \in Operators : op[o].pc = "write" /\ op[o].name = n

(* The audit trail covers every path: an activation that was confirmed and *)
(* ends with code 4 has left its tool_activation_aborted record.           *)
EveryAbortIsRecorded ==
  \A o \in Operators :
    LET n == op[o].name
        s == op[o].src IN
    op[o].exit = Aborted /\ <<n, s>> \in approved =>
      Rec("tool_activation_aborted", n, s) \in trail

(* propose_tool refuses a proposal that would shadow an activated tool.    *)
NoShadowing ==
  [][\A a \in Agents : ag[a].pc = "create" /\ ag'[a].pc = "write" =>
       installed[ag[a].name] = NoFile]_vars

(* A name that is already active when propose_tool looks is refused.       *)
ActivatedNameIsRefused ==
  [][\A a \in Agents : ag[a].pc = "look_enabled" /\ ag'[a].pc = "look_staged" =>
       installed[ag[a].name] = NoFile]_vars

(* A rejection is terminal: a proposal the static check has rejected is    *)
(* never installed by a later activation.                                  *)
RejectionIsTerminal ==
  [][\A n \in Names : installed'[n] # installed[n] =>
       \A s \in Sources : Rec("tool_rejected", n, s) \notin trail]_vars

(* A tool that was activated is registered by the next harness start.      *)
RegisteredOnNextStart ==
  [][\A a \in Agents : ag[a].pc = "down" /\ ag'[a].pc = "idle" =>
       {n \in Names : installed[n] # NoFile} \subseteq registered'[a]]_vars
=============================================================================
