------------------------------ MODULE Dispatch ------------------------------
(***************************************************************************)
(* Registry.dispatch: one tool call of a harness process from before_call  *)
(* to after_call, with the policy in between, against the audit sink the   *)
(* harness passes (AuditLog, which loses a record rather than raise) or a  *)
(* sink of the Audit protocol that raises.  A process runs one call at a   *)
(* time; it may be killed at any point, and its successor starts with a    *)
(* fresh AuditLog on the same file.                                        *)
(*                                                                         *)
(* Abstracted: arguments are "valid" or "invalid" for the tool's schema,   *)
(* or make the validation itself raise (ToolRegistry has the schemas); a   *)
(* call_id is the number of the call; a record is one element of the       *)
(* sequence log.  AuditFile looks at how records become lines.             *)
(***************************************************************************)
EXTENDS Naturals, Sequences, FiniteSets

CONSTANTS
  ToolNames,   \* the names a model may ask for
  Registered,  \* the names in the registry
  Network,     \* the registered tools that declare requires_network
  Allowed,     \* network.allow_tools
  NullSchemas, \* the registered tools whose schema has null for properties or required
  Proposers,   \* the registered tools that write a record of their own: propose_tool
  Outcomes,    \* how run may end: a subset of AllOutcomes
  LogFails,    \* TRUE: AuditLog.write may fail
  SinkRaises,  \* TRUE: before_call and after_call may raise
  Dies,        \* TRUE: the process may be killed
  MaxCalls     \* bound: how many calls are dispatched

AllOutcomes == {"ok", "failed", "raised", "not_a_result"}

ASSUME RegistryAssumption ==
  Registered \subseteq ToolNames /\ (Network \cup NullSchemas \cup Proposers) \subseteq Registered
ASSUME OutcomeAssumption == Outcomes \subseteq AllOutcomes
ASSUME DispatchSwitches == {LogFails, SinkRaises, Dies} \subseteq BOOLEAN
ASSUME BoundAssumption == MaxCalls \in Nat

Ids == 1..MaxCalls
NoId == 0
Events == {"before", "proposed", "after"}

VARIABLES
  d,         \* the call in progress, and the result of the last one
  calls,     \* how many calls were dispatched: the source of fresh call ids
  open,      \* AuditLog._open: open[t] is the call id last issued for tool t
  failures,  \* AuditLog.failures of the running process
  log,       \* the records in the audit file, oldest first
  lost,      \* history: the <<event, call>> whose record was not written
  ran        \* history: the calls whose tool was run

dispatchVars == <<d, calls, open, failures, log, lost, ran>>

Results == {"none", "ok", "failed", "refused", "withheld"}
Idle(result) == [pc |-> "idle", tool |-> "none", args |-> "valid", id |-> NoId, result |-> result]

(* One record; `call` is history, the call it is really about. *)
Record(event, id, tool, ok) ==
  [event |-> event, id |-> id, call |-> d.id, tool |-> tool, ok |-> ok]

(* Slip: the failure is printed but not counted. *)
WritesUncounted(event, id, ok) ==
  /\ \/ log' = Append(log, Record(event, id, d.tool, ok))
     \/ LogFails /\ UNCHANGED log
  /\ lost' = IF log' = log THEN lost \cup {<<event, d.id>>} ELSE lost
  /\ UNCHANGED failures

(* AuditLog.write: the record is appended, or reported and counted. *)
Writes(event, id, ok) ==
  \/ /\ log' = Append(log, Record(event, id, d.tool, ok))
     /\ UNCHANGED <<failures, lost>>
  \/ /\ LogFails
     /\ failures' = failures + 1
     /\ lost' = lost \cup {<<event, d.id>>}
     /\ UNCHANGED log

IsDispatchable(t) == t \in Registered /\ (t \in Network => t \in Allowed)

(* What specs() advertises to the model. *)
Specs == {t \in Registered : IsDispatchable(t)}

DispatchInit ==
  /\ d = Idle("none")
  /\ calls = 0
  /\ open = [t \in ToolNames |-> NoId]
  /\ failures = 0
  /\ log = <<>>
  /\ lost = {}
  /\ ran = {}

Call(t, args) ==
  /\ d.pc = "idle"
  /\ calls < MaxCalls
  /\ calls' = calls + 1
  /\ d' = [pc |-> "before", tool |-> t, args |-> args, id |-> calls + 1, result |-> "none"]
  /\ UNCHANGED <<open, failures, log, lost, ran>>

(* Slip: the id is remembered only once the record is safe. *)
BeforeCallLate ==
  /\ d.pc = "before"
  /\ Writes("before", d.id, TRUE)
  /\ open' = IF log' = log THEN open ELSE [open EXCEPT ![d.tool] = d.id]
  /\ d' = [d EXCEPT !.pc = "decide"]
  /\ UNCHANGED <<calls, ran>>

(* before_call; dispatch fails closed when it raises. *)
BeforeCall ==
  /\ d.pc = "before"
  /\ \/ /\ open' = [open EXCEPT ![d.tool] = d.id]
        /\ Writes("before", d.id, TRUE)
        /\ d' = [d EXCEPT !.pc = "decide"]
     \/ /\ SinkRaises
        /\ d' = Idle("refused")
        /\ UNCHANGED <<open, failures, log, lost>>
  /\ UNCHANGED <<calls, ran>>

(* Slip: advertised or not, a registered tool runs. *)
PermittedIfRegistered(t, args) == t \in Registered /\ args = "valid"

(* Slip: an unknown name is not refused. *)
PermittedUnlessNetwork(t, args) == (t \in Network => t \in Allowed) /\ args = "valid"

(* _decide_and_run does not ask is_dispatchable, it has a test of its own. *)
Refuses(t) == t \notin Registered \/ (t \in Network /\ t \notin Allowed)
Permitted(t, args) == ~Refuses(t) /\ args = "valid"

(* Slip: a refused call returns at once, without after_call. *)
DecideReturning ==
  /\ d.pc = "decide"
  /\ d' = IF Permitted(d.tool, d.args) THEN [d EXCEPT !.pc = "run"]
          ELSE [d EXCEPT !.pc = "idle", !.result = "failed"]
  /\ UNCHANGED <<calls, open, failures, log, lost, ran>>

(* Unknown name, network policy, schema: refused, or the tool runs.  What  *)
(* else validate_args raises for a null in the schema is caught in         *)
(* dispatch, past after_call.                                              *)
Decide ==
  /\ d.pc = "decide"
  /\ \/ d' = IF Permitted(d.tool, d.args) THEN [d EXCEPT !.pc = "run"]
             ELSE [d EXCEPT !.pc = "after", !.result = "failed"]
     \/ /\ ~Refuses(d.tool) /\ d.tool \in NullSchemas
        /\ d' = [d EXCEPT !.pc = "idle", !.result = "refused"]
  /\ UNCHANGED <<calls, open, failures, log, lost, ran>>

(* Slip: an exception of the tool is not caught. *)
RunToolRaising ==
  /\ d.pc = "run"
  /\ \E out \in Outcomes :
       d' = IF out = "raised" THEN [d EXCEPT !.pc = "raised"]
            ELSE [d EXCEPT !.pc = "after", !.result = IF out = "ok" THEN "ok" ELSE "failed"]
  /\ ran' = ran \cup {[id |-> d.id, tool |-> d.tool, args |-> d.args]}
  /\ UNCHANGED <<calls, open, failures, log, lost>>

(* The tool runs; an exception or a wrong result counts as failed.  A      *)
(* proposal that was staged is recorded, in the same log but with no id.   *)
RunTool ==
  /\ d.pc = "run"
  /\ \E out \in Outcomes :
       /\ d' = [d EXCEPT !.pc = "after", !.result = IF out = "ok" THEN "ok" ELSE "failed"]
       /\ IF out = "ok" /\ d.tool \in Proposers
          THEN Writes("proposed", NoId, TRUE)
          ELSE UNCHANGED <<failures, log, lost>>
  /\ ran' = ran \cup {[id |-> d.id, tool |-> d.tool, args |-> d.args]}
  /\ UNCHANGED <<calls, open>>

(* Slip: a failing after_call leaves the result as it is. *)
AfterCallLenient ==
  /\ d.pc = "after"
  /\ open' = [open EXCEPT ![d.tool] = NoId]
  /\ \/ Writes("after", open[d.tool], d.result = "ok")
     \/ SinkRaises /\ UNCHANGED <<failures, log, lost>>
  /\ d' = [d EXCEPT !.pc = "idle"]
  /\ UNCHANGED <<calls, ran>>

(* after_call pairs with the id popped for the tool; when it raises the    *)
(* result is withheld.                                                     *)
AfterCall ==
  /\ d.pc = "after"
  /\ \/ /\ open' = [open EXCEPT ![d.tool] = NoId]
        /\ Writes("after", open[d.tool], d.result = "ok")
        /\ d' = [d EXCEPT !.pc = "idle"]
     \/ /\ SinkRaises
        /\ d' = [d EXCEPT !.pc = "idle", !.result = "withheld"]
        /\ UNCHANGED <<open, failures, log, lost>>
  /\ UNCHANGED <<calls, ran>>

(* The process is killed (Ctrl-C in run is not an Exception either) and a  *)
(* new one starts.                                                         *)
Restart ==
  /\ Dies
  /\ d' = Idle("none")
  /\ open' = [t \in ToolNames |-> NoId]
  /\ failures' = 0
  /\ UNCHANGED <<calls, log, lost, ran>>

DispatchStep == BeforeCall \/ Decide \/ RunTool \/ AfterCall

DispatchNext ==
  \/ \E t \in ToolNames, args \in {"valid", "invalid"} : Call(t, args)
  \/ DispatchStep
  \/ Restart

DispatchSpec == DispatchInit /\ [][DispatchNext]_dispatchVars

-----------------------------------------------------------------------------
(* Properties *)

DispatchTypeOK ==
  /\ d \in [pc : {"idle", "before", "decide", "run", "after"}, tool : ToolNames \cup {"none"},
            args : {"valid", "invalid"}, id : 0..MaxCalls, result : Results]
  /\ calls \in 0..MaxCalls
  /\ open \in [ToolNames -> 0..MaxCalls]
  /\ failures \in 0..(3 * MaxCalls)
  /\ log \in Seq([event : Events, id : 0..MaxCalls, call : Ids, tool : ToolNames, ok : BOOLEAN])
  /\ lost \subseteq Events \X Ids
  /\ ran \subseteq [id : Ids, tool : Registered, args : {"valid"}]

Logged(event, c) == \E i \in DOMAIN log : log[i].event = event /\ log[i].call = c

(* A tool only ever runs when it is one of those the model was shown, its  *)
(* arguments passed the schema, and the call was announced: the record was *)
(* written, or its loss reported.                                          *)
RunsOnlyWhatWasShown ==
  \A r \in ran : /\ r.tool \in Specs
                 /\ r.args = "valid"
                 /\ Logged("before", r.id) \/ <<"before", r.id>> \in lost

(* A reader of the log can pair the records: an outcome carries the id of  *)
(* its own call and comes after the announcement, if that was written, and *)
(* what a proposal recorded is between the two; no call has two of any.    *)
Precedes(e, f) == (e = "before" /\ f # "before") \/ (e # "after" /\ f = "after")

RecordsPairUp ==
  \A i \in DOMAIN log :
    /\ log[i].id = IF log[i].event = "proposed" THEN NoId ELSE log[i].call
    /\ \A j \in DOMAIN log :
         log[j].call = log[i].call =>
           /\ log[j].tool = log[i].tool
           /\ log[j].event = log[i].event => i = j
           /\ Precedes(log[j].event, log[i].event) => j < i

(* The agent is only given a result that is accounted for: both records of *)
(* its call exist or were counted as lost, and ok means that the tool ran. *)
ResultIsAccountedFor ==
  d.pc = "idle" /\ d.result \in {"ok", "failed"} =>
    /\ \A event \in {"before", "after"} :
         Logged(event, calls) \/ <<event, calls>> \in lost
    /\ d.result = "ok" => \E r \in ran : r.id = calls

(* Fail closed: an unaudited call does not happen. *)
UnauditedCallsDoNotRun == \A r \in ran : Logged("before", r.id)

-----------------------------------------------------------------------------
(* Refinement *)

Accounted(event) == {c \in Ids : Logged(event, c) \/ <<event, c>> \in lost}

Audited == INSTANCE AuditedCall WITH
  Calls <- Ids,
  announced <- Accounted("before"),
  executed <- {r.id : r \in ran},
  concluded <- Accounted("after"),
  told <- IF d.pc = "idle" /\ d.result \in {"ok", "failed"}
          THEN [call |-> calls, how |-> d.result]
          ELSE [call |-> 0, how |-> "nothing"]

(* Dispatch implements the audited call: whatever the policies, the audit  *)
(* sink and the tool do, and wherever the process is killed, a call is     *)
(* announced, run at most once, concluded and answered in this order, and  *)
(* an answer of an earlier call is never taken for that of the next.       *)
ImplementsAuditedCall == Audited!Spec
=============================================================================
