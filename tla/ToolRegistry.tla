---------------------------- MODULE ToolRegistry ----------------------------
(***************************************************************************)
(* Registry: tools are registered at startup, and calls of them dispatched *)
(* with whatever arguments a model sends, after it was shown the tools.    *)
(* Dispatch looks at what the audit log makes of a call; here the hooks    *)
(* always succeed, and it is the declarations and arguments that matter.   *)
(***************************************************************************)
EXTENDS ArgSchema

CONSTANTS
  Objects,     \* what register is given: name, description, ... as attributes
  ValidNames,  \* the names validate_tool_name accepts
  Allowed,     \* network.allow_tools
  Arguments,   \* what a model sends
  MaxCalls     \* bound: how many calls are dispatched

VARIABLES
  tools,  \* Registry._tools: the object registered under each name
  shown,  \* history: the tools that specs() last showed to the model
  call    \* the call in progress, or the last one

registryVars == <<tools, shown, call>>

ASSUME RegistryAssumption ==
  /\ Arguments \subseteq Values /\ MaxCalls \in Nat
  /\ \A t \in Objects : t.schema \in Values

(* `meant` is history: what the model was shown under the name it calls,   *)
(* as a set of at most one object.                                         *)
NoCall == [pc |-> "idle", number |-> 0, name |-> "none", args |-> None, outcome |-> "none",
           hooks |-> <<>>, meant |-> {}]

RegistryInit == tools = <<>> /\ shown = <<>> /\ call = NoCall

Named == {t.name : t \in Objects}

(* What register looks at beside the names that are taken; "" is blank. *)
IsWellDeclared(t) ==
  /\ t.name \in ValidNames
  /\ Is(t.description, "str") /\ t.description.str # ""
  /\ Is(t.requires_network, "bool")
  /\ t.callable
  /\ ValidateSchema(t.schema)

(* self._tools[name] = tool *)
Entered(t) == [n \in DOMAIN tools \cup {t.name} |-> IF n = t.name THEN t ELSE tools[n]]

(* Slip: the last registration of a name counts. *)
RegisterAnew(t) ==
  /\ call.pc = "idle"
  /\ tools' = IF IsWellDeclared(t) THEN Entered(t) ELSE tools
  /\ UNCHANGED <<shown, call>>

(* register; what it raises for leaves the registry as it was. *)
Register(t) ==
  /\ call.pc = "idle"
  /\ tools' = IF IsWellDeclared(t) /\ t.name \notin DOMAIN tools THEN Entered(t) ELSE tools
  /\ UNCHANGED <<shown, call>>

IsDispatchable(n) ==
  n \in DOMAIN tools /\ (tools[n].requires_network.bool => n \in Allowed)

(* specs, which Agent.run asks for once per input. *)
Show ==
  /\ call.pc = "idle"
  /\ shown' = [n \in {m \in DOMAIN tools : IsDispatchable(m)} |-> tools[n]]
  /\ UNCHANGED <<tools, call>>

BeforeCall(name, args) ==
  /\ call.pc = "idle"
  /\ call.number < MaxCalls
  /\ call' = [pc |-> "decide", number |-> call.number + 1, name |-> name, args |-> args,
              outcome |-> "none", hooks |-> <<"before">>,
              meant |-> IF name \in DOMAIN shown THEN {shown[name]} ELSE {}]
  /\ UNCHANGED <<tools, shown>>

(* _decide_and_run *)
Outcome(name, args) ==
  IF name \notin DOMAIN tools THEN "unknown"
  ELSE IF tools[name].requires_network.bool /\ name \notin Allowed THEN "denied"
  ELSE LET checked == ValidateArgs(tools[name].schema, args) IN
       IF checked = "accepted" THEN "ran" ELSE checked

Decided(outcome, pc) ==
  /\ call' = [call EXCEPT !.pc = pc, !.outcome = outcome]
  /\ UNCHANGED <<tools, shown>>

(* Slip: a call that is refused returns at once. *)
DecideReturning ==
  /\ call.pc = "decide"
  /\ LET outcome == Outcome(call.name, call.args) IN
     Decided(outcome, IF outcome = "ran" THEN "after" ELSE "idle")

(* An exception other than ArgumentError passes after_call as well, and is *)
(* caught in dispatch.                                                     *)
Decide ==
  /\ call.pc = "decide"
  /\ LET outcome == Outcome(call.name, call.args) IN
     Decided(outcome, IF outcome = "raises" THEN "idle" ELSE "after")

AfterCall ==
  /\ call.pc = "after"
  /\ call' = [call EXCEPT !.pc = "idle", !.hooks = Append(@, "after")]
  /\ UNCHANGED <<tools, shown>>

RegistryNext ==
  \/ \E t \in Objects : Register(t)
  \/ Show
  \/ \E name \in Named, args \in Arguments : BeforeCall(name, args)
  \/ Decide \/ AfterCall

RegistrySpec == RegistryInit /\ [][RegistryNext]_registryVars

-----------------------------------------------------------------------------
(* Properties *)

(* The object the last call was a call of, if there was one. *)
Called == tools[call.name]

(* A tool only ever sees arguments that satisfy its schema as JSON Schema  *)
(* has it, with two exceptions: no bound turns down NaN, and none that is  *)
(* NaN turns down anything, and enum and const compare with ==, for which  *)
(* True is 1 and False is 0.                                               *)
AcceptedIsValid ==
  call.outcome = "ran" =>
    \/ IsValid[<<Called.schema, call.args>>]
    \/ [float |-> NaN] \in Subvalues[call.args] \cup Subvalues[Called.schema]
    \/ \E v \in Subvalues[call.args], w \in Literals(Called.schema) :
         PythonEqual[<<v, w>>] /\ ~JsonEqual[<<v, w>>]

(* Arguments that satisfy the schema are not refused, but for a whole      *)
(* number written as a float, which is no integer, and for undeclared keys *)
(* of an inner object, whose schema has to allow them.                     *)
RefusedIsInvalid ==
  call.outcome = "refused" =>
    \/ ~IsValid[<<Called.schema, call.args>>]
    \/ \E s \in Subschemas[Called.schema], v \in Subvalues[call.args] :
         \/ /\ [str |-> "integer"] \in Declared(Operand(s, "type"))
            /\ Is(v, "float") /\ v.float # NaN /\ v.float % 2 = 0
         \/ /\ "additionalProperties" \notin DOMAIN s.dict
            /\ v # call.args /\ Is(v, "dict")

(* Whatever the model sends, both hooks are called, as long as no schema   *)
(* has null for its properties or required.                                *)
HooksAreCalled ==
  call.pc = "idle" /\ call.number > 0 =>
    \/ call.hooks = <<"before", "after">>
    \/ /\ call.name \in DOMAIN tools
       /\ \E s \in Subschemas[Called.schema], k \in {"properties", "required"} :
            k \in DOMAIN s.dict /\ s.dict[k] = None

(* A call of a tool the model was shown is a call of that tool, whatever   *)
(* was registered since: it is neither unknown nor denied, and it is run   *)
(* or turned down by the very schema the model had before it.              *)
CallsMeanWhatWasShown ==
  call.outcome # "none" =>
    \A t \in call.meant :
      LET checked == ValidateArgs(t.schema, call.args) IN
      /\ Called = t
      /\ call.outcome = IF checked = "accepted" THEN "ran" ELSE checked

(* Both hooks are called for every dispatch, including refused ones. *)
BothHooksAreCalled ==
  call.pc = "idle" /\ call.number > 0 => call.hooks = <<"before", "after">>
=============================================================================
