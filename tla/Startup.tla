------------------------------ MODULE Startup ------------------------------
(***************************************************************************)
(* How narrowgate comes up: `narrowgate preflight` and `narrowgate` read   *)
(* config.yaml and probe the endpoint; the agent loop starts only if that  *)
(* goes well.  Meanwhile the operator edits the file and the environment   *)
(* and restarts the endpoint, and a model does not answer the probe the    *)
(* same way every time.                                                    *)
(*                                                                         *)
(* Abstracted: a configuration is what load_config makes of it (accepted,  *)
(* ConfigError, or another exception, for text that is no UTF-8 or that    *)
(* YAML gives up on; the API key has to be there), its                     *)
(* require_native_tool_calls and whether workspace.root exists; of text    *)
(* formats only that there is one.                                         *)
(***************************************************************************)
EXTENDS LlmClient

CONSTANT ProbeTool   \* get_weather

VARIABLES
  config,     \* what config.yaml and the environment say
  endpoint,   \* the answer the endpoint gives to a probe at present
  harness,    \* the harness process
  preflight   \* the last preflight: its exit code and the probe it reports

vars == <<config, endpoint, harness, preflight>>

(* What else a configuration says that does not load is of no consequence. *)
Configs ==
  [loads : {"accepted"}, native : BOOLEAN, root : {"exists", "missing"}]
    \cup [loads : {"rejected", "raises"}, native : {FALSE}, root : {"missing"}]
IsAccepted(c) == c.loads = "accepted"

(* Exit codes of both commands; Running before there is one, Traceback for *)
(* an exception nobody catches (the interpreter exits with 1 then too).    *)
Running == -1
Success == 0
Refused == 1
ConfigRejected == 2
Traceback == 3

Support(native, hint) == [raised |-> FALSE, native |-> native, hint |-> hint]
Raised == [raised |-> TRUE, native |-> FALSE, hint |-> "none"]

(* Slip: any tool_calls array will do. *)
ProbeAnyCall(r) ==
  LET c == Chat(r) IN
  CASE c.kind = "escapes" -> Raised
    [] c.kind = "LLMError" -> Support(FALSE, IF r.mentions THEN "hermes" ELSE "none")
    [] c.kind = "response" /\ c.calls # <<>> -> Support(TRUE, "none")
    [] OTHER -> Support(FALSE, IF c.content = "markup" THEN "matching" ELSE "none")

(* The probe's decision on one answer; an LLMError is searched for the     *)
(* names of the vLLM options.                                              *)
ProbeToolCalls(r) ==
  LET c == Chat(r) IN
  CASE c.kind = "escapes" -> Raised
    [] c.kind = "LLMError" -> Support(FALSE, IF r.mentions THEN "hermes" ELSE "none")
    [] c.kind = "response" /\ c.calls # <<>> ->
         Support(c.calls[1].name = ProbeTool /\ c.calls[1].args # "malformed", "none")
    [] OTHER -> Support(FALSE, IF c.content = "markup" THEN "matching" ELSE "none")

NoProcess(exit) == [pc |-> "none", read |-> config, seen |-> endpoint, exit |-> exit]

Init ==
  /\ config \in Configs
  /\ endpoint \in Answers
  /\ harness = NoProcess(Success)
  /\ preflight = [exit |-> Running, probe |-> ProbeToolCalls(endpoint), seen |-> endpoint]

EditConfig == config' \in Configs /\ UNCHANGED <<endpoint, harness, preflight>>
ChangeEndpoint == endpoint' \in Answers /\ UNCHANGED <<config, harness, preflight>>

(* Both commands catch ConfigError. *)
LoadCode(c) == IF c.loads = "raises" THEN Traceback ELSE ConfigRejected
PreflightCode(s) == IF s.raised THEN Traceback ELSE IF s.native THEN Success ELSE Refused

(* With both --base-url and --model the configuration is not read at all. *)
Preflight(override) ==
  /\ preflight' =
       IF override \/ IsAccepted(config)
       THEN [exit |-> PreflightCode(ProbeToolCalls(endpoint)),
             probe |-> ProbeToolCalls(endpoint), seen |-> endpoint]
       ELSE [preflight EXCEPT !.exit = LoadCode(config)]
  /\ UNCHANGED <<config, endpoint, harness>>

(* Slip: the rejection is printed and the start goes on. *)
LoadLenient ==
  /\ harness.pc = "none"
  /\ harness' = [pc |-> "probe", read |-> config, seen |-> endpoint, exit |-> Running]
  /\ UNCHANGED <<config, endpoint, preflight>>

(* load_config and resolve_api_key. *)
Load ==
  /\ harness.pc = "none"
  /\ harness' = IF IsAccepted(config)
                THEN [pc |-> "probe", read |-> config, seen |-> endpoint, exit |-> Running]
                ELSE NoProcess(LoadCode(config))
  /\ UNCHANGED <<config, endpoint, preflight>>

(* Slip: the flag is read the wrong way round. *)
EnsureInverted ==
  /\ harness.pc = "probe"
  /\ LET s == ProbeToolCalls(endpoint) IN
     harness' = IF harness.read.native \/ s.native
                THEN [harness EXCEPT !.pc = "wire", !.seen = endpoint]
                ELSE NoProcess(IF s.raised THEN Traceback ELSE Refused)
  /\ UNCHANGED <<config, endpoint, preflight>>

(* ensure_tool_calls_supported: no probe at all unless it is required. *)
EnsureSupported ==
  /\ harness.pc = "probe"
  /\ LET s == ProbeToolCalls(endpoint) IN
     harness' = IF ~harness.read.native \/ s.native
                THEN [harness EXCEPT !.pc = "wire", !.seen = endpoint]
                ELSE NoProcess(IF s.raised THEN Traceback ELSE Refused)
  /\ UNCHANGED <<config, endpoint, preflight>>

(* build_registry makes the Workspace, which wants an existing directory. *)
Wire ==
  /\ harness.pc = "wire"
  /\ harness' = IF harness.read.root = "exists"
                THEN [harness EXCEPT !.pc = "running"]
                ELSE NoProcess(Traceback)
  /\ UNCHANGED <<config, endpoint, preflight>>

Quit ==
  /\ harness.pc = "running"
  /\ harness' = NoProcess(Success)
  /\ UNCHANGED <<config, endpoint, preflight>>

Next == \/ EditConfig \/ ChangeEndpoint
        \/ \E override \in BOOLEAN : Preflight(override)
        \/ Load \/ EnsureSupported \/ Wire \/ Quit

Spec == Init /\ [][Next]_vars

-----------------------------------------------------------------------------
(* Properties *)

Codes == {Running, Success, Refused, ConfigRejected, Traceback}
Supports == [raised : BOOLEAN, native : BOOLEAN, hint : {"none", "hermes", "matching"}]

TypeOK ==
  /\ config \in Configs
  /\ endpoint \in Answers
  /\ harness \in [pc : {"none"}, read : Configs, seen : Answers, exit : Codes \ {Running}]
       \cup [pc : {"probe", "wire", "running"}, read : {c \in Configs : IsAccepted(c)},
             seen : Answers, exit : {Running}]
  /\ preflight \in [exit : Codes, probe : Supports, seen : Answers]

(* What the probe's docstring calls native: tool_calls is a non-empty list *)
(* whose first entry names the probe tool with arguments that decode to a  *)
(* JSON object.                                                            *)
EmitsToolCalls(r) ==
  /\ r.request = "answered" /\ r.status = "2xx" /\ r.body = "completion"
  /\ r.calls # <<>>
  /\ r.calls[1].name = ProbeTool
  /\ r.calls[1].args \in {"valid", "invalid"}

(* The loop never runs on an endpoint that was not seen to emit tool calls *)
(* by this very process, unless the configuration it read, which may have  *)
(* been edited since, asks for no such thing.                              *)
RunsOnlyOnToolCalls ==
  harness.pc \in {"wire", "running"} =>
    IsAccepted(harness.read) /\ (harness.read.native => EmitsToolCalls(harness.seen))

(* preflight never exits 0 on a guess. *)
PreflightIsTrue == preflight.exit = Success => EmitsToolCalls(preflight.seen)

-----------------------------------------------------------------------------
(* What docstrings and messages say and the code does not do.  README.md   *)
(* has the quotations and the traces.                                      *)

(* The probe does not raise: what goes wrong is reported as native=False. *)
ProbeNeverRaises == preflight.exit = Traceback => ~preflight.probe.raised

(* The agent refuses to start until preflight passes: it does not come up  *)
(* on the very answer that preflight has just turned down.                 *)
RefusesUntilPreflightPasses ==
  harness.pc = "running" /\ harness.seen = preflight.seen => preflight.exit # Refused

(* The probe names no parser it has no evidence for: a hint means that the *)
(* model wrote the call as text in a recognised format.                    *)
HintHasEvidence ==
  preflight.exit = Refused /\ preflight.probe.hint # "none" =>
    preflight.seen.content = "markup" /\ Chat(preflight.seen).kind = "response"

(* A configuration that was accepted is one the harness comes up with, as  *)
(* the quick start has it: only the endpoint can stop it.                  *)
AcceptedConfigStarts ==
  harness.exit = Traceback /\ IsAccepted(harness.read) => Chat(harness.seen).kind = "escapes"
=============================================================================
