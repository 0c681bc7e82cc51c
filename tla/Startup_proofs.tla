--------------------------- MODULE Startup_proofs ---------------------------
(***************************************************************************)
(* Theorems about the start of narrowgate, for every set of answers an     *)
(* endpoint may give: however often config.yaml and the endpoint change    *)
(* between the steps, neither preflight nor the harness trusts an endpoint *)
(* it has not seen emit a tool call.                                       *)
(***************************************************************************)
EXTENDS Startup, TLAPS

(* What the checks above the loop may rely on. *)
StartInv == RunsOnlyOnToolCalls /\ PreflightIsTrue

-----------------------------------------------------------------------------
(* The probe *)

LEMMA ProbeType ==
  ASSUME NEW r
  PROVE  ProbeToolCalls(r) \in Supports
  BY DEF ProbeToolCalls, Supports, Support, Raised

(* A response holds the entries as they were sent, and none of them blew up. *)
LEMMA ResponseIsClean ==
  ASSUME NEW r \in Answers, Chat(r).kind = "response"
  PROVE  /\ r.request = "answered" /\ r.status = "2xx" /\ r.body = "completion"
         /\ Chat(r).calls = r.calls
         /\ \A i \in DOMAIN r.calls : r.calls[i].args # "exploding"
<1>1. r.body \in Bodies /\ r.request \in Requests
  BY AnswersAssumption DEF IsAnswer
<1>2. r.request = "answered" /\ r.status = "2xx" /\ r.body = "completion"
  BY <1>1 DEF Chat, Outcome, ParseCompletion, Bodies, Requests
<1>3. Chat(r) = ParseCompletion(r)
  BY <1>2 DEF Chat
<1>4. ParseToolCalls(r.calls).kind = "response" /\ Chat(r).calls = ParseToolCalls(r.calls).calls
  BY <1>2, <1>3 DEF ParseCompletion, Outcome
<1>5. {i \in DOMAIN r.calls : r.calls[i].name = NoName \/ r.calls[i].args = "exploding"} = {}
  BY <1>4 DEF ParseToolCalls
<1>6. ParseToolCalls(r.calls).calls = r.calls
  BY <1>5 DEF ParseToolCalls
<1> QED
  BY <1>2, <1>4, <1>5, <1>6

(* The probe calls native only what is. *)
LEMMA NativeIsSeen ==
  ASSUME NEW r \in Answers, ProbeToolCalls(r).native
  PROVE  EmitsToolCalls(r)
<1>1. Chat(r).kind = "response" /\ Chat(r).calls # <<>>
  BY DEF ProbeToolCalls, Support, Raised
<1>2. Chat(r).calls[1].name = ProbeTool /\ Chat(r).calls[1].args # "malformed"
  BY <1>1 DEF ProbeToolCalls, Support
<1>3. /\ r.request = "answered" /\ r.status = "2xx" /\ r.body = "completion"
      /\ Chat(r).calls = r.calls
      /\ \A i \in DOMAIN r.calls : r.calls[i].args # "exploding"
  BY <1>1, ResponseIsClean
<1>4. r.calls \in Seq(Entries) /\ r.calls # <<>>
  BY <1>1, <1>3, AnswersAssumption DEF IsAnswer
<1>5. 1 \in DOMAIN r.calls /\ r.calls[1] \in Entries
  BY <1>4
<1> QED
  BY <1>2, <1>3, <1>4, <1>5 DEF EmitsToolCalls, Entries, Arguments

-----------------------------------------------------------------------------
(* Steps *)

(* The harness as every step finds it. *)
Starting(pc) == [pc |-> pc, read |-> config, seen |-> endpoint, exit |-> Running]

LEMMA TypeInit == Init => TypeOK /\ StartInv
<1> SUFFICES ASSUME Init PROVE TypeOK /\ StartInv
  OBVIOUS
<1>1. config \in Configs /\ endpoint \in Answers
  BY DEF Init
<1>2. TypeOK
  BY <1>1, ProbeType DEF Init, TypeOK, NoProcess, Codes, Success, Running
<1>3. harness.pc = "none" /\ preflight.exit # Success
  BY DEF Init, NoProcess, Running, Success
<1> QED
  BY <1>2, <1>3 DEF StartInv, RunsOnlyOnToolCalls, PreflightIsTrue

LEMMA PreflightStep ==
  ASSUME TypeOK, StartInv, NEW override \in BOOLEAN, Preflight(override)
  PROVE  TypeOK' /\ StartInv'
<1> DEFINE s == ProbeToolCalls(endpoint)
<1>1. s \in Supports /\ endpoint \in Answers
  BY ProbeType DEF TypeOK
<1>2. PreflightCode(s) \in Codes /\ (PreflightCode(s) = Success => s.native)
  BY DEF PreflightCode, Codes, Success, Refused, Traceback
<1>3. CASE override \/ IsAccepted(config)
  <2>1. preflight' = [exit |-> PreflightCode(s), probe |-> s, seen |-> endpoint]
    BY <1>3 DEF Preflight
  <2>2. preflight'.exit = Success => EmitsToolCalls(preflight'.seen)
    BY <1>1, <1>2, <2>1, NativeIsSeen
  <2>3. TypeOK'
    BY <1>1, <1>2, <2>1 DEF Preflight, TypeOK
  <2> QED
    BY <2>2, <2>3 DEF Preflight, StartInv, RunsOnlyOnToolCalls, PreflightIsTrue
<1>4. CASE ~(override \/ IsAccepted(config))
  <2>1. preflight' = [preflight EXCEPT !.exit = LoadCode(config)]
    BY <1>4 DEF Preflight
  <2>2. preflight'.exit # Success
    BY <2>1 DEF TypeOK, LoadCode, ConfigRejected, Traceback, Success
  <2>3. TypeOK'
    BY <2>1 DEF Preflight, TypeOK, Codes, LoadCode
  <2> QED
    BY <2>2, <2>3 DEF Preflight, StartInv, RunsOnlyOnToolCalls, PreflightIsTrue
<1> QED
  BY <1>3, <1>4

(* A step of the harness: it is gone, goes on, or was let through. *)
LEMMA HarnessStep ==
  ASSUME TypeOK, StartInv, UNCHANGED <<config, endpoint, preflight>>,
         \/ \E exit \in Codes \ {Running} : harness' = NoProcess(exit)
         \/ IsAccepted(config) /\ harness' = Starting("probe")
         \/ /\ harness.pc = "probe" /\ harness' = [harness EXCEPT !.pc = "wire", !.seen = endpoint]
            /\ harness.read.native => EmitsToolCalls(endpoint)
         \/ harness.pc = "wire" /\ harness' = [harness EXCEPT !.pc = "running"]
  PROVE  TypeOK' /\ StartInv'
<1>1. CASE \E exit \in Codes \ {Running} : harness' = NoProcess(exit)
  <2>1. TypeOK' /\ harness'.pc = "none"
    BY <1>1 DEF TypeOK, NoProcess
  <2> QED
    BY <2>1 DEF StartInv, RunsOnlyOnToolCalls, PreflightIsTrue
<1>2. CASE IsAccepted(config) /\ harness' = Starting("probe")
  <2>1. TypeOK' /\ harness'.pc = "probe"
    BY <1>2 DEF TypeOK, Starting
  <2> QED
    BY <2>1 DEF StartInv, RunsOnlyOnToolCalls, PreflightIsTrue
<1>3. CASE /\ harness.pc = "probe" /\ harness' = [harness EXCEPT !.pc = "wire", !.seen = endpoint]
           /\ harness.read.native => EmitsToolCalls(endpoint)
  <2>1. harness.read \in {c \in Configs : IsAccepted(c)} /\ endpoint \in Answers
    BY <1>3 DEF TypeOK
  <2>2. TypeOK' /\ harness'.read = harness.read /\ harness'.seen = endpoint
    BY <1>3, <2>1 DEF TypeOK
  <2> QED
    BY <1>3, <2>1, <2>2 DEF StartInv, RunsOnlyOnToolCalls, PreflightIsTrue
<1>4. CASE harness.pc = "wire" /\ harness' = [harness EXCEPT !.pc = "running"]
  <2>1. harness'.read = harness.read /\ harness'.seen = harness.seen
    BY <1>4 DEF TypeOK
  <2>2. TypeOK'
    BY <1>4 DEF TypeOK
  <2> QED
    BY <1>4, <2>1, <2>2 DEF StartInv, RunsOnlyOnToolCalls, PreflightIsTrue
<1> QED
  BY <1>1, <1>2, <1>3, <1>4

LEMMA StartStep == TypeOK /\ StartInv /\ [Next]_vars => TypeOK' /\ StartInv'
<1> SUFFICES ASSUME TypeOK, StartInv, [Next]_vars PROVE TypeOK' /\ StartInv'
  OBVIOUS
<1>c. {Success, Refused, ConfigRejected, Traceback} \subseteq Codes \ {Running}
  BY DEF Codes, Success, Refused, ConfigRejected, Traceback, Running
<1>1. CASE UNCHANGED vars
  BY <1>1 DEF vars, TypeOK, StartInv, RunsOnlyOnToolCalls, PreflightIsTrue
<1>2. CASE EditConfig \/ ChangeEndpoint
  BY <1>2 DEF EditConfig, ChangeEndpoint, TypeOK, StartInv, RunsOnlyOnToolCalls, PreflightIsTrue
<1>3. ASSUME NEW override \in BOOLEAN, Preflight(override) PROVE TypeOK' /\ StartInv'
  BY <1>3, PreflightStep
<1>4. CASE Load
  BY <1>4, <1>c, HarnessStep DEF Load, LoadCode, Starting
<1>5. CASE EnsureSupported
  <2>1. harness.read \in Configs /\ endpoint \in Answers
    BY DEF TypeOK
  <2>2. ~harness.read.native \/ ProbeToolCalls(endpoint).native =>
          (harness.read.native => EmitsToolCalls(endpoint))
    BY <2>1, NativeIsSeen
  <2> QED
    BY <1>5, <1>c, <2>2, HarnessStep DEF EnsureSupported
<1>6. CASE Wire
  BY <1>6, <1>c, HarnessStep DEF Wire
<1>7. CASE Quit
  BY <1>7, <1>c, HarnessStep DEF Quit
<1> QED
  BY <1>1, <1>2, <1>3, <1>4, <1>5, <1>6, <1>7 DEF Next

LEMMA StartInductive == Spec => [](TypeOK /\ StartInv)
  BY TypeInit, StartStep, PTL DEF Spec

-----------------------------------------------------------------------------
(* Theorems *)

(* A harness that comes up read an accepted configuration; if that one     *)
(* requires native tool calls, its own probe saw the endpoint emit one.    *)
THEOREM StartsOnToolCalls == Spec => []RunsOnlyOnToolCalls
  BY StartInductive, PTL DEF StartInv

(* `narrowgate preflight` exits 0 on evidence only.                        *)
THEOREM PreflightTells == Spec => []PreflightIsTrue
  BY StartInductive, PTL DEF StartInv

(* Every state of the start is of its type, exit codes included.           *)
THEOREM StartTypes == Spec => []TypeOK
  BY StartInductive, PTL
=============================================================================
