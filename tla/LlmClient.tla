----------------------------- MODULE LlmClient -----------------------------
(***************************************************************************)
(* LLMClient.chat: what the harness makes of one answer of the endpoint.   *)
(* It is used twice, by the probe at startup and by the agent loop.        *)
(*                                                                         *)
(* Abstracted: an answer says what became of the request, its status, what *)
(* the body is, the entries of message.tool_calls and the kind of content; *)
(* `mentions` is whether the error text quotes an answer that names the    *)
(* vLLM options.                                                           *)
(* The arguments of an entry are an object that satisfies the tool's       *)
(* schema ("valid") or does not ("invalid"), text that is not a JSON       *)
(* object ("malformed"), or JSON that json.loads gives up on with another  *)
(* exception than JSONDecodeError ("exploding": an integer of more than    *)
(* 4300 digits, or nesting beyond the recursion limit).  A whole body can  *)
(* be nested too deep as well.  A request "fails" with an httpx.HTTPError, *)
(* or "raises" another exception (a payload that cannot be encoded, say).  *)
(***************************************************************************)
EXTENDS Naturals, Sequences, FiniteSetsExt

CONSTANTS
  FunctionNames,  \* what function.name may be
  Answers         \* the answers the endpoint may give

NoName == ""
Arguments == {"valid", "invalid", "malformed", "exploding"}
Entries == [name : FunctionNames \cup {NoName}, args : Arguments]
Contents == {"prose", "markup", "null"}
Requests == {"answered", "fails", "raises"}
Bodies == {"not_json", "too_deep", "not_completion", "completion"}

IsAnswer(r) ==
  /\ DOMAIN r = {"request", "status", "body", "calls", "content", "mentions"}
  /\ r.request \in Requests
  /\ r.mentions \in BOOLEAN
  /\ r.status \in {"2xx", "other"}
  /\ r.body \in Bodies
  /\ r.calls \in Seq(Entries)
  /\ r.content \in Contents

ASSUME AnswersAssumption == \A r \in Answers : IsAnswer(r)

(* A chat ends with a response, with LLMError, or with an exception no     *)
(* caller expects.                                                         *)
Outcome(kind, calls, content) == [kind |-> kind, calls |-> calls, content |-> content]

(* Entries are read in order, and the first bad one ends it. *)
ParseToolCalls(entries) ==
  LET bad == {i \in DOMAIN entries : entries[i].name = NoName \/ entries[i].args = "exploding"} IN
  IF bad = {}
  THEN [kind |-> "response", calls |-> entries]
  ELSE [kind |-> IF entries[Min(bad)].name = NoName THEN "LLMError" ELSE "escapes",
        calls |-> <<>>]

ParseCompletion(r) ==
  IF r.body = "not_completion"
  THEN Outcome("LLMError", <<>>, "null")
  ELSE LET p == ParseToolCalls(r.calls) IN
       Outcome(p.kind, p.calls, IF p.kind = "response" THEN r.content ELSE "null")

(* chat catches an HTTPError of post and a ValueError of resp.json only. *)
Chat(r) ==
  IF r.request = "raises" \/ (r.request = "answered" /\ r.status = "2xx" /\ r.body = "too_deep")
  THEN Outcome("escapes", <<>>, "null")
  ELSE IF r.request = "fails" \/ r.status # "2xx" \/ r.body = "not_json"
       THEN Outcome("LLMError", <<>>, "null")
       ELSE ParseCompletion(r)
=============================================================================
