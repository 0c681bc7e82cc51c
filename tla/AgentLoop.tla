----------------------------- MODULE AgentLoop -----------------------------
(***************************************************************************)
(* Agent.run on top of Registry.dispatch: a conversation grows by the      *)
(* user's input, the endpoint's replies and one tool message per requested *)
(* call, within a budget of turns.  LlmClient says what a reply becomes,   *)
(* Dispatch what happens to a call.                                        *)
(*                                                                         *)
(* Abstracted: the system prompt is left out of the conversation; the body *)
(* of a tool message is "content" (the tool's output), "error" or          *)
(* "malformed".                                                            *)
(***************************************************************************)
EXTENDS Dispatch, LlmClient

CONSTANTS
  MaxTurns,   \* agent.max_turns
  MaxInputs   \* bound: how many inputs the user types in all

ASSUME LoopAssumption ==
  /\ MaxTurns \in Nat \ {0}
  /\ MaxInputs \in Nat
  /\ ToolNames = FunctionNames

VARIABLES
  pc,        \* prompt, chat (a request is due), call, await (dispatching), down
  messages,  \* the conversation of the running process
  turn,      \* requests that were answered for this input
  queue,     \* the calls of the last reply that have no tool message yet
  answer,    \* how the last run ended
  inputs,    \* how many inputs were typed
  started    \* history: the calls dispatched before this process started

loopVars == <<pc, messages, turn, queue, answer, inputs, started>>
agentVars == <<loopVars, dispatchVars>>

(* `id` is history: the dispatched call a tool message answers. *)
Message(role, entries, body, id) ==
  [role |-> role, calls |-> entries, body |-> body, id |-> id]
User == Message("user", <<>>, "content", NoId)
Assistant(entries) == Message("assistant", entries, "content", NoId)
Tool(entry, body, id) == Message("tool", <<entry>>, body, id)

Answered == {"none", "final", "llm_error", "stopped", "escaped"}

LoopInit ==
  /\ DispatchInit
  /\ pc = "prompt"
  /\ messages = <<>>
  /\ turn = 0
  /\ queue = <<>>
  /\ answer = "none"
  /\ inputs = 0
  /\ started = 0

Input ==
  /\ pc = "prompt"
  /\ inputs < MaxInputs
  /\ inputs' = inputs + 1
  /\ messages' = Append(messages, User)
  /\ turn' = 0
  /\ pc' = "chat"
  /\ UNCHANGED <<queue, answer, started, dispatchVars>>

(* Slip: the budget is tested after the turn. *)
WithinBudgetLate(t) == t <= MaxTurns

WithinBudget(t) == t < MaxTurns

(* The reply is recorded; one without calls is the final answer. *)
AskReplied ==
  /\ pc = "chat"
  /\ WithinBudget(turn)
  /\ \E r \in Answers :
       LET c == Chat(r) IN
       /\ c.kind = "response"
       /\ messages' = Append(messages, Assistant(c.calls))
       /\ queue' = c.calls
       /\ IF c.calls = <<>>
          THEN pc' = "prompt" /\ answer' = "final"
          ELSE pc' = "call" /\ UNCHANGED answer
  /\ turn' = turn + 1
  /\ UNCHANGED <<inputs, started, dispatchVars>>

(* Slip: run does not catch LLMError. *)
AskFailedUncaught ==
  /\ pc = "chat"
  /\ WithinBudget(turn)
  /\ \E r \in Answers : Chat(r).kind = "LLMError"
  /\ pc' = "down"
  /\ answer' = "escaped"
  /\ UNCHANGED <<messages, turn, queue, inputs, started, dispatchVars>>

AskFailed ==
  /\ pc = "chat"
  /\ WithinBudget(turn)
  /\ \E r \in Answers : Chat(r).kind = "LLMError"
  /\ pc' = "prompt"
  /\ answer' = "llm_error"
  /\ UNCHANGED <<messages, turn, queue, inputs, started, dispatchVars>>

(* An exception that run does not catch ends the process. *)
AskEscaped ==
  /\ pc = "chat"
  /\ WithinBudget(turn)
  /\ \E r \in Answers : Chat(r).kind = "escapes"
  /\ pc' = "down"
  /\ answer' = "escaped"
  /\ UNCHANGED <<messages, turn, queue, inputs, started, dispatchVars>>

Stop ==
  /\ pc = "chat"
  /\ ~WithinBudget(turn)
  /\ pc' = "prompt"
  /\ answer' = "stopped"
  /\ UNCHANGED <<messages, turn, queue, inputs, started, dispatchVars>>

(* The tool message for the head of the queue is appended. *)
Reply(body, id) ==
  /\ messages' = Append(messages, Tool(Head(queue), body, id))
  /\ queue' = Tail(queue)
  /\ pc' = IF Tail(queue) = <<>> THEN "chat" ELSE "call"

(* Slip: a malformed call is passed over. *)
AnswerMalformedSkipping ==
  /\ pc = "call"
  /\ Head(queue).args = "malformed"
  /\ queue' = Tail(queue)
  /\ pc' = IF Tail(queue) = <<>> THEN "chat" ELSE "call"
  /\ UNCHANGED <<messages, turn, answer, inputs, started, dispatchVars>>

AnswerMalformed ==
  /\ pc = "call"
  /\ Head(queue).args = "malformed"
  /\ Reply("malformed", NoId)
  /\ UNCHANGED <<turn, answer, inputs, started, dispatchVars>>

DispatchCall ==
  /\ pc = "call"
  /\ Head(queue).args # "malformed"
  /\ Call(Head(queue).name, Head(queue).args)
  /\ pc' = "await"
  /\ UNCHANGED <<messages, turn, queue, answer, inputs, started>>

(* Slip: a call that failed is dispatched once more. *)
TakeResultRetrying ==
  /\ pc = "await"
  /\ d.pc = "idle"
  /\ IF d.result = "ok"
     THEN Reply("content", calls)
     ELSE pc' = "call" /\ UNCHANGED <<messages, queue>>
  /\ UNCHANGED <<turn, answer, inputs, started, dispatchVars>>

(* Slip: only a failed tool makes an error message. *)
TakeResultTrusting ==
  /\ pc = "await"
  /\ d.pc = "idle"
  /\ Reply(IF d.result = "failed" THEN "error" ELSE "content", calls)
  /\ UNCHANGED <<turn, answer, inputs, started, dispatchVars>>

TakeResult ==
  /\ pc = "await"
  /\ d.pc = "idle"
  /\ Reply(IF d.result = "ok" THEN "content" ELSE "error", calls)
  /\ UNCHANGED <<turn, answer, inputs, started, dispatchVars>>

RunDispatch ==
  /\ pc = "await"
  /\ DispatchStep
  /\ UNCHANGED loopVars

(* The process ends, by Ctrl-D, a signal or an escaped exception, and a    *)
(* new one starts with a conversation of its own.                          *)
NewProcess ==
  /\ Dies
  /\ Restart
  /\ pc' = "prompt"
  /\ messages' = <<>>
  /\ turn' = 0
  /\ queue' = <<>>
  /\ answer' = "none"
  /\ started' = calls
  /\ UNCHANGED inputs

LoopStep ==
  \/ AskReplied \/ AskFailed \/ AskEscaped \/ Stop
  \/ AnswerMalformed \/ DispatchCall \/ RunDispatch \/ TakeResult
LoopNext == Input \/ LoopStep \/ NewProcess

LoopSpec == LoopInit /\ [][LoopNext]_agentVars

(* The request has a timeout, tools return: a run that was started goes on. *)
LoopFairSpec == LoopSpec /\ WF_agentVars(LoopStep)

-----------------------------------------------------------------------------
(* Properties *)

LoopTypeOK ==
  /\ DispatchTypeOK
  /\ pc \in {"prompt", "chat", "call", "await", "down"}
  /\ messages \in Seq([role : {"user", "assistant", "tool"}, calls : Seq(Entries),
                       body : {"content", "error", "malformed"}, id : 0..MaxCalls])
  /\ turn \in 0..MaxTurns
  /\ queue \in Seq(Entries)
  /\ answer \in Answered
  /\ inputs \in 0..MaxInputs
  /\ started \in 0..MaxCalls

(* The conversation is one the chat API accepts: the calls of a reply are  *)
(* answered by exactly one tool message each, directly after it and in     *)
(* their order, and whenever a request is due or the user is prompted none *)
(* is missing.                                                             *)
ConversationPairs ==
  \A i \in DOMAIN messages :
    /\ messages[i].role = "assistant" =>
         \A k \in DOMAIN messages[i].calls :
           IF i + k <= Len(messages)
           THEN messages[i + k].role = "tool" /\ messages[i + k].calls = <<messages[i].calls[k]>>
           ELSE pc \in {"call", "await"} /\ Len(queue) = Len(messages[i].calls) - (Len(messages) - i)
    /\ messages[i].role = "tool" =>
         \E j \in 1..(i - 1) : /\ messages[j].role = "assistant"
                               /\ i - j <= Len(messages[j].calls)

(* What a tool message tells the model is what happened: output only of a  *)
(* call whose tool ran and whose outcome was logged or counted as lost;    *)
(* and a call that ran is the one the model asked for.                     *)
ToolMessagesAreTrue ==
  \A i \in DOMAIN messages :
    LET m == messages[i]
        e == m.calls[1] IN
    m.role = "tool" =>
      /\ m.body = "content" =>
           \E r \in ran : /\ r.id = m.id /\ r.tool = e.name /\ r.args = e.args
                          /\ Logged("after", r.id) \/ <<"after", r.id>> \in lost
      /\ e.args = "malformed" => m.body = "malformed" /\ m.id = NoId
      /\ \A r \in ran : r.id = m.id => r.tool = e.name /\ r.args = e.args

(* A request is dispatched once: this process has dispatched as many calls *)
(* as its conversation has answered, and the one in progress.              *)
NoCallTwice ==
  calls - started =
    Cardinality({i \in DOMAIN messages : messages[i].id # NoId})
      + (IF pc = "await" THEN 1 ELSE 0)

(* No record vanishes silently: the failure counter of the process makes up *)
(* for every record of its calls that could not be written, also when an    *)
(* earlier process has left losses of its own.                              *)
LossesAreCounted == failures = Cardinality({x \in lost : x[2] > started})

(* No input costs more requests than the turn budget, and the run says     *)
(* that it was stopped only when the budget is spent.                      *)
IsSameRun(i, j) == i <= j /\ \A k \in (i + 1)..j : messages[k].role # "user"
TurnsOf(i) == {j \in DOMAIN messages : messages[j].role = "assistant" /\ IsSameRun(i, j)}

BudgetHolds ==
  \A i \in DOMAIN messages : messages[i].role = "user" =>
    /\ Cardinality(TurnsOf(i)) <= MaxTurns
    /\ pc = "prompt" /\ answer = "stopped" /\ IsSameRun(i, Len(messages)) =>
         Cardinality(TurnsOf(i)) = MaxTurns

(* Whether the endpoint answers, fails or sends calls that make no sense,  *)
(* the user gets the prompt back, short of an answer that ends the process *)
(* (NothingEscapes).                                                       *)
InputIsAnswered == pc = "chat" ~> pc = "prompt"

-----------------------------------------------------------------------------
(* What docstrings and messages say and the code does not do.  README.md   *)
(* has the quotations and the traces.                                      *)

(* Errors of the model do not escape from run: arguments that do not parse *)
(* are a malformed call, everything else about an answer is an LLMError.   *)
NothingEscapes == answer # "escaped"

(* Every tool call is audited: each call that got a tool message has its   *)
(* records, or their loss was counted.                                     *)
EveryToolCallIsAudited ==
  Cardinality({i \in DOMAIN messages : messages[i].role = "tool"})
    <= Cardinality({log[i].call : i \in DOMAIN log} \cup {x[2] : x \in lost})
=============================================================================
