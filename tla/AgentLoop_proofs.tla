-------------------------- MODULE AgentLoop_proofs --------------------------
(***************************************************************************)
(* Theorems about Agent.run on top of Registry.dispatch, for every         *)
(* endpoint, registry, audit sink, budget and number of inputs.            *)
(*                                                                         *)
(* A step of the loop is a step of dispatch or leaves dispatch alone, so   *)
(* everything Dispatch_proofs says of a call holds of the calls an agent   *)
(* makes.  The invariant LoopInv adds what the loop knows of the call it   *)
(* waits for, and what its conversation counts.                            *)
(***************************************************************************)
EXTENDS AgentLoop, Dispatch_proofs, WellFoundedInduction

(* A requested call that made it through ParseToolCalls. *)
Wanted == [name : ToolNames, args : {"valid", "invalid", "malformed"}]
Messages == [role : {"user", "assistant", "tool"}, calls : Seq(Wanted),
             body : {"content", "error", "malformed"}, id : Nat]

LoopTypes ==
  /\ pc \in {"prompt", "chat", "call", "await", "down"}
  /\ messages \in Seq(Messages)
  /\ turn \in 0..MaxTurns
  /\ queue \in Seq(Wanted)
  /\ answer \in Answered
  /\ inputs \in Nat
  /\ started \in 0..MaxCalls /\ started <= calls

(* Where the loop is: a reply's calls are being answered, and dispatch is   *)
(* only ever busy with the one at the head of the queue.                    *)
Waiting ==
  /\ pc \in {"call", "await"} => queue # <<>>
  /\ pc = "await" => Head(queue).args # "malformed"
  /\ Busy => pc = "await" /\ d.tool = Head(queue).name /\ d.args = Head(queue).args

-----------------------------------------------------------------------------
(* What a reply becomes *)

(* A response only has calls with a name and with arguments that parsed. *)
LEMMA ChatIsWanted ==
  ASSUME NEW r \in Answers, Chat(r).kind = "response"
  PROVE  Chat(r).calls \in Seq(Wanted)
<1>1. r.calls \in Seq(Entries)
  BY AnswersAssumption DEF IsAnswer
<1> DEFINE bad == {i \in DOMAIN r.calls : r.calls[i].name = NoName \/ r.calls[i].args = "exploding"}
<1>2. /\ r.body # "not_json" /\ r.body # "not_completion"
      /\ bad = {} /\ Chat(r).calls = r.calls
  <2>1. /\ r.body # "not_json"
        /\ Chat(r) = ParseCompletion(r)
    BY DEF Chat, Outcome
  <2>2. /\ r.body # "not_completion"
        /\ ParseCompletion(r).kind = ParseToolCalls(r.calls).kind
        /\ ParseCompletion(r).calls = ParseToolCalls(r.calls).calls
    BY <2>1 DEF ParseCompletion, Outcome
  <2>3. ParseToolCalls(r.calls).kind = "response"
    BY <2>1, <2>2
  <2>4. bad = {}
    BY <2>3 DEF ParseToolCalls
  <2>5. ParseToolCalls(r.calls).calls = r.calls
    BY <2>4 DEF ParseToolCalls
  <2> QED
    BY <2>1, <2>2, <2>4, <2>5
<1>3. \A i \in 1..Len(r.calls) : r.calls[i] \in Wanted
  <2>1. \A i \in 1..Len(r.calls) : r.calls[i] \in Entries /\ i \in DOMAIN r.calls
    BY <1>1, ElementOfSeq, LenProperties
  <2>2. \A i \in 1..Len(r.calls) : r.calls[i].name # NoName /\ r.calls[i].args # "exploding"
    BY <1>2, <2>1
  <2> QED
    BY <2>1, <2>2, LoopAssumption DEF Entries, Wanted, Arguments
<1>4. r.calls \in Seq(Wanted)
  BY <1>1, <1>3, SeqDef, LenProperties
<1> QED
  BY <1>2, <1>4

-----------------------------------------------------------------------------
(* The loop is a caller of dispatch *)

LEMMA LoopIsACaller ==
  ASSUME LoopTypes, Waiting, [LoopNext]_agentVars
  PROVE  [DispatchNext]_dispatchVars
<1>1. CASE Input \/ AskReplied \/ AskFailed \/ AskEscaped \/ Stop \/ AnswerMalformed \/ TakeResult
  BY <1>1 DEF Input, AskReplied, AskFailed, AskEscaped, Stop, AnswerMalformed, TakeResult
<1>2. CASE DispatchCall
  <2>1. Head(queue) \in Wanted
    BY <1>2, HeadTailProperties DEF DispatchCall, LoopTypes, Waiting
  <2>2. Head(queue).name \in ToolNames /\ Head(queue).args \in {"valid", "invalid"}
    BY <1>2, <2>1 DEF DispatchCall, Wanted
  <2> QED
    BY <1>2, <2>2 DEF DispatchCall, DispatchNext
<1>3. CASE RunDispatch
  BY <1>3 DEF RunDispatch, DispatchNext
<1>4. CASE NewProcess
  BY <1>4 DEF NewProcess, DispatchNext
<1>5. CASE UNCHANGED agentVars
  BY <1>5 DEF agentVars
<1> QED
  BY <1>1, <1>2, <1>3, <1>4, <1>5 DEF LoopNext, LoopStep

-----------------------------------------------------------------------------
(* Types *)

LEMMA HeadOfQueue ==
  ASSUME LoopTypes, queue # <<>>
  PROVE  Head(queue) \in Wanted /\ Tail(queue) \in Seq(Wanted)
  BY HeadTailProperties DEF LoopTypes

(* A conversation grows by one message. *)
LEMMA AppendedMessage ==
  ASSUME LoopTypes, NEW m \in Messages, messages' = Append(messages, m)
  PROVE  /\ messages' \in Seq(Messages)
         /\ DOMAIN messages' = 1..(Len(messages) + 1) /\ Len(messages') = Len(messages) + 1
         /\ DOMAIN messages = 1..Len(messages)
         /\ Len(messages) \in Nat
         /\ messages'[Len(messages) + 1] = m
         /\ \A i \in 1..Len(messages) : messages'[i] = messages[i] /\ messages[i] \in Messages
<1>1. messages \in Seq(Messages) /\ Len(messages) \in Nat /\ DOMAIN messages = 1..Len(messages)
  BY LenProperties DEF LoopTypes
<1>2. /\ messages' \in Seq(Messages) /\ Len(messages') = Len(messages) + 1
      /\ \A i \in 1..Len(messages) : messages'[i] = messages[i]
      /\ messages'[Len(messages) + 1] = m
  BY <1>1, AppendProperties
<1>3. DOMAIN messages' = 1..Len(messages')
  BY <1>2, LenProperties
<1>4. \A i \in 1..Len(messages) : messages[i] \in Messages
  BY <1>1, ElementOfSeq
<1> QED
  BY <1>1, <1>2, <1>3, <1>4

LEMMA UserTyped == User \in Messages /\ User.role = "user" /\ User.id = NoId
  BY EmptySeq DEF User, Message, Messages, NoId

LEMMA AssistantTyped ==
  ASSUME NEW entries \in Seq(Wanted)
  PROVE  /\ Assistant(entries) \in Messages
         /\ Assistant(entries).role = "assistant" /\ Assistant(entries).id = NoId
         /\ Assistant(entries).calls = entries
  BY DEF Assistant, Message, Messages, NoId

LEMMA ToolTyped ==
  ASSUME NEW e \in Wanted, NEW body \in {"content", "error", "malformed"}, NEW id \in Nat
  PROVE  /\ Tool(e, body, id) \in Messages
         /\ Tool(e, body, id).role = "tool" /\ Tool(e, body, id).id = id
         /\ Tool(e, body, id).body = body
         /\ Tool(e, body, id).calls = <<e>> /\ Tool(e, body, id).calls[1] = e
<1>1. <<e>> \in Seq(Wanted)
  OBVIOUS
<1> QED
  BY <1>1 DEF Tool, Message, Messages

(* The step of a reply, with its calls. *)
LEMMA ReplyRecorded ==
  ASSUME LoopTypes, AskReplied
  PROVE  \E entries \in Seq(Wanted) :
           /\ messages' = Append(messages, Assistant(entries))
           /\ queue' = entries
           /\ IF entries = <<>>
              THEN pc' = "prompt" /\ answer' = "final"
              ELSE pc' = "call" /\ UNCHANGED answer
<1>1. PICK r \in Answers :
        LET c == Chat(r) IN
        /\ c.kind = "response"
        /\ messages' = Append(messages, Assistant(c.calls))
        /\ queue' = c.calls
        /\ IF c.calls = <<>>
           THEN pc' = "prompt" /\ answer' = "final"
           ELSE pc' = "call" /\ UNCHANGED answer
  BY DEF AskReplied
<1>2. Chat(r).calls \in Seq(Wanted)
  BY <1>1, ChatIsWanted
<1> QED
  BY <1>1, <1>2

(* The step of a tool message. *)
LEMMA ToolReplied ==
  ASSUME LoopTypes, queue # <<>>, NEW body \in {"content", "error", "malformed"},
         NEW id \in Nat, Reply(body, id)
  PROVE  /\ messages' \in Seq(Messages)
         /\ queue' \in Seq(Wanted)
         /\ pc' = IF queue' = <<>> THEN "chat" ELSE "call"
         /\ messages' = Append(messages, Tool(Head(queue), body, id))
         /\ Tool(Head(queue), body, id) \in Messages
  BY HeadOfQueue, ToolTyped, AppendedMessage DEF Reply

LEMMA LoopTypesInit == LoopInit => LoopTypes /\ Waiting
<1> SUFFICES ASSUME LoopInit PROVE LoopTypes /\ Waiting
  OBVIOUS
<1>1. messages \in Seq(Messages) /\ queue \in Seq(Wanted)
  BY EmptySeq DEF LoopInit
<1>2. turn \in 0..MaxTurns /\ started \in 0..MaxCalls /\ started <= calls
  BY BoundAssumption, LoopAssumption DEF LoopInit, DispatchInit
<1>3. LoopTypes
  BY <1>1, <1>2 DEF LoopInit, LoopTypes, Answered
<1>4. pc = "prompt" /\ ~Busy
  BY DEF LoopInit, DispatchInit, Idle, Busy
<1> QED
  BY <1>3, <1>4 DEF Waiting

LEMMA LoopTypesStep ==
  ASSUME CallTypeOK, CallTypeOK', LoopTypes, Waiting, [LoopNext]_agentVars
  PROVE  LoopTypes'
<1>c. calls \in 0..MaxCalls /\ calls' \in 0..MaxCalls /\ MaxCalls \in Nat
  BY BoundAssumption DEF CallTypeOK
<1>d. \/ UNCHANGED dispatchVars /\ calls' = calls
      \/ DispatchCall /\ calls' = calls + 1
      \/ RunDispatch /\ calls' = calls
      \/ NewProcess /\ calls' = calls
  BY DEF LoopNext, LoopStep, Input, AskReplied, AskFailed, AskEscaped, Stop, AnswerMalformed,
     DispatchCall, RunDispatch, TakeResult, NewProcess, agentVars, dispatchVars, Call,
     DispatchStep, BeforeCall, Decide, RunTool, AfterCall, Restart
<1>e. started' = started => started' \in 0..MaxCalls /\ started' <= calls'
  BY <1>c, <1>d DEF LoopTypes
<1>1. CASE Input
  <2>1. messages' \in Seq(Messages)
    BY <1>1, UserTyped, AppendedMessage DEF Input
  <2>2. turn' \in 0..MaxTurns /\ inputs' \in Nat
    BY <1>1, LoopAssumption DEF Input, LoopTypes
  <2> QED
    BY <1>1, <1>e, <2>1, <2>2 DEF Input, LoopTypes
<1>2. CASE AskReplied
  <2>1. PICK entries \in Seq(Wanted) :
          /\ messages' = Append(messages, Assistant(entries))
          /\ queue' = entries
          /\ IF entries = <<>>
             THEN pc' = "prompt" /\ answer' = "final"
             ELSE pc' = "call" /\ UNCHANGED answer
    BY <1>2, ReplyRecorded
  <2>2. messages' \in Seq(Messages)
    BY <2>1, AssistantTyped, AppendedMessage
  <2>3. turn' \in 0..MaxTurns
    BY <1>2, LoopAssumption DEF AskReplied, WithinBudget, LoopTypes
  <2> QED
    BY <1>2, <1>e, <2>1, <2>2, <2>3 DEF AskReplied, LoopTypes, Answered
<1>3. CASE AskFailed \/ AskEscaped \/ Stop
  BY <1>3, <1>e DEF AskFailed, AskEscaped, Stop, LoopTypes, Answered
<1>4. CASE AnswerMalformed
  <2>1. messages' \in Seq(Messages) /\ queue' \in Seq(Wanted) /\ pc' \in {"chat", "call"}
    BY <1>4, ToolReplied DEF AnswerMalformed, Waiting, NoId
  <2> QED
    BY <1>4, <1>e, <2>1 DEF AnswerMalformed, LoopTypes
<1>5. CASE TakeResult
  <2>1. messages' \in Seq(Messages) /\ queue' \in Seq(Wanted) /\ pc' \in {"chat", "call"}
    BY <1>5, <1>c, ToolReplied DEF TakeResult, Waiting
  <2> QED
    BY <1>5, <1>e, <2>1 DEF TakeResult, LoopTypes
<1>6. CASE DispatchCall
  BY <1>6, <1>e DEF DispatchCall, LoopTypes
<1>7. CASE RunDispatch
  BY <1>7, <1>e DEF RunDispatch, LoopTypes, loopVars
<1>8. CASE NewProcess
  <2>1. messages' \in Seq(Messages) /\ queue' \in Seq(Wanted)
    BY <1>8, EmptySeq DEF NewProcess
  <2>2. turn' \in 0..MaxTurns /\ started' \in 0..MaxCalls /\ started' <= calls'
    BY <1>8, <1>c, LoopAssumption DEF NewProcess, Restart
  <2> QED
    BY <1>8, <2>1, <2>2 DEF NewProcess, LoopTypes, Answered
<1>9. CASE UNCHANGED agentVars
  BY <1>9, <1>e DEF agentVars, loopVars, LoopTypes
<1> QED
  BY <1>1, <1>2, <1>3, <1>4, <1>5, <1>6, <1>7, <1>8, <1>9 DEF LoopNext, LoopStep

LEMMA WaitingStep ==
  ASSUME CallTypeOK, LoopTypes, Waiting, [LoopNext]_agentVars
  PROVE  Waiting'
<1>1. CASE Input \/ AskFailed \/ AskEscaped \/ Stop
  BY <1>1 DEF Input, AskFailed, AskEscaped, Stop, Waiting, Busy, dispatchVars
<1>2. CASE AskReplied
  <2>1. PICK entries \in Seq(Wanted) :
          /\ queue' = entries
          /\ IF entries = <<>> THEN pc' = "prompt" ELSE pc' = "call"
    BY <1>2, ReplyRecorded
  <2> QED
    BY <1>2, <2>1 DEF AskReplied, Waiting, Busy, dispatchVars
<1>3. CASE AnswerMalformed
  <2>1. pc' = IF queue' = <<>> THEN "chat" ELSE "call"
    BY <1>3 DEF AnswerMalformed, Reply
  <2> QED
    BY <1>3, <2>1 DEF AnswerMalformed, Waiting, Busy, dispatchVars
<1>4. CASE TakeResult
  <2>1. pc' = IF queue' = <<>> THEN "chat" ELSE "call"
    BY <1>4 DEF TakeResult, Reply
  <2> QED
    BY <1>4, <2>1 DEF TakeResult, Waiting, Busy, dispatchVars
<1>5. CASE DispatchCall
  BY <1>5 DEF DispatchCall, Call, Waiting, Busy
<1>6. CASE RunDispatch
  <2>1. Busy /\ (Busy' => d'.tool = d.tool /\ d'.args = d.args)
    <3>1. CASE BeforeCall
      <4>1. d.pc = "before" /\ (d' = [d EXCEPT !.pc = "decide"] \/ d' = Idle("refused"))
        BY <3>1 DEF BeforeCall
      <4>2. d' = [d EXCEPT !.pc = "decide"] => d'.tool = d.tool /\ d'.args = d.args
        BY DEF CallTypeOK, InProgress
      <4>3. ASSUME d' = Idle("refused") PROVE d'.pc = "idle"
        BY <4>3 DEF Idle
      <4> QED
        BY <4>1, <4>2, <4>3 DEF Busy
    <3>2. CASE Decide
      BY <3>2 DEF Decide, Busy, CallTypeOK, InProgress
    <3>3. CASE RunTool
      BY <3>3 DEF RunTool, Busy, CallTypeOK, InProgress
    <3>4. CASE AfterCall
      BY <3>4 DEF AfterCall, Busy, CallTypeOK, InProgress
    <3> QED
      BY <1>6, <3>1, <3>2, <3>3, <3>4 DEF RunDispatch, DispatchStep
  <2> QED
    BY <1>6, <2>1 DEF RunDispatch, Waiting, loopVars
<1>7. CASE NewProcess
  BY <1>7 DEF NewProcess, Restart, Idle, Waiting, Busy
<1>8. CASE UNCHANGED agentVars
  BY <1>8 DEF agentVars, loopVars, dispatchVars, Waiting, Busy
<1> QED
  BY <1>1, <1>2, <1>3, <1>4, <1>5, <1>6, <1>7, <1>8 DEF LoopNext, LoopStep

LEMMA LoopTyped == LoopSpec => [](CallTypeOK /\ CallInv /\ LoopTypes /\ Waiting)
<1> DEFINE I == CallTypeOK /\ CallInv /\ LoopTypes /\ Waiting
<1>1. LoopInit => I
  BY CallTypeInit, CallInvInit, LoopTypesInit DEF LoopInit
<1>2. I /\ [LoopNext]_agentVars => I'
  BY LoopIsACaller, CallTypeStep, CallInvStep, LoopTypesStep, WaitingStep
<1> QED
  BY <1>1, <1>2, PTL DEF LoopSpec

(* An agent run dispatches its calls as Dispatch does: each is audited as   *)
(* AuditedCall says, whatever the endpoint asks for.                        *)
THEOREM LoopDispatches == LoopSpec => DispatchSpec
<1>1. LoopInit => DispatchInit
  BY DEF LoopInit
<1>2. LoopTypes /\ Waiting /\ [LoopNext]_agentVars => [DispatchNext]_dispatchVars
  BY LoopIsACaller
<1> QED
  BY <1>1, <1>2, LoopTyped, PTL DEF LoopSpec, DispatchSpec

THEOREM LoopIsAudited == LoopSpec => ImplementsAuditedCall
  BY LoopDispatches, AuditedRefinement, PTL

-----------------------------------------------------------------------------
(* Calls are counted: one per tool message that names one, and one for the  *)
(* call the loop waits for.                                                 *)
Dispatched == {i \in DOMAIN messages : messages[i].id # NoId}
Counted == calls - started = Cardinality(Dispatched) + (IF pc = "await" THEN 1 ELSE 0)

LEMMA DispatchedFinite ==
  ASSUME LoopTypes
  PROVE  IsFiniteSet(Dispatched) /\ Cardinality(Dispatched) \in Nat
<1>1. DOMAIN messages = 1..Len(messages) /\ Len(messages) \in Nat
  BY LenProperties DEF LoopTypes
<1>2. IsFiniteSet(1..Len(messages))
  BY <1>1, FS_Interval
<1>3. Dispatched \in SUBSET (1..Len(messages))
  BY <1>1 DEF Dispatched
<1>4. IsFiniteSet(Dispatched)
  BY <1>2, <1>3, FS_Subset
<1> QED
  BY <1>4, FS_CardinalityType

LEMMA DispatchedGrows ==
  ASSUME LoopTypes, NEW m \in Messages, messages' = Append(messages, m)
  PROVE  /\ Cardinality(Dispatched) \in Nat
         /\ m.id = NoId => Cardinality(Dispatched') = Cardinality(Dispatched)
         /\ m.id # NoId => Cardinality(Dispatched') = Cardinality(Dispatched) + 1
<1> DEFINE n == Len(messages) + 1
<1>1. /\ DOMAIN messages' = 1..n /\ DOMAIN messages = 1..Len(messages) /\ Len(messages) \in Nat
      /\ messages'[n] = m /\ \A i \in 1..Len(messages) : messages'[i] = messages[i]
  BY AppendedMessage
<1>2. IsFiniteSet(Dispatched) /\ n \notin Dispatched
  <2>1. n \notin DOMAIN messages
    BY <1>1
  <2> QED
    BY <2>1, DispatchedFinite DEF Dispatched
<1>3. Dispatched' = IF m.id = NoId THEN Dispatched ELSE Dispatched \cup {n}
  BY <1>1 DEF Dispatched
<1>4. Cardinality(Dispatched) \in Nat /\ Cardinality(Dispatched \cup {n}) = Cardinality(Dispatched) + 1
  BY <1>2, FS_CardinalityType, FS_AddElement
<1> QED
  BY <1>3, <1>4

LEMMA CountedInit == LoopInit => Counted
<1> SUFFICES ASSUME LoopInit PROVE Counted
  OBVIOUS
<1>1. Dispatched = {}
  BY EmptySeq DEF LoopInit, Dispatched
<1> QED
  BY <1>1, FS_EmptySet DEF LoopInit, DispatchInit, Counted

LEMMA CountedStep ==
  ASSUME CallTypeOK, LoopTypes, Waiting, Counted, [LoopNext]_agentVars
  PROVE  Counted'
<1>c. calls \in Nat /\ started \in Nat /\ Cardinality(Dispatched) \in Nat
  BY DispatchedFinite, BoundAssumption DEF CallTypeOK, LoopTypes
<1>1. ASSUME NEW m \in Messages, messages' = Append(messages, m), m.id = NoId,
             calls' = calls, started' = started, pc # "await", pc' # "await"
      PROVE  Counted'
  BY <1>1, DispatchedGrows DEF Counted
<1>2. CASE Input
  BY <1>1, <1>2, UserTyped DEF Input, dispatchVars
<1>3. CASE AskReplied
  <2>1. PICK entries \in Seq(Wanted) :
          /\ messages' = Append(messages, Assistant(entries))
          /\ IF entries = <<>> THEN pc' = "prompt" ELSE pc' = "call"
    BY <1>3, ReplyRecorded
  <2> QED
    BY <1>1, <1>3, <2>1, AssistantTyped DEF AskReplied, dispatchVars
<1>4. CASE AnswerMalformed
  <2>1. /\ messages' = Append(messages, Tool(Head(queue), "malformed", NoId))
        /\ Head(queue) \in Wanted /\ pc' \in {"chat", "call"}
    BY <1>4, HeadOfQueue DEF AnswerMalformed, Reply, Waiting
  <2>2. Tool(Head(queue), "malformed", NoId) \in Messages
        /\ Tool(Head(queue), "malformed", NoId).id = NoId
    BY <2>1, ToolTyped DEF NoId
  <2> QED
    BY <1>1, <1>4, <2>1, <2>2 DEF AnswerMalformed, dispatchVars
<1>5. CASE TakeResult
  <2> DEFINE body == IF d.result = "ok" THEN "content" ELSE "error"
  <2>1. /\ messages' = Append(messages, Tool(Head(queue), body, calls))
        /\ Head(queue) \in Wanted /\ pc = "await" /\ pc' \in {"chat", "call"}
        /\ calls' = calls /\ started' = started
    BY <1>5, HeadOfQueue DEF TakeResult, Reply, Waiting, dispatchVars
  <2>2. Tool(Head(queue), body, calls) \in Messages /\ Tool(Head(queue), body, calls).id = calls
    BY <1>c, <2>1, ToolTyped
  <2>3. calls # NoId
    BY <1>c, <2>1 DEF Counted, NoId
  <2>4. Cardinality(Dispatched') = Cardinality(Dispatched) + 1
    BY <2>1, <2>2, <2>3, DispatchedGrows
  <2> QED
    BY <1>c, <2>1, <2>4 DEF Counted
<1>6. CASE DispatchCall
  BY <1>c, <1>6 DEF DispatchCall, Call, Counted, Dispatched
<1>7. CASE AskFailed \/ AskEscaped \/ Stop
  BY <1>7 DEF AskFailed, AskEscaped, Stop, dispatchVars, Counted, Dispatched
<1>8. CASE RunDispatch
  BY <1>8 DEF RunDispatch, DispatchStep, BeforeCall, Decide, RunTool, AfterCall, loopVars,
     Counted, Dispatched
<1>9. CASE NewProcess
  <2>1. Dispatched' = {}
    BY <1>9, EmptySeq DEF NewProcess, Dispatched
  <2>2. Cardinality(Dispatched') = 0
    BY <2>1, FS_EmptySet
  <2> QED
    BY <1>c, <1>9, <2>2 DEF NewProcess, Restart, Counted
<1>10. CASE UNCHANGED agentVars
  BY <1>10 DEF agentVars, loopVars, dispatchVars, Counted, Dispatched
<1> QED
  BY <1>2, <1>3, <1>4, <1>5, <1>6, <1>7, <1>8, <1>9, <1>10 DEF LoopNext, LoopStep

(* A process dispatches a requested call once, whatever became of it.       *)
THEOREM DispatchedOnce == LoopSpec => []NoCallTwice
<1>1. Counted => NoCallTwice
  BY DEF Counted, NoCallTwice, Dispatched
<1> QED
  BY <1>1, LoopTyped, CountedInit, CountedStep, PTL DEF LoopSpec

-----------------------------------------------------------------------------
(* The failure counter makes up for the records lost by this process.       *)
Losses == {x \in lost : x[2] > started}
LossCounted == failures = Cardinality(Losses)

LEMMA LossesFinite ==
  ASSUME CallTypeOK
  PROVE  IsFiniteSet(Losses) /\ Cardinality(Losses) \in Nat
<1>1. IsFiniteSet(Events) /\ IsFiniteSet(Ids)
  <2>1. IsFiniteSet({"before"} \cup {"proposed"} \cup {"after"})
    BY FS_Singleton, FS_AddElement
  <2>2. {"before"} \cup {"proposed"} \cup {"after"} = Events
    BY DEF Events
  <2>3. IsFiniteSet(Ids)
    BY FS_Interval, BoundAssumption DEF Ids
  <2> QED
    BY <2>1, <2>2, <2>3
<1>2. IsFiniteSet(Events \X Ids)
  BY <1>1, FS_Product
<1>3. Losses \in SUBSET (Events \X Ids)
  BY DEF CallTypeOK, Losses
<1>4. IsFiniteSet(Losses)
  BY <1>2, <1>3, FS_Subset
<1> QED
  BY <1>4, FS_CardinalityType

(* A write by the call in progress counts the record it loses, once. *)
LEMMA WriteCounts ==
  ASSUME CallTypeOK, LossCounted, d.id > started, started' = started,
         NEW e, NEW id, NEW ok, <<e, d.id>> \notin lost, Writes(e, id, ok)
  PROVE  LossCounted'
<1>1. CASE failures' = failures /\ lost' = lost
  BY <1>1 DEF LossCounted, Losses
<1>2. CASE failures' = failures + 1 /\ lost' = lost \cup {<<e, d.id>>}
  <2>1. Losses' = Losses \cup {<<e, d.id>>} /\ <<e, d.id>> \notin Losses
    BY <1>2 DEF Losses
  <2>2. Cardinality(Losses') = Cardinality(Losses) + 1
    BY <2>1, LossesFinite, FS_AddElement
  <2> QED
    BY <1>2, <2>2 DEF LossCounted
<1> QED
  BY <1>1, <1>2 DEF Writes

LEMMA LossInit == LoopInit => LossCounted
<1> SUFFICES ASSUME LoopInit PROVE LossCounted
  OBVIOUS
<1>1. Losses = {}
  BY DEF LoopInit, DispatchInit, Losses
<1> QED
  BY <1>1, FS_EmptySet DEF LoopInit, DispatchInit, LossCounted

LEMMA LossStep ==
  ASSUME CallTypeOK, CallInv, LoopTypes, Waiting, Counted, LossCounted, [LoopNext]_agentVars
  PROVE  LossCounted'
<1>1. ASSUME failures' = failures, lost' = lost, started' = started PROVE LossCounted'
  BY <1>1 DEF LossCounted, Losses
<1>2. CASE Input \/ AskReplied \/ AskFailed \/ AskEscaped \/ Stop \/ AnswerMalformed \/ TakeResult
           \/ DispatchCall \/ UNCHANGED agentVars
  BY <1>1, <1>2 DEF Input, AskReplied, AskFailed, AskEscaped, Stop, AnswerMalformed, TakeResult,
     DispatchCall, Call, agentVars, loopVars, dispatchVars
<1>3. CASE NewProcess
  <2>1. \A x \in lost : x[2] <= calls /\ x[2] \in Nat
    BY BoundAssumption DEF CallInv, NotedSoFar, CallTypeOK, Ids
  <2>2. lost' = lost /\ started' = calls /\ calls \in Nat /\ failures' = 0
    BY <1>3, BoundAssumption DEF NewProcess, Restart, CallTypeOK
  <2>3. Losses' = {}
    BY <2>1, <2>2 DEF Losses
  <2> QED
    BY <2>2, <2>3, FS_EmptySet DEF LossCounted
<1>4. CASE RunDispatch
  <2>1. pc = "await" /\ started' = started /\ DispatchStep
    BY <1>4 DEF RunDispatch, loopVars
  <2>2. calls > started
    BY <2>1, DispatchedFinite, BoundAssumption DEF Counted, CallTypeOK, LoopTypes
  <2>3. CASE Decide
    BY <1>1, <2>1, <2>3 DEF Decide
  <2>6. CASE RunTool
    <3>1. d.id = calls /\ <<"proposed", d.id>> \notin lost
      BY <2>6 DEF RunTool, CallInv, Progress, NotedSoFar, Busy, Noted
    <3>2. Writes("proposed", NoId, TRUE) \/ UNCHANGED <<failures, lost>>
      BY <2>6 DEF RunTool
    <3> QED
      BY <1>1, <2>1, <2>2, <3>1, <3>2, WriteCounts
  <2>4. CASE BeforeCall
    <3>1. d.id = calls /\ <<"before", d.id>> \notin lost
      BY <2>4 DEF BeforeCall, CallInv, Progress, NotedSoFar, Busy, Noted
    <3>2. Writes("before", d.id, TRUE) \/ UNCHANGED <<failures, lost>>
      BY <2>4 DEF BeforeCall
    <3> QED
      BY <1>1, <2>1, <2>2, <3>1, <3>2, WriteCounts
  <2>5. CASE AfterCall
    <3>1. d.id = calls /\ <<"after", d.id>> \notin lost
      BY <2>5 DEF AfterCall, CallInv, Progress, NotedSoFar, Busy, Noted
    <3>2. Writes("after", open[d.tool], d.result = "ok") \/ UNCHANGED <<failures, lost>>
      BY <2>5 DEF AfterCall
    <3> QED
      BY <1>1, <2>1, <2>2, <3>1, <3>2, WriteCounts
  <2> QED
    BY <2>1, <2>3, <2>4, <2>5, <2>6 DEF DispatchStep
<1> QED
  BY <1>2, <1>3, <1>4 DEF LoopNext, LoopStep

(* No record of a process vanishes without being counted, nor is one        *)
(* counted twice, whatever earlier processes lost.                          *)
THEOREM LossesMakeUp == LoopSpec => []LossesAreCounted
<1>1. LossCounted => LossesAreCounted
  BY DEF LossCounted, Losses, LossesAreCounted
<1> QED
  BY <1>1, LoopTyped, CountedInit, CountedStep, LossInit, LossStep, PTL DEF LoopSpec

-----------------------------------------------------------------------------
(* Tool messages tell what happened. *)
Truth ==
  /\ ToolMessagesAreTrue
  /\ \A i \in DOMAIN messages : messages[i].id <= calls /\ (pc = "await" => messages[i].id < calls)
  /\ pc = "await" =>
       \A r \in ran : r.id = calls => r.tool = Head(queue).name /\ r.args = Head(queue).args

(* What is said of one message, about the calls as they are now. *)
SaysTrue(m) ==
  m.role = "tool" =>
    /\ m.body = "content" =>
         \E r \in ran : r.id = m.id /\ r.tool = m.calls[1].name /\ r.args = m.calls[1].args
                        /\ Noted("after", r.id)
    /\ m.calls[1].args = "malformed" => m.body = "malformed" /\ m.id = NoId
    /\ \A r \in ran : r.id = m.id => r.tool = m.calls[1].name /\ r.args = m.calls[1].args

(* A new message that is true keeps the conversation true. *)
LEMMA AppendTruth ==
  ASSUME LoopTypes, ToolMessagesAreTrue, UNCHANGED dispatchVars,
         NEW m \in Messages, messages' = Append(messages, m), SaysTrue(m)
  PROVE  ToolMessagesAreTrue'
<1>1. ran' = ran /\ lost' = lost /\ \A c : Logged("after", c)' <=> Logged("after", c)
  BY DEF Logged, dispatchVars
<1>2. \A i \in DOMAIN messages : \A x : x = messages[i] => SaysTrue(x)
  BY DEF ToolMessagesAreTrue, SaysTrue, Noted
<1>3. \A i \in DOMAIN messages' : messages'[i] = m \/ (i \in DOMAIN messages /\ messages'[i] = messages[i])
  BY AppendedMessage
<1> SUFFICES ASSUME NEW i \in DOMAIN messages', NEW x, x = messages'[i], x.role = "tool"
             PROVE  /\ x.body = "content" =>
                         \E r \in ran' : /\ r.id = x.id /\ r.tool = x.calls[1].name
                                         /\ r.args = x.calls[1].args
                                         /\ Logged("after", r.id)' \/ <<"after", r.id>> \in lost'
                    /\ x.calls[1].args = "malformed" => x.body = "malformed" /\ x.id = NoId
                    /\ \A r \in ran' : r.id = x.id =>
                         r.tool = x.calls[1].name /\ r.args = x.calls[1].args
  BY DEF ToolMessagesAreTrue
<1>4. SaysTrue(x)
  BY <1>2, <1>3
<1> QED
  BY <1>1, <1>4 DEF SaysTrue, Noted

LEMMA TruthInit == LoopInit => Truth
<1> SUFFICES ASSUME LoopInit PROVE Truth
  OBVIOUS
<1>1. DOMAIN messages = {} /\ pc = "prompt"
  BY EmptySeq DEF LoopInit
<1> QED
  BY <1>1 DEF Truth, ToolMessagesAreTrue

(* An append by a step that leaves dispatch alone. *)
LEMMA TruthAppend ==
  ASSUME CallTypeOK, LoopTypes, Truth, UNCHANGED dispatchVars, pc' # "await",
         NEW m \in Messages, messages' = Append(messages, m), SaysTrue(m), m.id <= calls
  PROVE  Truth'
<1>1. ToolMessagesAreTrue'
  BY AppendTruth DEF Truth
<1>2. \A i \in DOMAIN messages' : messages'[i] = m \/ (i \in DOMAIN messages /\ messages'[i] = messages[i])
  BY AppendedMessage
<1>3. \A i \in DOMAIN messages' : messages'[i].id <= calls'
  BY <1>2 DEF Truth, dispatchVars
<1> QED
  BY <1>1, <1>3 DEF Truth

(* What is noted stays noted. *)
LEMMA NotedStays ==
  ASSUME CallTypeOK, CallInv, DispatchStep
  PROVE  \A f, c : Noted(f, c) => Noted(f, c)'
<1>1. CASE UNCHANGED <<log, lost>>
  BY <1>1, Steady
<1>2. CASE \E e \in Events, id \in Nat, ok \in BOOLEAN : Writes(e, id, ok)
  <2>1. Busy /\ d.id \in Ids /\ d.tool \in ToolNames
    BY DEF DispatchStep, BeforeCall, Decide, RunTool, AfterCall, Busy, CallInv, Progress
  <2> QED
    BY <1>2, <2>1, WritesNotes
<1>3. CASE AfterCall
  <2>1. open[d.tool] \in Nat
    BY <1>3 DEF AfterCall, CallInv, Progress, Busy, CallTypeOK
  <2>2. Writes("after", open[d.tool], d.result = "ok") \/ UNCHANGED <<log, lost>>
    BY <1>3 DEF AfterCall
  <2> QED
    BY <1>1, <1>2, <2>1, <2>2 DEF Events
<1>4. CASE BeforeCall
  <2>1. d.id \in Nat
    BY DEF CallTypeOK, InProgress
  <2>2. Writes("before", d.id, TRUE) \/ UNCHANGED <<log, lost>>
    BY <1>4 DEF BeforeCall
  <2> QED
    BY <1>1, <1>2, <2>1, <2>2 DEF Events
<1>5. CASE RunTool
  <2>1. Writes("proposed", NoId, TRUE) \/ UNCHANGED <<log, lost>>
    BY <1>5 DEF RunTool
  <2> QED
    BY <1>1, <1>2, <2>1 DEF Events, NoId
<1> QED
  BY <1>1, <1>3, <1>4, <1>5 DEF DispatchStep, Decide

LEMMA TruthStep ==
  ASSUME CallTypeOK, CallInv, LoopTypes, Waiting, Counted, Truth, [LoopNext]_agentVars
  PROVE  Truth'
<1>c. calls \in Nat /\ started \in Nat /\ (pc = "await" => calls \in Ids)
  BY DispatchedFinite, BoundAssumption DEF CallTypeOK, LoopTypes, Counted, Ids
<1>r. \A r \in ran : r.id \in Ids /\ r.id <= calls /\ r.id # NoId
  BY BoundAssumption DEF CallTypeOK, Runs, CallInv, NotedSoFar, Ids, NoId
<1>1. ASSUME UNCHANGED <<calls, ran, log, lost, messages>>, pc' # "await" PROVE Truth'
  BY <1>1 DEF Truth, ToolMessagesAreTrue, Logged
<1>2. CASE AskFailed \/ AskEscaped \/ Stop
  BY <1>1, <1>2 DEF AskFailed, AskEscaped, Stop, dispatchVars
<1>3. CASE Input
  BY <1>3, <1>c, UserTyped, TruthAppend DEF Input, SaysTrue, NoId
<1>4. CASE AskReplied
  <2>1. PICK entries \in Seq(Wanted) :
          /\ messages' = Append(messages, Assistant(entries))
          /\ IF entries = <<>> THEN pc' = "prompt" ELSE pc' = "call"
    BY <1>4, ReplyRecorded
  <2>2. /\ Assistant(entries) \in Messages
        /\ Assistant(entries).role = "assistant" /\ Assistant(entries).id = NoId
    BY AssistantTyped
  <2>3. SaysTrue(Assistant(entries)) /\ Assistant(entries).id <= calls
    BY <1>c, <2>2 DEF SaysTrue, NoId
  <2>4. UNCHANGED dispatchVars /\ pc' # "await"
    BY <1>4, <2>1 DEF AskReplied
  <2> QED
    BY <2>1, <2>2, <2>3, <2>4, TruthAppend
<1>5. CASE AnswerMalformed
  <2> DEFINE e == Head(queue)
             m == Tool(e, "malformed", NoId)
  <2>1. /\ messages' = Append(messages, m) /\ pc' # "await" /\ UNCHANGED dispatchVars
        /\ e \in Wanted /\ e.args = "malformed"
    BY <1>5, HeadOfQueue DEF AnswerMalformed, Reply, Waiting
  <2>2. m \in Messages /\ m.id = NoId /\ m.body = "malformed" /\ m.calls[1] = e
    BY <2>1, ToolTyped DEF NoId
  <2> HIDE DEF m
  <2>3. SaysTrue(m) /\ m.id <= calls
    BY <1>c, <1>r, <2>1, <2>2 DEF SaysTrue, NoId
  <2> QED
    BY <2>1, <2>2, <2>3, TruthAppend
<1>6. CASE TakeResult
  <2> DEFINE e == Head(queue)
             body == IF d.result = "ok" THEN "content" ELSE "error"
             m == Tool(e, body, calls)
  <2>1. /\ messages' = Append(messages, m) /\ pc' # "await" /\ UNCHANGED dispatchVars
        /\ e \in Wanted /\ e.args # "malformed" /\ pc = "await" /\ d.pc = "idle"
    BY <1>6, HeadOfQueue DEF TakeResult, Reply, Waiting
  <2>2. m \in Messages /\ m.id = calls /\ m.body = body /\ m.calls[1] = e
    BY <1>c, <2>1, ToolTyped
  <2>3. \A r \in ran : r.id = calls => r.tool = e.name /\ r.args = e.args
    BY <2>1 DEF Truth
  <2>4. d.result = "ok" => HasRun(calls) /\ Noted("after", calls)
    BY <2>1 DEF CallInv, Concluded
  <2>5. body = "content" => d.result = "ok"
    OBVIOUS
  <2> HIDE DEF m, body
  <2>6. SaysTrue(m) /\ m.id <= calls
    BY <1>c, <2>1, <2>2, <2>3, <2>4, <2>5 DEF SaysTrue, HasRun
  <2> QED
    BY <2>1, <2>2, <2>6, TruthAppend
<1>7. CASE DispatchCall
  <2>1. /\ UNCHANGED <<log, lost, ran, messages, queue>> /\ calls' = calls + 1
    BY <1>7 DEF DispatchCall, Call
  <2>2. ToolMessagesAreTrue'
    BY <2>1 DEF Truth, ToolMessagesAreTrue, Logged
  <2>3. \A i \in DOMAIN messages : messages[i].id \in Nat
    <3>1. \A i \in DOMAIN messages : messages[i] \in Messages
      BY ElementOfSeq, LenProperties DEF LoopTypes
    <3> QED
      BY <3>1 DEF Messages
  <2>4. \A i \in DOMAIN messages' : messages'[i].id < calls'
    BY <1>c, <2>1, <2>3 DEF Truth
  <2>5. \A r \in ran : r.id # calls + 1
    BY <1>c, <1>r, BoundAssumption DEF Ids
  <2> QED
    BY <1>c, <2>1, <2>2, <2>3, <2>4, <2>5 DEF Truth
<1>8. CASE RunDispatch
  <2>1. /\ pc = "await" /\ pc' = pc /\ DispatchStep /\ Busy /\ d.id = calls
        /\ UNCHANGED <<messages, queue, calls>>
        /\ ran' = ran \/ ran' = ran \cup {[id |-> d.id, tool |-> d.tool, args |-> d.args]}
    BY <1>8 DEF RunDispatch, loopVars, DispatchStep, BeforeCall, Decide, RunTool, AfterCall, Busy,
       CallInv, Progress
  <2>2. \A r \in ran' : r \in ran \/ (r.id = calls /\ r.tool = d.tool /\ r.args = d.args)
    BY <2>1
  <2>3. \A r \in ran' : r.id = calls => r.tool = Head(queue).name /\ r.args = Head(queue).args
    BY <2>1, <2>2 DEF Truth, Waiting
  <2>4. \A r \in ran : r \in ran'
    BY <2>1
  <2>5. \A i \in DOMAIN messages : messages[i].id < calls
    BY <2>1 DEF Truth
  <2>6. \A i \in DOMAIN messages : \A r \in ran' : r.id = messages[i].id => r \in ran
    BY <1>c, <2>2, <2>5
  <2>7. \A f, c : Noted(f, c) => Noted(f, c)'
    BY <2>1, NotedStays
  <2>8. ToolMessagesAreTrue'
    BY <2>1, <2>4, <2>6, <2>7 DEF Truth, ToolMessagesAreTrue, Noted
  <2> QED
    BY <2>1, <2>3, <2>5, <2>8 DEF Truth
<1>9. CASE NewProcess
  <2>1. DOMAIN messages' = {} /\ pc' = "prompt"
    BY <1>9, EmptySeq DEF NewProcess
  <2> QED
    BY <2>1 DEF Truth, ToolMessagesAreTrue
<1>10. CASE UNCHANGED agentVars
  BY <1>10 DEF agentVars, loopVars, dispatchVars, Truth, ToolMessagesAreTrue, Logged
<1> QED
  BY <1>2, <1>3, <1>4, <1>5, <1>6, <1>7, <1>8, <1>9, <1>10 DEF LoopNext, LoopStep

(* What the model reads of a call is what happened to it.                   *)
THEOREM ToolMessagesTell == LoopSpec => []ToolMessagesAreTrue
<1>1. Truth => ToolMessagesAreTrue
  BY DEF Truth
<1> QED
  BY <1>1, LoopTyped, CountedInit, CountedStep, TruthInit, TruthStep, PTL DEF LoopSpec

-----------------------------------------------------------------------------
(* The turn budget: `turn` counts the replies of the last input.            *)
IsLastInput(i) == \A k \in DOMAIN messages : k > i => messages[k].role # "user"

Budgeted ==
  /\ \A i \in DOMAIN messages : messages[i].role = "user" =>
       /\ Cardinality(TurnsOf(i)) <= MaxTurns
       /\ IsLastInput(i) => Cardinality(TurnsOf(i)) = turn
  /\ pc = "prompt" /\ answer = "stopped" => turn = MaxTurns

(* What one message more, the n-th, does to the runs in the conversation. *)
LEMMA GrownConversation ==
  ASSUME LoopTypes, NEW m \in Messages, messages' = Append(messages, m),
         NEW n \in Nat, n = Len(messages) + 1
  PROVE  /\ DOMAIN messages' = 1..n /\ DOMAIN messages = 1..(n - 1) /\ n >= 1
         /\ messages'[n] = m /\ \A i \in DOMAIN messages : messages'[i] = messages[i]
         /\ 1..n = (1..(n - 1)) \cup {n} /\ n \notin 1..(n - 1)
<1>1. /\ DOMAIN messages' = 1..n /\ DOMAIN messages = 1..(n - 1)
      /\ messages'[n] = m /\ \A i \in 1..(n - 1) : messages'[i] = messages[i]
      /\ n >= 1
  BY AppendedMessage
<1>2. 1..n = (1..(n - 1)) \cup {n} /\ n \notin 1..(n - 1)
  BY <1>1
<1> QED
  BY <1>1, <1>2

LEMMA LastInputAfter ==
  ASSUME LoopTypes, NEW m \in Messages, messages' = Append(messages, m),
         NEW n \in Nat, n = Len(messages) + 1
  PROVE  \A i \in DOMAIN messages :
           /\ IsLastInput(i)' => IsLastInput(i)
           /\ m.role = "user" => ~IsLastInput(i)'
<1>1. \A i \in DOMAIN messages : n > i /\ n \in DOMAIN messages' /\ messages'[n] = m
  BY GrownConversation
<1>2. \A k \in DOMAIN messages : k \in DOMAIN messages' /\ messages'[k] = messages[k]
  BY GrownConversation
<1> QED
  BY <1>1, <1>2 DEF IsLastInput

LEMMA TurnsAfter ==
  ASSUME LoopTypes, NEW m \in Messages, messages' = Append(messages, m),
         NEW n \in Nat, n = Len(messages) + 1, NEW i \in DOMAIN messages
  PROVE  \A j : j \in TurnsOf(i)' <=>
                   j \in TurnsOf(i) \/ (j = n /\ m.role = "assistant" /\ IsLastInput(i))
<1>1. /\ DOMAIN messages' = 1..n /\ DOMAIN messages = 1..(n - 1) /\ n >= 1
      /\ messages'[n] = m /\ \A k \in 1..(n - 1) : messages'[k] = messages[k]
  BY GrownConversation
<1>2. 1..n = (1..(n - 1)) \cup {n} /\ n \notin 1..(n - 1) /\ i \in 1..(n - 1)
  BY GrownConversation
<1>3. ASSUME NEW j \in 1..(n - 1) PROVE j \in TurnsOf(i)' <=> j \in TurnsOf(i)
  <2>1. \A k \in (i + 1)..j : messages'[k] = messages[k]
    BY <1>1, <1>2
  <2> QED
    BY <1>1, <2>1 DEF TurnsOf, IsSameRun
<1>4. m.role = "assistant" => (IsSameRun(i, n)' <=> IsLastInput(i))
  <2>1. \A k : k \in (i + 1)..n <=> k = n \/ (k \in DOMAIN messages /\ k > i)
    BY <1>1, <1>2
  <2>2. i <= n
    BY <1>1, <1>2
  <2> QED
    BY <1>1, <2>1, <2>2 DEF IsSameRun, IsLastInput
<1>5. n \in TurnsOf(i)' <=> m.role = "assistant" /\ IsLastInput(i)
  BY <1>1, <1>4 DEF TurnsOf
<1>6. TurnsOf(i)' \subseteq 1..n /\ TurnsOf(i) \subseteq 1..(n - 1)
  BY <1>1 DEF TurnsOf
<1> QED
  BY <1>2, <1>3, <1>5, <1>6

(* A reply is a turn of the last input, any other message is of none. *)
LEMMA TurnAdded ==
  ASSUME LoopTypes, NEW m \in Messages, messages' = Append(messages, m),
         NEW n \in Nat, n = Len(messages) + 1, NEW i \in DOMAIN messages, m.role = "assistant", IsLastInput(i)
  PROVE  TurnsOf(i)' = TurnsOf(i) \cup {n}
  BY TurnsAfter

LEMMA TurnsKept ==
  ASSUME LoopTypes, NEW m \in Messages, messages' = Append(messages, m),
         NEW n \in Nat, n = Len(messages) + 1, NEW i \in DOMAIN messages, m.role # "assistant" \/ ~IsLastInput(i)
  PROVE  TurnsOf(i)' = TurnsOf(i)
<1>1. \A j : j \in TurnsOf(i)' <=> j \in TurnsOf(i) \/ (j = n /\ m.role = "assistant" /\ IsLastInput(i))
  BY TurnsAfter
<1>2. \A j : j \in TurnsOf(i)' <=> j \in TurnsOf(i)
  BY <1>1
<1>3. TurnsOf(i)' \subseteq TurnsOf(i) /\ TurnsOf(i) \subseteq TurnsOf(i)'
  BY <1>2
<1> QED
  BY <1>3

LEMMA TurnsFinite ==
  ASSUME LoopTypes, NEW n \in Nat, n = Len(messages) + 1, NEW i \in DOMAIN messages
  PROVE  /\ Cardinality(TurnsOf(i)) \in Nat
         /\ Cardinality(TurnsOf(i) \cup {n}) = Cardinality(TurnsOf(i)) + 1
<1>1. DOMAIN messages = 1..(n - 1)
  BY LenProperties DEF LoopTypes
<1>2. IsFiniteSet(1..(n - 1))
  BY FS_Interval
<1>5. n \notin 1..(n - 1)
  OBVIOUS
<1>3. TurnsOf(i) \in SUBSET (1..(n - 1))
  BY <1>1 DEF TurnsOf
<1>4. IsFiniteSet(TurnsOf(i)) /\ n \notin TurnsOf(i)
  BY <1>2, <1>3, <1>5, FS_Subset
<1> QED
  BY <1>4, FS_CardinalityType, FS_AddElement

(* A new input had no turn yet. *)
LEMMA NoTurnYet ==
  ASSUME LoopTypes, NEW m \in Messages, messages' = Append(messages, m),
         NEW n \in Nat, n = Len(messages) + 1, m.role = "user"
  PROVE  Cardinality(TurnsOf(n)') = 0
<1>1. /\ DOMAIN messages' = 1..n /\ messages'[n] = m
  BY GrownConversation
<1>2. \A j \in DOMAIN messages' : n <= j => j = n
  BY <1>1
<1>3. TurnsOf(n)' = {}
  BY <1>1, <1>2 DEF TurnsOf, IsSameRun
<1> QED
  BY <1>3, FS_EmptySet

(* A message more: what has to be shown of each input. *)
LEMMA BudgetAppend ==
  ASSUME LoopTypes, NEW m \in Messages, messages' = Append(messages, m),
         NEW n \in Nat, n = Len(messages) + 1,
         \A i \in DOMAIN messages : messages[i].role = "user" =>
           /\ Cardinality(TurnsOf(i)') <= MaxTurns
           /\ IsLastInput(i)' => Cardinality(TurnsOf(i)') = turn',
         m.role = "user" => Cardinality(TurnsOf(n)') <= MaxTurns /\ Cardinality(TurnsOf(n)') = turn',
         pc' = "prompt" /\ answer' = "stopped" => turn' = MaxTurns
  PROVE  Budgeted'
<1>1. ASSUME NEW i \in DOMAIN messages', messages'[i].role = "user"
      PROVE  /\ Cardinality(TurnsOf(i)') <= MaxTurns
             /\ IsLastInput(i)' => Cardinality(TurnsOf(i)') = turn'
  <2>1. CASE i \in DOMAIN messages
    <3>1. messages[i].role = "user"
      BY <1>1, <2>1, GrownConversation
    <3> QED
      BY <2>1, <3>1
  <2>2. CASE i = n
    <3>1. m.role = "user"
      BY <1>1, <2>2, GrownConversation
    <3> QED
      BY <2>2, <3>1
  <2>3. i \in DOMAIN messages \/ i = n
    BY GrownConversation
  <2> QED
    BY <2>1, <2>2, <2>3
<1> QED
  BY <1>1 DEF Budgeted

LEMMA BudgetInit == LoopInit => Budgeted
<1> SUFFICES ASSUME LoopInit PROVE Budgeted
  OBVIOUS
<1>1. DOMAIN messages = {} /\ answer = "none"
  BY EmptySeq DEF LoopInit
<1> QED
  BY <1>1 DEF Budgeted

LEMMA BudgetStep == ASSUME CallTypeOK, LoopTypes, Waiting, Budgeted, [LoopNext]_agentVars PROVE Budgeted'
<1>t. turn \in Nat /\ MaxTurns \in Nat
  BY LoopAssumption DEF LoopTypes
<1>n. PICK n \in Nat : n = Len(messages) + 1
  BY LenProperties DEF LoopTypes
<1>1. ASSUME messages' = messages, turn' = turn,
             pc' = "prompt" /\ answer' = "stopped" => turn = MaxTurns
      PROVE  Budgeted'
  BY <1>1 DEF Budgeted, TurnsOf, IsSameRun, IsLastInput
<1>2. ASSUME NEW m \in Messages, messages' = Append(messages, m), m.role = "tool",
             turn' = turn, pc' # "prompt"
      PROVE  Budgeted'
  <2>1. ASSUME NEW i \in DOMAIN messages, messages[i].role = "user"
        PROVE  /\ Cardinality(TurnsOf(i)') <= MaxTurns
               /\ IsLastInput(i)' => Cardinality(TurnsOf(i)') = turn'
    <3>1. m.role # "assistant"
      BY <1>2
    <3>2. TurnsOf(i)' = TurnsOf(i)
      BY <1>2, <1>n, <3>1, TurnsKept
    <3>3. IsLastInput(i)' => IsLastInput(i)
      BY <1>2, <1>n, LastInputAfter
    <3> QED
      BY <1>2, <2>1, <3>2, <3>3 DEF Budgeted
  <2> QED
    BY <1>2, <1>n, <2>1, BudgetAppend
<1>10. ASSUME NEW m \in Messages, messages' = Append(messages, m), m.role = "user",
              turn' = 0, pc' # "prompt"
       PROVE  Budgeted'
  <2>2. ASSUME NEW i \in DOMAIN messages, messages[i].role = "user"
        PROVE  /\ Cardinality(TurnsOf(i)') <= MaxTurns
               /\ IsLastInput(i)' => Cardinality(TurnsOf(i)') = turn'
    <3>1. m.role # "assistant"
      BY <1>10
    <3>2. TurnsOf(i)' = TurnsOf(i)
      BY <1>n, <1>10, <3>1, TurnsKept
    <3>3. ASSUME IsLastInput(i)' PROVE FALSE
      BY <1>n, <1>10, <3>3, LastInputAfter
    <3> QED
      BY <2>2, <3>2, <3>3 DEF Budgeted
  <2>3. Cardinality(TurnsOf(n)') = 0
    BY <1>n, <1>10, NoTurnYet
  <2>4. Cardinality(TurnsOf(n)') <= MaxTurns /\ Cardinality(TurnsOf(n)') = turn'
    BY <1>t, <1>10, <2>3
  <2> QED
    BY <1>n, <1>10, <2>2, <2>4, BudgetAppend
<1>3. CASE Input
  BY <1>3, <1>10, UserTyped DEF Input
<1>4. CASE AskReplied
  <2>1. PICK entries \in Seq(Wanted) :
          /\ messages' = Append(messages, Assistant(entries))
          /\ pc' = "prompt" => answer' = "final"
    BY <1>4, ReplyRecorded
  <2> DEFINE m == Assistant(entries)
  <2>2. m \in Messages /\ m.role = "assistant" /\ messages' = Append(messages, m)
    BY <2>1, AssistantTyped
  <2> HIDE DEF m
  <2>3. turn' = turn + 1 /\ turn < MaxTurns
    BY <1>4 DEF AskReplied, WithinBudget
  <2>4. ASSUME NEW i \in DOMAIN messages, messages[i].role = "user"
        PROVE  /\ Cardinality(TurnsOf(i)') <= MaxTurns
               /\ IsLastInput(i)' => Cardinality(TurnsOf(i)') = turn'
    <3>1. Cardinality(TurnsOf(i)) <= MaxTurns /\ Cardinality(TurnsOf(i)) \in Nat
      BY <1>n, <2>4, TurnsFinite DEF Budgeted
    <3>2. CASE IsLastInput(i)
      <4>1. Cardinality(TurnsOf(i)) = turn
        BY <2>4, <3>2 DEF Budgeted
      <4>2. Cardinality(TurnsOf(i)') = turn + 1
        <5>1. TurnsOf(i)' = TurnsOf(i) \cup {n}
          BY <1>n, <2>2, <3>2, TurnAdded
        <5> QED
          BY <1>n, <4>1, <5>1, TurnsFinite
      <4> QED
        BY <1>t, <2>3, <4>2
    <3>3. CASE ~IsLastInput(i)
      <4>1. TurnsOf(i)' = TurnsOf(i)
        BY <1>n, <2>2, <3>3, TurnsKept
      <4>2. ~IsLastInput(i)'
        BY <1>n, <2>2, <3>3, LastInputAfter
      <4> QED
        BY <3>1, <4>1, <4>2
    <3> QED
      BY <3>2, <3>3
  <2>5. m.role # "user" /\ ~(pc' = "prompt" /\ answer' = "stopped")
    BY <2>1, <2>2
  <2> QED
    BY <1>n, <2>2, <2>4, <2>5, BudgetAppend
<1>5. CASE AskFailed \/ AskEscaped \/ DispatchCall \/ RunDispatch \/ UNCHANGED agentVars
  BY <1>1, <1>5 DEF AskFailed, AskEscaped, DispatchCall, RunDispatch, agentVars, loopVars, Budgeted
<1>6. CASE Stop
  BY <1>1, <1>6, <1>t DEF Stop, WithinBudget, LoopTypes
<1>7. CASE AnswerMalformed
  <2>1. Head(queue) \in Wanted /\ pc' # "prompt"
        /\ messages' = Append(messages, Tool(Head(queue), "malformed", NoId))
    BY <1>7, HeadOfQueue DEF AnswerMalformed, Reply, Waiting
  <2> QED
    BY <1>2, <1>7, <2>1, ToolTyped DEF AnswerMalformed, NoId
<1>8. CASE TakeResult
  <2> DEFINE body == IF d.result = "ok" THEN "content" ELSE "error"
  <2>1. Head(queue) \in Wanted /\ pc' # "prompt"
        /\ messages' = Append(messages, Tool(Head(queue), body, calls))
    BY <1>8, HeadOfQueue DEF TakeResult, Reply, Waiting
  <2>2. calls \in Nat => Tool(Head(queue), body, calls) \in Messages
                         /\ Tool(Head(queue), body, calls).role = "tool"
    BY <2>1, ToolTyped
  <2>3. calls \in Nat /\ turn' = turn
    BY <1>8, BoundAssumption DEF TakeResult, CallTypeOK
  <2> QED
    BY <1>2, <2>1, <2>2, <2>3
<1>9. CASE NewProcess
  <2>1. DOMAIN messages' = {} /\ answer' = "none"
    BY <1>9, EmptySeq DEF NewProcess
  <2> QED
    BY <2>1 DEF Budgeted
<1> QED
  BY <1>3, <1>4, <1>5, <1>6, <1>7, <1>8, <1>9 DEF LoopNext, LoopStep

(* No input costs more requests than the budget, and a run is only stopped  *)
(* when it is spent.                                                        *)
THEOREM BudgetIsKept == LoopSpec => []BudgetHolds
<1>1. LoopTypes /\ Budgeted => BudgetHolds
  <2> SUFFICES ASSUME LoopTypes, Budgeted PROVE BudgetHolds
    OBVIOUS
  <2>1. DOMAIN messages = 1..Len(messages) /\ Len(messages) \in Nat
    BY LenProperties DEF LoopTypes
  <2>2. \A i \in DOMAIN messages : IsSameRun(i, Len(messages)) => IsLastInput(i)
    BY <2>1 DEF IsSameRun, IsLastInput
  <2> QED
    BY <2>2 DEF Budgeted, BudgetHolds
<1> QED
  BY <1>1, LoopTyped, BudgetInit, BudgetStep, PTL DEF LoopSpec

-----------------------------------------------------------------------------
(* Every requested call gets its tool message: the queue is what is left to *)
(* answer of the last reply.                                                *)
IsOwed(i) == messages[i].role = "assistant" /\ Len(messages[i].calls) > Len(messages) - i

AnswersFollow ==
  \A i \in DOMAIN messages : messages[i].role = "assistant" =>
    \A k \in DOMAIN messages[i].calls : i + k <= Len(messages) =>
      messages[i + k].role = "tool" /\ messages[i + k].calls = <<messages[i].calls[k]>>

QueueIsOwed ==
  \A i \in DOMAIN messages : IsOwed(i) =>
    /\ pc \in {"call", "await"}
    /\ Len(queue) = Len(messages[i].calls) - (Len(messages) - i)
    /\ \A j \in 1..Len(queue) : queue[j] = messages[i].calls[Len(messages) - i + j]

ToolsAreAsked ==
  \A i \in DOMAIN messages : messages[i].role = "tool" =>
    \E j \in 1..(i - 1) : messages[j].role = "assistant" /\ i - j <= Len(messages[j].calls)

Pairs ==
  /\ AnswersFollow
  /\ QueueIsOwed
  /\ ToolsAreAsked
  /\ pc \in {"call", "await"} => \E a \in DOMAIN messages : IsOwed(a)

(* The calls of a message are a sequence. *)
LEMMA CallsTyped ==
  ASSUME LoopTypes
  PROVE  /\ Len(messages) \in Nat /\ DOMAIN messages = 1..Len(messages)
         /\ Len(queue) \in Nat
         /\ \A i \in DOMAIN messages :
              /\ messages[i].calls \in Seq(Wanted) /\ Len(messages[i].calls) \in Nat
              /\ DOMAIN messages[i].calls = 1..Len(messages[i].calls)
<1>1. Len(messages) \in Nat /\ DOMAIN messages = 1..Len(messages) /\ Len(queue) \in Nat
  BY LenProperties DEF LoopTypes
<1>2. \A i \in DOMAIN messages : messages[i].calls \in Seq(Wanted)
  <2>1. \A i \in DOMAIN messages : messages[i] \in Messages
    BY <1>1, ElementOfSeq DEF LoopTypes
  <2> QED
    BY <2>1 DEF Messages
<1> QED
  BY <1>1, <1>2, LenProperties

(* A message appended while nothing is owed. *)
LEMMA PairsAppend ==
  ASSUME LoopTypes, Pairs, pc \notin {"call", "await"},
         NEW m \in Messages, messages' = Append(messages, m), m.role # "tool",
         IF m.role = "assistant" /\ m.calls # <<>>
         THEN pc' = "call" /\ queue' = m.calls
         ELSE pc' \notin {"call", "await"}
  PROVE  Pairs'
<1>n. PICK n \in Nat : n = Len(messages) + 1
  BY LenProperties DEF LoopTypes
<1>1. /\ DOMAIN messages' = 1..n /\ Len(messages') = n /\ DOMAIN messages = 1..(n - 1)
      /\ Len(messages) = n - 1 /\ n >= 1
      /\ messages'[n] = m /\ \A i \in DOMAIN messages : messages'[i] = messages[i]
  BY <1>n, AppendedMessage
<1>2. \A i \in 1..n : i = n \/ i \in DOMAIN messages
  BY <1>1
<1>3. \A i \in DOMAIN messages : messages[i].role = "assistant" =>
        Len(messages[i].calls) <= n - 1 - i
  BY <1>1, CallsTyped DEF Pairs, QueueIsOwed, IsOwed
<1>4. m.calls \in Seq(Wanted) /\ Len(m.calls) \in Nat /\ DOMAIN m.calls = 1..Len(m.calls)
  BY LenProperties DEF Messages
<1>5. AnswersFollow'
  <2> SUFFICES ASSUME NEW i \in 1..n, messages'[i].role = "assistant",
                      NEW k \in DOMAIN messages'[i].calls, i + k <= n
               PROVE  messages'[i + k].role = "tool"
                      /\ messages'[i + k].calls = <<messages'[i].calls[k]>>
    BY <1>1 DEF AnswersFollow
  <2>1. i \in DOMAIN messages
    BY <1>1, <1>2, <1>4
  <2>2. messages'[i] = messages[i] /\ k \in DOMAIN messages[i].calls
    BY <1>1, <2>1
  <2>3. k <= Len(messages[i].calls) /\ k \in Nat /\ k >= 1
    BY <2>1, <2>2, CallsTyped
  <2>4. i + k <= n - 1 /\ i + k \in DOMAIN messages
    BY <1>1, <1>3, <2>1, <2>2, <2>3, CallsTyped
  <2> QED
    BY <1>1, <2>1, <2>2, <2>4 DEF Pairs, AnswersFollow
<1>6. QueueIsOwed'
  <2> SUFFICES ASSUME NEW i \in 1..n, messages'[i].role = "assistant",
                      Len(messages'[i].calls) > n - i
               PROVE  /\ pc' \in {"call", "await"}
                      /\ Len(queue') = Len(messages'[i].calls) - (n - i)
                      /\ \A j \in 1..Len(queue') : queue'[j] = messages'[i].calls[n - i + j]
    BY <1>1 DEF QueueIsOwed, IsOwed
  <2>1. i = n
    BY <1>1, <1>2, <1>3, CallsTyped
  <2>2. m.role = "assistant" /\ Len(m.calls) > 0 /\ messages'[i] = m
    BY <1>1, <2>1
  <2>3. m.calls # <<>>
    BY <2>2, EmptySeq
  <2>4. queue' = m.calls /\ pc' = "call"
    BY <2>2, <2>3
  <2>5. \A j \in 1..Len(m.calls) : n - i + j = j
    BY <1>4, <2>1
  <2> QED
    BY <1>4, <2>1, <2>2, <2>4, <2>5
<1>7. ToolsAreAsked'
  <2> SUFFICES ASSUME NEW i \in 1..n, messages'[i].role = "tool"
               PROVE  \E j \in 1..(i - 1) : messages'[j].role = "assistant"
                                            /\ i - j <= Len(messages'[j].calls)
    BY <1>1 DEF ToolsAreAsked
  <2>1. i \in DOMAIN messages /\ messages[i].role = "tool"
    BY <1>1, <1>2
  <2>2. PICK j \in 1..(i - 1) : messages[j].role = "assistant" /\ i - j <= Len(messages[j].calls)
    BY <2>1 DEF Pairs, ToolsAreAsked
  <2>3. j \in DOMAIN messages
    BY <1>1, <2>1
  <2> QED
    BY <1>1, <2>2, <2>3
<1>8. pc' \in {"call", "await"} => \E a \in DOMAIN messages' : IsOwed(a)'
  <2> SUFFICES ASSUME pc' \in {"call", "await"} PROVE \E a \in DOMAIN messages' : IsOwed(a)'
    OBVIOUS
  <2>1. m.role = "assistant" /\ m.calls # <<>>
    OBVIOUS
  <2>2. Len(m.calls) > 0
    BY <1>4, <2>1, EmptySeq, LenProperties
  <2>3. messages'[n].role = "assistant" /\ Len(messages'[n].calls) > Len(messages') - n /\ n \in DOMAIN messages'
    BY <1>1, <2>1, <2>2
  <2> QED
    BY <2>3 DEF IsOwed
<1> QED
  BY <1>5, <1>6, <1>7, <1>8 DEF Pairs

(* The tool message for the head of the queue. *)
LEMMA PairsReply ==
  ASSUME LoopTypes, Waiting, Pairs, pc \in {"call", "await"},
         NEW body \in {"content", "error", "malformed"}, NEW id \in Nat, Reply(body, id)
  PROVE  Pairs'
<1>n. PICK n \in Nat : n = Len(messages) + 1
  BY LenProperties DEF LoopTypes
<1>q. queue \in Seq(Wanted) /\ queue # <<>> /\ Head(queue) \in Wanted
  BY HeadOfQueue DEF LoopTypes, Waiting
<1>m. PICK m \in Messages : /\ messages' = Append(messages, m)
                            /\ m.role = "tool" /\ m.calls = <<Head(queue)>>
  BY <1>q, ToolTyped DEF Reply
<1>1. /\ DOMAIN messages' = 1..n /\ Len(messages') = n /\ DOMAIN messages = 1..(n - 1)
      /\ Len(messages) = n - 1 /\ n >= 1
      /\ messages'[n] = m /\ \A i \in DOMAIN messages : messages'[i] = messages[i]
  BY <1>n, <1>m, AppendedMessage
<1>2. \A i \in 1..n : i = n \/ i \in DOMAIN messages
  BY <1>1
<1>3. /\ Head(queue) = queue[1] /\ Len(queue) \in Nat /\ Len(queue) >= 1
      /\ queue' = Tail(queue) /\ Len(queue') = Len(queue) - 1
      /\ \A j \in 1..(Len(queue) - 1) : queue'[j] = queue[j + 1]
  BY <1>q, HeadTailProperties, EmptySeq, LenProperties DEF Reply
<1>4. pc' = IF queue' = <<>> THEN "chat" ELSE "call"
  BY DEF Reply
<1>5. \A i \in DOMAIN messages : messages'[i].role = "assistant" /\ Len(messages[i].calls) > n - 1 - i =>
        /\ Len(queue) = Len(messages[i].calls) - (n - 1 - i)
        /\ \A j \in 1..Len(queue) : queue[j] = messages[i].calls[n - 1 - i + j]
  BY <1>1 DEF Pairs, QueueIsOwed, IsOwed
<1>6. AnswersFollow'
  <2> SUFFICES ASSUME NEW i \in 1..n, messages'[i].role = "assistant",
                      NEW k \in DOMAIN messages'[i].calls, i + k <= n
               PROVE  messages'[i + k].role = "tool"
                      /\ messages'[i + k].calls = <<messages'[i].calls[k]>>
    BY <1>1 DEF AnswersFollow
  <2>1. i \in DOMAIN messages /\ messages'[i] = messages[i]
    BY <1>1, <1>2, <1>m
  <2>2. k \in DOMAIN messages[i].calls /\ k <= Len(messages[i].calls) /\ k \in Nat /\ k >= 1
    BY <2>1, CallsTyped
  <2>3. CASE i + k = n
    <3>1. Len(messages[i].calls) > n - 1 - i
      BY <2>2, <2>3, <2>1, CallsTyped
    <3>4. 1 \in 1..Len(queue)
      BY <1>3
    <3>5. queue[1] = messages[i].calls[n - 1 - i + 1]
      BY <1>5, <2>1, <3>1, <3>4
    <3>6. n - 1 - i + 1 = k
      BY <2>2, <2>3
    <3>2. queue[1] = messages[i].calls[k]
      BY <3>5, <3>6
    <3> QED
      BY <1>1, <1>3, <1>m, <2>1, <2>3, <3>2
  <2>4. CASE i + k # n
    <3>2. i + k <= n - 1 /\ i + k \in 1..(n - 1)
      BY <2>2, <2>4
    <3>1. i + k <= Len(messages) /\ i + k \in DOMAIN messages
      BY <1>1, <3>2
    <3> QED
      BY <1>1, <2>1, <2>2, <3>1 DEF Pairs, AnswersFollow
  <2> QED
    BY <2>3, <2>4
<1>7. QueueIsOwed'
  <2> SUFFICES ASSUME NEW i \in 1..n, messages'[i].role = "assistant",
                      Len(messages'[i].calls) > n - i
               PROVE  /\ pc' \in {"call", "await"}
                      /\ Len(queue') = Len(messages'[i].calls) - (n - i)
                      /\ \A j \in 1..Len(queue') : queue'[j] = messages'[i].calls[n - i + j]
    BY <1>1 DEF QueueIsOwed, IsOwed
  <2>1. i \in DOMAIN messages /\ messages'[i] = messages[i] /\ Len(messages[i].calls) \in Nat
    BY <1>1, <1>2, <1>m, CallsTyped
  <2>2. /\ Len(queue) = Len(messages[i].calls) - (n - 1 - i)
        /\ \A j \in 1..Len(queue) : queue[j] = messages[i].calls[n - 1 - i + j]
    <3>1. messages'[i].role = "assistant" /\ Len(messages[i].calls) > n - 1 - i
      BY <2>1
    <3> QED
      BY <1>5, <2>1, <3>1
  <2>3. Len(queue') = Len(messages[i].calls) - (n - i) /\ Len(queue') > 0
    <3>1. Len(queue') = Len(queue) - 1 /\ Len(queue) \in Nat
      BY <1>3
    <3>2. Len(messages[i].calls) > n - i
      BY <2>1
    <3>3. Len(queue) = Len(messages[i].calls) - (n - 1 - i)
      BY <2>2
    <3> QED
      BY <2>1, <3>1, <3>2, <3>3
  <2>4. queue' # <<>>
    BY <2>3, EmptySeq
  <2>5. ASSUME NEW j \in 1..Len(queue') PROVE queue'[j] = messages[i].calls[n - i + j]
    <3>1. j \in 1..(Len(queue) - 1) /\ j + 1 \in 1..Len(queue)
      BY <1>3
    <3>2. n - 1 - i + (j + 1) = n - i + j
      BY <2>1
    <3> QED
      BY <1>3, <2>2, <3>1, <3>2
  <2> QED
    BY <1>4, <2>1, <2>3, <2>4, <2>5
<1>8. PICK a \in DOMAIN messages : messages[a].role = "assistant" /\ Len(messages[a].calls) > n - 1 - a
  BY <1>1 DEF Pairs, IsOwed
<1>9. /\ messages'[a] = messages[a] /\ a \in 1..(n - 1) /\ Len(messages[a].calls) \in Nat
      /\ Len(queue) = Len(messages[a].calls) - (n - 1 - a)
  BY <1>1, <1>5, <1>8, CallsTyped
<1>10. ToolsAreAsked'
  <2> SUFFICES ASSUME NEW i \in 1..n, messages'[i].role = "tool"
               PROVE  \E j \in 1..(i - 1) : messages'[j].role = "assistant"
                                            /\ i - j <= Len(messages'[j].calls)
    BY <1>1 DEF ToolsAreAsked
  <2>1. CASE i \in DOMAIN messages
    <3>1. messages[i].role = "tool"
      BY <1>1, <2>1
    <3>2. PICK j \in 1..(i - 1) : messages[j].role = "assistant" /\ i - j <= Len(messages[j].calls)
      BY <2>1, <3>1 DEF Pairs, ToolsAreAsked
    <3>3. j \in DOMAIN messages
      BY <1>1, <2>1
    <3> QED
      BY <1>1, <3>2, <3>3
  <2>2. CASE i = n
    BY <1>8, <1>9, <2>2
  <2> QED
    BY <1>2, <2>1, <2>2
<1>11. pc' \in {"call", "await"} => \E b \in DOMAIN messages' : IsOwed(b)'
  <2> SUFFICES ASSUME pc' \in {"call", "await"} PROVE \E b \in DOMAIN messages' : IsOwed(b)'
    OBVIOUS
  <2>1. queue' # <<>> /\ queue' \in Seq(Wanted)
    BY <1>4, HeadOfQueue, <1>q, <1>3
  <2>2. Len(queue') >= 1
    BY <2>1, EmptySeq, LenProperties
  <2>3. Len(messages'[a].calls) > Len(messages') - a /\ a \in DOMAIN messages'
    BY <1>1, <1>3, <1>9, <2>2
  <2> QED
    BY <1>8, <1>9, <2>3 DEF IsOwed
<1> QED
  BY <1>6, <1>7, <1>10, <1>11 DEF Pairs

LEMMA PairsInit == LoopInit => Pairs
<1> SUFFICES ASSUME LoopInit PROVE Pairs
  OBVIOUS
<1>1. DOMAIN messages = {} /\ pc = "prompt"
  BY EmptySeq DEF LoopInit
<1> QED
  BY <1>1 DEF Pairs, AnswersFollow, QueueIsOwed, ToolsAreAsked

LEMMA PairsStep ==
  ASSUME CallTypeOK, LoopTypes, Waiting, Pairs, [LoopNext]_agentVars
  PROVE  Pairs'
<1>1. ASSUME UNCHANGED <<messages, queue>>,
             pc' \in {"call", "await"} <=> pc \in {"call", "await"}
      PROVE  Pairs'
  BY <1>1 DEF Pairs, AnswersFollow, QueueIsOwed, ToolsAreAsked, IsOwed
<1>2. CASE AskFailed \/ AskEscaped \/ Stop \/ DispatchCall \/ RunDispatch \/ UNCHANGED agentVars
  BY <1>1, <1>2 DEF AskFailed, AskEscaped, Stop, DispatchCall, RunDispatch, agentVars, loopVars
<1>3. CASE Input
  <2>1. PICK m \in Messages : m.role = "user" /\ messages' = Append(messages, m)
    BY <1>3, UserTyped DEF Input
  <2>2. pc = "prompt" /\ pc' = "chat"
    BY <1>3 DEF Input
  <2> QED
    BY <2>1, <2>2, PairsAppend
<1>4. CASE AskReplied
  <2>1. PICK entries \in Seq(Wanted) :
          /\ messages' = Append(messages, Assistant(entries))
          /\ queue' = entries
          /\ IF entries = <<>> THEN pc' = "prompt" ELSE pc' = "call"
    BY <1>4, ReplyRecorded
  <2>2. PICK m \in Messages : /\ m.role = "assistant" /\ m.calls = entries
                              /\ messages' = Append(messages, m)
    BY <2>1, AssistantTyped
  <2>3. pc = "chat"
    BY <1>4 DEF AskReplied
  <2> QED
    BY <2>1, <2>2, <2>3, PairsAppend
<1>5. CASE AnswerMalformed
  BY <1>5, PairsReply DEF AnswerMalformed, NoId
<1>6. CASE TakeResult
  <2>1. calls \in Nat
    BY BoundAssumption DEF CallTypeOK
  <2> QED
    BY <1>6, <2>1, PairsReply DEF TakeResult
<1>7. CASE NewProcess
  <2>1. DOMAIN messages' = {} /\ pc' = "prompt"
    BY <1>7, EmptySeq DEF NewProcess
  <2> QED
    BY <2>1 DEF Pairs, AnswersFollow, QueueIsOwed, ToolsAreAsked
<1> QED
  BY <1>2, <1>3, <1>4, <1>5, <1>6, <1>7 DEF LoopNext, LoopStep

(* The conversation always is one the chat API accepts.                     *)
THEOREM ConversationIsPaired == LoopSpec => []ConversationPairs
<1>1. LoopTypes /\ Pairs => ConversationPairs
  <2> SUFFICES ASSUME LoopTypes, Pairs, NEW i \in DOMAIN messages
               PROVE  /\ messages[i].role = "assistant" =>
                           \A k \in DOMAIN messages[i].calls :
                             IF i + k <= Len(messages)
                             THEN messages[i + k].role = "tool"
                                  /\ messages[i + k].calls = <<messages[i].calls[k]>>
                             ELSE pc \in {"call", "await"}
                                  /\ Len(queue) = Len(messages[i].calls) - (Len(messages) - i)
                      /\ messages[i].role = "tool" =>
                           \E j \in 1..(i - 1) : /\ messages[j].role = "assistant"
                                                 /\ i - j <= Len(messages[j].calls)
    BY DEF ConversationPairs
  <2>1. ASSUME messages[i].role = "assistant", NEW k \in DOMAIN messages[i].calls,
               ~(i + k <= Len(messages))
        PROVE  IsOwed(i)
    BY <2>1, CallsTyped DEF IsOwed
  <2> QED
    BY <2>1 DEF Pairs, AnswersFollow, QueueIsOwed, ToolsAreAsked
<1> QED
  BY <1>1, LoopTyped, PairsInit, PairsStep, PTL DEF LoopSpec

-----------------------------------------------------------------------------
(* Types, as the runs check them: ids are those of dispatched calls, and    *)
(* the bounds of the model are kept.                                        *)

LEMMA InputsInit == LoopInit => inputs <= MaxInputs
  BY LoopAssumption DEF LoopInit

LEMMA InputsStep ==
  ASSUME LoopTypes, inputs <= MaxInputs, [LoopNext]_agentVars
  PROVE  (inputs <= MaxInputs)'
<1>1. CASE Input
  <2>1. inputs' = inputs + 1 /\ inputs < MaxInputs /\ inputs \in Nat /\ MaxInputs \in Nat
    BY <1>1, LoopAssumption DEF Input, LoopTypes
  <2> QED
    BY <2>1
<1>2. CASE UNCHANGED inputs
  BY <1>2
<1> QED
  BY <1>1, <1>2 DEF LoopNext, LoopStep, AskReplied, AskFailed, AskEscaped, Stop, AnswerMalformed,
     DispatchCall, RunDispatch, TakeResult, NewProcess, agentVars, loopVars

(* A wanted call is one of the entries a reply may hold. *)
LEMMA WantedAreEntries ==
  ASSUME NEW s \in Seq(Wanted)
  PROVE  s \in Seq(Entries)
<1>1. Len(s) \in Nat /\ DOMAIN s = 1..Len(s)
  BY LenProperties
<1>2. Wanted \subseteq Entries
  BY LoopAssumption DEF Wanted, Entries, Arguments
<1>3. \A i \in 1..Len(s) : s[i] \in Entries
  BY <1>2, ElementOfSeq
<1>4. s = [i \in 1..Len(s) |-> s[i]]
  BY <1>1, LenProperties
<1> HIDE DEF Entries
<1> QED
  BY <1>1, <1>3, <1>4, SeqDef

LEMMA MessagesAreBounded ==
  ASSUME CallTypeOK, LoopTypes, Truth
  PROVE  messages \in Seq([role : {"user", "assistant", "tool"}, calls : Seq(Entries),
                           body : {"content", "error", "malformed"}, id : 0..MaxCalls])
<1> DEFINE Bounded == [role : {"user", "assistant", "tool"}, calls : Seq(Entries),
                       body : {"content", "error", "malformed"}, id : 0..MaxCalls]
<1>1. messages \in Seq(Messages) /\ Len(messages) \in Nat /\ DOMAIN messages = 1..Len(messages)
  BY LenProperties DEF LoopTypes
<1>2. ASSUME NEW i \in 1..Len(messages) PROVE messages[i] \in Bounded
  <2>1. messages[i] \in Messages
    BY <1>1, ElementOfSeq
  <2>2. messages[i].calls \in Seq(Entries)
    BY <2>1, WantedAreEntries DEF Messages
  <2>3. messages[i].id \in 0..MaxCalls
    <3>1. messages[i].id \in Nat /\ messages[i].id <= calls
      BY <1>1, <2>1 DEF Messages, Truth
    <3> QED
      BY <3>1, BoundAssumption DEF CallTypeOK
  <2> QED
    BY <2>1, <2>2, <2>3 DEF Messages
<1>3. messages = [i \in 1..Len(messages) |-> messages[i]]
  BY <1>1, LenProperties
<1> HIDE DEF Bounded
<1>4. messages \in Seq(Bounded)
  BY <1>1, <1>2, <1>3, SeqDef
<1> QED
  BY <1>4 DEF Bounded

(* Every variable of the loop and of its dispatcher has its type.           *)
THEOREM LoopTypeCorrect == LoopSpec => []LoopTypeOK
<1>1. ASSUME CallTypeOK, LoopTypes, Truth, DispatchTypeOK, inputs <= MaxInputs
      PROVE  LoopTypeOK
  <2>1. queue \in Seq(Entries)
    BY <1>1, WantedAreEntries DEF LoopTypes
  <2>2. inputs \in 0..MaxInputs
    BY <1>1, LoopAssumption DEF LoopTypes
  <2> QED
    BY <1>1, <2>1, <2>2, MessagesAreBounded DEF LoopTypes, LoopTypeOK
<1>2. CallTypeOK /\ LoopTypes /\ Truth /\ DispatchTypeOK /\ inputs <= MaxInputs => LoopTypeOK
  BY <1>1
<1>3. LoopSpec => []DispatchTypeOK
  BY LoopDispatches, CallTypes, PTL
<1>4. LoopTypes /\ inputs <= MaxInputs /\ [LoopNext]_agentVars => (inputs <= MaxInputs)'
  BY InputsStep
<1>5. LoopSpec => [](CallTypeOK /\ LoopTypes /\ Truth)
  BY LoopTyped, CountedInit, CountedStep, TruthInit, TruthStep, PTL DEF LoopSpec
<1> QED
  BY <1>2, <1>3, <1>4, <1>5, InputsInit, PTL DEF LoopSpec

-----------------------------------------------------------------------------
(* InputIsAnswered rests on a variant: what the loop still has to do for   *)
(* an input, as the requests it may make, the calls of the last reply it   *)
(* has not answered, and the steps left of the call at their head.         *)

RequestsLeft == IF pc \in {"prompt", "down"} THEN 0 ELSE MaxTurns - turn + 1

StepsLeft ==
  CASE pc = "call" -> 5
    [] pc = "await" /\ d.pc = "before" -> 4
    [] pc = "await" /\ d.pc = "decide" -> 3
    [] pc = "await" /\ d.pc = "run" -> 2
    [] pc = "await" /\ d.pc = "after" -> 1
    [] OTHER -> 0

ToDo == <<RequestsLeft, <<Len(queue), StepsLeft>>>>

(* They are compared in this order; a reply may hold any number of calls,  *)
(* so no single number would do.                                           *)
Less == {p \in Nat \X Nat : p[1] < p[2]}
Amounts == Nat \X (Nat \X Nat)
IsLess == LexPairOrdering(Less, LexPairOrdering(Less, Less, Nat, Nat), Nat, Nat \X Nat)

(* Nothing decreases forever in that order.                                *)
THEOREM DecreasesEnd == IsWellFoundedOn(IsLess, Amounts)
<1>1. IsWellFoundedOn(Less, Nat)
  <2>1. Less = OpToRel(<, Nat)
    BY DEF Less, OpToRel
  <2> QED
    BY <2>1, NatLessThanWellFounded, Zenon
<1>2. IsWellFoundedOn(LexPairOrdering(Less, Less, Nat, Nat), Nat \X Nat)
  BY <1>1, WFLexPairOrdering, Zenon
<1> QED
  BY <1>1, <1>2, WFLexPairOrdering, Zenon DEF IsLess, Amounts

LEMMA IsLessIf ==
  ASSUME NEW a \in Nat, NEW b \in Nat, NEW c \in Nat,
         NEW x \in Nat, NEW y \in Nat, NEW z \in Nat,
         a < x \/ (a = x /\ (b < y \/ (b = y /\ c < z)))
  PROVE  <<<<a, <<b, c>>>>, <<x, <<y, z>>>>>> \in IsLess
<1> DEFINE inner == LexPairOrdering(Less, Less, Nat, Nat)
<1>1. b < y \/ (b = y /\ c < z) => <<<<b, c>>, <<y, z>>>> \in inner
  BY DEF LexPairOrdering, Less
<1>2. a < x => <<a, x>> \in Less
  BY DEF Less
<1> HIDE DEF inner
<1>3. <<<<a, <<b, c>>>>, <<x, <<y, z>>>>>> \in LexPairOrdering(Less, inner, Nat, Nat \X Nat)
  BY <1>1, <1>2 DEF LexPairOrdering
<1> QED
  BY <1>3 DEF IsLess, inner

LEMMA ToDoIsAnAmount ==
  ASSUME LoopTypes
  PROVE  RequestsLeft \in Nat /\ Len(queue) \in Nat /\ StepsLeft \in 0..5
<1>1. Len(queue) \in Nat
  BY LenProperties DEF LoopTypes
<1>2. RequestsLeft \in Nat
  BY LoopAssumption DEF RequestsLeft, LoopTypes
<1>3. StepsLeft \in 0..5
  BY DEF StepsLeft
<1> QED
  BY <1>1, <1>2, <1>3

(* A tool message takes one call off the queue.                            *)
LEMMA ReplyIsProgress ==
  ASSUME LoopTypes, queue # <<>>, pc \in {"call", "await"}, UNCHANGED turn,
         NEW body \in {"content", "error", "malformed"}, NEW id \in Nat, Reply(body, id)
  PROVE  RequestsLeft' = RequestsLeft /\ Len(queue') < Len(queue)
<1>1. Len(queue') = Len(queue) - 1 /\ Len(queue) \in Nat
  BY HeadTailProperties, LenProperties DEF LoopTypes, Reply
<1>2. pc' \in {"chat", "call"}
  BY DEF Reply
<1>3. RequestsLeft' = RequestsLeft
  BY <1>2 DEF RequestsLeft
<1> QED
  BY <1>1, <1>3

LEMMA LoopStepIsProgress ==
  ASSUME CallTypeOK, LoopTypes, LoopTypes', Waiting, LoopStep
  PROVE  <<ToDo', ToDo>> \in IsLess
<1>t. /\ RequestsLeft \in Nat /\ Len(queue) \in Nat /\ StepsLeft \in Nat
      /\ RequestsLeft' \in Nat /\ Len(queue') \in Nat /\ StepsLeft' \in Nat
      /\ turn \in Nat /\ MaxTurns \in Nat /\ turn <= MaxTurns
  <2>1. RequestsLeft \in Nat /\ Len(queue) \in Nat /\ StepsLeft \in 0..5
    BY ToDoIsAnAmount
  <2>2. Len(queue') \in Nat
    BY LenProperties DEF LoopTypes
  <2>3. RequestsLeft' \in Nat
    <3>1. turn' \in 0..MaxTurns /\ MaxTurns \in Nat
      BY LoopAssumption DEF LoopTypes
    <3>2. \A m \in Nat : \A n \in 0..m : m - n + 1 \in Nat
      OBVIOUS
    <3>3. MaxTurns - turn' + 1 \in Nat
      BY <3>1, <3>2, Zenon
    <3> QED
      BY <3>3 DEF RequestsLeft
  <2>4. StepsLeft' \in 0..5
    BY DEF StepsLeft
  <2>5. turn \in Nat /\ MaxTurns \in Nat /\ turn <= MaxTurns
    BY LoopAssumption DEF LoopTypes
  <2> QED
    BY <2>1, <2>2, <2>3, <2>4, <2>5
<1> SUFFICES \/ RequestsLeft' < RequestsLeft
             \/ RequestsLeft' = RequestsLeft /\ Len(queue') < Len(queue)
             \/ /\ RequestsLeft' = RequestsLeft /\ Len(queue') = Len(queue)
                /\ StepsLeft' < StepsLeft
  BY <1>t, IsLessIf DEF ToDo
<1>1. CASE AskReplied
  <2>1. pc' \in {"prompt", "call"}
    BY <1>1, ReplyRecorded
  <2>2. pc = "chat" /\ turn < MaxTurns /\ turn' = turn + 1
    BY <1>1 DEF AskReplied, WithinBudget
  <2> QED
    BY <1>t, <2>1, <2>2 DEF RequestsLeft
<1>2. CASE AskFailed \/ AskEscaped \/ Stop
  <2>1. pc = "chat" /\ pc' \in {"prompt", "down"}
    BY <1>2 DEF AskFailed, AskEscaped, Stop
  <2> QED
    BY <1>t, <2>1 DEF RequestsLeft
<1>3. CASE AnswerMalformed
  BY <1>3, ReplyIsProgress DEF AnswerMalformed, Waiting, NoId
<1>4. CASE TakeResult
  <2>1. calls \in Nat
    BY BoundAssumption DEF CallTypeOK
  <2> QED
    BY <1>4, <2>1, ReplyIsProgress DEF TakeResult, Waiting
<1>5. CASE DispatchCall
  <2>1. pc = "call" /\ pc' = "await" /\ d'.pc = "before" /\ UNCHANGED <<turn, queue>>
    BY <1>5 DEF DispatchCall, Call
  <2>2. RequestsLeft' = RequestsLeft
    BY <2>1 DEF RequestsLeft
  <2>3. StepsLeft' = 4 /\ StepsLeft = 5
    BY <2>1 DEF StepsLeft
  <2> QED
    BY <2>1, <2>2, <2>3
<1>6. CASE RunDispatch
  <2>1. pc = "await" /\ pc' = "await" /\ UNCHANGED <<turn, queue>>
    BY <1>6 DEF RunDispatch, loopVars
  <2>2. RequestsLeft' = RequestsLeft
    BY <2>1 DEF RequestsLeft
  <2>3. \/ d.pc = "before" /\ d'.pc \in {"decide", "idle"}
        \/ d.pc = "decide" /\ d'.pc \in {"run", "after", "idle"}
        \/ d.pc = "run" /\ d'.pc = "after"
        \/ d.pc = "after" /\ d'.pc = "idle"
    <3>1. CASE BeforeCall
      <4>1. d.pc = "before" /\ (d' = [d EXCEPT !.pc = "decide"] \/ d' = Idle("refused"))
        BY <3>1 DEF BeforeCall
      <4>2. d' = [d EXCEPT !.pc = "decide"] => d'.pc = "decide"
        BY DEF CallTypeOK, InProgress
      <4>3. ASSUME d' = Idle("refused") PROVE d'.pc = "idle"
        BY <4>3 DEF Idle
      <4> QED
        BY <4>1, <4>2, <4>3
    <3>2. CASE Decide
      BY <3>2 DEF Decide, CallTypeOK, InProgress
    <3>3. CASE RunTool
      BY <3>3 DEF RunTool, CallTypeOK, InProgress
    <3>4. CASE AfterCall
      BY <3>4 DEF AfterCall, CallTypeOK, InProgress
    <3> QED
      BY <1>6, <3>1, <3>2, <3>3, <3>4 DEF RunDispatch, DispatchStep
  <2>4. StepsLeft' < StepsLeft
    BY <2>1, <2>3 DEF StepsLeft
  <2> QED
    BY <2>1, <2>2, <2>4
<1> QED
  BY <1>1, <1>2, <1>3, <1>4, <1>5, <1>6 DEF LoopStep

(* Every step the loop takes on its own, whatever the endpoint answers and  *)
(* the tools do, leaves less to do for the input it works on; so between    *)
(* two inputs, or restarts, there are finitely many of them.                *)
THEOREM LoopMakesProgress ==
  LoopSpec => /\ [](ToDo \in Amounts)
              /\ [][LoopStep => <<ToDo', ToDo>> \in IsLess]_agentVars
<1>1. LoopTypes => ToDo \in Amounts
  BY ToDoIsAnAmount DEF ToDo, Amounts
<1>2. /\ CallTypeOK /\ LoopTypes /\ LoopTypes' /\ Waiting
      /\ [LoopNext]_agentVars
      => [LoopStep => <<ToDo', ToDo>> \in IsLess]_agentVars
  BY LoopStepIsProgress
<1> QED
  BY <1>1, <1>2, LoopTyped, PTL DEF LoopSpec
=============================================================================
