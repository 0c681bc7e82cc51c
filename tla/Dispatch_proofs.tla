-------------------------- MODULE Dispatch_proofs --------------------------
(***************************************************************************)
(* Theorems about Registry.dispatch, for every registry, network policy,   *)
(* audit sink and number of calls.                                         *)
(*                                                                         *)
(* The invariant CallInv follows the call in progress: what each pc says   *)
(* about the id AuditLog remembers for the tool, about the records of this *)
(* call and about its run.  The records of earlier calls never change.     *)
(***************************************************************************)
EXTENDS Dispatch, SequenceTheorems, FiniteSetTheorems, TLAPS

USE DEF Events

Records == [event : Events, id : Nat, call : Nat, tool : ToolNames, ok : BOOLEAN]
Runs == [id : Ids, tool : ToolNames, args : {"valid", "invalid"}]

InProgress ==
  [pc : {"idle", "before", "decide", "run", "after"}, tool : ToolNames \cup {"none"},
   args : {"valid", "invalid"}, id : Nat, result : Results]

CallTypeOK ==
  /\ d \in InProgress
  /\ calls \in 0..MaxCalls
  /\ open \in [ToolNames -> Nat]
  /\ failures \in Nat
  /\ log \in Seq(Records)
  /\ lost \in SUBSET (Events \X Ids)
  /\ ran \in SUBSET Runs

(* The record of this event was written, or its loss reported. *)
Noted(event, c) == Logged(event, c) \/ <<event, c>> \in lost
HasRun(c) == \E r \in ran : r.id = c

Busy == d.pc # "idle"
Announced == d.pc \in {"decide", "run", "after"}

(* The call in progress is the newest, and is where its pc says. *)
Progress ==
  /\ Busy => d.id = calls /\ calls \in Ids /\ d.tool \in ToolNames
  /\ Announced => open[d.tool] = d.id /\ Noted("before", d.id)
  /\ d.pc \in {"before", "decide", "run"} => d.result = "none" /\ ~HasRun(d.id)
  /\ d.pc = "run" => Permitted(d.tool, d.args)
  /\ d.pc = "after" => /\ d.result \in {"ok", "failed"}
                       /\ d.result = "ok" => HasRun(d.id)

(* Nothing is noted of calls to come, nor an outcome of the current one. *)
NotedSoFar ==
  /\ \A i \in DOMAIN log : log[i].call <= calls
  /\ \A x \in lost : x[2] <= calls
  /\ \A r \in ran : r.id <= calls
  /\ d.pc = "before" => ~Noted("before", d.id)
  /\ d.pc \in {"before", "decide", "run"} => ~Noted("proposed", d.id)
  /\ Busy => ~Noted("after", d.id)
  /\ Announced => \A i \in DOMAIN log : log[i].call = d.id => log[i].tool = d.tool

(* A result was handed out with both records noted. *)
Concluded ==
  d.pc = "idle" /\ d.result \in {"ok", "failed"} =>
    /\ calls \in Ids
    /\ Noted("before", calls) /\ Noted("after", calls)
    /\ d.result = "ok" => HasRun(calls)

CallInv == Progress /\ NotedSoFar /\ Concluded /\ RunsOnlyWhatWasShown /\ RecordsPairUp

-----------------------------------------------------------------------------
(* What a record written does to what is noted. *)

LEMMA LogTyped ==
  ASSUME CallTypeOK
  PROVE  \A i \in DOMAIN log : log[i] \in Records
<1>1. log \in Seq(Records) /\ DOMAIN log = 1..Len(log)
  BY LenProperties DEF CallTypeOK
<1> QED
  BY <1>1, ElementOfSeq

(* Appending adds one record and keeps those before it. *)
LEMMA AppendedLog ==
  ASSUME CallTypeOK, NEW r \in Records, log' = Append(log, r)
  PROVE  /\ log' \in Seq(Records)
         /\ DOMAIN log' = 1..(Len(log) + 1)
         /\ DOMAIN log = 1..Len(log)
         /\ Len(log) \in Nat
         /\ log'[Len(log) + 1] = r
         /\ \A i \in 1..Len(log) : log'[i] = log[i] /\ log[i] \in Records
<1>1. log \in Seq(Records) /\ Len(log) \in Nat /\ DOMAIN log = 1..Len(log)
  BY LenProperties DEF CallTypeOK
<1>2. /\ log' \in Seq(Records) /\ Len(log') = Len(log) + 1
      /\ \A i \in 1..Len(log) : log'[i] = log[i]
      /\ log'[Len(log) + 1] = r
  BY <1>1, AppendProperties
<1>3. DOMAIN log' = 1..Len(log')
  BY <1>2, LenProperties
<1>4. \A i \in 1..Len(log) : log[i] \in Records
  BY <1>1, ElementOfSeq
<1> QED
  BY <1>1, <1>2, <1>3, <1>4

(* A new announcement or outcome is noted, and nothing else is. *)
LEMMA WritesNotes ==
  ASSUME CallTypeOK, d.id \in Ids, d.tool \in ToolNames,
         NEW e \in Events, NEW id \in Nat, NEW ok \in BOOLEAN, Writes(e, id, ok)
  PROVE  /\ log' \in Seq(Records)
         /\ lost' \in SUBSET (Events \X Ids)
         /\ failures' \in Nat
         /\ \A f, c : Noted(f, c)' <=> Noted(f, c) \/ (f = e /\ c = d.id)
         /\ lost' = lost \cup {<<e, d.id>>} \/ lost' = lost
         /\ log' = log \/ log' = Append(log, Record(e, id, d.tool, ok))
<1>1. CASE log' = Append(log, Record(e, id, d.tool, ok)) /\ failures' = failures /\ lost' = lost
  <2> DEFINE r == Record(e, id, d.tool, ok)
  <2>1. r \in Records /\ r.event = e /\ r.call = d.id
    BY BoundAssumption DEF Records, Record, Ids
  <2> HIDE DEF r
  <2>2. log' = Append(log, r)
    BY <1>1 DEF r
  <2>3. \A f, c : Logged(f, c)' <=> Logged(f, c) \/ (f = e /\ c = d.id)
    BY <2>1, <2>2, AppendedLog DEF Logged
  <2>4. \A f, c : Noted(f, c)' <=> Noted(f, c) \/ (f = e /\ c = d.id)
    BY <2>3, <1>1 DEF Noted
  <2> QED
    BY <2>1, <2>2, <2>4, <1>1, AppendedLog DEF CallTypeOK, r
<1>2. CASE failures' = failures + 1 /\ lost' = lost \cup {<<e, d.id>>} /\ log' = log
  <2>1. \A f, c : Logged(f, c)' <=> Logged(f, c)
    BY <1>2 DEF Logged
  <2>2. \A f, c : <<f, c>> \in lost' <=> <<f, c>> \in lost \/ (f = e /\ c = d.id)
    BY <1>2
  <2>3. \A f, c : Noted(f, c)' <=> Noted(f, c) \/ (f = e /\ c = d.id)
    BY <2>1, <2>2 DEF Noted
  <2>4. lost' \in SUBSET (Events \X Ids) /\ failures' \in Nat /\ log' \in Seq(Records)
    <3>1. <<e, d.id>> \in Events \X Ids
      OBVIOUS
    <3> QED
      BY <1>2, <3>1 DEF CallTypeOK
  <2> QED
    BY <2>3, <2>4, <1>2
<1> QED
  BY <1>1, <1>2 DEF Writes

-----------------------------------------------------------------------------
(* Types *)

LEMMA CallTypeInit == DispatchInit => CallTypeOK
<1> SUFFICES ASSUME DispatchInit PROVE CallTypeOK
  OBVIOUS
<1>1. d \in InProgress
  BY DEF DispatchInit, InProgress, Idle, Results, NoId
<1>5. calls \in 0..MaxCalls
  BY BoundAssumption DEF DispatchInit
<1>2. open \in [ToolNames -> Nat]
  BY DEF DispatchInit, NoId
<1>3. log \in Seq(Records) /\ failures \in Nat
  BY EmptySeq DEF DispatchInit
<1>4. lost \in SUBSET (Events \X Ids) /\ ran \in SUBSET Runs
  BY DEF DispatchInit
<1> QED
  BY <1>1, <1>2, <1>3, <1>4, <1>5 DEF CallTypeOK

LEMMA CallTypeStep == CallTypeOK /\ CallInv /\ [DispatchNext]_dispatchVars => CallTypeOK'
<1> SUFFICES ASSUME CallTypeOK, CallInv, [DispatchNext]_dispatchVars PROVE CallTypeOK'
  OBVIOUS
<1>b. Busy => d.id \in Ids /\ d.tool \in ToolNames
  BY DEF CallInv, Progress
<1>1. ASSUME NEW t \in ToolNames, NEW args \in {"valid", "invalid"}, Call(t, args)
      PROVE  CallTypeOK'
  <2>1. calls' \in 0..MaxCalls /\ calls + 1 \in Nat
    BY <1>1, BoundAssumption DEF Call, CallTypeOK
  <2>2. d' \in InProgress
    BY <1>1, <2>1 DEF Call, InProgress, Results
  <2> QED
    BY <1>1, <2>1, <2>2 DEF Call, CallTypeOK
<1>2. CASE BeforeCall
  <2>1. CASE open' = [open EXCEPT ![d.tool] = d.id] /\ Writes("before", d.id, TRUE)
             /\ d' = [d EXCEPT !.pc = "decide"]
    <3>1. d.id \in Ids /\ d.id \in Nat /\ d.tool \in ToolNames
      BY <1>2, <1>b DEF BeforeCall, Busy, CallTypeOK, Ids
    <3>2. log' \in Seq(Records) /\ lost' \in SUBSET (Events \X Ids) /\ failures' \in Nat
      BY <2>1, <3>1, WritesNotes
    <3>3. open' \in [ToolNames -> Nat]
      BY <2>1, <3>1 DEF CallTypeOK
    <3>4. d' \in InProgress
      BY <2>1 DEF CallTypeOK, InProgress
    <3> QED
      BY <3>2, <3>3, <3>4, <1>2 DEF CallTypeOK, BeforeCall
  <2>2. CASE d' = Idle("refused") /\ UNCHANGED <<open, failures, log, lost>>
    <3>1. d' \in InProgress
      BY <2>2 DEF Idle, InProgress, Results, NoId
    <3> QED
      BY <1>2, <2>2, <3>1 DEF CallTypeOK, BeforeCall
  <2> QED
    BY <1>2, <2>1, <2>2 DEF BeforeCall
<1>3. CASE Decide
  <2>1. d' \in InProgress
    BY <1>3 DEF Decide, CallTypeOK, InProgress, Results
  <2> QED
    BY <1>3, <2>1 DEF Decide, CallTypeOK
<1>4. CASE RunTool
  <2>1. d.id \in Ids /\ d.tool \in ToolNames /\ d.args \in {"valid", "invalid"}
    BY <1>4, <1>b DEF RunTool, Busy, CallTypeOK, InProgress
  <2>2. [id |-> d.id, tool |-> d.tool, args |-> d.args] \in Runs
    BY <2>1 DEF Runs
  <2>3. ran' \in SUBSET Runs
    BY <1>4, <2>2 DEF RunTool, CallTypeOK
  <2>4. d' \in InProgress
    BY <1>4 DEF RunTool, CallTypeOK, InProgress, Results
  <2>5. log' \in Seq(Records) /\ lost' \in SUBSET (Events \X Ids) /\ failures' \in Nat
    <3>1. Writes("proposed", NoId, TRUE) \/ UNCHANGED <<failures, log, lost>>
      BY <1>4 DEF RunTool
    <3> QED
      BY <2>1, <3>1, WritesNotes DEF NoId, CallTypeOK
  <2> QED
    BY <1>4, <2>3, <2>4, <2>5 DEF RunTool, CallTypeOK
<1>5. CASE AfterCall
  <2>1. CASE open' = [open EXCEPT ![d.tool] = NoId]
             /\ Writes("after", open[d.tool], d.result = "ok")
             /\ d' = [d EXCEPT !.pc = "idle"]
    <3>1. d.id \in Ids /\ d.tool \in ToolNames /\ open[d.tool] \in Nat
      BY <1>5, <1>b DEF AfterCall, Busy, CallTypeOK
    <3>2. log' \in Seq(Records) /\ lost' \in SUBSET (Events \X Ids) /\ failures' \in Nat
      BY <2>1, <3>1, WritesNotes
    <3>3. open' \in [ToolNames -> Nat]
      BY <2>1, <3>1 DEF CallTypeOK, NoId
    <3>4. d' \in InProgress
      BY <2>1 DEF CallTypeOK, InProgress
    <3> QED
      BY <3>2, <3>3, <3>4, <1>5 DEF CallTypeOK, AfterCall
  <2>2. CASE d' = [d EXCEPT !.pc = "idle", !.result = "withheld"]
             /\ UNCHANGED <<open, failures, log, lost>>
    <3>1. d' \in InProgress
      BY <2>2 DEF CallTypeOK, InProgress, Results
    <3> QED
      BY <1>5, <2>2, <3>1 DEF CallTypeOK, AfterCall
  <2> QED
    BY <1>5, <2>1, <2>2 DEF AfterCall
<1>6. CASE Restart
  <2>1. d' \in InProgress /\ open' \in [ToolNames -> Nat] /\ failures' \in Nat
    BY <1>6 DEF Restart, Idle, InProgress, Results, NoId
  <2> QED
    BY <1>6, <2>1 DEF Restart, CallTypeOK
<1>7. CASE UNCHANGED dispatchVars
  BY <1>7 DEF dispatchVars, CallTypeOK
<1> QED
  BY <1>1, <1>2, <1>3, <1>4, <1>5, <1>6, <1>7 DEF DispatchNext, DispatchStep

-----------------------------------------------------------------------------
(* The invariant *)

(* Noted and HasRun only depend on the records and the runs. *)
LEMMA Steady ==
  ASSUME UNCHANGED <<log, lost>>
  PROVE  \A f, c : Noted(f, c)' <=> Noted(f, c)
  BY DEF Noted, Logged

(* A record of an event its call did not have yet keeps the records paired. *)
LEMMA StillPaired ==
  ASSUME CallTypeOK, RecordsPairUp, NEW r \in Records, log' = Append(log, r),
         r.id = IF r.event = "proposed" THEN NoId ELSE r.call,
         \A i \in DOMAIN log : log[i].call = r.call =>
           log[i].tool = r.tool /\ Precedes(log[i].event, r.event)
  PROVE  RecordsPairUp'
<1> DEFINE n == Len(log) + 1
<1>1. /\ DOMAIN log' = 1..n /\ DOMAIN log = 1..Len(log) /\ Len(log) \in Nat
      /\ log'[n] = r /\ \A i \in 1..Len(log) : log'[i] = log[i]
  BY AppendedLog
<1>2. \A i \in DOMAIN log' : i = n \/ i \in DOMAIN log
  BY <1>1
<1>3. \A i \in DOMAIN log : log'[i] = log[i] /\ i < n /\ i \in Nat
  BY <1>1
<1>p. \A e, f : Precedes(e, f) => e # f /\ ~Precedes(f, e)
  BY DEF Precedes
<1>4. \A i \in DOMAIN log' :
        log'[i].id = IF log'[i].event = "proposed" THEN NoId ELSE log'[i].call
  BY <1>1, <1>2, <1>3 DEF RecordsPairUp
<1>5. ASSUME NEW i \in DOMAIN log', NEW j \in DOMAIN log', log'[j].call = log'[i].call
      PROVE  /\ log'[j].tool = log'[i].tool
             /\ log'[j].event = log'[i].event => i = j
             /\ Precedes(log'[j].event, log'[i].event) => j < i
  <2>1. CASE i \in DOMAIN log /\ j \in DOMAIN log
    BY <1>5, <2>1, <1>3 DEF RecordsPairUp
  <2>2. CASE i = n /\ j \in DOMAIN log
    BY <1>5, <2>2, <1>1, <1>3, <1>p
  <2>3. CASE i \in DOMAIN log /\ j = n
    BY <1>5, <2>3, <1>1, <1>3, <1>p
  <2>4. CASE i = n /\ j = n
    BY <1>5, <2>4, <1>1, <1>p
  <2> QED
    BY <1>2, <2>1, <2>2, <2>3, <2>4
<1> QED
  BY <1>4, <1>5 DEF RecordsPairUp

LEMMA CallInvInit == DispatchInit => CallInv
<1> SUFFICES ASSUME DispatchInit PROVE CallInv
  OBVIOUS
<1>1. d.pc = "idle" /\ d.result = "none" /\ lost = {} /\ ran = {}
  BY DEF DispatchInit, Idle
<1>2. DOMAIN log = {}
  BY EmptySeq DEF DispatchInit
<1> QED
  BY <1>1, <1>2 DEF CallInv, Progress, NotedSoFar, Concluded, RunsOnlyWhatWasShown, RecordsPairUp,
     Busy, Announced

(* A call begins: nothing is noted of it. *)
LEMMA InvCall ==
  ASSUME CallTypeOK, CallInv, NEW t \in ToolNames, NEW args \in {"valid", "invalid"}, Call(t, args)
  PROVE  CallInv'
<1> USE DEF CallInv
<1>1. /\ d'.pc = "before" /\ d'.id = calls + 1 /\ d'.tool = t /\ d'.result = "none"
      /\ calls' = calls + 1 /\ calls' \in Ids /\ calls \in Nat
      /\ UNCHANGED <<open, failures, log, lost, ran>>
  BY BoundAssumption DEF Call, CallTypeOK, Ids
<1>2. \A f, c : Noted(f, c)' <=> Noted(f, c)
  BY <1>1, Steady
<1>3. \A f : ~Noted(f, calls + 1)
  <2>1. \A f : ~Logged(f, calls + 1)
    BY <1>1 DEF NotedSoFar, Logged
  <2>2. \A f : <<f, calls + 1>> \notin lost
    BY <1>1 DEF NotedSoFar
  <2> QED
    BY <2>1, <2>2 DEF Noted
<1>4. ~HasRun(calls + 1)
  BY <1>1 DEF NotedSoFar, HasRun
<1>5. Progress'
  BY <1>1, <1>4 DEF Progress, Busy, Announced, HasRun
<1>6. (\A i \in DOMAIN log' : log'[i].call <= calls')
       /\ (\A x \in lost' : x[2] <= calls') /\ (\A r \in ran' : r.id <= calls')
  <2>1. \A i \in DOMAIN log : log[i].call \in Nat
    BY LogTyped DEF Records
  <2>2. \A x \in lost : x[2] \in Nat
    BY DEF CallTypeOK, Ids
  <2>3. \A r \in ran : r.id \in Nat
    BY DEF CallTypeOK, Runs, Ids
  <2> QED
    BY <1>1, <2>1, <2>2, <2>3 DEF NotedSoFar
<1>7. NotedSoFar'
  BY <1>1, <1>2, <1>3, <1>6 DEF NotedSoFar, Busy, Announced
<1>8. Concluded'
  BY <1>1 DEF Concluded
<1>9. RunsOnlyWhatWasShown' /\ RecordsPairUp'
  BY <1>1 DEF RunsOnlyWhatWasShown, RecordsPairUp, Logged
<1> QED
  BY <1>5, <1>7, <1>8, <1>9

(* What a record written by the call in progress leaves of NotedSoFar. *)
LEMMA BoundsAfterWrite ==
  ASSUME CallTypeOK, CallInv, Busy,
         NEW e \in Events, NEW id \in Nat, NEW ok \in BOOLEAN, Writes(e, id, ok), calls' = calls
  PROVE  /\ \A i \in DOMAIN log' : log'[i].call <= calls'
         /\ \A x \in lost' : x[2] <= calls'
<1>1. d.id = calls /\ d.id \in Ids /\ d.id \in Nat /\ d.tool \in ToolNames /\ calls \in Nat
  BY DEF CallInv, Progress, Ids
<1>2. \A x \in lost' : x[2] <= calls'
  BY <1>1, WritesNotes DEF CallInv, NotedSoFar
<1>3. \A i \in DOMAIN log' : log'[i].call <= calls'
  <2>1. CASE log' = log
    BY <2>1 DEF CallInv, NotedSoFar
  <2>2. CASE log' = Append(log, Record(e, id, d.tool, ok))
    <3> DEFINE r == Record(e, id, d.tool, ok)
    <3>1. r \in Records /\ r.call = calls
      BY <1>1 DEF Record, Records
    <3> HIDE DEF r
    <3>2. log' = Append(log, r)
      BY <2>2 DEF r
    <3>3. \A i \in DOMAIN log' : log'[i] = r \/ (i \in DOMAIN log /\ log'[i] = log[i])
      BY <3>1, <3>2, AppendedLog
    <3> QED
      BY <1>1, <3>1, <3>3 DEF CallInv, NotedSoFar
  <2> QED
    BY <1>1, <2>1, <2>2, WritesNotes
<1> QED
  BY <1>2, <1>3

(* The tool named by the records of the call in progress. *)
LEMMA ToolsAfterWrite ==
  ASSUME CallTypeOK, d.id \in Ids, d.tool \in ToolNames, RecordsPairUp,
         NEW e \in Events, NEW id \in Nat, NEW ok \in BOOLEAN, Writes(e, id, ok),
         id = IF e = "proposed" THEN NoId ELSE d.id,
         \A i \in DOMAIN log : log[i].call = d.id =>
           log[i].tool = d.tool /\ Precedes(log[i].event, e)
  PROVE  /\ \A i \in DOMAIN log' : log'[i].call = d.id => log'[i].tool = d.tool
         /\ RecordsPairUp'
<1>1. d.id \in Nat
  BY BoundAssumption DEF Ids
<1>2. CASE log' = log
  BY <1>2 DEF RecordsPairUp
<1>3. CASE log' = Append(log, Record(e, id, d.tool, ok))
  <2> DEFINE r == Record(e, id, d.tool, ok)
  <2>1. r \in Records /\ r.call = d.id /\ r.id = id /\ r.tool = d.tool /\ r.event = e
    BY <1>1 DEF Record, Records
  <2> HIDE DEF r
  <2>2. log' = Append(log, r)
    BY <1>3 DEF r
  <2>3. \A i \in DOMAIN log' : log'[i] = r \/ (i \in DOMAIN log /\ log'[i] = log[i])
    BY <2>1, <2>2, AppendedLog
  <2>4. RecordsPairUp'
    BY <2>1, <2>2, StillPaired
  <2> QED
    BY <2>1, <2>3, <2>4
<1> QED
  BY <1>1, <1>2, <1>3, WritesNotes

LEMMA InvBeforeCall == ASSUME CallTypeOK, CallInv, BeforeCall PROVE CallInv'
<1> USE DEF CallInv
<1>1. /\ d.pc = "before" /\ Busy /\ d.id = calls /\ d.id \in Ids /\ d.id \in Nat
      /\ d.tool \in ToolNames /\ calls' = calls /\ ran' = ran
      /\ d.result = "none" /\ ~HasRun(d.id)
      /\ ~Noted("before", d.id) /\ ~Noted("proposed", d.id) /\ ~Noted("after", d.id)
  BY BoundAssumption DEF BeforeCall, Progress, NotedSoFar, Busy, Ids
<1>2. CASE /\ open' = [open EXCEPT ![d.tool] = d.id]
           /\ Writes("before", d.id, TRUE)
           /\ d' = [d EXCEPT !.pc = "decide"]
  <2>1. /\ d'.pc = "decide" /\ d'.id = d.id /\ d'.tool = d.tool /\ d'.result = d.result
        /\ open'[d.tool] = d.id
    BY <1>1, <1>2 DEF CallTypeOK, InProgress
  <2>2. \A f, c : Noted(f, c)' <=> Noted(f, c) \/ (f = "before" /\ c = d.id)
    BY <1>1, <1>2, WritesNotes
  <2>3. \A i \in DOMAIN log : log[i].call # d.id
    BY <1>1, LogTyped DEF Noted, Logged, Records
  <2>4. RecordsPairUp' /\ \A i \in DOMAIN log' : log'[i].call = d.id => log'[i].tool = d.tool
    BY <1>1, <1>2, <2>3, ToolsAfterWrite
  <2>5. Progress'
    BY <1>1, <2>1, <2>2 DEF Progress, Busy, Announced, HasRun
  <2>6. NotedSoFar'
    BY <1>1, <1>2, <2>1, <2>2, <2>4, BoundsAfterWrite DEF NotedSoFar, Busy, Announced
  <2>7. Concluded'
    BY <2>1 DEF Concluded
  <2>8. RunsOnlyWhatWasShown'
    BY <1>1, <2>2 DEF RunsOnlyWhatWasShown, Noted
  <2> QED
    BY <2>4, <2>5, <2>6, <2>7, <2>8
<1>3. CASE d' = Idle("refused") /\ UNCHANGED <<open, failures, log, lost>>
  <2>1. d'.pc = "idle" /\ d'.result = "refused"
    BY <1>3 DEF Idle
  <2>2. Progress' /\ NotedSoFar' /\ Concluded'
    BY <1>1, <1>3, <2>1 DEF Progress, NotedSoFar, Concluded, Busy, Announced
  <2> QED
    BY <1>1, <1>3, <2>2 DEF RunsOnlyWhatWasShown, RecordsPairUp, Logged
<1> QED
  BY <1>2, <1>3 DEF BeforeCall

LEMMA InvDecide == ASSUME CallTypeOK, CallInv, Decide PROVE CallInv'
<1> USE DEF CallInv
<1>1. /\ d.pc = "decide" /\ Busy /\ Announced
      /\ d'.id = d.id /\ d'.tool = d.tool /\ d'.args = d.args
      /\ UNCHANGED <<calls, open, failures, log, lost, ran>>
      /\ \/ d'.pc = "run" /\ d'.result = d.result /\ Permitted(d.tool, d.args)
         \/ d'.pc = "after" /\ d'.result = "failed"
         \/ d'.pc = "idle" /\ d'.result = "refused"
  BY DEF Decide, Busy, Announced, CallTypeOK, InProgress
<1>2. \A f, c : Noted(f, c)' <=> Noted(f, c)
  BY <1>1, Steady
<1>3. Progress'
  BY <1>1, <1>2 DEF Progress, Busy, Announced, HasRun
<1>4. NotedSoFar' /\ Concluded'
  BY <1>1, <1>2 DEF NotedSoFar, Concluded, Busy, Announced
<1> QED
  BY <1>1, <1>3, <1>4 DEF RunsOnlyWhatWasShown, RecordsPairUp, Logged

LEMMA InvRunTool == ASSUME CallTypeOK, CallInv, RunTool PROVE CallInv'
<1> USE DEF CallInv
<1> DEFINE r == [id |-> d.id, tool |-> d.tool, args |-> d.args]
<1>1. /\ d.pc = "run" /\ Busy /\ Announced /\ d.id = calls /\ d.id \in Ids /\ d.id \in Nat
      /\ d.tool \in ToolNames
      /\ d'.pc = "after" /\ d'.id = d.id /\ d'.tool = d.tool /\ d'.result \in {"ok", "failed"}
      /\ ran' = ran \cup {r} /\ UNCHANGED <<calls, open>>
      /\ ~Noted("proposed", d.id) /\ ~Noted("after", d.id)
  BY BoundAssumption DEF RunTool, Progress, NotedSoFar, Busy, Announced, CallTypeOK, InProgress, Ids
<1>2. Writes("proposed", NoId, TRUE) \/ UNCHANGED <<failures, log, lost>>
  BY DEF RunTool
<1>3. \A f, c : Noted(f, c)' => Noted(f, c) \/ (f = "proposed" /\ c = d.id)
  BY <1>1, <1>2, WritesNotes, Steady DEF NoId
<1>4. \A f, c : Noted(f, c) => Noted(f, c)'
  BY <1>1, <1>2, WritesNotes, Steady DEF NoId
<1>5. HasRun(d.id)'
  <2>1. r \in ran' /\ r.id = d'.id
    BY <1>1
  <2> QED
    BY <2>1 DEF HasRun
<1>6. Progress'
  BY <1>1, <1>4, <1>5 DEF Progress, Busy, Announced
<1>7. /\ \A i \in DOMAIN log' : log'[i].call <= calls'
      /\ \A x \in lost' : x[2] <= calls'
      /\ \A i \in DOMAIN log' : log'[i].call = d.id => log'[i].tool = d.tool
      /\ RecordsPairUp'
  <2>1. CASE Writes("proposed", NoId, TRUE)
    <3>1. \A i \in DOMAIN log : log[i].call = d.id =>
             log[i].tool = d.tool /\ Precedes(log[i].event, "proposed")
      BY <1>1, LogTyped DEF NotedSoFar, Noted, Logged, Records, Precedes
    <3> QED
      BY <1>1, <2>1, <3>1, BoundsAfterWrite, ToolsAfterWrite DEF NoId
  <2>2. CASE UNCHANGED <<failures, log, lost>>
    BY <1>1, <2>2 DEF NotedSoFar, RecordsPairUp
  <2> QED
    BY <1>2, <2>1, <2>2
<1>8. \A q \in ran' : q.id <= calls'
  BY <1>1 DEF NotedSoFar
<1> HIDE DEF r
<1>9. NotedSoFar' /\ Concluded'
  BY <1>1, <1>3, <1>7, <1>8 DEF NotedSoFar, Concluded, Busy, Announced
<1>10. r.tool \in Specs /\ r.args = "valid" /\ Noted("before", r.id)
  BY <1>1 DEF r, Progress, Permitted, Refuses, Specs, IsDispatchable
<1>11. RunsOnlyWhatWasShown'
  BY <1>1, <1>4, <1>10 DEF RunsOnlyWhatWasShown, Noted
<1> QED
  BY <1>6, <1>7, <1>9, <1>11

LEMMA InvAfterCall == ASSUME CallTypeOK, CallInv, AfterCall PROVE CallInv'
<1> USE DEF CallInv
<1>1. /\ d.pc = "after" /\ Busy /\ Announced /\ d.id = calls /\ d.id \in Ids /\ d.id \in Nat
      /\ d.tool \in ToolNames /\ open[d.tool] = d.id /\ calls' = calls /\ ran' = ran
      /\ d.result \in {"ok", "failed"} /\ (d.result = "ok" => HasRun(d.id))
      /\ Noted("before", d.id) /\ ~Noted("after", d.id)
  BY BoundAssumption DEF AfterCall, Progress, NotedSoFar, Busy, Announced, Ids
<1>2. CASE /\ open' = [open EXCEPT ![d.tool] = NoId]
           /\ Writes("after", open[d.tool], d.result = "ok")
           /\ d' = [d EXCEPT !.pc = "idle"]
  <2>1. d'.pc = "idle" /\ d'.result = d.result
    BY <1>2 DEF CallTypeOK, InProgress
  <2>2. Writes("after", d.id, d.result = "ok")
    BY <1>1, <1>2
  <2>3. \A f, c : Noted(f, c)' <=> Noted(f, c) \/ (f = "after" /\ c = d.id)
    BY <1>1, <2>2, WritesNotes
  <2>4. \A i \in DOMAIN log : log[i].call = d.id =>
           log[i].tool = d.tool /\ Precedes(log[i].event, "after")
    BY <1>1, LogTyped DEF Noted, Logged, Records, NotedSoFar, Precedes
  <2>5. RecordsPairUp'
    BY <1>1, <2>2, <2>4, ToolsAfterWrite
  <2>6. Progress'
    BY <2>1 DEF Progress, Busy, Announced
  <2>7. (\A i \in DOMAIN log' : log'[i].call <= calls') /\ (\A x \in lost' : x[2] <= calls')
    BY <1>1, <2>2, BoundsAfterWrite
  <2>8. NotedSoFar'
    BY <1>1, <2>1, <2>7 DEF NotedSoFar, Busy, Announced
  <2>9. Concluded'
    BY <1>1, <2>1, <2>3 DEF Concluded, HasRun
  <2>10. RunsOnlyWhatWasShown'
    BY <1>1, <2>3 DEF RunsOnlyWhatWasShown, Noted
  <2> QED
    BY <2>5, <2>6, <2>8, <2>9, <2>10
<1>3. CASE /\ d' = [d EXCEPT !.pc = "idle", !.result = "withheld"]
           /\ UNCHANGED <<open, failures, log, lost>>
  <2>1. d'.pc = "idle" /\ d'.result = "withheld"
    BY <1>3 DEF CallTypeOK, InProgress
  <2>2. Progress' /\ NotedSoFar' /\ Concluded'
    BY <1>1, <1>3, <2>1 DEF Progress, NotedSoFar, Concluded, Busy, Announced
  <2> QED
    BY <1>1, <1>3, <2>2 DEF RunsOnlyWhatWasShown, RecordsPairUp, Logged
<1> QED
  BY <1>2, <1>3 DEF AfterCall

LEMMA InvRestart == ASSUME CallTypeOK, CallInv, Restart PROVE CallInv'
<1>1. d'.pc = "idle" /\ d'.result = "none" /\ UNCHANGED <<calls, log, lost, ran>>
  BY DEF Restart, Idle
<1>2. Progress' /\ NotedSoFar' /\ Concluded'
  BY <1>1 DEF CallInv, Progress, NotedSoFar, Concluded, Busy, Announced
<1> QED
  BY <1>1, <1>2 DEF CallInv, RunsOnlyWhatWasShown, RecordsPairUp, Logged

LEMMA CallInvStep == CallTypeOK /\ CallInv /\ [DispatchNext]_dispatchVars => CallInv'
<1> SUFFICES ASSUME CallTypeOK, CallInv, [DispatchNext]_dispatchVars PROVE CallInv'
  OBVIOUS
<1>1. CASE UNCHANGED dispatchVars
  <2> USE <1>1 DEF dispatchVars
  <2>1. Progress' /\ NotedSoFar' /\ Concluded'
    BY DEF CallInv, Progress, NotedSoFar, Concluded, Busy, Announced, Noted, Logged, HasRun
  <2> QED
    BY <2>1 DEF CallInv, RunsOnlyWhatWasShown, RecordsPairUp, Logged
<1> QED
  BY <1>1, InvCall, InvBeforeCall, InvDecide, InvRunTool, InvAfterCall, InvRestart
     DEF DispatchNext, DispatchStep

LEMMA CallInductive == DispatchSpec => [](CallTypeOK /\ CallInv)
  BY CallTypeInit, CallInvInit, CallTypeStep, CallInvStep, PTL DEF DispatchSpec

(* Call ids stay within their bound, and a process has counted no more     *)
(* losses than there are.                                                  *)
CallBounds ==
  /\ d.id \in 0..MaxCalls
  /\ open \in [ToolNames -> 0..MaxCalls]
  /\ \A i \in DOMAIN log : log[i].call \in Ids
  /\ failures <= Cardinality(lost)

LEMMA LostFinite ==
  ASSUME CallTypeOK
  PROVE  /\ IsFiniteSet(lost) /\ Cardinality(lost) \in Nat
         /\ Cardinality(lost) <= 3 * MaxCalls
<1> DEFINE all == Events \X Ids
<1>1. IsFiniteSet(Events) /\ Cardinality(Events) = 3
  <2>1. IsFiniteSet({"before"}) /\ Cardinality({"before"}) = 1
    BY FS_Singleton
  <2>2. /\ IsFiniteSet({"before"} \cup {"proposed"})
        /\ Cardinality({"before"} \cup {"proposed"}) = 2
    BY <2>1, FS_AddElement
  <2>3. /\ IsFiniteSet({"before"} \cup {"proposed"} \cup {"after"})
        /\ Cardinality({"before"} \cup {"proposed"} \cup {"after"}) = 3
    BY <2>2, FS_AddElement
  <2>4. {"before"} \cup {"proposed"} \cup {"after"} = Events
    OBVIOUS
  <2> QED
    BY <2>3, <2>4
<1>2. IsFiniteSet(Ids) /\ Cardinality(Ids) = MaxCalls
  BY FS_Interval, BoundAssumption DEF Ids
<1>3. IsFiniteSet(all) /\ Cardinality(all) = 3 * MaxCalls
  BY <1>1, <1>2, FS_Product
<1>4. lost \in SUBSET all
  BY DEF CallTypeOK
<1> HIDE DEF all
<1>5. IsFiniteSet(lost) /\ Cardinality(lost) <= Cardinality(all)
  BY <1>3, <1>4, FS_Subset
<1> QED
  BY <1>3, <1>5, FS_CardinalityType

LEMMA NoIdInBounds == NoId \in 0..MaxCalls
<1>1. 0 \in Nat /\ 0 <= MaxCalls
  BY BoundAssumption
<1> QED
  BY <1>1, BoundAssumption DEF NoId

LEMMA BoundsKeptByWrite ==
  ASSUME CallTypeOK, CallBounds, d.id \in Ids, d.tool \in ToolNames,
         NEW e \in Events, NEW id \in Nat, NEW ok \in BOOLEAN,
         Writes(e, id, ok), ~Noted(e, d.id)
  PROVE  /\ \A i \in DOMAIN log' : log'[i].call \in Ids
         /\ failures' <= Cardinality(lost')
<1>1. CASE log' = Append(log, Record(e, id, d.tool, ok)) /\ failures' = failures /\ lost' = lost
  <2> DEFINE r == Record(e, id, d.tool, ok)
  <2>1. r \in Records /\ r.call = d.id
    BY BoundAssumption DEF Records, Record, Ids
  <2> HIDE DEF r
  <2>2. log' = Append(log, r)
    BY <1>1 DEF r
  <2>3. \A i \in DOMAIN log' : log'[i] = r \/ (i \in DOMAIN log /\ log'[i] = log[i])
    BY <2>1, <2>2, AppendedLog
  <2> QED
    BY <1>1, <2>1, <2>3 DEF CallBounds
<1>2. CASE failures' = failures + 1 /\ lost' = lost \cup {<<e, d.id>>} /\ log' = log
  <2>1. <<e, d.id>> \notin lost
    BY DEF Noted
  <2>2. Cardinality(lost') = Cardinality(lost) + 1
    BY <1>2, <2>1, LostFinite, FS_AddElement
  <2>3. failures \in Nat /\ Cardinality(lost) \in Nat
    BY LostFinite DEF CallTypeOK
  <2> QED
    BY <1>2, <2>2, <2>3 DEF CallBounds
<1> QED
  BY <1>1, <1>2 DEF Writes

LEMMA CallBoundsStep == CallTypeOK /\ CallInv /\ CallBounds /\ [DispatchNext]_dispatchVars => CallBounds'
<1> SUFFICES ASSUME CallTypeOK, CallInv, CallBounds, [DispatchNext]_dispatchVars PROVE CallBounds'
  OBVIOUS
<1>b. Busy => d.id \in Ids /\ d.tool \in ToolNames
  BY DEF CallInv, Progress
<1>1. ASSUME NEW t \in ToolNames, NEW args \in {"valid", "invalid"}, Call(t, args)
      PROVE  CallBounds'
  <2>1. d'.id \in 0..MaxCalls
    BY <1>1, BoundAssumption DEF Call, CallTypeOK
  <2> QED
    BY <1>1, <2>1 DEF Call, CallBounds
<1>2. CASE BeforeCall
  <2>1. CASE open' = [open EXCEPT ![d.tool] = d.id] /\ Writes("before", d.id, TRUE)
             /\ d' = [d EXCEPT !.pc = "decide"]
    <3>1. d.id \in Ids /\ d.id \in Nat /\ d.tool \in ToolNames /\ d.id \in 0..MaxCalls
      BY <1>2, <1>b DEF BeforeCall, Busy, CallBounds, Ids
    <3>2. ~Noted("before", d.id)
      BY <1>2 DEF BeforeCall, CallInv, NotedSoFar
    <3>3. (\A i \in DOMAIN log' : log'[i].call \in Ids) /\ failures' <= Cardinality(lost')
      BY <2>1, <3>1, <3>2, BoundsKeptByWrite
    <3>4. open' \in [ToolNames -> 0..MaxCalls]
      BY <2>1, <3>1 DEF CallBounds
    <3>5. d'.id = d.id
      BY <2>1 DEF CallTypeOK, InProgress
    <3> QED
      BY <3>1, <3>3, <3>4, <3>5 DEF CallBounds
  <2>2. CASE d' = Idle("refused") /\ UNCHANGED <<open, failures, log, lost>>
    <3>1. d'.id = NoId
      BY <2>2 DEF Idle
    <3>2. d'.id \in 0..MaxCalls
      BY <3>1, NoIdInBounds
    <3> QED
      BY <2>2, <3>2 DEF CallBounds
  <2> QED
    BY <1>2, <2>1, <2>2 DEF BeforeCall
<1>3. CASE Decide
  <2>1. d'.id = d.id
    BY <1>3 DEF Decide, CallTypeOK, InProgress
  <2> QED
    BY <1>3, <2>1 DEF Decide, CallBounds
<1>7. CASE RunTool
  <2>1. d'.id = d.id /\ open' = open /\ d.id \in Ids /\ d.tool \in ToolNames
    BY <1>7, <1>b DEF RunTool, Busy, CallTypeOK, InProgress
  <2>2. CASE Writes("proposed", NoId, TRUE)
    <3>1. ~Noted("proposed", d.id)
      BY <1>7 DEF RunTool, CallInv, NotedSoFar
    <3>2. (\A i \in DOMAIN log' : log'[i].call \in Ids) /\ failures' <= Cardinality(lost')
      BY <2>1, <2>2, <3>1, BoundsKeptByWrite DEF NoId
    <3> QED
      BY <2>1, <3>2 DEF CallBounds
  <2>3. CASE UNCHANGED <<failures, log, lost>>
    BY <2>1, <2>3 DEF CallBounds
  <2> QED
    BY <1>7, <2>2, <2>3 DEF RunTool
<1>4. CASE AfterCall
  <2>1. d'.id = d.id
    BY <1>4 DEF AfterCall, CallTypeOK, InProgress
  <2>2. CASE open' = [open EXCEPT ![d.tool] = NoId]
             /\ Writes("after", open[d.tool], d.result = "ok")
    <3>1. d.id \in Ids /\ d.tool \in ToolNames /\ open[d.tool] \in Nat
      BY <1>4, <1>b DEF AfterCall, Busy, CallTypeOK
    <3>2. ~Noted("after", d.id)
      BY <1>4 DEF AfterCall, CallInv, NotedSoFar, Busy
    <3>3. (\A i \in DOMAIN log' : log'[i].call \in Ids) /\ failures' <= Cardinality(lost')
      BY <2>2, <3>1, <3>2, BoundsKeptByWrite
    <3>4. open' \in [ToolNames -> 0..MaxCalls]
      BY <2>2, NoIdInBounds DEF CallBounds
    <3> QED
      BY <2>1, <3>3, <3>4 DEF CallBounds
  <2>3. CASE UNCHANGED <<open, failures, log, lost>>
    BY <2>1, <2>3 DEF CallBounds
  <2> QED
    BY <1>4, <2>2, <2>3 DEF AfterCall
<1>5. CASE Restart
  <2>1. d'.id = NoId /\ open' = [t \in ToolNames |-> NoId] /\ failures' = 0
    BY <1>5 DEF Restart, Idle
  <2>2. lost' = lost /\ log' = log /\ Cardinality(lost) \in Nat
    BY <1>5, LostFinite DEF Restart
  <2> QED
    BY <2>1, <2>2, NoIdInBounds DEF CallBounds
<1>6. CASE UNCHANGED dispatchVars
  BY <1>6 DEF dispatchVars, CallBounds
<1> QED
  BY <1>1, <1>2, <1>3, <1>4, <1>5, <1>6, <1>7 DEF DispatchNext, DispatchStep

LEMMA CallBoundsInit == DispatchInit => CallBounds
<1> SUFFICES ASSUME DispatchInit PROVE CallBounds
  OBVIOUS
<1>1. d.id = NoId /\ open = [t \in ToolNames |-> NoId]
  BY DEF DispatchInit, Idle
<1>2. DOMAIN log = {} /\ failures <= Cardinality(lost)
  BY FS_EmptySet, EmptySeq DEF DispatchInit
<1> QED
  BY <1>1, <1>2, NoIdInBounds DEF CallBounds

(* Every record, counter and remembered id has its type at every step of a *)
(* call; no tool runs but a registered one, on arguments of its schema.    *)
THEOREM CallTypes == DispatchSpec => []DispatchTypeOK
<1> DEFINE Written == [event : Events, id : 0..MaxCalls, call : Ids,
                       tool : ToolNames, ok : BOOLEAN]
<1>1. ASSUME CallTypeOK, CallInv, CallBounds PROVE DispatchTypeOK
  <2>1. d \in [pc : {"idle", "before", "decide", "run", "after"}, tool : ToolNames \cup {"none"},
               args : {"valid", "invalid"}, id : 0..MaxCalls, result : Results]
    BY <1>1 DEF CallTypeOK, CallBounds, InProgress
  <2>2. failures \in 0..(3 * MaxCalls)
    BY <1>1, LostFinite, BoundAssumption DEF CallTypeOK, CallBounds
  <2>3. log \in Seq(Written)
    <3>1. log \in Seq(Records) /\ Len(log) \in Nat /\ DOMAIN log = 1..Len(log)
      BY <1>1, LenProperties DEF CallTypeOK
    <3>2. ASSUME NEW i \in 1..Len(log)
          PROVE  log[i] \in Written
      <4>1. log[i] \in Records
        BY <1>1, <3>1, LogTyped
      <4>2. log[i].id \in {NoId, log[i].call} /\ log[i].call \in Ids
        BY <1>1, <3>1 DEF CallInv, RecordsPairUp, CallBounds
      <4> QED
        BY <4>1, <4>2, NoIdInBounds, BoundAssumption DEF Records, Ids
    <3> HIDE DEF Written
    <3> QED
      BY <3>1, <3>2, SeqDef
  <2>4. ran \subseteq [id : Ids, tool : Registered, args : {"valid"}]
    <3> SUFFICES ASSUME NEW r \in ran PROVE r \in [id : Ids, tool : Registered, args : {"valid"}]
      OBVIOUS
    <3>1. r \in Runs /\ r.tool \in Registered /\ r.args = "valid"
      BY <1>1 DEF CallTypeOK, CallInv, RunsOnlyWhatWasShown, Specs
    <3> QED
      BY <3>1 DEF Runs
  <2> QED
    BY <1>1, <2>1, <2>2, <2>3, <2>4 DEF DispatchTypeOK, CallTypeOK, CallBounds
<1> QED
  BY <1>1, CallInductive, CallBoundsInit, CallBoundsStep, PTL DEF DispatchSpec

(* Whatever the network policy and the audit sink do, only an advertised    *)
(* tool runs, on arguments of its schema, after its call was announced.     *)
THEOREM RunsTheAdvertised == DispatchSpec => []RunsOnlyWhatWasShown
  BY CallInductive, PTL DEF CallInv

(* The records of the audit log pair up, across losses and restarts.        *)
THEOREM LogPairs == DispatchSpec => []RecordsPairUp
  BY CallInductive, PTL DEF CallInv

(* The agent only gets a result whose two records exist or are counted.     *)
THEOREM ResultsAreAccountedFor == DispatchSpec => []ResultIsAccountedFor
<1>1. Concluded => ResultIsAccountedFor
  BY DEF Concluded, ResultIsAccountedFor, Noted, HasRun
<1> QED
  BY <1>1, CallInductive, PTL DEF CallInv

-----------------------------------------------------------------------------
(* Refinement *)

(* What the caller holds, as the abstract specification sees it. *)
Told == IF d.pc = "idle" /\ d.result \in {"ok", "failed"}
        THEN [call |-> calls, how |-> d.result]
        ELSE [call |-> 0, how |-> "nothing"]
Executed == {r.id : r \in ran}

(* The accounted calls are the noted ones, and none is newer than the last. *)
LEMMA AccountedNoted ==
  ASSUME CallTypeOK, CallInv
  PROVE  /\ \A f, c : c \in Accounted(f) <=> c \in Ids /\ Noted(f, c)
         /\ \A f : \A c \in Accounted(f) : c <= calls
         /\ \A c : c \in Executed <=> HasRun(c)
<1>1. \A f, c : c \in Accounted(f) <=> c \in Ids /\ Noted(f, c)
  BY DEF Accounted, Noted
<1>2. \A f, c : Noted(f, c) => c <= calls
  BY DEF CallInv, NotedSoFar, Noted, Logged
<1>3. \A c : c \in Executed <=> HasRun(c)
  BY DEF Executed, HasRun
<1> QED
  BY <1>1, <1>2, <1>3

LEMMA AuditedInit == DispatchInit => Audited!Init
<1> SUFFICES ASSUME DispatchInit PROVE Audited!Init
  OBVIOUS
<1>1. d.pc = "idle" /\ d.result = "none" /\ lost = {} /\ ran = {}
  BY DEF DispatchInit, Idle
<1>2. DOMAIN log = {}
  BY EmptySeq DEF DispatchInit
<1> QED
  BY <1>1, <1>2 DEF Audited!Init, Audited!Nothing, Accounted, Logged

(* Nothing the abstract specification sees has changed. *)
Unseen == Accounted("before")' = Accounted("before") /\ Accounted("after")' = Accounted("after")
            /\ ran' = ran

LEMMA UnseenIf == ASSUME UNCHANGED <<log, lost, ran>> PROVE Unseen
  BY DEF Unseen, Accounted, Logged

(* What is accounted for after a record of the call in progress. *)
LEMMA AccountedAfterWrite ==
  ASSUME CallTypeOK, d.id \in Ids, d.tool \in ToolNames,
         NEW e \in Events, NEW id \in Nat, NEW ok \in BOOLEAN, Writes(e, id, ok)
  PROVE  \A f : Accounted(f)' = IF f = e THEN Accounted(f) \cup {d.id} ELSE Accounted(f)
<1>1. \A f, c : Noted(f, c)' <=> Noted(f, c) \/ (f = e /\ c = d.id)
  BY WritesNotes
<1>2. \A f : Accounted(f) = {c \in Ids : Noted(f, c)} /\ Accounted(f)' = {c \in Ids : Noted(f, c)'}
  BY DEF Accounted, Noted
<1> QED
  BY <1>1, <1>2

LEMMA AuditedStep ==
  ASSUME CallTypeOK, CallInv, [DispatchNext]_dispatchVars
  PROVE  Audited!Next \/ UNCHANGED Audited!auditedVars
<1>n. \A how \in {"ok", "failed"} : how # "nothing"
  OBVIOUS
<1>1. ASSUME Unseen, Told' = Told PROVE UNCHANGED Audited!auditedVars
  BY <1>1 DEF Unseen, Told, Audited!auditedVars
<1>2. ASSUME Unseen, Told' = [call |-> 0, how |-> "nothing"] PROVE Audited!Next
  BY <1>2 DEF Unseen, Told, Audited!Next, Audited!Forget, Audited!Nothing
<1>3. ASSUME NEW t \in ToolNames, NEW args \in {"valid", "invalid"}, Call(t, args)
      PROVE  Audited!Next
  BY <1>2, <1>3, UnseenIf DEF Call, Told
<1>4. CASE Restart
  BY <1>2, <1>4, UnseenIf DEF Restart, Idle, Told
<1>5. CASE Decide
  <2>1. d.pc # "idle" /\ (d'.pc # "idle" \/ d'.result = "refused")
    BY <1>5 DEF Decide, CallTypeOK, InProgress
  <2> QED
    BY <1>1, <1>5, <2>1, UnseenIf DEF Decide, Told
<1>6. CASE UNCHANGED dispatchVars
  BY <1>1, <1>6, UnseenIf DEF dispatchVars, Told
<1>7. CASE BeforeCall
  <2>1. /\ d.pc = "before" /\ d.id = calls /\ d.id \in Ids /\ d.id \in Nat /\ d.tool \in ToolNames
        /\ ran' = ran /\ calls' = calls /\ ~Noted("before", d.id)
    BY <1>7, BoundAssumption DEF BeforeCall, CallInv, Progress, NotedSoFar, Busy, Ids
  <2>2. CASE Writes("before", d.id, TRUE) /\ d' = [d EXCEPT !.pc = "decide"]
    <3>1. d'.pc = "decide"
      BY <2>2 DEF CallTypeOK, InProgress
    <3>2. Told = [call |-> 0, how |-> "nothing"] /\ Told' = Told
      BY <2>1, <3>1 DEF Told
    <3>3. \A a \in Accounted("before") : a < d.id
      BY <2>1, AccountedNoted DEF Ids
    <3>4. /\ Accounted("before")' = Accounted("before") \cup {d.id}
          /\ Accounted("after")' = Accounted("after")
      BY <2>1, <2>2, AccountedAfterWrite
    <3>5. Audited!Announce(d.id)
      BY <2>1, <3>2, <3>3, <3>4 DEF Audited!Announce, Told
    <3> QED
      BY <2>1, <3>5 DEF Audited!Next
  <2>3. CASE d' = Idle("refused") /\ UNCHANGED <<open, failures, log, lost>>
    <3>1. Told' = Told
      BY <2>1, <2>3 DEF Told, Idle
    <3> QED
      BY <1>1, <2>1, <2>3, <3>1, UnseenIf
  <2> QED
    BY <1>7, <2>2, <2>3 DEF BeforeCall
<1>8. CASE RunTool
  <2>1. /\ d.pc = "run" /\ d'.pc = "after" /\ d.id = calls /\ d.id \in Ids
        /\ Noted("before", d.id) /\ ~Noted("after", d.id) /\ ~HasRun(d.id)
        /\ ran' = ran \cup {[id |-> d.id, tool |-> d.tool, args |-> d.args]}
        /\ d.tool \in ToolNames
    BY <1>8 DEF RunTool, CallInv, Progress, NotedSoFar, Busy, Announced, CallTypeOK, InProgress
  <2>2. Told' = Told
    BY <2>1 DEF Told
  <2>3. Executed' = Executed \cup {d.id}
    <3> DEFINE r == [id |-> d.id, tool |-> d.tool, args |-> d.args]
    <3>1. r.id = d.id /\ ran' = ran \cup {r}
      BY <2>1
    <3> HIDE DEF r
    <3> QED
      BY <3>1 DEF Executed
  <2>4. /\ d.id \in Accounted("before") /\ d.id \notin Accounted("after")
        /\ d.id \notin Executed /\ \A a \in Accounted("before") : a <= d.id
    BY <2>1, AccountedNoted
  <2>5. UNCHANGED <<Accounted("before"), Accounted("after")>>
    <3>1. Writes("proposed", NoId, TRUE) \/ UNCHANGED <<log, lost>>
      BY <1>8 DEF RunTool
    <3>2. CASE Writes("proposed", NoId, TRUE)
      BY <2>1, <3>2, AccountedAfterWrite DEF NoId
    <3>3. CASE UNCHANGED <<log, lost>>
      BY <3>3 DEF Accounted, Logged
    <3> QED
      BY <3>1, <3>2, <3>3
  <2>6. PICK c \in Ids : c = d.id
    BY <2>1
  <2>7. Audited!Execute(c)
    BY <2>2, <2>3, <2>4, <2>5, <2>6 DEF Audited!Execute, Audited!IsLatest, Told, Executed
  <2> QED
    BY <2>7 DEF Audited!Next
<1>9. CASE AfterCall
  <2>1. /\ d.pc = "after" /\ d.id = calls /\ d.id \in Ids /\ d.tool \in ToolNames
        /\ open[d.tool] = d.id /\ calls' = calls /\ ran' = ran
        /\ d.result \in {"ok", "failed"} /\ (d.result = "ok" => HasRun(d.id))
        /\ Noted("before", d.id) /\ ~Noted("after", d.id)
    BY <1>9 DEF AfterCall, CallInv, Progress, NotedSoFar, Busy, Announced
  <2>2. CASE Writes("after", open[d.tool], d.result = "ok") /\ d' = [d EXCEPT !.pc = "idle"]
    <3>1. d'.pc = "idle" /\ d'.result = d.result
      BY <2>2 DEF CallTypeOK, InProgress
    <3>2. Told' = [call |-> d.id, how |-> d.result]
      BY <2>1, <3>1 DEF Told
    <3>3. Writes("after", d.id, d.result = "ok") /\ d.id \in Nat
      BY <2>1, <2>2, BoundAssumption DEF Ids
    <3>4. /\ Accounted("after")' = Accounted("after") \cup {d.id}
          /\ Accounted("before")' = Accounted("before")
      BY <2>1, <3>3, AccountedAfterWrite
    <3>5. /\ d.id \in Accounted("before") /\ d.id \notin Accounted("after")
          /\ \A a \in Accounted("before") : a <= d.id
          /\ d.result = "ok" => d.id \in Executed
      BY <2>1, AccountedNoted
    <3>6. Audited!Conclude(d.id, d.result)
      BY <2>1, <3>2, <3>4, <3>5 DEF Audited!Conclude, Audited!IsLatest, Told, Executed
    <3> QED
      BY <2>1, <3>6 DEF Audited!Next
  <2>3. CASE /\ d' = [d EXCEPT !.pc = "idle", !.result = "withheld"]
             /\ UNCHANGED <<open, failures, log, lost>>
    <3>1. d'.pc = "idle" /\ d'.result = "withheld"
      BY <2>3 DEF CallTypeOK, InProgress
    <3>2. Told' = Told
      BY <2>1, <3>1 DEF Told
    <3> QED
      BY <1>1, <2>1, <2>3, <3>2, UnseenIf
  <2> QED
    BY <1>9, <2>2, <2>3 DEF AfterCall
<1> QED
  BY <1>3, <1>4, <1>5, <1>6, <1>7, <1>8, <1>9 DEF DispatchNext, DispatchStep

(* Registry.dispatch implements the audited call.                           *)
THEOREM AuditedRefinement == DispatchSpec => ImplementsAuditedCall
<1>1. CallTypeOK /\ CallInv /\ [DispatchNext]_dispatchVars => [Audited!Next]_(Audited!auditedVars)
  BY AuditedStep
<1> QED
  BY <1>1, CallInductive, AuditedInit, PTL DEF DispatchSpec, ImplementsAuditedCall, Audited!Spec
=============================================================================
