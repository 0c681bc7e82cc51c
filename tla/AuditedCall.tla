---------------------------- MODULE AuditedCall ----------------------------
(***************************************************************************)
(* What Registry.dispatch promises, told without its tools, policies,      *)
(* schemas and audit sinks: calls come one after the other; a call is      *)
(* announced before it is executed, is executed at most once, and its      *)
(* caller is told of a result only together with its conclusion.  Any call *)
(* may be abandoned at any point (refused, withheld, killed): the caller   *)
(* is told nothing then, and the next call starts.                         *)
(***************************************************************************)
EXTENDS Naturals

CONSTANT Calls  \* the calls, numbered from 1

VARIABLES
  announced,  \* the calls announced to the audit trail
  executed,   \* the calls whose tool was run
  concluded,  \* the calls whose outcome went to the audit trail
  told        \* the result the caller holds

auditedVars == <<announced, executed, concluded, told>>

Nothing == [call |-> 0, how |-> "nothing"]

Init == announced = {} /\ executed = {} /\ concluded = {} /\ told = Nothing

IsLatest(c) == c \in announced /\ (\A a \in announced : a <= c) /\ c \notin concluded

Announce(c) ==
  /\ \A a \in announced : a < c
  /\ announced' = announced \cup {c}
  /\ UNCHANGED <<executed, concluded, told>>

Execute(c) ==
  /\ IsLatest(c) /\ c \notin executed
  /\ executed' = executed \cup {c}
  /\ UNCHANGED <<announced, concluded, told>>

Conclude(c, how) ==
  /\ IsLatest(c)
  /\ how = "ok" => c \in executed
  /\ concluded' = concluded \cup {c}
  /\ told' = [call |-> c, how |-> how]
  /\ UNCHANGED <<announced, executed>>

(* The next call begins, or a new process. *)
Forget == told' = Nothing /\ UNCHANGED <<announced, executed, concluded>>

Next ==
  \/ \E c \in Calls : Announce(c) \/ Execute(c) \/ \E how \in {"ok", "failed"} : Conclude(c, how)
  \/ Forget

Spec == Init /\ [][Next]_auditedVars
=============================================================================
