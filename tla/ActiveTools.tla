---------------------------- MODULE ActiveTools ----------------------------
(***************************************************************************)
(* What the gate promises about tools/enabled, with no files, processes or *)
(* faults: a register per name that is written at most once, only with a   *)
(* source that passes the static check and that a human confirmed for that *)
(* name before, and activation records that only ever tell the truth.      *)
(***************************************************************************)
CONSTANTS Names, Sources, Nothing, Verdict

VARIABLES
  approved,   \* the <<name, source>> pairs a human confirmed
  active,     \* active[n]: the source of the active tool n, or Nothing
  announced   \* the <<name, source>> pairs the audit log calls activated

vars == <<approved, active, announced>>

Init == /\ approved = {}
        /\ active = [n \in Names |-> Nothing]
        /\ announced = {}

Approve(n, s) ==
  /\ Verdict[n][s] = "clean"
  /\ approved' = approved \cup {<<n, s>>}
  /\ UNCHANGED <<active, announced>>

Activate(n, s) ==
  /\ active[n] = Nothing
  /\ <<n, s>> \in approved
  /\ active' = [active EXCEPT ![n] = s]
  /\ UNCHANGED <<approved, announced>>

Announce(n, s) ==
  /\ active[n] = s
  /\ announced' = announced \cup {<<n, s>>}
  /\ UNCHANGED <<approved, active>>

Next == \E n \in Names, s \in Sources :
          Approve(n, s) \/ Activate(n, s) \/ Announce(n, s)

Spec == Init /\ [][Next]_vars
=============================================================================
