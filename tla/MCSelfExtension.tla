-------------------------- MODULE MCSelfExtension --------------------------
(***************************************************************************)
(* Small instances of SelfExtension: what the static checker says of each  *)
(* source.  "good" and "fine" pass under every name, "bad" is rejected,    *)
(* "deep" is nested too deep for the checker; an unfinished file is        *)
(* rejected, or one of the cases below.                                    *)
(***************************************************************************)
EXTENDS SelfExtension, TLC

CONSTANTS good, fine, bad, deep

VerdictOf(s) ==
  CASE s \in {good, fine} -> "clean"
    [] s = deep -> "deep"
    [] OTHER -> "dirty"
MCVerdict == [n \in Names |-> [s \in Sources |-> VerdictOf(s)]]

TornIs(v) == [n \in Names |-> [s \in Sources |-> IF s = Torn THEN v ELSE VerdictOf(s)]]

(* A prefix that is itself a complete tool, and one cut inside a character. *)
TornIsClean == TornIs("clean")
TornIsBinary == TornIs("binary")

AgentSymmetry == Permutations(Agents)
OperatorSymmetry == Permutations(Operators)
=============================================================================
