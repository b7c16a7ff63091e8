-------------------------- MODULE MCConflictSession --------------------------
(* Instances of ConflictSession for TLC. *)
EXTENDS ConflictSession, TLC

CONSTANTS e1, e2, v1, v2
MCSymmetry == Permutations({e1, e2}) \cup Permutations({v1, v2})
==============================================================================
