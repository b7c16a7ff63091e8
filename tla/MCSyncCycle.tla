----------------------------- MODULE MCSyncCycle -----------------------------
(* An instance of SyncCycle: a cycle, and one that was abandoned before it. *)
EXTENDS SyncCycle

CONSTANTS old, new

MCCycle == {old, new}
=============================================================================
