----------------------------- MODULE MCDeletions -----------------------------
(* Instances of Deletions for TLC. *)
EXTENDS Deletions
===============================================================================
