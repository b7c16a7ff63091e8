----------------------------- MODULE MCOwedQueue -----------------------------
(* An instance of OwedQueue: a deletion and a write, and the path the pull asks about. *)
EXTENDS OwedQueue

CONSTANTS del, wri, p

MCChange == {del, wri}
MCStructural == {del}
MCPath == {p}
MCTouches == [c \in MCChange |-> IF c = del THEN {p} ELSE {}]
=============================================================================
