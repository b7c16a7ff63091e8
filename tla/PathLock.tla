------------------------------ MODULE PathLock ------------------------------
(***************************************************************************)
(* What the gate of vault/pathMutation.ts promises, without saying how:    *)
(* calls are numbered in the order they are made, a call holds the paths   *)
(* it named from its grant to its release, and it is granted only when no  *)
(* earlier call that conflicts with it is still to be released.            *)
(***************************************************************************)
EXTENDS Naturals, Sequences

CONSTANTS Segment,    \* the segments a path is made of
          Fold,       \* the case, Unicode and slash folding of a segment
          Requests,   \* the sets of paths a call may name
          MaxCalls    \* how many calls are made

Ticket == 1..MaxCalls

(* A path with every segment folded: two spellings of one file are one key. *)
Folded(p) == [i \in 1..Len(p) |-> Fold[p[i]]]

(* q is p, or lies below the folder p, in any spelling. *)
Within(p, q) ==
  /\ Len(p) <= Len(q)
  /\ \A i \in 1..Len(p) : Fold[p[i]] = Fold[q[i]]

(* Two calls conflict when a path of one is, or lies within, a path of the other. *)
Conflict(r, s) == \E p \in r, q \in s : Within(p, q) \/ Within(q, p)

VARIABLES request,    \* the paths each call named, {} before it is made
          status      \* "none", "asked", "held" or "released"

vars == <<request, status>>

Init ==
  /\ request = [t \in Ticket |-> {}]
  /\ status = [t \in Ticket |-> "none"]

(* The next call is made. *)
Ask(t, r) ==
  /\ status[t] = "none"
  /\ \A s \in Ticket : s < t => status[s] # "none"
  /\ request' = [request EXCEPT ![t] = r]
  /\ status' = [status EXCEPT ![t] = "asked"]

Grant(t) ==
  /\ status[t] = "asked"
  /\ \A s \in Ticket :
       s < t /\ Conflict(request[s], request[t]) => status[s] = "released"
  /\ status' = [status EXCEPT ![t] = "held"]
  /\ UNCHANGED request

Release(t) ==
  /\ status[t] = "held"
  /\ status' = [status EXCEPT ![t] = "released"]
  /\ UNCHANGED request

Next ==
  \E t \in Ticket :
    \/ \E r \in Requests : Ask(t, r)
    \/ Grant(t)
    \/ Release(t)

Spec == Init /\ [][Next]_vars

=============================================================================
