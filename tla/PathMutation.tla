---------------------------- MODULE PathMutation ----------------------------
(***************************************************************************)
(* The gate of vault/pathMutation.ts, shared by the editor's adapter and   *)
(* the sync worker: withPathMutation keeps, per lock key, the promise of   *)
(* the last call that named it (tails); a new call waits for the tails of  *)
(* all its keys, puts itself in their place, and takes itself out once it  *)
(* has settled and nobody has come after it.                               *)
(*                                                                         *)
(* One scope (one entry of the WeakMap) is modelled; scopes share nothing. *)
(* Each call is a ticket, numbered in the order of the synchronous part of *)
(* withPathMutation.                                                       *)
(***************************************************************************)
EXTENDS Naturals, Sequences

CONSTANTS Segment, Fold, Requests, MaxCalls

ASSUME PathMutationAssumption ==
  /\ MaxCalls \in Nat
  /\ Fold \in [Segment -> Segment]
  /\ \A r \in Requests : r # {} /\ r \subseteq Seq(Segment) \ {<<>>}

Ticket == 1..MaxCalls
NoTail == 0

Folded(p) == [i \in 1..Len(p) |-> Fold[p[i]]]

(* The key of the path's first i segments: the path itself or an ancestor. *)
KeyOf(p, i) == SubSeq(Folded(p), 1, i)

(* Mutant of lockKeys: only the paths themselves, no ancestors. *)
lockKeysWithoutAncestors(paths) == {KeyOf(p, Len(p)) : p \in paths}

lockKeys(paths) == UNION {{KeyOf(p, i) : i \in 1..Len(p)} : p \in paths}

Key == UNION {lockKeys(r) : r \in Requests}

VARIABLES issued,     \* how many calls were made
          request,    \* request[t]: the paths call t named
          waits,      \* waits[t]: the calls whose promise t awaits
          phase,      \* "none", "waiting", "running", "fulfilled" or "rejected"
          tails,      \* tails[k]: the call the map holds at k, or NoTail
          swept       \* calls whose clean-up has run

vars == <<issued, request, waits, phase, tails, swept>>

keys(t) == lockKeys(request[t])
Settled(t) == phase[t] \in {"fulfilled", "rejected"}
Started(t) == phase[t] = "running" \/ Settled(t)

Init ==
  /\ issued = 0
  /\ request = [t \in Ticket |-> {}]
  /\ waits = [t \in Ticket |-> {}]
  /\ phase = [t \in Ticket |-> "none"]
  /\ tails = [k \in Key |-> NoTail]
  /\ swept = {}

(* Mutants of Previous: the filter of empty entries forgotten; only the tail at each path's own key. *)
PreviousUnfiltered(r) == {tails[k] : k \in lockKeys(r)}
PreviousOwnKeys(r) == {tails[KeyOf(p, Len(p))] : p \in r} \ {NoTail}

(* The calls whose promises stand at the keys of r: what Promise.all awaits. *)
Previous(r) == {tails[k] : k \in lockKeys(r)} \ {NoTail}

(* The synchronous part of withPathMutation. *)
Call(r) ==
  LET t == issued + 1 IN
  /\ issued < MaxCalls
  /\ issued' = t
  /\ request' = [request EXCEPT ![t] = r]
  /\ waits' = [waits EXCEPT ![t] = Previous(r)]
  /\ phase' = [phase EXCEPT ![t] = "waiting"]
  /\ tails' = [k \in Key |-> IF k \in lockKeys(r) THEN t ELSE tails[k]]
  /\ UNCHANGED swept

(* Mutant of LetsPass: a rejection is not caught. *)
LetsPassFulfilled(s) == phase[s] = "fulfilled"

(* Whether an awaited call no longer holds t back: its rejection is caught. *)
LetsPass(s) == Settled(s)

(* Every awaited promise has settled: the action begins. *)
Start(t) ==
  /\ phase[t] = "waiting"
  /\ \A s \in waits[t] : LetsPass(s)
  /\ phase' = [phase EXCEPT ![t] = "running"]
  /\ UNCHANGED <<issued, request, waits, tails, swept>>

(* The action's promise settles, either way. *)
Settle(t) ==
  /\ phase[t] = "running"
  /\ \E outcome \in {"fulfilled", "rejected"} :
       phase' = [phase EXCEPT ![t] = outcome]
  /\ UNCHANGED <<issued, request, waits, tails, swept>>

(* Mutant of OwnTails: the clean-up does not ask whose the entry is. *)
OwnTailsUnasked(t) == keys(t)

(* The keys the clean-up of t deletes: those at which nobody came after it. *)
OwnTails(t) == {k \in keys(t) : tails[k] = t}

CleanUp(t) ==
  /\ Settled(t)
  /\ t \notin swept
  /\ tails' = [k \in Key |-> IF k \in OwnTails(t) THEN NoTail ELSE tails[k]]
  /\ swept' = swept \cup {t}
  /\ UNCHANGED <<issued, request, waits, phase>>

Next ==
  \/ \E r \in Requests : Call(r)
  \/ \E t \in Ticket : Start(t) \/ Settle(t) \/ CleanUp(t)

(* Promise reactions run; an action handed to the gate settles. No call has to be made. *)
Fairness == \A t \in Ticket : WF_vars(Start(t)) /\ WF_vars(Settle(t)) /\ WF_vars(CleanUp(t))

Spec == Init /\ [][Next]_vars
FairSpec == Spec /\ Fairness

-----------------------------------------------------------------------------
(* The types of the state. *)
TypeOK ==
  /\ issued \in 0..MaxCalls
  /\ request \in [Ticket -> Requests \cup {{}}]
  /\ waits \in [Ticket -> SUBSET Ticket]
  /\ phase \in [Ticket -> {"none", "waiting", "running", "fulfilled", "rejected"}]
  /\ tails \in [Key -> Ticket \cup {NoTail}]
  /\ swept \in SUBSET Ticket

(* q is p or lies below it, in any spelling: stated on the paths, not on the keys. *)
Within(p, q) ==
  /\ Len(p) <= Len(q)
  /\ \A i \in 1..Len(p) : Fold[p[i]] = Fold[q[i]]

Conflict(r, s) == \E p \in r, q \in s : Within(p, q) \/ Within(q, p)

(* "A directory move cannot overlap a descendant write": no two actions run *)
(* at once when a path of one is, or lies below, a path of the other.       *)
MutualExclusion ==
  \A s, t \in Ticket :
    phase[s] = "running" /\ phase[t] = "running" /\ s # t
      => ~Conflict(request[s], request[t])

(* "for (const key of keys) if (tails.get(key) === next) tails.delete(key)": *)
(* once every call is cleaned up the map is empty, and a call that is still  *)
(* to finish is never forgotten at one of its keys by another's clean-up.    *)
MapIsTight ==
  \A k \in Key :
    /\ tails[k] # NoTail => k \in keys(tails[k]) /\ tails[k] \notin swept
    /\ (\E t \in 1..issued : k \in keys(t) /\ ~Settled(t)) => tails[k] # NoTail

(* What the gate promises, as a specification of its own. *)
Lock == INSTANCE PathLock WITH
  status <- [t \in Ticket |->
               CASE phase[t] = "none" -> "none"
                 [] phase[t] = "waiting" -> "asked"
                 [] phase[t] = "running" -> "held"
                 [] OTHER -> "released"]

(* The gate implements the abstract lock: a call is granted after every     *)
(* earlier conflicting call has released, in the order of the calls.        *)
ImplementsPathLock == Lock!Spec

(* Nobody waits on everybody: every call's action starts, whatever the      *)
(* outcome of those before it ("Failed operations release their gates").    *)
EveryCallStarts == \A t \in Ticket : phase[t] = "waiting" ~> Started(t)

=============================================================================
