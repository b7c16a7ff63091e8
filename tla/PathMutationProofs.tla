------------------------- MODULE PathMutationProofs -------------------------
(***************************************************************************)
(* The gate of vault/pathMutation.ts, for any number of calls over any     *)
(* paths: two actions on paths that touch each other never overlap, the    *)
(* map of tails neither forgets nor leaks, and the gate implements the     *)
(* abstract lock of PathLock.                                              *)
(***************************************************************************)
EXTENDS PathMutation, TLAPS

Shares(s, t) == keys(s) \cap keys(t) # {}

(* Calls are numbered without gaps, and wait for earlier ones only. *)
Numbered ==
  \A t \in Ticket :
    /\ t > issued <=> phase[t] = "none"
    /\ t > issued <=> request[t] = {}
    /\ \A u \in waits[t] : u < t
    /\ t \in swept => Settled(t)

(* The map holds, at each key, the last call that named it: nobody still to finish is hidden. *)
TailsCover ==
  \A k \in Key :
    \A t \in Ticket :
      /\ tails[k] = t => k \in keys(t) /\ t \notin swept /\ t <= issued
      /\ k \in keys(t) /\ ~Settled(t) => t <= tails[k]

(* A call waits for the call before it at each of its keys, unless that one had settled. *)
WaitsForPredecessor ==
  \A s, t \in Ticket : \A k \in keys(s) \cap keys(t) :
    s < t => Settled(s) \/ \E u \in waits[t] : k \in keys(u) /\ s <= u

(* Once a call has started, every earlier call that shares a key has settled. *)
InTurn ==
  \A s, t \in Ticket : s < t /\ Shares(s, t) /\ Started(t) => Settled(s)

IInv == TypeOK /\ Numbered /\ TailsCover /\ WaitsForPredecessor /\ InTurn

-----------------------------------------------------------------------------
(* lockKeys names the ancestors too, so paths that touch each other share a key. *)
LEMMA ConflictSharesKey ==
  ASSUME NEW r \in Requests, NEW s \in Requests, Conflict(r, s)
  PROVE  lockKeys(r) \cap lockKeys(s) # {}
<1>1. PICK p \in r, q \in s : Within(p, q) \/ Within(q, p)
  BY DEF Conflict
<1>2. /\ p \in Seq(Segment) /\ p # <<>>
      /\ q \in Seq(Segment) /\ q # <<>>
  BY PathMutationAssumption
<1>3. /\ Len(p) \in Nat /\ Len(p) >= 1
      /\ Len(q) \in Nat /\ Len(q) >= 1
  BY <1>2
<1>4. Fold[p[1]] = Fold[q[1]]
  BY <1>1, <1>3 DEF Within
<1>5. ASSUME NEW x, x \in Seq(Segment), Len(x) \in Nat, Len(x) >= 1
      PROVE  KeyOf(x, 1) = [i \in 1..1 |-> Fold[x[1]]]
  BY <1>5 DEF KeyOf, Folded
<1>6. KeyOf(p, 1) = KeyOf(q, 1)
  BY <1>2, <1>3, <1>4, <1>5
<1>7. KeyOf(p, 1) \in lockKeys(r) /\ KeyOf(q, 1) \in lockKeys(s)
  BY <1>3 DEF lockKeys
<1>8. QED
  BY <1>6, <1>7

LEMMA KeysInKey ==
  ASSUME TypeOK, NEW t \in Ticket
  PROVE  keys(t) \subseteq Key
<1>1. CASE request[t] = {}
  BY <1>1 DEF keys, lockKeys
<1>2. CASE request[t] \in Requests
  BY <1>2 DEF keys, Key
<1>3. QED
  BY <1>1, <1>2 DEF TypeOK

LEMMA InitIInv == Init => IInv
<1> SUFFICES ASSUME Init PROVE IInv
  OBVIOUS
<1>1. \A t \in Ticket : keys(t) = {}
  BY DEF Init, keys, lockKeys
<1>2. TypeOK
  BY PathMutationAssumption DEF Init, TypeOK, NoTail, Ticket
<1>3. Numbered
  BY PathMutationAssumption DEF Init, Numbered, Ticket
<1>4. TailsCover
  BY <1>1 DEF Init, TailsCover, NoTail, Ticket
<1>5. WaitsForPredecessor /\ InTurn
  BY <1>1 DEF WaitsForPredecessor, InTurn, Shares
<1>6. QED
  BY <1>2, <1>3, <1>4, <1>5 DEF IInv

(* A new call: it takes over its keys, and waits for whoever stood there. *)
LEMMA CallKeeps ==
  ASSUME IInv, NEW r \in Requests, Call(r)
  PROVE  IInv'
<1> USE DEF IInv
<1>0. issued + 1 \in Ticket
  BY PathMutationAssumption DEF Call, Ticket, TypeOK
<1> PICK new \in Ticket : new = issued + 1
  BY <1>0
<1>1. /\ new > issued /\ issued \in Nat /\ issued' = new
      /\ \A t \in Ticket : t \in Nat /\ t # NoTail
  BY PathMutationAssumption DEF Call, Ticket, TypeOK, NoTail
<1>2. lockKeys(r) \subseteq Key
  BY DEF Key
<1>3. /\ \A t \in Ticket : t # new => keys(t)' = keys(t)
      /\ keys(new)' = lockKeys(r)
  BY <1>1 DEF Call, keys, TypeOK
<1>4. /\ \A t \in Ticket : (Settled(t)' <=> Settled(t)) /\ (Started(t)' <=> Started(t))
      /\ ~Settled(new) /\ ~Started(new)
  BY <1>1 DEF Call, Settled, Started, TypeOK, Numbered
<1>5. Previous(r) \subseteq 1..issued
  BY <1>1, <1>2 DEF Previous, TailsCover, TypeOK, NoTail, Ticket
<1>6. TypeOK'
  BY <1>1, <1>5, PathMutationAssumption DEF Call, TypeOK, Ticket, NoTail
<1>7. Numbered'
  BY <1>1, <1>4, <1>5, PathMutationAssumption DEF Numbered, Call, TypeOK, Ticket
<1>8. \A t \in Ticket : keys(t) # {} => t <= issued
  BY <1>1 DEF Numbered, keys, lockKeys
<1>9. TailsCover'
  <2> SUFFICES ASSUME NEW k \in Key, NEW t \in Ticket
               PROVE  /\ tails'[k] = t => k \in keys(t)' /\ t \notin swept' /\ t <= issued'
                      /\ k \in keys(t)' /\ ~Settled(t)' => t <= tails'[k]
    BY DEF TailsCover
  <2>1. CASE k \in lockKeys(r)
    <3>1. tails'[k] = new
      BY <2>1 DEF Call
    <3>2. new \notin swept'
      BY <1>1, <1>4 DEF Call, Numbered
    <3>3. k \in keys(t)' => t <= new
      BY <1>1, <1>3, <1>8
    <3>4. QED
      BY <2>1, <3>1, <3>2, <3>3, <1>1, <1>3
  <2>2. CASE k \notin lockKeys(r)
    <3>1. tails'[k] = tails[k] /\ swept' = swept
      BY <2>2 DEF Call
    <3>2. tails[k] = t => t # new
      BY <1>1 DEF TailsCover
    <3>3. QED
      BY <2>2, <3>1, <3>2, <1>1, <1>3, <1>4 DEF TailsCover
  <2>3. QED
    BY <2>1, <2>2
<1>10. WaitsForPredecessor'
  <2> SUFFICES ASSUME NEW s \in Ticket, NEW t \in Ticket,
                      NEW k \in keys(s)' \cap keys(t)', s < t, ~Settled(s)'
               PROVE  \E u \in waits'[t] : k \in keys(u)' /\ s <= u
    BY DEF WaitsForPredecessor
  <2>1. CASE t = new
    <3>1. k \in keys(s) /\ ~Settled(s) /\ k \in lockKeys(r) /\ k \in Key
      <4>1. s # new
        BY <2>1, <1>1
      <4>2. QED
        BY <2>1, <4>1, <1>2, <1>3, <1>4
    <3>2. s <= tails[k] /\ tails[k] \in Ticket
      BY <3>1, <1>1 DEF TailsCover, TypeOK, NoTail
    <3>3. PICK u \in Ticket : u = tails[k]
      BY <3>2
    <3>4. k \in keys(u) /\ u # new
      BY <3>1, <3>3, <1>1 DEF TailsCover
    <3>5. u \in waits'[t]
      BY <2>1, <3>1, <3>3, <1>1 DEF Call, Previous, TypeOK
    <3>6. QED
      BY <3>2, <3>3, <3>4, <3>5, <1>3
  <2>2. CASE t # new
    <3>1. s # new
      BY <2>2, <1>1, <1>3, <1>8
    <3>2. PICK u \in waits[t] : k \in keys(u) /\ s <= u
      BY <2>2, <3>1, <1>3, <1>4 DEF WaitsForPredecessor
    <3>3. u \in Ticket /\ u # new /\ waits'[t] = waits[t]
      BY <2>2, <3>2, <1>1, <1>8 DEF TypeOK, Call
    <3>4. QED
      BY <3>2, <3>3, <1>3
  <2>3. QED
    BY <2>1, <2>2
<1>11. InTurn'
  <2> SUFFICES ASSUME NEW s \in Ticket, NEW t \in Ticket, s < t, Shares(s, t)', Started(t)'
               PROVE  Settled(s)'
    BY DEF InTurn
  <2>1. t # new /\ s # new
    BY <1>1, <1>3, <1>4, <1>8 DEF Shares
  <2>2. QED
    BY <2>1, <1>3, <1>4 DEF InTurn, Shares
<1>12. QED
  BY <1>6, <1>7, <1>9, <1>10, <1>11

(* An action begins once every awaited call has settled: then every earlier call has. *)
LEMMA StartKeeps ==
  ASSUME IInv, NEW x \in Ticket, Start(x)
  PROVE  IInv'
<1> USE DEF IInv
<1>1. /\ \A t \in Ticket : (Settled(t)' <=> Settled(t)) /\ keys(t)' = keys(t)
      /\ \A t \in Ticket : t # x => (Started(t)' <=> Started(t))
  BY DEF Start, Settled, Started, keys, TypeOK
<1>2. TypeOK'
  BY DEF Start, TypeOK
<1>3. Numbered'
  BY <1>1 DEF Start, Numbered, TypeOK
<1>4. TailsCover'
  BY <1>1 DEF Start, TailsCover, TypeOK
<1>5. WaitsForPredecessor'
  BY <1>1 DEF Start, WaitsForPredecessor, TypeOK
<1>6. InTurn'
  <2> SUFFICES ASSUME NEW s \in Ticket, NEW t \in Ticket, s < t, Shares(s, t), Started(t)'
               PROVE  Settled(s)
    BY <1>1 DEF InTurn, Shares
  <2>1. CASE t # x
    BY <2>1, <1>1 DEF InTurn
  <2>2. CASE t = x /\ ~Settled(s)
    <3>1. PICK k \in keys(s) \cap keys(t) : TRUE
      BY DEF Shares
    <3>2. PICK u \in waits[t] : k \in keys(u) /\ s <= u
      BY <2>2, <3>1 DEF WaitsForPredecessor
    <3>3. u \in Ticket /\ Settled(u)
      BY <2>2, <3>2 DEF Start, LetsPass, TypeOK
    <3>4. s < u
      BY <2>2, <3>2, <3>3 DEF Ticket
    <3>5. QED
      BY <3>1, <3>2, <3>3, <3>4 DEF InTurn, Shares, Started
  <2>3. QED
    BY <2>1, <2>2
<1>7. QED
  BY <1>2, <1>3, <1>4, <1>5, <1>6

LEMMA SettleKeeps ==
  ASSUME IInv, NEW x \in Ticket, Settle(x)
  PROVE  IInv'
<1> USE DEF IInv
<1>1. /\ \A t \in Ticket : Settled(t) => Settled(t)'
      /\ \A t \in Ticket : (Started(t)' <=> Started(t)) /\ keys(t)' = keys(t)
  BY DEF Settle, Settled, Started, keys, TypeOK
<1>2. TypeOK'
  BY DEF Settle, TypeOK
<1>3. Numbered'
  BY <1>1 DEF Settle, Numbered, TypeOK
<1>4. TailsCover'
  BY <1>1 DEF Settle, TailsCover, TypeOK
<1>5. WaitsForPredecessor'
  BY <1>1 DEF Settle, WaitsForPredecessor, TypeOK
<1>6. InTurn'
  BY <1>1 DEF InTurn, Shares
<1>7. QED
  BY <1>2, <1>3, <1>4, <1>5, <1>6

(* The clean-up empties a key only where every call that named it has settled. *)
LEMMA CleanUpKeeps ==
  ASSUME IInv, NEW x \in Ticket, CleanUp(x)
  PROVE  IInv'
<1> USE DEF IInv
<1>1. \A t \in Ticket : /\ Settled(t)' <=> Settled(t)
                        /\ Started(t)' <=> Started(t)
                        /\ keys(t)' = keys(t)
  BY DEF CleanUp, Settled, Started, keys
<1>2. TypeOK'
  BY DEF CleanUp, TypeOK
<1>3. Numbered'
  BY <1>1 DEF CleanUp, Numbered
<1>4. TailsCover'
  <2> SUFFICES ASSUME NEW k \in Key, NEW t \in Ticket
               PROVE  /\ tails'[k] = t => k \in keys(t) /\ t \notin swept' /\ t <= issued
                      /\ k \in keys(t) /\ ~Settled(t) => t <= tails'[k]
    BY <1>1 DEF TailsCover, CleanUp
  <2>1. CASE k \in OwnTails(x)
    <3>1. k \in keys(x) /\ tails[k] = x /\ tails'[k] = NoTail /\ Settled(x)
      BY <2>1 DEF OwnTails, CleanUp
    <3>2. ASSUME k \in keys(t), ~Settled(t)
          PROVE  FALSE
      <4>1. t < x
        BY <3>1, <3>2 DEF TailsCover, Ticket
      <4>2. QED
        BY <4>1, <3>1, <3>2 DEF InTurn, Shares, Started
    <3>3. NoTail # t
      BY DEF NoTail, Ticket
    <3>4. QED
      BY <3>1, <3>2, <3>3
  <2>2. CASE k \notin OwnTails(x)
    <3>1. tails'[k] = tails[k] /\ swept' = swept \cup {x}
      BY <2>2 DEF CleanUp
    <3>2. tails[k] # x
      BY <2>2 DEF OwnTails, TailsCover
    <3>3. QED
      BY <3>1, <3>2 DEF TailsCover
  <2>3. QED
    BY <2>1, <2>2
<1>5. WaitsForPredecessor'
  BY <1>1 DEF CleanUp, WaitsForPredecessor, TypeOK
<1>6. InTurn'
  BY <1>1 DEF InTurn, Shares
<1>7. QED
  BY <1>2, <1>3, <1>4, <1>5, <1>6

(* The inductive invariant of the gate. *)
THEOREM GateInvariant == Spec => []IInv
<1>1. Init => IInv
  BY InitIInv
<1>2. IInv /\ [Next]_vars => IInv'
  <2> SUFFICES ASSUME IInv, [Next]_vars PROVE IInv'
    OBVIOUS
  <2>1. CASE \E r \in Requests : Call(r)
    BY <2>1, CallKeeps
  <2>2. ASSUME NEW t \in Ticket, Start(t) PROVE IInv'
    BY <2>2, StartKeeps
  <2>3. ASSUME NEW t \in Ticket, Settle(t) PROVE IInv'
    BY <2>3, SettleKeeps
  <2>4. ASSUME NEW t \in Ticket, CleanUp(t) PROVE IInv'
    BY <2>4, CleanUpKeeps
  <2>5. CASE UNCHANGED vars
    BY <2>5 DEF vars, IInv, TypeOK, Numbered, TailsCover, WaitsForPredecessor, InTurn,
                Shares, Started, Settled, keys
  <2>6. QED
    BY <2>1, <2>2, <2>3, <2>4, <2>5 DEF Next
<1>3. QED
  BY <1>1, <1>2, PTL DEF Spec

(* No two actions run at once on paths of which one is, or lies below, the other: *)
(* "a directory move cannot overlap a descendant write".                          *)
THEOREM GateExcludes == Spec => []MutualExclusion
<1>1. IInv => MutualExclusion
  <2> SUFFICES ASSUME IInv, NEW s \in Ticket, NEW t \in Ticket, s < t,
                      phase[s] = "running", phase[t] = "running"
               PROVE  ~Conflict(request[s], request[t]) /\ ~Conflict(request[t], request[s])
    BY DEF MutualExclusion, Ticket
  <2>1. Started(t) /\ ~Settled(s)
    BY DEF Started, Settled
  <2>2. keys(s) \cap keys(t) = {}
    BY <2>1 DEF IInv, InTurn, Shares
  <2>3. request[s] \in Requests /\ request[t] \in Requests
    BY DEF IInv, TypeOK, Numbered
  <2>4. QED
    BY <2>2, <2>3, ConflictSharesKey DEF keys
<1>2. QED
  BY <1>1, GateInvariant, PTL

(* The map of tails holds no call that is done with, and hides none that is not. *)
THEOREM TailsTight == Spec => []MapIsTight
<1>1. IInv => MapIsTight
  <2> SUFFICES ASSUME IInv, NEW k \in Key
               PROVE  /\ tails[k] # NoTail => k \in keys(tails[k]) /\ tails[k] \notin swept
                      /\ (\E t \in 1..issued : k \in keys(t) /\ ~Settled(t)) => tails[k] # NoTail
    BY DEF MapIsTight
  <2>1. tails[k] # NoTail => tails[k] \in Ticket
    BY DEF IInv, TypeOK
  <2>2. 1..issued \subseteq Ticket /\ \A t \in Ticket : ~(t <= NoTail)
    BY PathMutationAssumption DEF IInv, TypeOK, Ticket, NoTail
  <2>3. QED
    BY <2>1, <2>2 DEF IInv, TailsCover
<1>2. QED
  BY <1>1, GateInvariant, PTL

(* The gate implements the abstract lock: it grants conflicting calls one at a time, *)
(* in the order in which they were made.                                             *)
THEOREM GateImplementsLock == Spec => ImplementsPathLock
<1> DEFINE status == [t \in Ticket |->
               CASE phase[t] = "none" -> "none"
                 [] phase[t] = "waiting" -> "asked"
                 [] phase[t] = "running" -> "held"
                 [] OTHER -> "released"]
<1>0. Lock!Ticket = Ticket
  BY DEF Lock!Ticket, Ticket
<1>1. Init => Lock!Init
  BY <1>0 DEF Init, Lock!Init
<1>2. IInv /\ IInv' /\ [Next]_vars => [Lock!Next]_(Lock!vars)
  <2> SUFFICES ASSUME IInv, IInv', [Next]_vars
               PROVE  [Lock!Next]_(Lock!vars)
    OBVIOUS
  <2> USE <1>0
  <2>1. ASSUME NEW r \in Requests, Call(r)
        PROVE  Lock!Next
    <3>1. PICK t \in Ticket : t = issued + 1
      BY <2>1, PathMutationAssumption DEF Call, Ticket, IInv, TypeOK
    <3>2. phase[t] = "none" /\ \A s \in Ticket : s < t => phase[s] # "none"
      BY <3>1 DEF IInv, TypeOK, Numbered, Ticket
    <3>3. Lock!Ask(t, r)
      <4>1. request' = [request EXCEPT ![t] = r]
        BY <2>1, <3>1 DEF Call
      <4>2. status[t] = "none" /\ \A s \in Ticket : s < t => status[s] # "none"
        BY <3>2 DEF IInv, TypeOK
      <4>3. status' = [status EXCEPT ![t] = "asked"]
        BY <2>1, <3>1 DEF Call, IInv, TypeOK
      <4>4. QED
        BY <4>1, <4>2, <4>3 DEF Lock!Ask
    <3>4. QED
      BY <3>3 DEF Lock!Next
  <2>2. ASSUME NEW x \in Ticket, Start(x)
        PROVE  Lock!Next
    <3>1. status[x] = "asked" /\ status' = [status EXCEPT ![x] = "held"] /\ UNCHANGED request
      BY <2>2 DEF Start, IInv, TypeOK
    <3>2. ASSUME NEW s \in Ticket, s < x, Lock!Conflict(request[s], request[x])
          PROVE  status[s] = "released"
      <4>1. request[s] \in Requests /\ request[x] \in Requests
        BY <2>2, <3>2 DEF IInv, TypeOK, Numbered, Start, Ticket
      <4>2. Conflict(request[s], request[x])
        BY <3>2 DEF Conflict, Within, Lock!Conflict, Lock!Within
      <4>3. Shares(s, x)
        BY <4>1, <4>2, ConflictSharesKey DEF Shares, keys
      <4>4. request' = request /\ phase'[x] = "running" /\ (s # x => phase'[s] = phase[s])
        BY <2>2 DEF Start, IInv, TypeOK
      <4>5. Settled(s)
        <5>1. Shares(s, x)' /\ Started(x)'
          BY <4>3, <4>4 DEF Shares, keys, Started
        <5>2. Settled(s)'
          BY <5>1, <3>2 DEF IInv, InTurn
        <5>3. QED
          BY <5>2, <4>4, <3>2 DEF Settled, Ticket
      <4>6. QED
        BY <4>5 DEF Settled
    <3>3. QED
      BY <3>1, <3>2 DEF Lock!Grant, Lock!Next
  <2>3. ASSUME NEW x \in Ticket, Settle(x)
        PROVE  Lock!Next
    <3>1. status[x] = "held" /\ status' = [status EXCEPT ![x] = "released"] /\ UNCHANGED request
      BY <2>3 DEF Settle, IInv, TypeOK
    <3>2. QED
      BY <3>1 DEF Lock!Release, Lock!Next
  <2>4. ASSUME NEW x \in Ticket, CleanUp(x)
        PROVE  UNCHANGED Lock!vars
    BY <2>4 DEF CleanUp, Lock!vars
  <2>5. CASE UNCHANGED vars
    BY <2>5 DEF vars, Lock!vars
  <2>6. QED
    BY <2>1, <2>2, <2>3, <2>4, <2>5 DEF Next
<1>3. QED
  BY <1>1, <1>2, GateInvariant, PTL DEF Spec, ImplementsPathLock, Lock!Spec


(* The types of the state: in particular a call waits for calls that were made, *)
(* and the map holds calls of this scope (pathMutation.ts tails).               *)
THEOREM TypeCorrect == Spec => []TypeOK
<1>1. IInv => TypeOK
  BY DEF IInv
<1> QED BY <1>1, GateInvariant, PTL
=============================================================================
