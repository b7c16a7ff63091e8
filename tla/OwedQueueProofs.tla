--------------------------- MODULE OwedQueueProofs ---------------------------
(***************************************************************************)
(* The entries the queue is owed, for any set of changes, whatever fails   *)
(* and however late: they reach the queue in the order of their changes,   *)
(* callers are told the truth, none is stranded, flush settles what was    *)
(* owed, and the pull's question overlooks nothing.                        *)
(***************************************************************************)
EXTENDS OwedQueue, SequenceTheorems, TLAPS

Attempts == pass \in {"writing", "written", "refused"}

(* What is owed are the last of the announcements, in their order; the rows*)
(* come from the ones before, but for the entry that is being attempted.   *)
Gone == Len(announced) - Len(owed)
OwedIsLast == /\ Gone \in Nat
              /\ \A i \in 1..Len(owed) : owed[i] = announced[Gone + i]
NothingTwice == \A i, j \in 1..Len(owed) : owed[i] = owed[j] => i = j
RowsComeFrom == \A j \in 1..Len(rows) : \E l \in 1..Len(announced) : l <= Gone + 1 /\ announced[l] = rows[j]
WrittenIsThere == pass = "written" => owed[1] \in In(rows)
Order == OwedIsLast /\ NothingTwice /\ RowsComeFrom /\ WrittenIsThere

(* A pass that is over left an entry behind only with a timer, or to       *)
(* somebody who awaits its end.                                            *)
OverLeavesNone == pass = "over" /\ owed # <<>> => timer \/ waiting # {}

(* Where flush stands with the passes: after it was called no pass ends but*)
(* with nothing owed, except the one it may have found at its end.         *)
FlushTakesPart ==
  /\ flush = "none" => "flush" \notin waiting \cup due
  /\ flush = "joined" => "flush" \notin waiting
  /\ "flush" \in due => "flush" \notin waiting
  /\ \A c \in flushed : stage[c] # "none"
  /\ closing /\ pass = "over" /\ "flush" \notin waiting => flushed \cap In(owed) = {}

(* What the pull knew of when it asked and the first read did not see is in*)
(* the queue when the second one looks.                                    *)
KnownIsQueued ==
  question.phase = "reading" => question.known \subseteq {c \in In(rows) : \E p \in question.path : Concerns(c, p)}

(* The inductive invariant; each step keeps the parts by groups: types, order and answers, who goes on, flush, the pull. *)
IInv == /\ TypeOK /\ Order /\ RowsInOrder /\ CallersAreToldTheTruth
        /\ OverLeavesNone /\ NoneStranded /\ FlushTakesPart /\ FlushSettlesAll
        /\ KnownIsQueued /\ PullOverlooksNothing

USE OwedQueueAssumption

-----------------------------------------------------------------------------
(* Sequences and what stands in them.                                      *)

LEMMA Appended ==
  ASSUME NEW S, NEW s \in Seq(S), NEW e \in S
  PROVE  /\ Append(s, e) \in Seq(S) /\ Append(s, e) # <<>>
         /\ Len(s) \in Nat /\ Len(Append(s, e)) = Len(s) + 1
         /\ \A i \in 1..Len(s) : Append(s, e)[i] = s[i]
         /\ Append(s, e)[Len(s) + 1] = e
         /\ In(Append(s, e)) = In(s) \cup {e}
<1>1. /\ Append(s, e) \in Seq(S) /\ Append(s, e) # <<>>
      /\ Len(s) \in Nat /\ Len(Append(s, e)) = Len(s) + 1
      /\ \A i \in 1..Len(s) : Append(s, e)[i] = s[i]
      /\ Append(s, e)[Len(s) + 1] = e
  BY AppendProperties, LenProperties
<1>2. 1..Len(Append(s, e)) = (1..Len(s)) \cup {Len(s) + 1}
  BY <1>1
<1> QED BY <1>1, <1>2 DEF In

LEMMA Tailed ==
  ASSUME NEW S, NEW s \in Seq(S), s # <<>>
  PROVE  /\ s[1] \in S /\ Tail(s) \in Seq(S)
         /\ Len(s) \in Nat \ {0} /\ Len(Tail(s)) = Len(s) - 1
         /\ \A i \in 1..Len(Tail(s)) : Tail(s)[i] = s[i + 1]
         /\ In(s) = {s[1]} \cup In(Tail(s))
<1>1. /\ Tail(s) \in Seq(S) /\ Len(s) \in Nat \ {0} /\ Len(Tail(s)) = Len(s) - 1
      /\ \A i \in 1..Len(Tail(s)) : Tail(s)[i] = s[i + 1]
  BY HeadTailProperties, EmptySeq
<1>2. s[1] \in S
  BY <1>1, ElementOfSeq
<1>3. \A i \in 1..Len(s) : i = 1 \/ (i - 1 \in 1..Len(Tail(s)) /\ Tail(s)[i - 1] = s[i])
  BY <1>1
<1>4. \A i \in 1..Len(Tail(s)) : i + 1 \in 1..Len(s)
  BY <1>1
<1> QED BY <1>1, <1>2, <1>3, <1>4 DEF In

LEMMA Standing ==
  ASSUME NEW S, NEW s \in Seq(S)
  PROVE  In(s) \subseteq S /\ (s = <<>> <=> In(s) = {}) /\ Len(s) \in Nat
<1>1. In(s) \subseteq S /\ Len(s) \in Nat
  BY ElementOfSeq, LenProperties DEF In
<1>2. s = <<>> => In(s) = {}
  BY DEF In
<1>3. s # <<>> => s[1] \in In(s)
  BY EmptySeq DEF In
<1> QED BY <1>1, <1>2, <1>3

-----------------------------------------------------------------------------
(* The types.                                                              *)

Passes == {"none", "writing", "written", "refused", "over"}
Flushes == {"none", "asked", "joined", "settled", "expired"}

LEMMA LookType ==
  ASSUME NEW q
  PROVE  Look(q) \in Passes /\ (Look(q) \in {"writing", "written", "refused"} => q # <<>>)
  BY DEF Look, Passes

LEMMA JoinType ==
  ASSUME TypeOK, NEW q, NEW w \in Waiter, passAfterRunning(q, w) \/ (writeOwed(q, w) /\ UNCHANGED waiting),
         pass \in {"writing", "written", "refused"} => q # <<>>
  PROVE  /\ pass' \in Passes /\ (pass' \in {"writing", "written", "refused"} => q # <<>>)
         /\ waiting' \subseteq Waiter /\ flush' \in Flushes
  BY LookType DEF TypeOK, passAfterRunning, writeOwed, Passes, Flushes

LEMMA InitTypes == Init => TypeOK
<1> SUFFICES ASSUME Init PROVE TypeOK
  OBVIOUS
<1>1. <<>> \in Seq(Change)
  BY EmptySeq
<1>2. question \in [phase : {"none", "reading", "pending", "clear"}, path : SUBSET Path, known : SUBSET Change]
  BY DEF Init
<1> QED BY <1>1, <1>2 DEF Init, TypeOK

LEMMA LeavesType ==
  ASSUME TypeOK, NEW outcome \in {"queued", "lost"}, Leaves(outcome), pass \in {"written", "refused"}
  PROVE  TypeOK'
<1>1. owed # <<>> /\ owed \in Seq(Change)
  BY DEF TypeOK
<1>2. owed' \in Seq(Change)
  BY <1>1, Tailed DEF Leaves
<1>3. pass' \in Passes /\ (pass' \in {"writing", "written", "refused"} => owed' # <<>>)
  BY LookType DEF Leaves
<1> QED BY <1>2, <1>3 DEF TypeOK, Leaves, Passes

LEMMA AnswerType ==
  ASSUME TypeOK, Answer
  PROVE  TypeOK'
<1>1. owed # <<>> /\ owed \in Seq(Change) /\ rows \in Seq(Change)
  BY DEF TypeOK, Answer
<1>2. owed[1] \in Change
  BY <1>1, Tailed
<1>3. Append(rows, owed[1]) \in Seq(Change)
  BY <1>1, <1>2, Appended
<1>4. rows' \in Seq(Change)
  BY <1>1, <1>3 DEF Answer
<1> QED BY <1>1, <1>4 DEF TypeOK, Answer

LEMMA AnnounceType ==
  ASSUME TypeOK, NEW c \in Change, Announce(c)
  PROVE  TypeOK'
<1>1. owed' \in Seq(Change) /\ announced' \in Seq(Change) /\ owed' # <<>>
  BY Appended DEF TypeOK, Announce
<1>2. pass' \in Passes /\ waiting' \subseteq Waiter /\ flush' \in Flushes
  BY <1>1, JoinType DEF Announce, Waiter
<1> QED BY <1>1, <1>2 DEF TypeOK, Announce, Passes, Flushes

LEMMA TypeStep ==
  ASSUME TypeOK, [Next]_vars
  PROVE  TypeOK'
<1>1. ASSUME NEW w \in Waiter, Resume(w) PROVE TypeOK'
  BY <1>1, JoinType DEF Resume, TypeOK, Passes, Flushes
<1>2. CASE Written \/ GiveUp
  BY <1>2, LeavesType DEF Written, GiveUp
<1>3. CASE Retry
  BY <1>3 DEF Retry, TypeOK, Kept, ArmsRetry
<1>4. CASE Finally
  BY <1>4 DEF Finally, TypeOK
<1>5. CASE TimerFires
  BY <1>5, JoinType DEF TimerFires, TypeOK, Passes, Flushes, Waiter
<1>6. ASSUME NEW c \in Change, Age(c) PROVE TypeOK'
  BY <1>6 DEF Age, TypeOK, passVars
<1>7. CASE Flush
  <2>1. In(owed) \subseteq Change
    BY Standing DEF TypeOK
  <2> QED BY <1>7, <2>1, JoinType DEF Flush, TypeOK, Passes, Flushes, Waiter
<1>8. CASE FlushExpires
  BY <1>8 DEF FlushExpires, TypeOK
<1>9. ASSUME NEW p \in Path, Ask(p) PROVE TypeOK'
  <2>1. question' \in [phase : {"none", "reading", "pending", "clear"}, path : SUBSET Path, known : SUBSET Change]
    BY <1>9, Standing DEF Ask, TypeOK
  <2> QED BY <1>9, <2>1 DEF Ask, TypeOK, passVars
<1>10. CASE Conclude
  BY <1>10 DEF Conclude, TypeOK, passVars
<1>11. CASE UNCHANGED vars
  BY <1>11 DEF TypeOK, vars
<1> QED BY <1>1, <1>2, <1>3, <1>4, <1>5, <1>6, <1>7, <1>8, <1>9, <1>10, <1>11, AnnounceType, AnswerType DEF Next

-----------------------------------------------------------------------------
(* The order of the entries, and what callers are told.                    *)

Entries == <<stage, owed, rows, announced>>
Told == Order /\ RowsInOrder /\ CallersAreToldTheTruth

LEMMA EntriesKept ==
  ASSUME TypeOK, Told, UNCHANGED Entries, pass' = "written" => pass = "written"
  PROVE  Told'
<1>1. Gone' = Gone
  BY DEF Gone, Entries
<1>2. Order'
  BY <1>1 DEF Told, Order, OwedIsLast, NothingTwice, RowsComeFrom, WrittenIsThere, Entries
<1> QED BY <1>2 DEF Told, RowsInOrder, CallersAreToldTheTruth, Entries

LEMMA AnnounceTold ==
  ASSUME TypeOK, Told, NEW c \in Change, Announce(c)
  PROVE  Told'
<1>0. owed \in Seq(Change) /\ announced \in Seq(Change)
  BY DEF TypeOK
<1>1. /\ Len(owed) \in Nat /\ Len(owed') = Len(owed) + 1 /\ owed'[Len(owed) + 1] = c
      /\ \A i \in 1..Len(owed) : owed'[i] = owed[i]
      /\ In(owed') = In(owed) \cup {c}
  BY <1>0, Appended DEF Announce
<1>2. /\ Len(announced) \in Nat /\ Len(announced') = Len(announced) + 1 /\ announced'[Len(announced) + 1] = c
      /\ \A i \in 1..Len(announced) : announced'[i] = announced[i]
  BY <1>0, Appended DEF Announce
<1>3. Gone' = Gone /\ Gone \in Nat /\ Gone + Len(owed) = Len(announced)
  BY <1>1, <1>2 DEF Gone, Told, Order, OwedIsLast
<1>4. OwedIsLast'
  <2>1. ASSUME NEW i \in 1..Len(owed') PROVE owed'[i] = announced'[Gone' + i]
    <3>1. CASE i = Len(owed) + 1
      BY <1>1, <1>2, <1>3, <3>1
    <3>2. CASE i \in 1..Len(owed)
      BY <1>1, <1>2, <1>3, <3>2 DEF Told, Order, OwedIsLast
    <3> QED BY <1>1, <3>1, <3>2
  <2> QED BY <1>3, <2>1 DEF OwedIsLast
<1>5. c \notin In(owed)
  BY DEF Announce, Told, CallersAreToldTheTruth
<1>6. NothingTwice'
  BY <1>1, <1>5 DEF Told, Order, NothingTwice, In
<1>7. RowsComeFrom'
  <2>1. ASSUME NEW j \in 1..Len(rows) PROVE \E l \in 1..Len(announced') : l <= Gone' + 1 /\ announced'[l] = rows[j]
    <3>1. PICK l \in 1..Len(announced) : l <= Gone + 1 /\ announced[l] = rows[j]
      BY DEF Told, Order, RowsComeFrom
    <3> QED BY <1>2, <1>3, <3>1
  <2> QED BY <2>1 DEF RowsComeFrom, Announce
<1>8. RowsInOrder'
  <2>1. ASSUME NEW i \in 1..Len(rows), NEW j \in 1..Len(rows), i < j
        PROVE  \E k, l \in 1..Len(announced') : k <= l /\ announced'[k] = rows[i] /\ announced'[l] = rows[j]
    <3>1. PICK k \in 1..Len(announced), l \in 1..Len(announced) :
            k <= l /\ announced[k] = rows[i] /\ announced[l] = rows[j]
      BY <2>1 DEF Told, RowsInOrder
    <3> QED BY <1>2, <3>1
  <2> QED BY <2>1 DEF RowsInOrder, Announce
<1>9. WrittenIsThere'
  <2>1. pass' # "written" \/ pass = "written"
    BY DEF Announce, passAfterRunning, writeOwed, Look
  <2>2. pass = "written" => owed # <<>>
    BY DEF TypeOK
  <2>3. owed # <<>> => owed'[1] = owed[1]
    BY <1>0, <1>1, EmptySeq
  <2> QED BY <2>1, <2>2, <2>3 DEF WrittenIsThere, Told, Order, Announce
<1>10. CallersAreToldTheTruth'
  <2>1. stage' = [stage EXCEPT ![c] = "owed"] /\ rows' = rows /\ stage \in [Change -> {"none", "owed", "queued", "lost"}]
    BY DEF Announce, TypeOK
  <2>2. In(rows) \subseteq Change
    BY Standing DEF TypeOK
  <2> QED BY <1>1, <2>1, <2>2 DEF Told, CallersAreToldTheTruth, In
<1> QED BY <1>4, <1>6, <1>7, <1>8, <1>9, <1>10 DEF Told, Order

LEMMA AnswerTold ==
  ASSUME TypeOK, Told, Answer
  PROVE  Told'
<1>0. UNCHANGED <<stage, owed, announced>> /\ owed # <<>>
  BY DEF Answer, TypeOK
<1>1. CASE rows' = rows /\ pass' = "refused"
  BY <1>0, <1>1, EntriesKept DEF Entries
<1>2. CASE rows' = Append(rows, owed[1])
  <2>1. rows \in Seq(Change) /\ owed \in Seq(Change) /\ announced \in Seq(Change)
    BY DEF TypeOK
  <2>2. /\ owed[1] \in Change /\ Len(owed) \in Nat \ {0} /\ owed[1] \in In(owed)
    BY <1>0, <2>1, Tailed
  <2>3. /\ Len(rows) \in Nat /\ Len(rows') = Len(rows) + 1 /\ rows'[Len(rows) + 1] = owed[1]
        /\ \A i \in 1..Len(rows) : rows'[i] = rows[i]
        /\ In(rows') = In(rows) \cup {owed[1]}
    BY <1>2, <2>1, <2>2, Appended
  <2>4. /\ Gone \in Nat /\ Gone + 1 \in 1..Len(announced) /\ announced[Gone + 1] = owed[1] /\ Gone' = Gone
    BY <1>0, <2>1, <2>2, LenProperties DEF Gone, Told, Order, OwedIsLast
  <2>5. RowsComeFrom'
    <3>1. ASSUME NEW j \in 1..Len(rows') PROVE \E l \in 1..Len(announced) : l <= Gone + 1 /\ announced[l] = rows'[j]
      <4>1. CASE j = Len(rows) + 1
        BY <2>3, <2>4, <4>1
      <4>2. CASE j \in 1..Len(rows)
        BY <2>3, <4>2 DEF Told, Order, RowsComeFrom
      <4> QED BY <2>3, <4>1, <4>2
    <3> QED BY <1>0, <2>4, <3>1 DEF RowsComeFrom
  <2>6. RowsInOrder'
    <3>1. ASSUME NEW i \in 1..Len(rows'), NEW j \in 1..Len(rows'), i < j
          PROVE  \E k, l \in 1..Len(announced) : k <= l /\ announced[k] = rows'[i] /\ announced[l] = rows'[j]
      <4>1. CASE j = Len(rows) + 1
        <5>1. i \in 1..Len(rows)
          BY <2>3, <3>1, <4>1
        <5>2. PICK k \in 1..Len(announced) : k <= Gone + 1 /\ announced[k] = rows[i]
          BY <5>1 DEF Told, Order, RowsComeFrom
        <5> QED BY <2>3, <2>4, <4>1, <5>1, <5>2
      <4>2. CASE j \in 1..Len(rows)
        <5>1. i \in 1..Len(rows)
          BY <2>3, <3>1, <4>2
        <5>2. rows'[i] = rows[i] /\ rows'[j] = rows[j]
          BY <2>3, <4>2, <5>1
        <5>3. PICK k \in 1..Len(announced), l \in 1..Len(announced) :
                k <= l /\ announced[k] = rows[i] /\ announced[l] = rows[j]
          BY <3>1, <4>2, <5>1 DEF Told, RowsInOrder
        <5> QED BY <5>2, <5>3
      <4> QED BY <2>3, <4>1, <4>2
    <3> QED BY <1>0, <3>1 DEF RowsInOrder
  <2>7. CallersAreToldTheTruth'
    <3>1. stage[owed[1]] = "owed"
      BY <2>2 DEF Told, CallersAreToldTheTruth
    <3> QED BY <1>0, <2>3, <3>1 DEF Told, CallersAreToldTheTruth, In
  <2>8. OwedIsLast' /\ NothingTwice' /\ WrittenIsThere'
    BY <1>0, <2>3, <2>4 DEF Told, Order, OwedIsLast, NothingTwice, WrittenIsThere, In
  <2> QED BY <2>5, <2>6, <2>7, <2>8 DEF Told, Order
<1> QED BY <1>1, <1>2 DEF Answer

LEMMA LeavesTold ==
  ASSUME TypeOK, Told, NEW outcome \in {"queued", "lost"}, Leaves(outcome),
         pass \in {"written", "refused"}, outcome = "queued" => pass = "written"
  PROVE  Told'
<1>0. UNCHANGED <<rows, announced>> /\ owed' = Tail(owed) /\ stage' = [stage EXCEPT ![owed[1]] = outcome]
  BY DEF Leaves
<1>1. owed \in Seq(Change) /\ announced \in Seq(Change) /\ owed # <<>>
      /\ stage \in [Change -> {"none", "owed", "queued", "lost"}]
  BY DEF TypeOK
<1>2. /\ owed[1] \in Change
      /\ Len(owed) \in Nat \ {0} /\ Len(owed') = Len(owed) - 1
      /\ \A i \in 1..Len(owed') : owed'[i] = owed[i + 1]
      /\ In(owed) = {owed[1]} \cup In(owed')
  BY <1>0, <1>1, Tailed
<1>3. Gone' = Gone + 1 /\ Gone \in Nat
  BY <1>0, <1>1, <1>2, LenProperties DEF Gone, Told, Order, OwedIsLast
<1>4. OwedIsLast' /\ NothingTwice'
  <2>1. \A i \in 1..Len(owed') : i + 1 \in 1..Len(owed)
    BY <1>2
  <2>2. ASSUME NEW i \in 1..Len(owed') PROVE owed'[i] = announced[Gone' + i]
    <3>1. owed[i + 1] = announced[Gone + (i + 1)]
      BY <2>1 DEF Told, Order, OwedIsLast
    <3>2. Gone + (i + 1) = Gone' + i
      BY <1>3, <1>2
    <3> QED BY <1>2, <3>1, <3>2
  <2>3. ASSUME NEW i \in 1..Len(owed'), NEW j \in 1..Len(owed'), owed'[i] = owed'[j] PROVE i = j
    <3>1. owed[i + 1] = owed[j + 1] /\ i + 1 \in 1..Len(owed) /\ j + 1 \in 1..Len(owed)
      BY <1>2, <2>1, <2>3
    <3>2. i + 1 = j + 1
      BY <3>1 DEF Told, Order, NothingTwice
    <3> QED BY <3>2
  <2> QED BY <1>0, <1>3, <2>2, <2>3 DEF OwedIsLast, NothingTwice
<1>5. owed[1] \notin In(owed')
  <2>1. ASSUME NEW i \in 1..Len(owed') PROVE owed'[i] # owed[1]
    <3>1. 1 \in 1..Len(owed) /\ i + 1 \in 1..Len(owed) /\ i + 1 # 1
      BY <1>2
    <3> QED BY <1>2, <3>1 DEF Told, Order, NothingTwice
  <2> QED BY <2>1 DEF In
<1>6. RowsComeFrom'
  <2>1. ASSUME NEW j \in 1..Len(rows) PROVE \E l \in 1..Len(announced) : l <= Gone' + 1 /\ announced[l] = rows[j]
    BY <1>3 DEF Told, Order, RowsComeFrom
  <2> QED BY <1>0, <2>1 DEF RowsComeFrom
<1>7. WrittenIsThere'
  BY DEF Leaves, Look, WrittenIsThere
<1>8. RowsInOrder'
  BY <1>0 DEF Told, RowsInOrder
<1>9. CallersAreToldTheTruth'
  <2>1. pass = "written" => owed[1] \in In(rows)
    BY DEF Told, Order, WrittenIsThere
  <2>2. \A c \in Change : stage'[c] = IF c = owed[1] THEN outcome ELSE stage[c]
    BY <1>0, <1>1
  <2>3. In(rows) \subseteq Change /\ In(rows') = In(rows)
    BY <1>0, Standing DEF TypeOK
  <2>4. ASSUME NEW c \in Change PROVE stage'[c] = "queued" => c \in In(rows)
    BY <2>1, <2>2 DEF Told, CallersAreToldTheTruth
  <2>5. ASSUME NEW c \in Change PROVE stage'[c] = "owed" <=> c \in In(owed')
    BY <1>2, <1>5, <2>2 DEF Told, CallersAreToldTheTruth
  <2>6. \A c \in In(rows) : stage'[c] # "none"
    BY <2>2, <2>3 DEF Told, CallersAreToldTheTruth
  <2> QED BY <2>3, <2>4, <2>5, <2>6 DEF CallersAreToldTheTruth
<1> QED BY <1>4, <1>6, <1>7, <1>8, <1>9 DEF Told, Order

LEMMA InitTold == Init => Told
<1> SUFFICES ASSUME Init PROVE Told
  OBVIOUS
<1>1. Len(<<>>) = 0 /\ owed = <<>> /\ rows = <<>> /\ announced = <<>>
  BY EmptySeq DEF Init
<1>2. In(<<>>) = {}
  BY <1>1 DEF In
<1> QED BY <1>1, <1>2 DEF Init, Told, Order, OwedIsLast, Gone, NothingTwice, RowsComeFrom, WrittenIsThere,
                          RowsInOrder, CallersAreToldTheTruth

LEMMA ToldStep ==
  ASSUME TypeOK, Told, [Next]_vars
  PROVE  Told'
<1>1. ASSUME NEW w \in Waiter, Resume(w) PROVE Told'
  BY <1>1, EntriesKept DEF Resume, Entries, writeOwed, Look
<1>2. CASE Written
  BY <1>2, LeavesTold DEF Written
<1>3. CASE GiveUp
  BY <1>3, LeavesTold DEF GiveUp
<1>4. CASE Retry
  BY <1>4, EntriesKept DEF Retry, Entries, Kept
<1>5. CASE Finally
  BY <1>5, EntriesKept DEF Finally, Entries
<1>6. CASE TimerFires
  BY <1>6, EntriesKept DEF TimerFires, Entries, passAfterRunning, writeOwed, Look
<1>7. ASSUME NEW c \in Change, Age(c) PROVE Told'
  BY <1>7, EntriesKept DEF Age, Entries, passVars
<1>8. CASE Flush
  BY <1>8, EntriesKept DEF Flush, Entries, passAfterRunning, writeOwed, Look
<1>9. CASE FlushExpires
  BY <1>9, EntriesKept DEF FlushExpires, Entries
<1>10. CASE Conclude \/ \E p \in Path : Ask(p)
  BY <1>10, EntriesKept DEF Conclude, Ask, Entries, passVars
<1>11. CASE UNCHANGED vars
  BY <1>11, EntriesKept DEF vars, Entries
<1> QED BY <1>1, <1>2, <1>3, <1>4, <1>5, <1>6, <1>7, <1>8, <1>9, <1>10, <1>11, AnnounceTold, AnswerTold DEF Next

-----------------------------------------------------------------------------
(* Somebody goes on with what is owed.                                     *)

Attended == OverLeavesNone /\ NoneStranded

LEMMA AttendedKept ==
  ASSUME Attended, UNCHANGED <<owed, pass, waiting, due, timer>>
  PROVE  Attended'
  BY DEF Attended, OverLeavesNone, NoneStranded

(* Who begins a pass or awaits the end of one leaves nothing unattended. *)
LEMMA BeginsAttended ==
  ASSUME TypeOK, NEW w \in Waiter, passAfterRunning(owed', w)
  PROVE  Attended'
<1>1. CASE pass = "none"
  BY <1>1 DEF passAfterRunning, writeOwed, Look, Attended, OverLeavesNone, NoneStranded
<1>2. CASE pass # "none"
  BY <1>2 DEF passAfterRunning, Attended, OverLeavesNone, NoneStranded
<1> QED BY <1>1, <1>2

LEMMA AttendedStep ==
  ASSUME TypeOK, Attended, [Next]_vars
  PROVE  Attended'
<1>1. ASSUME NEW c \in Change, Announce(c) PROVE Attended'
  BY <1>1, BeginsAttended DEF Announce, Waiter
<1>2. ASSUME NEW w \in Waiter, Resume(w) PROVE Attended'
  <2>1. CASE pass = "none"
    BY <1>2, <2>1 DEF Resume, writeOwed, Look, Attended, OverLeavesNone, NoneStranded
  <2>2. CASE pass = "over"
    BY <1>2, <2>2 DEF Resume, writeOwed, Attended, OverLeavesNone, NoneStranded
  <2>3. CASE pass \in {"writing", "written", "refused"}
    BY <1>2, <2>3 DEF Resume, writeOwed, Attended, OverLeavesNone, NoneStranded
  <2> QED BY <2>1, <2>2, <2>3 DEF TypeOK
<1>3. CASE Answer
  BY <1>3 DEF Answer, Attended, OverLeavesNone, NoneStranded
<1>4. CASE Written \/ GiveUp
  BY <1>4 DEF Written, GiveUp, Leaves, Look, Attended, OverLeavesNone, NoneStranded
<1>5. CASE Retry
  BY <1>5 DEF Retry, MayRetry, ArmsRetry, Attended, OverLeavesNone, NoneStranded
<1>6. CASE Finally
  BY <1>6 DEF Finally, Attended, OverLeavesNone, NoneStranded
<1>7. CASE TimerFires
  BY <1>7, BeginsAttended DEF TimerFires, Waiter
<1>8. CASE Flush
  BY <1>8, BeginsAttended DEF Flush, Waiter
<1>9. CASE FlushExpires \/ Conclude \/ (\E c \in Change : Age(c)) \/ (\E p \in Path : Ask(p)) \/ UNCHANGED vars
  BY <1>9, AttendedKept DEF FlushExpires, Conclude, Age, Ask, passVars, vars
<1> QED BY <1>1, <1>2, <1>3, <1>4, <1>5, <1>6, <1>7, <1>8, <1>9 DEF Next

-----------------------------------------------------------------------------
(* What flush comes back to.                                               *)

Flushing == FlushTakesPart /\ FlushSettlesAll

LEMMA FlushingKept ==
  ASSUME Flushing, UNCHANGED <<stage, owed, pass, waiting, due, flush, flushed>>
  PROVE  Flushing'
<1>1. In(owed') = In(owed)
  BY DEF In
<1> QED BY <1>1 DEF Flushing, FlushTakesPart, FlushSettlesAll, closing

(* Who joins or awaits a pass, other than flush itself. *)
LEMMA EntriesBegin ==
  ASSUME TypeOK, Flushing, passAfterRunning(owed', "entries"), UNCHANGED <<due, flushed>>,
         \A d \in flushed : stage'[d] # "none" /\ (stage'[d] = "owed" => stage[d] = "owed"),
         flushed \cap In(owed') \subseteq In(owed)
  PROVE  Flushing'
<1>1. /\ flush' = flush /\ ("flush" \in waiting' <=> "flush" \in waiting)
  BY DEF passAfterRunning, writeOwed
<1>2. pass' = "over" => pass = "over" \/ owed' = <<>>
  BY DEF passAfterRunning, writeOwed, Look
<1>3. owed' = <<>> => In(owed') = {}
  BY Standing, EmptySeq
<1> QED BY <1>1, <1>2, <1>3 DEF Flushing, FlushTakesPart, FlushSettlesAll, closing

LEMMA LeavesFlushing ==
  ASSUME TypeOK, Told, Flushing, NEW outcome \in {"queued", "lost"}, Leaves(outcome),
         pass \in {"written", "refused"}
  PROVE  Flushing'
<1>1. owed \in Seq(Change) /\ owed # <<>> /\ stage \in [Change -> {"none", "owed", "queued", "lost"}]
  BY DEF TypeOK
<1>2. owed[1] \in Change /\ owed' \in Seq(Change)
  BY <1>1, Tailed DEF Leaves
<1>3. \A d \in Change : stage'[d] = IF d = owed[1] THEN outcome ELSE stage[d]
  BY <1>1 DEF Leaves
<1>4. pass' = "over" => In(owed') = {}
  BY <1>2, Standing DEF Leaves, Look
<1>5. flushed \subseteq Change
  BY DEF TypeOK
<1> QED BY <1>3, <1>4, <1>5 DEF Leaves, Flushing, FlushTakesPart, FlushSettlesAll, closing

LEMMA FlushingStep ==
  ASSUME TypeOK, Told, Flushing, [Next]_vars
  PROVE  Flushing'
<1>0. /\ owed \in Seq(Change) /\ stage \in [Change -> {"none", "owed", "queued", "lost"}] /\ flushed \subseteq Change
      /\ owed = <<>> => In(owed) = {}
      /\ In(owed) \subseteq Change
  BY Standing DEF TypeOK
<1>1. ASSUME NEW c \in Change, Announce(c) PROVE Flushing'
  <2>1. c \notin flushed
    BY <1>1 DEF Announce, Flushing, FlushTakesPart
  <2>2. In(owed') = In(owed) \cup {c}
    BY <1>0, <1>1, Appended DEF Announce
  <2>3. \A d \in flushed : stage'[d] = stage[d]
    BY <1>0, <1>1, <2>1 DEF Announce
  <2>4. \A d \in flushed : stage[d] # "none"
    BY DEF Flushing, FlushTakesPart, closing
  <2> QED BY <1>1, <2>1, <2>2, <2>3, <2>4, EntriesBegin DEF Announce
<1>2. ASSUME Resume("entries") PROVE Flushing'
  <2>1. /\ UNCHANGED <<stage, owed, flush, waiting, flushed>> /\ due' = due \ {"entries"}
        /\ pass' = "over" => pass = "over" \/ owed = <<>>
    BY <1>2 DEF Resume, writeOwed, Look
  <2> QED BY <1>0, <2>1 DEF Flushing, FlushTakesPart, FlushSettlesAll, closing, In
<1>3. ASSUME Resume("flush") PROVE Flushing'
  <2>1. /\ UNCHANGED <<stage, owed, waiting, flushed>> /\ due' = due \ {"flush"} /\ "flush" \in due
        /\ pass' = "over" => pass = "over" \/ owed = <<>>
        /\ flush' \in {"joined", "expired"}
    BY <1>3 DEF Resume, writeOwed, Look
  <2>2. flush # "none" /\ "flush" \notin waiting
    BY <2>1 DEF Flushing, FlushTakesPart, closing
  <2> QED BY <1>0, <2>1, <2>2 DEF Flushing, FlushTakesPart, FlushSettlesAll, closing, In
<1>4. CASE Answer
  <2>1. UNCHANGED <<stage, owed, waiting, due, flush, flushed>> /\ pass' # "over"
    BY <1>4 DEF Answer
  <2> QED BY <2>1 DEF Flushing, FlushTakesPart, FlushSettlesAll, closing, In
<1>5. CASE Written \/ GiveUp
  BY <1>5, LeavesFlushing DEF Written, GiveUp
<1>6. CASE Retry
  <2>1. UNCHANGED <<stage, owed, waiting, due, flush, flushed>> /\ flush = "none"
    BY <1>6 DEF Retry, Kept, MayRetry, closing
  <2> QED BY <2>1 DEF Flushing, FlushTakesPart, FlushSettlesAll, closing, In
<1>7. CASE Finally
  <2>1. UNCHANGED <<stage, owed, flushed>> /\ pass = "over" /\ pass' = "none" /\ waiting' = {}
    BY <1>7 DEF Finally
  <2>2. flush' # "none" => flush # "none"
    BY <1>7 DEF Finally
  <2>3. CASE flush = "joined"
    <3>1. flushed \cap In(owed) = {}
      BY <2>1, <2>3 DEF Flushing, FlushTakesPart, closing
    <3>2. \A d \in flushed : stage[d] # "owed"
      BY <1>0, <3>1 DEF Told, CallersAreToldTheTruth
    <3> QED BY <1>7, <2>1, <2>3, <3>2 DEF Finally, Flushing, FlushTakesPart, FlushSettlesAll, closing
  <2>4. CASE flush # "joined"
    BY <1>7, <2>1, <2>4 DEF Finally, Flushing, FlushTakesPart, FlushSettlesAll, closing
  <2> QED BY <2>3, <2>4
<1>8. CASE TimerFires
  BY <1>8, EntriesBegin DEF TimerFires, Flushing, FlushTakesPart
<1>9. CASE Flush
  <2>1. UNCHANGED <<stage, owed, due>> /\ flush = "none" /\ flushed' = In(owed)
    BY <1>9 DEF Flush
  <2>2. "flush" \notin waiting \cup due
    BY <2>1 DEF Flushing, FlushTakesPart, closing
  <2>3. \A c \in flushed' : stage'[c] # "none"
    BY <1>0, <2>1 DEF Told, CallersAreToldTheTruth
  <2>4. CASE pass = "none"
    BY <1>0, <1>9, <2>1, <2>2, <2>3, <2>4
       DEF Flush, passAfterRunning, writeOwed, Look, Flushing, FlushTakesPart, FlushSettlesAll, closing
  <2>5. CASE pass # "none"
    BY <1>9, <2>1, <2>2, <2>3, <2>5 DEF Flush, passAfterRunning, Flushing, FlushTakesPart, FlushSettlesAll, closing
  <2> QED BY <2>4, <2>5
<1>10. CASE FlushExpires
  <2>1. UNCHANGED <<stage, owed, pass, waiting, due, flushed>> /\ flush # "none" /\ flush' = "expired"
    BY <1>10 DEF FlushExpires
  <2> QED BY <2>1 DEF Flushing, FlushTakesPart, FlushSettlesAll, closing, In
<1>11. CASE Conclude \/ (\E c \in Change : Age(c)) \/ (\E p \in Path : Ask(p)) \/ UNCHANGED vars
  BY <1>11, FlushingKept DEF Conclude, Age, Ask, passVars, vars
<1> QED BY <1>1, <1>2, <1>3, <1>4, <1>5, <1>6, <1>7, <1>8, <1>9, <1>10, <1>11 DEF Next, Waiter

-----------------------------------------------------------------------------
(* The pull's question.                                                    *)

Pulling == KnownIsQueued /\ PullOverlooksNothing

LEMMA PullingKept ==
  ASSUME Pulling, UNCHANGED question, In(rows) \subseteq In(rows')
  PROVE  Pulling'
  BY DEF Pulling, KnownIsQueued, PullOverlooksNothing

(* The rows only grow, so what the first read missed the second one sees.  *)
LEMMA PullingStep ==
  ASSUME TypeOK, Pulling, [Next]_vars
  PROVE  Pulling'
<1>1. CASE Answer
  <2>1. rows \in Seq(Change) /\ owed[1] \in Change
    BY <1>1, Tailed DEF TypeOK, Answer
  <2>2. In(Append(rows, owed[1])) = In(rows) \cup {owed[1]}
    BY <2>1, Appended
  <2>3. rows' = rows \/ rows' = Append(rows, owed[1])
    BY <1>1 DEF Answer
  <2> QED BY <1>1, <2>2, <2>3, PullingKept DEF Answer
<1>2. CASE UNCHANGED <<rows, question>>
  BY <1>2, PullingKept
<1>3. ASSUME NEW p \in Path, Ask(p) PROVE Pulling'
  <2>1. rows' = rows /\ question.phase # "reading"
    BY <1>3 DEF Ask
  <2>2. CASE hasOwedStructuralOp(p)
    BY <1>3, <2>1, <2>2 DEF Ask, Reads, Pulling, KnownIsQueued, PullOverlooksNothing
  <2>3. CASE ~hasOwedStructuralOp(p)
    <3>1. question' = [phase |-> "reading", path |-> {p}, known |-> {c \in In(owed) \cup In(rows) : Concerns(c, p)}]
      BY <1>3, <2>3 DEF Ask, Reads
    <3>2. \A c \in In(owed) : ~Concerns(c, p)
      BY <2>3 DEF hasOwedStructuralOp
    <3> QED BY <2>1, <3>1, <3>2 DEF Pulling, KnownIsQueued, PullOverlooksNothing
  <2> QED BY <2>2, <2>3
<1>4. CASE Conclude
  <2>1. rows' = rows /\ question.phase = "reading"
    BY <1>4 DEF Conclude
  <2>2. /\ question' = [question EXCEPT !.phase = IF \E p \in question.path : Reads(FALSE, p) THEN "pending" ELSE "clear"]
        /\ question \in [phase : {"none", "reading", "pending", "clear"}, path : SUBSET Path, known : SUBSET Change]
    BY <1>4 DEF Conclude, TypeOK
  <2>3. CASE \E p \in question.path : Reads(FALSE, p)
    BY <2>2, <2>3 DEF Pulling, KnownIsQueued, PullOverlooksNothing
  <2>4. CASE ~\E p \in question.path : Reads(FALSE, p)
    <3>1. question'.known = question.known /\ question'.phase = "clear"
      BY <2>2, <2>4
    <3>2. question.known = {}
      BY <2>1, <2>4 DEF Reads, hasQueuedStructuralOp, Pulling, KnownIsQueued
    <3> QED BY <3>1, <3>2 DEF Pulling, KnownIsQueued, PullOverlooksNothing
  <2> QED BY <2>3, <2>4
<1> QED BY <1>1, <1>2, <1>3, <1>4
        DEF Next, Announce, Age, Resume, Written, GiveUp, Leaves, Retry, Finally, TimerFires, Flush, FlushExpires, vars

-----------------------------------------------------------------------------
LEMMA InitInv == Init => IInv
<1> SUFFICES ASSUME Init PROVE IInv
  OBVIOUS
<1>1. TypeOK /\ Told
  BY InitTypes, InitTold
<1>2. Attended /\ Flushing /\ Pulling
  BY DEF Init, Attended, OverLeavesNone, NoneStranded, Flushing, FlushTakesPart, FlushSettlesAll, closing,
         Pulling, KnownIsQueued, PullOverlooksNothing
<1> QED BY <1>1, <1>2 DEF IInv, Told, Attended, Flushing, Pulling

LEMMA NextInv == IInv /\ [Next]_vars => IInv'
  BY TypeStep, ToldStep, AttendedStep, FlushingStep, PullingStep DEF IInv, Told, Attended, Flushing, Pulling

THEOREM Invariance == Spec => []IInv
  BY InitInv, NextInv, PTL DEF Spec

(* Every variable keeps its type, and a pass attempts an entry only while  *)
(* one is owed.                                                            *)
THEOREM TypeCorrect == Spec => []TypeOK
<1>1. IInv => TypeOK
  BY DEF IInv
<1> QED BY <1>1, Invariance, PTL

(* Entries reach the queue in the order of their changes, for any number of*)
(* changes and whatever attempt fails (enqueue, writeOwed, retryAfter).    *)
THEOREM OrderIsKept == Spec => []RowsInOrder
<1>1. IInv => RowsInOrder
  BY DEF IInv
<1> QED BY <1>1, Invariance, PTL

(* A call that returned has its entry in the queue, one that has not settled *)
(* is still owed (writeOwed, the answers it settles calls with).           *)
THEOREM AnswersAreTrue == Spec => []CallersAreToldTheTruth
<1>1. IInv => CallersAreToldTheTruth
  BY DEF IInv
<1> QED BY <1>1, Invariance, PTL

(* While an entry is owed a pass, somebody who awaits one or the timer     *)
(* comes to it (passAfterRunning, retryAfter).                             *)
THEOREM NobodyIsStranded == Spec => []NoneStranded
<1>1. IInv => NoneStranded
  BY DEF IInv
<1> QED BY <1>1, Invariance, PTL

(* flush comes back from its pass only when everything that was owed at its*)
(* call has settled, whichever pass it joined (flush, passAfterRunning).   *)
THEOREM FlushIsThorough == Spec => []FlushSettlesAll
<1>1. IInv => FlushSettlesAll
  BY DEF IInv
<1> QED BY <1>1, Invariance, PTL

(* The two reads of the pull's question overlook no deletion and no rename,*)
(* whatever moves from the one to the other between them                   *)
(* (hasPendingStructuralOp).                                               *)
THEOREM PullIsTold == Spec => []PullOverlooksNothing
<1>1. IInv => PullOverlooksNothing
  BY DEF IInv
<1> QED BY <1>1, Invariance, PTL
=============================================================================
