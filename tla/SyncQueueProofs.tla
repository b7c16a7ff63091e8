--------------------------- MODULE SyncQueueProofs ---------------------------
(***************************************************************************)
(* The offline queue, for any paths, any number of changes, failures and   *)
(* restarts.  It never waits for itself: its ids are never given twice, and*)
(* of any entries with such ids one waits for none of the others.  What    *)
(* stands at a path keeps its kind, at both ends.  And a pull never takes a*)
(* version of one file for a version of another: every copy of a file is on*)
(* a trail of moves that leads to where the file stands.                   *)
(***************************************************************************)
EXTENDS SyncQueue, FiniteSetTheorems, SequenceTheorems, WellFoundedInduction, TLAPS

(* Of some numbers one is the smallest, of some entries one has the smallest *)
(* id.                                                                      *)
LEMMA LeastOf ==
  ASSUME NEW S, S # {}, S \subseteq Nat
  PROVE  \E n \in S : \A m \in S : n <= m
<1>1. PICK n \in S : \A m \in S : ~(<<m, n>> \in OpToRel(<, Nat))
  BY NatLessThanWellFounded, WFMin
<1>2. ASSUME NEW m \in S, m < n
      PROVE  FALSE
  <2>1. <<m, n>> \in Nat \X Nat /\ <<m, n>>[1] < <<m, n>>[2]
    BY <1>2
  <2>2. <<m, n>> \in {ss \in Nat \X Nat : ss[1] < ss[2]}
    BY <2>1
  <2> QED BY <1>1, <2>2 DEF OpToRel
<1> QED BY <1>2

LEMMA FirstOf ==
  ASSUME NEW S, S # {}, \A r \in S : r.id \in Nat
  PROVE  \E r \in S : \A s \in S : r.id <= s.id
<1> DEFINE ids == {r.id : r \in S}
<1>1. ids \subseteq Nat /\ ids # {}
  OBVIOUS
<1>2. \E n \in ids : \A m \in ids : n <= m
  BY <1>1, LeastOf
<1> QED BY <1>2

(* The circle that followsRename could close is opened by its own exception: *)
(* the first write that holds up the first structural entry waits for none.  *)
THEOREM NoCircularWait == RowsNumbered => SomethingIsDue
<1> SUFFICES ASSUME RowsNumbered, rows # {}
             PROVE  \E r \in rows : Unblocked(r)
  BY DEF SomethingIsDue
<1> DEFINE S == {r \in rows : r.op # "write"}
<1>1. \A r \in rows : r.id \in Nat
  BY DEF RowsNumbered
<1>2. CASE S = {}
  <2>1. PICK r \in rows : \A s \in rows : r.id <= s.id
    BY <1>1, FirstOf
  <2>2. Unblocked(r)
    BY <1>1, <1>2, <2>1 DEF Unblocked, Blocks
  <2> QED BY <2>2
<1>3. CASE S # {}
  <2>1. PICK s \in S : \A t \in S : s.id <= t.id
    BY <1>1, <1>3, FirstOf
  <2> DEFINE B == {w \in rows : Blocks(w, s)}
  <2>2. CASE B = {}
    BY <2>2 DEF Unblocked
  <2>3. CASE B # {}
    <3>1. PICK w \in B : \A v \in B : w.id <= v.id
      BY <1>1, <2>3, FirstOf
    <3>2. w.op = "write" /\ w.id < s.id /\ Touches(w, s) /\ ~(s.op = "rename" /\ followsRename(w, s))
      BY <1>1, <2>1 DEF Blocks
    <3>3. ASSUME NEW p \in rows, Blocks(p, w)
          PROVE  FALSE
      <4>1. CASE p.op = "write"
        <5>1. p.id < w.id /\ p.path = w.path
          BY <3>2, <3>3, <4>1 DEF Blocks
        <5>2. Touches(p, s)
          BY <3>2, <4>1, <5>1 DEF Touches, endpoints
        <5>3. ~(s.op = "rename" /\ followsRename(p, s))
          BY <1>1, <2>1, <3>2, <5>1 DEF followsRename
        <5>4. Blocks(p, s)
          BY <1>1, <2>1, <3>2, <4>1, <5>1, <5>2, <5>3 DEF Blocks
        <5> QED BY <1>1, <3>1, <5>1, <5>4
      <4>2. CASE p.op # "write"
        <5>1. p.op = "rename" /\ followsRename(w, p) /\ s.id <= p.id
          BY <1>1, <2>1, <3>2, <3>3, <4>2 DEF Blocks
        <5>2. p # s
          BY <3>2, <5>1
        <5>3. s.id < p.id
          BY <1>1, <2>1, <5>1, <5>2 DEF RowsNumbered
        <5>4. \E q \in endpoints(s) : overlaps(q, w.path)
          BY <3>2 DEF Touches, endpoints, overlaps
        <5> QED BY <1>1, <2>1, <3>2, <5>1, <5>3, <5>4 DEF followsRename
      <4> QED BY <4>1, <4>2
    <3> QED BY <3>3 DEF Unblocked
  <2> QED BY <2>2, <2>3
<1> QED BY <1>2, <1>3

-----------------------------------------------------------------------------
(* Where the ids come from.                                                *)

IsRow(r) == DOMAIN r = {"id", "op", "path", "to", "force", "wait"}
Changes == [op : {"write", "mkdir", "rename", "delete"}, path : Paths, to : Paths,
            force : BOOLEAN, below : SUBSET Paths]

(* The invariant: what is owed is a change, what is queued is a row with an*)
(* id of its own that the queue has given.                                 *)
QueueInv == /\ lastId \in Nat
            /\ owed \in Seq(Changes)
            /\ \A r \in rows : IsRow(r)
            /\ RowsNumbered

LEMMA RowFields ==
  ASSUME NEW id, NEW op, NEW p, NEW q, NEW force
  PROVE  IsRow(Row(id, op, p, q, force)) /\ Row(id, op, p, q, force).id = id
  BY DEF IsRow, Row

(* What holds of a set of rows that a step leaves behind.                  *)
Good(rs, n) == /\ n \in Nat
               /\ \A r \in rs : IsRow(r) /\ r.id \in 1..n
               /\ \A r, s \in rs : r.id = s.id => r = s

LEMMA FewerAreGood ==
  ASSUME NEW rs, NEW ss \in SUBSET rs, NEW n, Good(rs, n)
  PROVE  Good(ss, n)
  BY DEF Good

LEMMA OneMoreIsGood ==
  ASSUME NEW rs, NEW n, Good(rs, n), NEW op, NEW p, NEW q, NEW force
  PROVE  Good(rs \cup {Row(n + 1, op, p, q, force)}, n + 1)
<1> DEFINE new == Row(n + 1, op, p, q, force)
<1>1. IsRow(new) /\ new.id = n + 1
  BY RowFields
<1> HIDE DEF new
<1>2. \A r \in rs : r.id \in 1..(n + 1) /\ r.id # n + 1
  BY DEF Good
<1>3. n + 1 \in Nat /\ n + 1 \in 1..(n + 1)
  BY DEF Good
<1>4. Good(rs \cup {new}, n + 1)
  BY <1>1, <1>2, <1>3 DEF Good
<1> QED BY <1>4 DEF new

(* An entry that waits, or waits no more, keeps its id.                    *)
LEMMA WaitingIsRow ==
  ASSUME NEW s, IsRow(s), NEW w
  PROVE  IsRow([s EXCEPT !.wait = w]) /\ [s EXCEPT !.wait = w].id = s.id
  BY DEF IsRow

LEMMA HeldAreGood ==
  ASSUME NEW r, Good(rows, lastId)
  PROVE  Good(Held(r), lastId)
<1> DEFINE W(s) == [s EXCEPT !.wait = TRUE]
           H(s) == IF s.id = r.id THEN W(s) ELSE s
<1>1. \A s \in rows : IsRow(W(s)) /\ W(s).id = s.id
  BY WaitingIsRow DEF Good
<1>2. Held(r) = {H(s) : s \in rows}
  BY DEF Held
<1> HIDE DEF W
<1>3. \A s \in rows : IsRow(H(s)) /\ H(s).id = s.id
  BY <1>1 DEF Good
<1> HIDE DEF H
<1> QED BY <1>2, <1>3 DEF Good

LEMMA ReleasedAreGood ==
  ASSUME NEW r \in rows, Good(rows, lastId)
  PROVE  Good((rows \ {r}) \cup {[r EXCEPT !.wait = FALSE]}, lastId)
<1> DEFINE w == [r EXCEPT !.wait = FALSE]
<1>1. IsRow(w) /\ w.id = r.id
  BY WaitingIsRow DEF Good
<1> HIDE DEF w
<1>2. Good((rows \ {r}) \cup {w}, lastId)
  BY <1>1 DEF Good
<1> QED BY <1>2 DEF w

(* A sequence of a set is as long as the set is large.                     *)
LEMMA SequenceOfSet ==
  ASSUME NEW T, IsFiniteSet(T)
  PROVE  SetToSeq(T) \in Seq(T) /\ Len(SetToSeq(T)) = Cardinality(T) /\ Cardinality(T) \in Nat
<1> DEFINE n == Cardinality(T)
<1>1. n \in Nat /\ ExistsBijection(1..n, T)
  BY FS_CardinalityType
<1>2. PICK f \in [1..n -> T] : IsInjective(f)
  BY <1>1 DEF ExistsBijection, Bijection, Injection, IsInjective
<1>3. SetToSeq(T) \in [1..n -> T]
  BY <1>2 DEF SetToSeq
<1> HIDE DEF n
<1>4. SetToSeq(T) \in Seq(T) /\ Len(SetToSeq(T)) = n
  BY <1>1, <1>3
<1> QED BY <1>1, <1>4 DEF n

LEMMA ManyMoreAreGood ==
  ASSUME Good(rows, lastId), NEW rs \in SUBSET rows, NEW T, NEW ps \in Seq(T), NEW op, NEW force
  PROVE  Good(rs \cup Numbered(op, ps, force), lastId + Len(ps))
<1> DEFINE R(i) == Row(lastId + i, op, ps[i], ps[i], force)
<1>1. lastId \in Nat /\ Len(ps) \in Nat /\ DOMAIN ps = 1..Len(ps)
  BY DEF Good
<1>2. \A i \in 1..Len(ps) : IsRow(R(i)) /\ R(i).id = lastId + i
  BY RowFields
<1> HIDE DEF R
<1>3. Numbered(op, ps, force) = {R(i) : i \in 1..Len(ps)}
  BY <1>1 DEF Numbered, R
<1>4. \A r \in rs : IsRow(r) /\ r.id \in 1..lastId
  BY DEF Good
<1>5. \A r, s \in rs : r.id = s.id => r = s
  BY DEF Good
<1>6. \A r \in rs \cup {R(i) : i \in 1..Len(ps)} : IsRow(r) /\ r.id \in 1..(lastId + Len(ps))
  BY <1>1, <1>2, <1>4
<1>7. \A r, s \in rs \cup {R(i) : i \in 1..Len(ps)} : r.id = s.id => r = s
  BY <1>1, <1>2, <1>4, <1>5
<1> QED BY <1>1, <1>3, <1>6, <1>7 DEF Good

(* The writes a move carries over get the ids after its own, in their order. *)
LEMMA RowsAreFinite ==
  ASSUME Good(rows, lastId)
  PROVE  IsFiniteSet(rows)
<1> DEFINE f == [r \in rows |-> r.id]
<1>1. f \in Injection(rows, 1..lastId)
  <2>1. f \in [rows -> 1..lastId] /\ \A r, s \in rows : f[r] = f[s] => r = s
    BY DEF Good
  <2> QED BY <2>1 DEF Injection, IsInjective
<1>2. IsFiniteSet(1..lastId)
  BY FS_Interval DEF Good
<1> QED BY <1>1, <1>2, FS_Injection

LEMMA RenameIsGood ==
  ASSUME Good(rows, lastId), NEW p, NEW q
  PROVE  Good(queueRename(p, q), lastId + 1 + Cardinality(writesBelow(p)))
<1> DEFINE ws == writesBelow(p)
           upTo(w) == {v \in ws : v.id <= w.id}
           Again(w) == [w EXCEPT !.id = lastId + 1 + Cardinality(upTo(w)),
                                 !.path = Rebase(@, p, q), !.to = Rebase(@, p, q)]
           move == Row(lastId + 1, "rename", p, q, FALSE)
<1>1. ws \in SUBSET rows /\ IsFiniteSet(ws) /\ Cardinality(ws) \in Nat
  BY RowsAreFinite, FS_Subset, FS_CardinalityType DEF writesBelow
<1>2. lastId \in Nat /\ \A w \in ws : IsRow(w) /\ w.id \in Nat
  BY <1>1 DEF Good
<1>3. \A v, w \in ws : v.id = w.id => v = w
  BY <1>1 DEF Good
<1> HIDE DEF ws
<1>4. ASSUME NEW w \in ws
      PROVE  /\ IsFiniteSet(upTo(w)) /\ Cardinality(upTo(w)) \in Nat
             /\ Cardinality(upTo(w)) >= 1 /\ Cardinality(upTo(w)) <= Cardinality(ws)
  <2>1. upTo(w) \in SUBSET ws /\ w \in upTo(w)
    BY <1>2, <1>4
  <2> HIDE DEF upTo
  <2>2. IsFiniteSet(upTo(w)) /\ Cardinality(upTo(w)) <= Cardinality(ws)
    BY <1>1, <2>1, FS_Subset
  <2>3. Cardinality(upTo(w)) \in Nat /\ Cardinality(upTo(w)) # 0
    BY <2>1, <2>2, FS_CardinalityType, FS_EmptySet
  <2> QED BY <2>2, <2>3
<1>5. ASSUME NEW v \in ws, NEW w \in ws, v.id < w.id
      PROVE  Cardinality(upTo(v)) # Cardinality(upTo(w))
  <2>1. upTo(v) \in SUBSET upTo(w) /\ w \in upTo(w) /\ w \notin upTo(v)
    BY <1>2, <1>5
  <2>2. IsFiniteSet(upTo(w))
    BY <1>4
  <2> HIDE DEF upTo
  <2> QED BY <2>1, <2>2, FS_Subset
<1>6. \A w \in ws : IsRow(Again(w)) /\ Again(w).id = lastId + 1 + Cardinality(upTo(w))
  <2> DEFINE n(w) == lastId + 1 + Cardinality(upTo(w))
             a(w) == Rebase(w.path, p, q)
             b(w) == Rebase(w.to, p, q)
  <2> HIDE DEF upTo, n
  <2>1. TAKE w \in ws
  <2>2. Again(w) = [w EXCEPT !.id = n(w), !.path = a(w), !.to = b(w)]
    BY <1>2 DEF IsRow, n
  <2> HIDE DEF Again, a, b
  <2>3. IsRow(Again(w)) /\ Again(w).id = n(w)
    BY <1>2, <2>2 DEF IsRow
  <2> QED BY <2>3 DEF n
<1>7. queueRename(p, q) = (rows \ ws) \cup {move} \cup {Again(w) : w \in ws}
  BY DEF queueRename, ws
<1> HIDE DEF Again
<1>8. IsRow(move) /\ move.id = lastId + 1
  BY DEF IsRow, Row
<1> HIDE DEF upTo, move
<1> DEFINE last == lastId + 1 + Cardinality(ws)
<1>9. \A w \in ws : Again(w).id > lastId + 1 /\ Again(w).id \in 1..last
  BY <1>1, <1>2, <1>4, <1>6
<1>10. \A v, w \in ws : Again(v).id = Again(w).id => v = w
  <2> SUFFICES ASSUME NEW v \in ws, NEW w \in ws, Again(v).id = Again(w).id, v.id # w.id
               PROVE  FALSE
    BY <1>3
  <2>1. Cardinality(upTo(v)) = Cardinality(upTo(w))
    BY <1>2, <1>4, <1>6
  <2> QED BY <1>2, <1>5, <2>1
<1>11. \A r \in rows : IsRow(r) /\ r.id \in 1..lastId
  BY DEF Good
<1>12. last \in Nat /\ lastId + 1 \in 1..last
  BY <1>1, <1>2
<1> HIDE DEF last
<1> DEFINE all == (rows \ ws) \cup {move} \cup {Again(w) : w \in ws}
<1>13. \A r \in all : IsRow(r) /\ r.id \in 1..last
  <2>1. \A r \in rows : r.id \in 1..last
    BY <1>1, <1>2, <1>11 DEF last
  <2> QED BY <1>6, <1>8, <1>9, <1>11, <1>12, <2>1
<1>14. \A r, s \in all : r.id = s.id => r = s
  <2>1. \A r, s \in rows : r.id = s.id => r = s
    BY DEF Good
  <2>2. \A r \in rows : r.id < lastId + 1 /\ r.id \in Nat
    BY <1>2, <1>11
  <2>3. \A w \in ws : Again(w).id \in Nat
    BY <1>9
  <2> QED BY <1>2, <1>8, <1>9, <1>10, <2>1, <2>2, <2>3
<1>15. Good(all, last)
  BY <1>12, <1>13, <1>14 DEF Good
<1> QED BY <1>7, <1>15 DEF last, ws

-----------------------------------------------------------------------------
(* Every step keeps the ids apart.                                         *)

LEMMA InvIsGood == QueueInv <=> owed \in Seq(Changes) /\ Good(rows, lastId)
  BY DEF QueueInv, Good, RowsNumbered

LEMMA BelowIsFinite ==
  ASSUME NEW p
  PROVE  FilesBelow(p) \in SUBSET Paths /\ IsFiniteSet(FilesBelow(p))
<1>1. FilesBelow(p) \in SUBSET Paths
  BY DEF FilesBelow
<1> QED BY <1>1, SyncQueueAssumption, FS_Subset DEF SyncQueueAssumption

LEMMA WriteIsGood ==
  ASSUME Good(rows, lastId), NEW p, NEW force
  PROVE  Good(queueWrite(p, force), lastId + 1)
<1> DEFINE old == IF structuralAt(p) THEN {} ELSE {r \in rows : r.path = p /\ r.op = "write"}
<1>1. Good(rows \ old, lastId)
  BY FewerAreGood
<1>2. queueWrite(p, force) = (rows \ old) \cup {Row(lastId + 1, "write", p, p, force)}
  BY DEF queueWrite
<1> HIDE DEF old
<1> QED BY <1>1, <1>2, OneMoreIsGood

LEMMA EntryIsGood ==
  ASSUME Good(rows, lastId), NEW c \in Changes
  PROVE  Good(enqueue(c), lastId + idsFor(c))
<1>1. CASE c.op = "write"
  <2>1. enqueue(c) = queueWrite(c.path, FALSE) /\ idsFor(c) = 1
    BY <1>1 DEF enqueue, idsFor
  <2> QED BY <2>1, WriteIsGood
<1>2. CASE c.op = "mkdir"
  <2>1. enqueue(c) = queueMkdir(c.path) /\ idsFor(c) = IF hasMkdir(c.path) THEN 0 ELSE 1
    BY <1>2 DEF enqueue, idsFor
  <2>2. CASE hasMkdir(c.path)
    BY <2>1, <2>2 DEF queueMkdir, Good
  <2>3. CASE ~hasMkdir(c.path)
    <3>1. Good(rows \cup {Row(lastId + 1, "mkdir", c.path, c.path, FALSE)}, lastId + 1)
      BY OneMoreIsGood
    <3> QED BY <2>1, <2>3, <3>1 DEF queueMkdir
  <2> QED BY <2>2, <2>3
<1>3. CASE c.op = "delete"
  <2> DEFINE below == SetToSeq(c.below)
             ps == <<c.path>> \o below
  <2>1. enqueue(c) = rows \cup Numbered("delete", ps, FALSE) /\ idsFor(c) = 1 + Cardinality(c.below)
    BY <1>3 DEF enqueue, idsFor, queueDeletePaths
  <2>2. c.path \in Paths /\ c.below \in SUBSET Paths
    BY DEF Changes
  <2>3. IsFiniteSet(c.below)
    BY <2>2, SyncQueueAssumption, FS_Subset DEF SyncQueueAssumption
  <2>4. below \in Seq(c.below) /\ Len(below) = Cardinality(c.below) /\ Cardinality(c.below) \in Nat
    BY <2>3, SequenceOfSet
  <2> HIDE DEF below
  <2>5. below \in Seq(Paths)
    BY <2>2, <2>4
  <2>6. ps \in Seq(Paths) /\ Len(ps) = 1 + Len(below)
    BY <2>2, <2>5
  <2> HIDE DEF ps
  <2>7. Good(rows \cup Numbered("delete", ps, FALSE), lastId + Len(ps))
    BY <2>6, ManyMoreAreGood
  <2> QED BY <2>1, <2>4, <2>6, <2>7
<1>4. CASE c.op = "rename"
  <2>1. enqueue(c) = queueRename(c.path, c.to) /\ idsFor(c) = 1 + Cardinality(writesBelow(c.path))
    BY <1>4 DEF enqueue, idsFor
  <2>2. Cardinality(writesBelow(c.path)) \in Nat /\ lastId \in Nat
    <3>1. writesBelow(c.path) \in SUBSET rows
      BY DEF writesBelow
    <3> QED BY <3>1, RowsAreFinite, FS_Subset, FS_CardinalityType DEF Good
  <2>3. lastId + 1 + Cardinality(writesBelow(c.path)) = lastId + (1 + Cardinality(writesBelow(c.path)))
    BY <2>2
  <2> QED BY <2>1, <2>3, RenameIsGood
<1> QED BY <1>1, <1>2, <1>3, <1>4 DEF Changes

LEMMA InitQueue == Init => QueueInv
  BY DEF Init, QueueInv, RowsNumbered

LEMMA StepQueue ==
  ASSUME QueueInv, [Next]_vars
  PROVE  QueueInv'
<1> SUFFICES owed' \in Seq(Changes) /\ Good(rows', lastId')
  BY InvIsGood, InvIsGood' DEF Good, QueueInv, RowsNumbered
<1>1. owed \in Seq(Changes) /\ Good(rows, lastId)
  BY InvIsGood
<1>2. CASE User
  <2>1. ASSUME NEW c \in Changes, Edited(c)
        PROVE  owed' \in Seq(Changes) /\ Good(rows', lastId')
    BY <1>1, <2>1 DEF Edited
  <2>2. ASSUME NEW op \in {"write", "mkdir", "rename", "delete"}, NEW p \in Paths, NEW q \in Paths,
               NEW below \in SUBSET Paths
        PROVE  Change(op, p, q, below) \in Changes
    BY DEF Change, Changes
  <2>3. ASSUME NEW p \in Paths, writeFile(p) \/ createDir(p) \/ deleteItem(p)
        PROVE  \E c \in Changes : Edited(c)
    BY <2>2, <2>3, BelowIsFinite DEF writeFile, createDir, deleteItem
  <2>4. ASSUME NEW p \in Paths, NEW q \in Paths, renameItem(p, q)
        PROVE  \E c \in Changes : Edited(c)
    BY <2>2, <2>4 DEF renameItem
  <2> QED BY <1>2, <2>1, <2>3, <2>4 DEF User
<1>3. CASE Sync
  <2>1. CASE WriteEntry
    <3>1. Head(owed) \in Changes /\ Tail(owed) \in Seq(Changes)
      BY <1>1, <2>1 DEF WriteEntry
    <3> QED BY <1>1, <2>1, <3>1, EntryIsGood DEF WriteEntry
  <2>2. CASE StartPass
    BY <1>1, <2>2 DEF StartPass
  <2>3. CASE Carry
    BY <1>1, <2>3 DEF Carry
  <2>4. CASE Finish
    <3>1. Good(Retired(job.row), lastId) /\ Good(Held(job.row), lastId)
      BY <1>1, FewerAreGood, HeldAreGood DEF Retired
    <3> QED BY <1>1, <2>4, <3>1 DEF Finish
  <2>5. CASE SourceMissing
    <3> DEFINE r == job.row
               again == FilesBelow(r.to)
               superseded == {s \in rows : s.op = "write" /\ s.path \in again /\ ~structuralAt(s.path)}
    <3>1. Good(Retired(r), lastId) /\ Retired(r) \ superseded \in SUBSET rows
      BY <1>1, FewerAreGood DEF Retired
    <3>2. SetToSeq(again) \in Seq(again) /\ Len(SetToSeq(again)) = Cardinality(again)
      BY BelowIsFinite, SequenceOfSet
    <3>3. Good((Retired(r) \ superseded) \cup Numbered("write", SetToSeq(again), TRUE), lastId + Cardinality(again))
      BY <1>1, <3>1, <3>2, ManyMoreAreGood
    <3> QED BY <1>1, <2>5, <3>1, <3>3 DEF SourceMissing
  <2>6. ASSUME NEW r \in pass, Drop(r) \/ Send(r)
        PROVE  owed' \in Seq(Changes) /\ Good(rows', lastId')
    BY <1>1, <2>6, FewerAreGood DEF Drop, Send, Retired
  <2>7. ASSUME NEW r \in rows, BackoffOver(r)
        PROVE  owed' \in Seq(Changes) /\ Good(rows', lastId')
    BY <1>1, <2>7, ReleasedAreGood DEF BackoffOver
  <2> QED BY <1>3, <2>1, <2>2, <2>3, <2>4, <2>5, <2>6, <2>7 DEF Sync
<1>4. CASE Pull
  <2>1. ASSUME NEW p \in Paths, Download(p)
        PROVE  owed' \in Seq(Changes) /\ Good(rows', lastId')
    BY <1>1, <2>1 DEF Download
  <2>2. ASSUME NEW p \in Paths, NEW again, Requeues(p, again)
        PROVE  Good(rows', lastId')
    BY <1>1, <2>2, WriteIsGood DEF Requeues
  <2>3. ASSUME NEW p \in Paths, Reconcile(p) \/ MirrorDeletion(p)
        PROVE  owed' \in Seq(Changes) /\ Good(rows', lastId')
    BY <1>1, <2>2, <2>3 DEF Reconcile, MirrorDeletion
  <2> QED BY <1>4, <2>1, <2>3 DEF Pull
<1>5. CASE PushFails
  BY <1>1, <1>5, HeldAreGood DEF PushFails
<1>6. CASE UNCHANGED vars
  BY <1>1, <1>6 DEF vars
<1> QED BY <1>2, <1>3, <1>4, <1>5, <1>6 DEF Next

(* Ids are never given twice (queueRename gives a carried write a new one, *)
(* so that an upload under way retires nothing but its own entry).         *)
THEOREM IdsAreUnique == Spec => []RowsNumbered
<1>1. QueueInv => RowsNumbered
  BY DEF QueueInv
<1> QED BY <1>1, InitQueue, StepQueue, PTL DEF Spec

(* The queue never waits for itself: however the user and the sync go on,  *)
(* a queue that is not empty has an entry that waits for no other.         *)
THEOREM QueueNeverStuck == Spec => []SomethingIsDue
  BY IdsAreUnique, NoCircularWait, PTL

-----------------------------------------------------------------------------
(* Folders and files: what the variables hold, and that every entry is of   *)
(* the kind of what stands at its paths.                                    *)

Versions == [kind : {"file"}, file : Paths \X Int, n : Nat]
Contents(p) == IF p \in FolderPaths THEN {None, Folder} ELSE {None} \cup Versions
IsTree(t) == DOMAIN t = Paths /\ \A p \in Paths : t[p] \in Contents(p)
IsBase(b) == DOMAIN b = Paths /\ \A p \in Paths : b[p] \in Contents(p) \ {Folder}

(* What an entry, or a change whose entry is owed, may speak of.            *)
OfItsKind(c) == /\ c.path \in Paths /\ c.to \in Paths /\ c.op \in {"write", "mkdir", "rename", "delete"}
                /\ c.op = "write" => c.path \in FilePaths /\ c.to = c.path
                /\ c.op = "mkdir" => c.path \in FolderPaths
                /\ c.op = "rename" => SameKind(c.path, c.to)
                /\ c.force \in BOOLEAN /\ (c.force => c.op = "write")
Movable(p, q) == SameKind(p, q) /\ \A r \in Paths : containsPath(p, r) => Rebase(r, p, q) \in Paths
Owable == {c \in Changes : OfItsKind(c) /\ (c.op = "rename" => Movable(c.path, c.to))}

(* What a push carries: a write, or a move whose source is missing, has a   *)
(* version to put where a file stands.                                      *)
IsJob(j) == /\ DOMAIN j = {"phase", "row", "content", "expected", "force"}
            /\ OfItsKind(j.row)
            /\ j.force \in BOOLEAN
            /\ j.row.op = "write" \/ j.force => j.content \in Versions /\ Written(j.row) \in FilePaths

KindInv == /\ IsTree(disk)
           /\ IsTree(remote)
           /\ IsBase(base)
           /\ edits \in Nat
           /\ \A r \in rows \cup pass : OfItsKind(r)
           /\ owed \in Seq(Owable)
           /\ job # Idle => IsJob(job)

(* Paths.  What contains what, name by name.                                *)
Names == UNION {Range(p) : p \in Paths}

LEMMA PathsAreSequences ==
  /\ Paths \subseteq Seq(Names) /\ \A p \in Paths : Len(p) \in Nat /\ Len(p) >= 1 /\ p # <<>>
  /\ \A p \in Paths : \A n \in 1..Len(p) : SubSeq(p, 1, n) \in Paths
<1>1. Paths \subseteq Seq(Names) /\ \A p \in Paths : p # <<>>
  BY SyncQueueAssumption DEF SyncQueueAssumption, Names
<1> HIDE DEF Names
<1>2. \A p \in Paths : Len(p) \in Nat \ {0}
  BY <1>1, EmptySeq
<1> QED BY <1>1, <1>2, SyncQueueAssumption DEF SyncQueueAssumption

LEMMA PathIsSequence ==
  ASSUME NEW p \in Paths
  PROVE  p \in Seq(Names) /\ Len(p) \in Nat /\ Len(p) >= 1
<1> HIDE DEF Names
<1> QED BY PathsAreSequences

LEMMA ContainsByName ==
  ASSUME NEW p \in Paths, NEW q \in Paths
  PROVE  containsPath(p, q) <=> Len(p) <= Len(q) /\ \A i \in 1..Len(p) : p[i] = q[i]
<1>1. p \in Seq(Names) /\ q \in Seq(Names)
  BY PathsAreSequences
<1> QED BY <1>1 DEF containsPath, IsPrefix

LEMMA SamePath ==
  ASSUME NEW p \in Paths, NEW q \in Paths, Len(p) = Len(q), \A i \in 1..Len(p) : p[i] = q[i]
  PROVE  p = q
<1> HIDE DEF Names
<1> QED BY PathsAreSequences, SeqEqual

LEMMA ContainsIsOrder ==
  /\ \A p \in Paths : containsPath(p, p)
  /\ \A p, q, r \in Paths : containsPath(p, q) /\ containsPath(q, r) => containsPath(p, r)
  /\ \A p, q \in Paths : containsPath(p, q) /\ containsPath(q, p) => p = q
  /\ \A p, q, r \in Paths : containsPath(p, r) /\ containsPath(q, r) => overlaps(p, q)
<1>1. \A p \in Paths : containsPath(p, p)
  BY ContainsByName, PathsAreSequences
<1>2. ASSUME NEW p \in Paths, NEW q \in Paths, NEW r \in Paths, containsPath(p, q), containsPath(q, r)
      PROVE  containsPath(p, r)
  <2>1. Len(p) <= Len(q) /\ \A i \in 1..Len(p) : p[i] = q[i]
    BY <1>2, ContainsByName
  <2>2. Len(q) <= Len(r) /\ \A i \in 1..Len(q) : q[i] = r[i]
    BY <1>2, ContainsByName
  <2>3. Len(p) \in Nat /\ Len(q) \in Nat /\ Len(r) \in Nat
    BY PathIsSequence
  <2>4. Len(p) <= Len(r) /\ \A i \in 1..Len(p) : p[i] = r[i]
    BY <2>1, <2>2, <2>3
  <2> QED BY <2>4, ContainsByName
<1>3. ASSUME NEW p \in Paths, NEW q \in Paths, containsPath(p, q), containsPath(q, p)
      PROVE  p = q
  <2>1. Len(p) <= Len(q) /\ Len(q) <= Len(p) /\ \A i \in 1..Len(p) : p[i] = q[i]
    BY <1>3, ContainsByName
  <2>2. Len(p) = Len(q)
    BY <2>1, PathIsSequence
  <2> QED BY <2>1, <2>2, SamePath
<1>4. ASSUME NEW p \in Paths, NEW q \in Paths, NEW r \in Paths, containsPath(p, r), containsPath(q, r)
      PROVE  overlaps(p, q)
  <2>1. Len(p) <= Len(q) => containsPath(p, q)
    BY <1>4, ContainsByName, PathsAreSequences
  <2>2. Len(q) <= Len(p) => containsPath(q, p)
    BY <1>4, ContainsByName, PathsAreSequences
  <2> QED BY <2>1, <2>2, PathsAreSequences DEF overlaps
<1> QED BY <1>1, <1>2, <1>3, <1>4

(* A path is in its parent, and so is it in whatever else contains it.      *)
LEMMA ParentIsPath ==
  ASSUME NEW p \in Paths, ~AtRoot(p)
  PROVE  /\ Parent(p) \in Paths /\ Parent(p) \in FolderPaths /\ Parent(p) # p
         /\ \A q \in Paths : q # p /\ containsPath(q, p) => containsPath(q, Parent(p))
<1>0. p \in Seq(Names) /\ Len(p) \in Nat /\ Len(p) >= 1
  BY PathIsSequence
<1>1. p \in Seq(Names) /\ Len(p) \in Nat /\ Len(p) >= 2
  <2>1. Len(p) # 1
    BY DEF AtRoot
  <2> DEFINE n == Len(p)
  <2>2. n \in Nat /\ n >= 1 /\ n # 1
    BY <1>0, <2>1
  <2> HIDE DEF n
  <2>3. n >= 2
    BY <2>2
  <2> QED BY <1>0, <2>3 DEF n
<1>2. Parent(p) = SubSeq(p, 1, Len(p) - 1) /\ Len(p) - 1 \in 1..Len(p)
  BY <1>1 DEF Parent, Front
<1>3. Parent(p) \in Paths
  BY <1>2, PathsAreSequences
<1>4. Len(Parent(p)) = Len(p) - 1 /\ \A i \in 1..(Len(p) - 1) : Parent(p)[i] = p[i]
  BY <1>1, <1>2
<1>5. ASSUME NEW q \in Paths, q # p, containsPath(q, p)
      PROVE  containsPath(q, Parent(p))
  <2>1. Len(q) \in Nat /\ Len(q) <= Len(p) /\ \A i \in 1..Len(q) : q[i] = p[i]
    BY <1>5, ContainsByName, PathsAreSequences
  <2>2. Len(q) # Len(p)
    BY <1>5, <2>1, SamePath
  <2>3. Len(q) <= Len(Parent(p)) /\ \A i \in 1..Len(q) : q[i] = Parent(p)[i]
    BY <1>1, <1>4, <2>1, <2>2
  <2> QED BY <1>3, <2>3, ContainsByName
<1> QED BY <1>1, <1>3, <1>4, <1>5 DEF FolderPaths

LEMMA RootIsNowhere ==
  ASSUME NEW p \in Paths, AtRoot(p), NEW q \in Paths, containsPath(q, p)
  PROVE  q = p
<1>1. Len(p) = 1 /\ Len(q) \in Nat /\ Len(q) >= 1
  BY PathIsSequence DEF AtRoot
<1>2. Len(q) <= Len(p) /\ \A i \in 1..Len(q) : q[i] = p[i]
  BY ContainsByName
<1> QED BY <1>1, <1>2, SamePath

LEMMA FoldersArePaths == FolderPaths \subseteq Paths
BY ParentIsPath DEF FolderPaths

LEMMA AboveIsFolder ==
  ASSUME NEW p \in Paths, NEW q \in Paths, p # q, containsPath(p, q)
  PROVE  p \in FolderPaths
<1> DEFINE n == Len(p) + 1
           r == SubSeq(q, 1, n)
<1>1. /\ p \in Seq(Names) /\ q \in Seq(Names) /\ Len(p) \in Nat /\ Len(q) \in Nat /\ Len(p) >= 1
      /\ Len(p) <= Len(q) /\ \A i \in 1..Len(p) : p[i] = q[i]
  BY ContainsByName, PathsAreSequences
<1>2. Len(p) # Len(q)
  BY <1>1, SamePath
<1>3. n \in 1..Len(q) /\ r \in Paths
  BY <1>1, <1>2, PathsAreSequences
<1>4. Len(r) = n /\ \A i \in 1..n : r[i] = q[i]
  BY <1>1, <1>3
<1> HIDE DEF r
<1>5. ~AtRoot(r) /\ r \in Seq(Names)
  BY <1>1, <1>3, <1>4, PathsAreSequences DEF AtRoot
<1>6. Parent(r) \in Paths /\ Len(Parent(r)) = Len(p) /\ \A i \in 1..Len(p) : Parent(r)[i] = p[i]
  BY <1>1, <1>3, <1>4, <1>5, ParentIsPath DEF Parent, Front
<1>7. Parent(r) = p
  BY <1>6, SamePath
<1> QED BY <1>3, <1>5, <1>7, ParentIsPath

(* What moves comes to stand below where it goes, as it stood below where   *)
(* it was.                                                                  *)
LEMMA RebaseByName ==
  ASSUME NEW p \in Paths, NEW q \in Paths, NEW r \in Paths, containsPath(p, r)
  PROVE  LET s == Rebase(r, p, q)
         IN /\ s \in Seq(Names) /\ Len(s) = Len(q) + (Len(r) - Len(p))
            /\ \A i \in 1..Len(s) : s[i] = IF i <= Len(q) THEN q[i] ELSE r[(i - Len(q)) + Len(p)]
<1>1. /\ p \in Seq(Names) /\ q \in Seq(Names) /\ r \in Seq(Names)
      /\ Len(p) \in Nat /\ Len(q) \in Nat /\ Len(r) \in Nat /\ Len(p) <= Len(r)
  BY ContainsByName, PathsAreSequences
<1> DEFINE u == SubSeq(r, Len(p) + 1, Len(r))
<1>2. /\ u \in Seq(Names) /\ Len(u) = Len(r) - Len(p)
      /\ \A i \in 1..Len(u) : u[i] = r[i + Len(p)]
  BY <1>1
<1> HIDE DEF u, Names
<1>3. Rebase(r, p, q) = q \o u
  BY DEF Rebase, u
<1>4. /\ q \o u \in Seq(Names) /\ Len(q \o u) = Len(q) + Len(u)
      /\ \A i \in 1..(Len(q) + Len(u)) : (q \o u)[i] = IF i <= Len(q) THEN q[i] ELSE u[i - Len(q)]
  <2>1. q \in Seq(Names) /\ u \in Seq(Names)
    BY <1>1, <1>2
  <2> QED BY <2>1, ConcatProperties
<1>5. ASSUME NEW i \in 1..(Len(q) + Len(u))
      PROVE  (q \o u)[i] = IF i <= Len(q) THEN q[i] ELSE r[(i - Len(q)) + Len(p)]
  <2>1. ~(i <= Len(q)) => i - Len(q) \in 1..Len(u)
    BY <1>1, <1>2
  <2> QED BY <1>2, <1>4, <2>1
<1> DEFINE v == q \o u
<1>6. /\ v \in Seq(Names) /\ Len(v) = Len(q) + (Len(r) - Len(p)) /\ Rebase(r, p, q) = v
      /\ \A i \in 1..Len(v) : v[i] = IF i <= Len(q) THEN q[i] ELSE r[(i - Len(q)) + Len(p)]
  BY <1>2, <1>3, <1>4, <1>5
<1> HIDE DEF v
<1> QED BY <1>6

LEMMA Kinds ==
  /\ None # Folder /\ None \notin Versions /\ Folder \notin Versions
  /\ \A p : None \in Contents(p) /\ (p \in FolderPaths => Folder \in Contents(p))
  /\ \A p \in FilePaths : Contents(p) = {None} \cup Versions
  /\ \A p, q : SameKind(p, q) => Contents(p) = Contents(q)
<1>1. None.kind = "none" /\ Folder.kind = "folder" /\ \A v \in Versions : v.kind = "file"
  BY DEF None, Folder, Versions
<1>2. None # Folder /\ None \notin Versions /\ Folder \notin Versions
  BY <1>1
<1> QED BY <1>2 DEF Contents, SameKind, FilePaths

LEMMA FileIsVersion ==
  ASSUME NEW p \in Paths, NEW x \in Contents(p), IsFile(x)
  PROVE  x \in Versions /\ p \in FilePaths
<1>1. None.kind = "none" /\ Folder.kind = "folder"
  BY DEF None, Folder
<1> QED BY <1>1 DEF IsFile, Contents, FilePaths

(* What stands below a path goes along to a place of its kind.              *)
LEMMA GoesToItsKind ==
  ASSUME NEW p \in Paths, NEW q \in Paths, SameKind(p, q), NEW r \in Paths, containsPath(p, r),
         Rebase(r, p, q) \in Paths
  PROVE  SameKind(r, Rebase(r, p, q)) /\ Contents(r) = Contents(Rebase(r, p, q))
<1>1. SameKind(r, Rebase(r, p, q))
  BY KindsAssumption
<1> QED BY <1>1, Kinds

LEMMA MovedIsTree ==
  ASSUME NEW t, IsTree(t), NEW p \in Paths, NEW q \in Paths, SameKind(p, q)
  PROVE  IsTree(Moved(t, p, q))
<1> SUFFICES ASSUME NEW r \in Paths
             PROVE  Moved(t, p, q)[r] \in Contents(r)
  BY DEF IsTree, Moved
<1>1. SameKind(q, p)
  BY DEF SameKind
<1>2. CASE containsPath(q, r) /\ Rebase(r, q, p) \in Paths
  <2>1. t[Rebase(r, q, p)] \in Contents(r)
    BY <1>1, <1>2, GoesToItsKind DEF IsTree
  <2>2. Moved(t, p, q)[r] = t[Rebase(r, q, p)]
    BY <1>2 DEF Moved
  <2> QED BY <2>1, <2>2
<1>3. CASE ~(containsPath(q, r) /\ Rebase(r, q, p) \in Paths)
  <2>1. Moved(t, p, q)[r] \in {None, t[r]}
    BY <1>3 DEF Moved
  <2> QED BY <2>1, Kinds DEF IsTree
<1> QED BY <1>2, <1>3

LEMMA WithoutIsTree ==
  ASSUME NEW t, IsTree(t), NEW p
  PROVE  IsTree(Without(t, p))
BY Kinds DEF IsTree, Without

LEMMA PutIsTree ==
  ASSUME NEW t, IsTree(t), NEW p \in Paths, NEW v \in Contents(p)
  PROVE  IsTree(Put(t, p, v))
<1>1. \A q \in Paths : q # p /\ containsPath(q, p) => Folder \in Contents(q)
  BY Kinds, AboveIsFolder
<1> QED BY <1>1 DEF IsTree, Put

LEMMA OneIsTree ==
  ASSUME NEW t, IsTree(t), NEW p \in Paths, NEW x \in Contents(p)
  PROVE  IsTree([t EXCEPT ![p] = x])
BY DEF IsTree

LEMMA OneIsBase ==
  ASSUME NEW b, IsBase(b), NEW p \in Paths, NEW x \in Contents(p), x # Folder
  PROVE  IsBase([b EXCEPT ![p] = x])
BY DEF IsBase

(* The rows of sync_state follow a move to places of their kind.            *)
LEMMA RowsFollow ==
  ASSUME IsBase(base), NEW p \in Paths, NEW q \in Paths, SameKind(p, q)
  PROVE  IsBase(renameSyncStateTree(p, q))
<1> SUFFICES ASSUME NEW r \in Paths
             PROVE  renameSyncStateTree(p, q)[r] \in Contents(r) \ {Folder}
  BY DEF IsBase, renameSyncStateTree
<1>1. SameKind(q, p)
  BY DEF SameKind
<1>2. CASE containsPath(q, r) /\ Rebase(r, q, p) \in Paths
  <2>1. base[Rebase(r, q, p)] \in Contents(r) \ {Folder}
    BY <1>1, <1>2, GoesToItsKind DEF IsBase
  <2> QED BY <1>2, <2>1, Kinds DEF renameSyncStateTree, IsBase
<1>3. CASE ~(containsPath(q, r) /\ Rebase(r, q, p) \in Paths)
  <2>1. renameSyncStateTree(p, q)[r] \in {None, base[r]}
    BY <1>3 DEF renameSyncStateTree
  <2> QED BY <2>1, Kinds DEF IsBase
<1> QED BY <1>2, <1>3

(* The user's changes. *)
LEMMA ChangeIsOwable ==
  ASSUME NEW op \in {"write", "mkdir", "rename", "delete"}, NEW p \in Paths, NEW q \in Paths,
         NEW below \in SUBSET Paths,
         op = "write" => p \in FilePaths /\ q = p, op = "mkdir" => p \in FolderPaths,
         op = "rename" => Movable(p, q)
  PROVE  Change(op, p, q, below) \in Owable
BY DEF Change, Owable, Changes, OfItsKind, Movable

LEMMA UserKeepsKinds ==
  ASSUME KindInv, User
  PROVE  KindInv'
<1>1. ASSUME NEW c \in Owable, Edited(c), IsTree(disk')
      PROVE  KindInv'
  BY <1>1 DEF Edited, KindInv
<1>2. ASSUME NEW p \in Paths, writeFile(p)
      PROVE  KindInv'
  <2>1. p \in FilePaths /\ edits' \in Nat
    BY <1>2 DEF writeFile, Edited, KindInv
  <2>2. Change("write", p, p, {}) \in Owable
    BY <2>1, ChangeIsOwable
  <2>3. CASE IsFile(disk[p])
    <3>1. disk[p] \in Versions
      BY <2>3, FileIsVersion DEF KindInv, IsTree
    <3>2. [disk[p] EXCEPT !.n = edits'] \in Contents(p)
      BY <2>1, <3>1, Kinds DEF Versions
    <3>3. disk' = [disk EXCEPT ![p] = [disk[p] EXCEPT !.n = edits']]
      BY <1>2, <2>3 DEF writeFile
    <3>4. IsTree(disk')
      BY <3>2, <3>3, OneIsTree DEF KindInv
    <3> QED BY <1>1, <1>2, <2>2, <3>4 DEF writeFile
  <2>4. CASE ~IsFile(disk[p])
    <3>1. Version(p, edits', edits') \in Contents(p)
      BY <2>1, Kinds DEF Version, Versions
    <3>2. disk' = [disk EXCEPT ![p] = Version(p, edits', edits')]
      BY <1>2, <2>4 DEF writeFile
    <3>3. IsTree(disk')
      BY <3>1, <3>2, OneIsTree DEF KindInv
    <3> QED BY <1>1, <1>2, <2>2, <3>3 DEF writeFile
  <2> QED BY <2>3, <2>4
<1>3. ASSUME NEW p \in Paths, createDir(p)
      PROVE  KindInv'
  <2>1. p \in FolderPaths /\ Change("mkdir", p, p, {}) \in Owable
    BY <1>3, ChangeIsOwable DEF createDir
  <2>2. IsTree(disk')
    BY <1>3, <2>1, Kinds, OneIsTree DEF KindInv, createDir
  <2> QED BY <1>1, <1>3, <2>1, <2>2 DEF createDir
<1>4. ASSUME NEW p \in Paths, NEW q \in Paths, renameItem(p, q)
      PROVE  KindInv'
  <2>1. Movable(p, q) /\ Change("rename", p, q, {}) \in Owable
    BY <1>4, ChangeIsOwable DEF renameItem, Movable
  <2>2. IsTree(disk')
    BY <1>4, <2>1, MovedIsTree DEF KindInv, renameItem, Movable
  <2> QED BY <1>1, <1>4, <2>1, <2>2 DEF renameItem
<1>5. ASSUME NEW p \in Paths, deleteItem(p)
      PROVE  KindInv'
  <2>1. Change("delete", p, p, FilesBelow(p)) \in Owable
    BY ChangeIsOwable, BelowIsFinite
  <2>2. IsTree(disk')
    BY <1>5, WithoutIsTree DEF KindInv, deleteItem
  <2> QED BY <1>1, <1>5, <2>1, <2>2 DEF deleteItem
<1> QED BY <1>2, <1>3, <1>4, <1>5 DEF User

-----------------------------------------------------------------------------
(* Entries. *)

LEMMA RowOfItsKind ==
  ASSUME NEW id, NEW op \in {"write", "mkdir", "rename", "delete"}, NEW p \in Paths, NEW q \in Paths,
         NEW force \in BOOLEAN,
         op = "write" => p \in FilePaths /\ q = p, op = "mkdir" => p \in FolderPaths,
         op = "rename" => SameKind(p, q), force => op = "write"
  PROVE  OfItsKind(Row(id, op, p, q, force))
BY DEF Row, OfItsKind

LEMMA WriteKinds ==
  ASSUME \A r \in rows : OfItsKind(r), NEW p \in FilePaths, NEW force \in BOOLEAN
  PROVE  \A r \in queueWrite(p, force) : OfItsKind(r)
<1>1. OfItsKind(Row(lastId + 1, "write", p, p, force))
  BY RowOfItsKind DEF FilePaths
<1> QED BY <1>1 DEF queueWrite

LEMMA NumberedKinds ==
  ASSUME NEW op \in {"write", "delete"}, NEW ps \in Seq(Paths), NEW force \in BOOLEAN,
         op = "write" => \A i \in DOMAIN ps : ps[i] \in FilePaths, force => op = "write"
  PROVE  \A r \in Numbered(op, ps, force) : OfItsKind(r)
<1> SUFFICES ASSUME NEW i \in DOMAIN ps
             PROVE  OfItsKind(Row(lastId + i, op, ps[i], ps[i], force))
  BY DEF Numbered
<1>1. ps[i] \in Paths
  OBVIOUS
<1> QED BY <1>1, RowOfItsKind

(* A write that a move carries along stays a file's. *)
LEMMA CarriedKinds ==
  ASSUME \A r \in rows : OfItsKind(r) /\ IsRow(r), NEW p \in Paths, NEW q \in Paths, Movable(p, q)
  PROVE  \A r \in queueRename(p, q) : OfItsKind(r)
<1> DEFINE Id(w) == lastId + 1 + Cardinality({v \in writesBelow(p) : v.id <= w.id})
           Again(w) == [w EXCEPT !.id = Id(w), !.path = Rebase(@, p, q), !.to = Rebase(@, p, q)]
<1>1. OfItsKind(Row(lastId + 1, "rename", p, q, FALSE))
  BY RowOfItsKind DEF Movable
<1>2. ASSUME NEW w \in writesBelow(p)
      PROVE  OfItsKind(Again(w))
  <2>1. /\ w.op = "write" /\ containsPath(p, w.path) /\ OfItsKind(w)
        /\ DOMAIN w = {"id", "op", "path", "to", "force", "wait"}
    BY <1>2 DEF writesBelow, IsRow
  <2>2. w.path \in FilePaths /\ w.to = w.path /\ w.path \in Paths
    BY <2>1 DEF OfItsKind
  <2>3. Rebase(w.path, p, q) \in Paths /\ Rebase(w.path, p, q) \in FilePaths
    BY <2>1, <2>2, GoesToItsKind DEF Movable, SameKind, FilePaths
  <2> HIDE DEF Id
  <2>4. /\ Again(w).op = w.op /\ Again(w).force = w.force
        /\ Again(w).path = Rebase(w.path, p, q) /\ Again(w).to = Rebase(w.path, p, q)
    BY <2>1, <2>2
  <2> QED BY <2>1, <2>3, <2>4 DEF OfItsKind
<1>3. queueRename(p, q) = (rows \ writesBelow(p)) \cup {Row(lastId + 1, "rename", p, q, FALSE)}
                          \cup {Again(w) : w \in writesBelow(p)}
  BY DEF queueRename
<1> HIDE DEF Again
<1> QED BY <1>1, <1>2, <1>3

LEMMA EntryKinds ==
  ASSUME \A r \in rows : OfItsKind(r) /\ IsRow(r), NEW c \in Owable
  PROVE  \A r \in enqueue(c) : OfItsKind(r)
<1>1. OfItsKind(c) /\ c \in Changes /\ (c.op = "rename" => Movable(c.path, c.to))
  BY DEF Owable
<1>2. CASE c.op = "write"
  <2>1. enqueue(c) = queueWrite(c.path, FALSE) /\ c.path \in FilePaths
    BY <1>1, <1>2 DEF enqueue, OfItsKind
  <2> QED BY <2>1, WriteKinds
<1>3. CASE c.op = "mkdir"
  <2>1. OfItsKind(Row(lastId + 1, "mkdir", c.path, c.path, FALSE))
    BY <1>1, <1>3, RowOfItsKind DEF OfItsKind
  <2>2. enqueue(c) = queueMkdir(c.path)
    BY <1>3 DEF enqueue
  <2> QED BY <2>1, <2>2 DEF queueMkdir
<1>4. CASE c.op = "delete"
  <2> DEFINE below == SetToSeq(c.below)
             ps == <<c.path>> \o below
  <2>1. enqueue(c) = rows \cup Numbered("delete", ps, FALSE)
    BY <1>4 DEF enqueue, queueDeletePaths
  <2>2. c.path \in Paths /\ c.below \in SUBSET Paths
    BY <1>1 DEF Changes
  <2>3. IsFiniteSet(c.below)
    BY <2>2, SyncQueueAssumption, FS_Subset DEF SyncQueueAssumption
  <2>4. below \in Seq(c.below)
    BY <2>3, SequenceOfSet
  <2> HIDE DEF below
  <2>5. ps \in Seq(Paths)
    BY <2>2, <2>4
  <2> HIDE DEF ps
  <2>6. \A r \in Numbered("delete", ps, FALSE) : OfItsKind(r)
    BY <2>5, NumberedKinds
  <2> QED BY <2>1, <2>6
<1>5. CASE c.op = "rename"
  <2>1. enqueue(c) = queueRename(c.path, c.to) /\ Movable(c.path, c.to) /\ c.path \in Paths /\ c.to \in Paths
    BY <1>1, <1>5 DEF enqueue, OfItsKind
  <2> QED BY <2>1, CarriedKinds
<1> QED BY <1>1, <1>2, <1>3, <1>4, <1>5 DEF OfItsKind

LEMMA WriteEntryKeepsKinds ==
  ASSUME QueueInv, KindInv, WriteEntry
  PROVE  KindInv'
<1> DEFINE c == Head(owed)
<1>1. c \in Owable /\ Tail(owed) \in Seq(Owable)
  BY DEF KindInv, WriteEntry
<1>2. \A r \in rows' : OfItsKind(r)
  BY <1>1, EntryKinds DEF QueueInv, KindInv, WriteEntry
<1>3. IsBase(base')
  <2>1. CASE c.op = "rename"
    <3>1. c.path \in Paths /\ c.to \in Paths /\ SameKind(c.path, c.to)
      BY <1>1, <2>1 DEF Owable, OfItsKind
    <3> QED BY <2>1, <3>1, RowsFollow DEF KindInv, WriteEntry
  <2>2. CASE c.op # "rename"
    BY <2>2 DEF KindInv, WriteEntry
  <2> QED BY <2>1, <2>2
<1> QED BY <1>1, <1>2, <1>3 DEF KindInv, WriteEntry

-----------------------------------------------------------------------------
(* The engine. *)

LEMMA HeldKinds ==
  ASSUME \A s \in rows : OfItsKind(s) /\ IsRow(s), NEW r
  PROVE  \A s \in Held(r) : OfItsKind(s)
<1>1. ASSUME NEW s \in rows
      PROVE  OfItsKind([s EXCEPT !.wait = TRUE])
  BY DEF OfItsKind, IsRow
<1> QED BY <1>1 DEF Held

LEMMA TakenKeepsKinds ==
  ASSUME KindInv, StartPass \/ \E r \in pass : Drop(r) \/ Send(r)
  PROVE  KindInv'
<1>1. CASE StartPass
  BY <1>1 DEF StartPass, KindInv, trees, getPendingOperations
<1>2. ASSUME NEW r \in pass, Drop(r)
      PROVE  KindInv'
  BY <1>2 DEF Drop, KindInv, trees, Retired
<1>3. ASSUME NEW r \in pass, Send(r)
      PROVE  KindInv'
  <2>1. OfItsKind(r) /\ r.path \in Paths
    BY DEF KindInv, OfItsKind
  <2>2. ASSUME r.op = "write"
        PROVE  disk[r.path] \in Versions /\ Written(r) \in FilePaths
    <3>1. r.path \in FilePaths /\ disk[r.path] # None
      BY <1>3, <2>1, <2>2 DEF Send, Settled, OfItsKind
    <3>2. disk[r.path] \in Contents(r.path)
      BY <2>1 DEF KindInv, IsTree
    <3> QED BY <2>2, <3>1, <3>2, Kinds DEF Written
  <2>3. IsJob(job')
    BY <1>3, <2>1, <2>2 DEF Send, IsJob, OfItsKind
  <2> QED BY <1>3, <2>3 DEF Send, KindInv, trees
<1> QED BY <1>1, <1>2, <1>3

(* A job goes on with another phase. *)
LEMMA JobGoesOn ==
  ASSUME IsJob(job), NEW phase
  PROVE  IsJob([job EXCEPT !.phase = phase])
<1> DEFINE j == [job EXCEPT !.phase = phase]
<1>1. DOMAIN j = DOMAIN job /\ j.row = job.row /\ j.force = job.force /\ j.content = job.content
  BY DEF IsJob
<1> HIDE DEF j
<1>2. IsJob(j)
  BY <1>1 DEF IsJob
<1> QED BY <1>2 DEF j

LEMMA Busy ==
  ASSUME KindInv, job.phase # "idle"
  PROVE  IsJob(job) /\ job # Idle /\ OfItsKind(job.row)
BY DEF KindInv, Idle, IsJob

LEMMA CarryKeepsKinds ==
  ASSUME KindInv, Carry
  PROVE  KindInv'
<1> DEFINE r == job.row
<1>1. IsJob(job) /\ OfItsKind(r) /\ r.path \in Paths /\ r.to \in Paths
  BY Busy DEF Carry, OfItsKind
<1>2. ASSUME NEW outcome, NEW t, Answers(outcome, t), IsTree(t)
      PROVE  KindInv'
  <2>1. IsJob(job') /\ remote' = t
    BY <1>1, <1>2, JobGoesOn DEF Answers
  <2> QED BY <1>2, <2>1 DEF Carry, KindInv
<1>3. IsTree(remote)
  BY DEF KindInv
<1>4. CASE r.op = "delete" /\ Answers("done", Without(remote, r.path))
  BY <1>2, <1>3, <1>4, WithoutIsTree
<1>5. CASE r.op = "mkdir" /\ Answers("done", Put(remote, r.path, Folder))
  <2>1. Folder \in Contents(r.path)
    BY <1>1, <1>5, Kinds DEF OfItsKind
  <2> QED BY <1>1, <1>2, <1>3, <1>5, <2>1, PutIsTree
<1>6. CASE (r.op = "write" \/ job.force) /\ Answers("done", Put(remote, Written(r), job.content))
  <2>1. Written(r) \in Paths /\ job.content \in Contents(Written(r))
    BY <1>1, <1>6, Kinds DEF IsJob, FilePaths
  <2> QED BY <1>2, <1>3, <1>6, <2>1, PutIsTree
<1>7. CASE r.op = "rename" /\ Answers("done", Moved(remote, r.path, r.to))
  BY <1>1, <1>2, <1>3, <1>7, MovedIsTree DEF OfItsKind
<1>8. CASE Answers("refused", remote) \/ Answers("missing", remote) \/ Answers("failed", remote)
  BY <1>2, <1>3, <1>8
<1>9. \/ r.op = "delete" /\ Answers("done", Without(remote, r.path))
      \/ r.op = "mkdir" /\ Answers("done", Put(remote, r.path, Folder))
      \/ (r.op = "write" \/ job.force) /\ Answers("done", Put(remote, Written(r), job.content))
      \/ r.op = "rename" /\ Answers("done", Moved(remote, r.path, r.to))
      \/ Answers("refused", remote) \/ Answers("missing", remote) \/ Answers("failed", remote)
  BY DEF Carry
<1> QED BY <1>4, <1>5, <1>6, <1>7, <1>8, <1>9

LEMMA FinishKeepsKinds ==
  ASSUME QueueInv, KindInv, Finish
  PROVE  KindInv'
<1> DEFINE r == job.row
<1>1. IsJob(job) /\ OfItsKind(r) /\ r.path \in Paths
  BY Busy DEF Finish, OfItsKind
<1>2. \A s \in Held(r) : OfItsKind(s)
  BY HeldKinds DEF QueueInv, KindInv
<1>3. rows' \in {rows, Retired(r), Held(r)}
  BY DEF Finish
<1>4. \A s \in rows' : OfItsKind(s)
  BY <1>2, <1>3 DEF KindInv, Retired
<1>5. IsBase(base')
  <2>1. CASE (r.op = "write" \/ job.force) /\ base' = [base EXCEPT ![Written(r)] = job.content]
    <3>1. /\ Written(r) \in FilePaths /\ job.content \in Contents(Written(r)) /\ job.content # Folder
          /\ Written(r) \in Paths
      BY <1>1, <2>1, Kinds DEF IsJob, FilePaths
    <3> QED BY <2>1, <3>1, OneIsBase DEF KindInv
  <2>2. CASE base' = [base EXCEPT ![r.path] = None]
    BY <1>1, <2>2, Kinds, OneIsBase DEF KindInv
  <2>3. CASE base' = base
    BY <2>3 DEF KindInv
  <2> QED BY <2>1, <2>2, <2>3 DEF Finish
<1> QED BY <1>4, <1>5 DEF KindInv, Finish

LEMMA SourceMissingKeepsKinds ==
  ASSUME KindInv, SourceMissing
  PROVE  KindInv'
<1> DEFINE r == job.row
           again == FilesBelow(r.to)
<1>1. IsJob(job) /\ OfItsKind(r) /\ r.to \in Paths
  BY Busy DEF SourceMissing, OfItsKind
<1>2. disk[r.to] \in Contents(r.to)
  BY <1>1 DEF KindInv, IsTree
<1>3. CASE rows' = Retired(r) /\ job' = Idle /\ UNCHANGED remote
  BY <1>3 DEF SourceMissing, KindInv, Retired
<1>4. CASE /\ disk[r.to] = Folder /\ remote' = Put(remote, r.to, Folder) /\ job' = Idle
           /\ \E some \in SUBSET rows : rows' = some \cup Numbered("write", SetToSeq(again), TRUE)
  <2>1. IsTree(remote')
    BY <1>1, <1>2, <1>4, PutIsTree DEF KindInv
  <2>2. \A p \in again : p \in FilePaths
    <3> SUFFICES ASSUME NEW p \in again PROVE p \in FilePaths
      OBVIOUS
    <3>1. p \in Paths /\ IsFile(disk[p]) /\ disk[p] \in Contents(p)
      BY DEF FilesBelow, KindInv, IsTree
    <3> QED BY <3>1, FileIsVersion
  <2>3. SetToSeq(again) \in Seq(again) /\ again \in SUBSET Paths
    BY BelowIsFinite, SequenceOfSet
  <2> DEFINE ps == SetToSeq(again)
  <2> HIDE DEF ps, again
  <2>4. ps \in Seq(Paths) /\ \A i \in DOMAIN ps : ps[i] \in FilePaths
    BY <2>2, <2>3 DEF ps
  <2>5. \A s \in Numbered("write", ps, TRUE) : OfItsKind(s)
    BY <2>4, NumberedKinds
  <2>6. \A s \in rows' : OfItsKind(s)
    BY <1>4, <2>5 DEF ps, KindInv
  <2> QED BY <1>4, <2>1, <2>6 DEF SourceMissing, KindInv
<1>5. CASE /\ IsFile(disk[r.to]) /\ job' = [job EXCEPT !.phase = "sent", !.content = disk[r.to], !.force = TRUE]
           /\ UNCHANGED <<rows, remote>>
  <2>1. disk[r.to] \in Versions /\ r.to \in FilePaths
    BY <1>1, <1>2, <1>5, FileIsVersion
  <2>2. Written(r) \in FilePaths
    BY <1>1, <2>1 DEF Written, OfItsKind
  <2>3. /\ DOMAIN job' = DOMAIN job /\ job'.row = r /\ job'.force = TRUE /\ job'.content = disk[r.to]
    BY <1>1, <1>5 DEF IsJob
  <2>4. IsJob(job')
    BY <1>1, <2>1, <2>2, <2>3 DEF IsJob
  <2> QED BY <1>5, <2>4 DEF SourceMissing, KindInv
<1>6. \/ rows' = Retired(r) /\ job' = Idle /\ UNCHANGED remote
      \/ /\ disk[r.to] = Folder /\ remote' = Put(remote, r.to, Folder) /\ job' = Idle
         /\ \E some \in SUBSET rows : rows' = some \cup Numbered("write", SetToSeq(again), TRUE)
      \/ /\ IsFile(disk[r.to]) /\ job' = [job EXCEPT !.phase = "sent", !.content = disk[r.to], !.force = TRUE]
         /\ UNCHANGED <<rows, remote>>
  BY DEF SourceMissing, Retired
<1> QED BY <1>3, <1>4, <1>5, <1>6

LEMMA WaitingKeepsKinds ==
  ASSUME QueueInv, KindInv, PushFails \/ \E r \in rows : BackoffOver(r)
  PROVE  KindInv'
<1>1. CASE PushFails
  <2>1. \A s \in Held(job.row) : OfItsKind(s)
    BY HeldKinds DEF QueueInv, KindInv
  <2> QED BY <1>1, <2>1 DEF PushFails, KindInv, trees
<1>2. ASSUME NEW r \in rows, BackoffOver(r)
      PROVE  KindInv'
  <2>1. OfItsKind([r EXCEPT !.wait = FALSE])
    <3>1. OfItsKind(r) /\ IsRow(r)
      BY DEF QueueInv, KindInv
    <3> QED BY <3>1 DEF OfItsKind, IsRow
  <2> QED BY <1>2, <2>1 DEF BackoffOver, KindInv, trees
<1> QED BY <1>1, <1>2

(* The pull. *)
LEMMA RequeuesKinds ==
  ASSUME KindInv, NEW p \in FilePaths, NEW again, Requeues(p, again)
  PROVE  \A r \in rows' : OfItsKind(r)
<1>1. \A r \in queueWrite(p, FALSE) : OfItsKind(r)
  BY WriteKinds DEF KindInv
<1> QED BY <1>1 DEF Requeues, KindInv

LEMMA PullKeepsKinds ==
  ASSUME KindInv, Pull
  PROVE  KindInv'
<1>1. ASSUME NEW p \in Paths, IsFile(remote[p])
      PROVE  p \in FilePaths /\ remote[p] \in Versions /\ IsBase([base EXCEPT ![p] = remote[p]])
  <2>1. p \in FilePaths /\ remote[p] \in Versions
    BY <1>1, FileIsVersion DEF KindInv, IsTree
  <2>2. remote[p] \in Contents(p) /\ remote[p] # Folder
    BY <2>1, Kinds
  <2> QED BY <2>1, <2>2, OneIsBase DEF KindInv
<1>2. ASSUME NEW p \in Paths, Download(p)
      PROVE  KindInv'
  <2>1. IsTree(disk') /\ IsBase(base')
    BY <1>1, <1>2, PutIsTree DEF Download, KindInv, IsTree
  <2> QED BY <1>2, <2>1 DEF Download, KindInv
<1>3. ASSUME NEW p \in Paths, Reconcile(p)
      PROVE  KindInv'
  <2>1. IsBase(base') /\ \A r \in rows' : OfItsKind(r)
    BY <1>1, <1>3, RequeuesKinds DEF Reconcile
  <2> QED BY <1>3, <2>1 DEF Reconcile, KindInv
<1>4. ASSUME NEW p \in Paths, MirrorDeletion(p)
      PROVE  KindInv'
  <2>1. p \in FilePaths /\ None \in Contents(p) /\ None # Folder
    BY <1>4, Kinds DEF MirrorDeletion
  <2>2. \A r \in rows' : OfItsKind(r)
    BY <1>4, <2>1, RequeuesKinds DEF MirrorDeletion
  <2>3. IsBase(base')
    BY <1>4, <2>1, OneIsBase DEF MirrorDeletion, KindInv
  <2>4. IsTree(disk')
    BY <1>4, <2>1, OneIsTree DEF MirrorDeletion, KindInv
  <2> QED BY <1>4, <2>2, <2>3, <2>4 DEF MirrorDeletion, KindInv
<1> QED BY <1>2, <1>3, <1>4 DEF Pull

-----------------------------------------------------------------------------
LEMMA InitKinds == Init => KindInv
<1> SUFFICES ASSUME Init PROVE KindInv
  OBVIOUS
<1>1. PICK t \in Trees :
        /\ disk = [p \in Paths |-> CASE t[p] \in {"none", "away"} -> None
                                     [] t[p] = "folder" -> Folder
                                     [] t[p] = "file" -> Version(p, 0, 0)]
        /\ remote = [p \in Paths |-> IF t[p] = "away" THEN Version(p, Elsewhere, 0) ELSE disk[p]]
  BY DEF Init
<1>2. \A p \in FilePaths : Version(p, 0, 0) \in Versions /\ Version(p, Elsewhere, 0) \in Versions
  BY DEF Version, Versions, Elsewhere, FilePaths
<1>3. IsTree(disk)
  <2> SUFFICES ASSUME NEW p \in Paths PROVE disk[p] \in Contents(p)
    BY <1>1 DEF IsTree
  <2>1. CASE p \in FolderPaths
    <3>1. t[p] \in {"none", "folder"}
      BY <2>1, KindsAssumption
    <3>2. disk[p] \in {None, Folder}
      BY <1>1, <3>1
    <3> QED BY <2>1, <3>2, Kinds
  <2>2. CASE p \in FilePaths
    <3>1. t[p] \in {"none", "file", "away"}
      BY <2>2, KindsAssumption
    <3>2. disk[p] \in {None, Version(p, 0, 0)}
      BY <1>1, <3>1
    <3> QED BY <1>2, <2>2, <3>2, Kinds
  <2> QED BY <2>1, <2>2 DEF FilePaths
<1>4. IsTree(remote)
  <2> SUFFICES ASSUME NEW p \in Paths PROVE remote[p] \in Contents(p)
    BY <1>1 DEF IsTree
  <2>1. CASE t[p] = "away"
    <3>1. p \in FilePaths
      BY <2>1, KindsAssumption DEF FilePaths
    <3> QED BY <1>1, <1>2, <2>1, <3>1, Kinds
  <2>2. CASE t[p] # "away"
    BY <1>1, <1>3, <2>2 DEF IsTree
  <2> QED BY <2>1, <2>2
<1>5. IsBase(base)
  <2> SUFFICES ASSUME NEW p \in Paths PROVE base[p] \in Contents(p) \ {Folder}
    BY DEF IsBase, Init
  <2>1. base[p] = IF IsFile(disk[p]) THEN disk[p] ELSE None
    BY DEF Init
  <2>2. disk[p] \in Contents(p)
    BY <1>3 DEF IsTree
  <2> QED BY <2>1, <2>2, FileIsVersion, Kinds
<1>6. edits = 0 /\ rows = {} /\ pass = {} /\ owed = <<>> /\ job = Idle
  BY DEF Init
<1> QED BY <1>3, <1>4, <1>5, <1>6 DEF KindInv

LEMMA KindStep ==
  ASSUME QueueInv, KindInv, [Next]_vars
  PROVE  KindInv'
<1>1. CASE Sync
  <2>1. CASE WriteEntry
    BY <2>1, WriteEntryKeepsKinds
  <2>2. CASE StartPass \/ \E r \in pass : Drop(r) \/ Send(r)
    BY <2>2, TakenKeepsKinds
  <2>3. CASE Carry
    BY <2>3, CarryKeepsKinds
  <2>4. CASE Finish
    BY <2>4, FinishKeepsKinds
  <2>5. CASE SourceMissing
    BY <2>5, SourceMissingKeepsKinds
  <2>6. CASE \E r \in rows : BackoffOver(r)
    BY <2>6, WaitingKeepsKinds
  <2> QED BY <1>1, <2>1, <2>2, <2>3, <2>4, <2>5, <2>6 DEF Sync
<1>2. CASE UNCHANGED vars
  BY <1>2 DEF vars, KindInv
<1> QED BY <1>1, <1>2, UserKeepsKinds, PullKeepsKinds, WaitingKeepsKinds DEF Next

(* A path is a folder's or a file's for good, on the device, on the remote  *)
(* and in sync_state, whatever moves and whatever is pushed late: no push   *)
(* of an entry puts a file where a folder stands or the other way round     *)
(* (queueRename, processQueue, pull).                                       *)
THEOREM KindsAreKept == Spec => []TypeOK
<1>1. QueueInv /\ KindInv => TypeOK
  <2> SUFFICES ASSUME QueueInv, KindInv PROVE TypeOK
    OBVIOUS
  <2>1. \A p \in FolderPaths \cap Paths : {disk[p], remote[p]} \subseteq {None, Folder} /\ base[p] = None
    BY DEF KindInv, IsTree, IsBase, Contents
  <2>2. FolderPaths \subseteq Paths
    BY FoldersArePaths
  <2>3. \A p \in FilePaths : Folder \notin {disk[p], remote[p], base[p]}
    BY Kinds DEF KindInv, IsTree, IsBase, FilePaths
  <2> HIDE DEF FolderPaths
  <2> QED BY <2>1, <2>2, <2>3 DEF TypeOK, QueueInv
<1>2. QueueInv /\ KindInv /\ [Next]_vars => QueueInv' /\ KindInv'
  BY StepQueue, KindStep
<1> QED BY <1>1, <1>2, InitQueue, InitKinds, PTL DEF Spec

-----------------------------------------------------------------------------
(* Where a file is on its way to.  The moves that wait take every copy of   *)
(* it, here, on the remote and in a push, to one place.                     *)

LEMMA RebaseBack ==
  ASSUME NEW p \in Paths, NEW q \in Paths, NEW r \in Paths, containsPath(p, r), Rebase(r, p, q) \in Paths
  PROVE  containsPath(q, Rebase(r, p, q)) /\ Rebase(Rebase(r, p, q), q, p) = r
<1> DEFINE s == Rebase(r, p, q)
<1>1. /\ Len(s) = Len(q) + (Len(r) - Len(p))
      /\ \A i \in 1..Len(s) : s[i] = IF i <= Len(q) THEN q[i] ELSE r[(i - Len(q)) + Len(p)]
  BY RebaseByName
<1>2. /\ Len(p) \in Nat /\ Len(q) \in Nat /\ Len(r) \in Nat /\ Len(p) <= Len(r) /\ r \in Seq(Names)
      /\ \A i \in 1..Len(p) : p[i] = r[i]
  BY ContainsByName, PathIsSequence
<1> HIDE DEF s
<1>3. s \in Paths
  BY DEF s
<1>4. containsPath(q, s)
  BY <1>1, <1>2, <1>3, ContainsByName
<1> DEFINE b == Rebase(s, q, p)
<1>5. /\ b \in Seq(Names) /\ Len(b) = Len(p) + (Len(s) - Len(q))
      /\ \A i \in 1..Len(b) : b[i] = IF i <= Len(p) THEN p[i] ELSE s[(i - Len(p)) + Len(q)]
  BY <1>3, <1>4, RebaseByName
<1> HIDE DEF b
<1>6. Len(b) = Len(r)
  BY <1>1, <1>2, <1>5
<1>7. ASSUME NEW i \in 1..Len(b)
      PROVE  b[i] = r[i]
  <2>1. CASE i <= Len(p)
    BY <1>2, <1>5, <2>1
  <2>2. CASE ~(i <= Len(p))
    <3> DEFINE k == (i - Len(p)) + Len(q)
    <3>1. k \in 1..Len(s) /\ ~(k <= Len(q)) /\ (k - Len(q)) + Len(p) = i
      BY <1>1, <1>2, <1>6, <2>2
    <3>2. b[i] = s[k]
      BY <1>5, <2>2
    <3> HIDE DEF k
    <3>3. s[k] = r[(k - Len(q)) + Len(p)]
      BY <1>1, <3>1
    <3> QED BY <3>1, <3>2, <3>3
  <2> QED BY <2>1, <2>2
<1> HIDE DEF Names
<1>8. b = r
  BY <1>2, <1>5, <1>6, <1>7, SeqEqual
<1> QED BY <1>4, <1>8 DEF s, b

LEMMA RebaseAbove ==
  ASSUME NEW p \in Paths, NEW q \in Paths, NEW x \in Paths, NEW y \in Paths,
         containsPath(p, x), containsPath(x, y), Rebase(y, p, q) \in Paths
  PROVE  Rebase(x, p, q) \in Paths /\ containsPath(Rebase(x, p, q), Rebase(y, p, q))
<1> DEFINE u == Rebase(x, p, q)
           v == Rebase(y, p, q)
<1>1. containsPath(p, y)
  BY ContainsIsOrder
<1>2. /\ u \in Seq(Names) /\ Len(u) = Len(q) + (Len(x) - Len(p))
      /\ \A i \in 1..Len(u) : u[i] = IF i <= Len(q) THEN q[i] ELSE x[(i - Len(q)) + Len(p)]
  BY RebaseByName
<1>3. /\ v \in Seq(Names) /\ Len(v) = Len(q) + (Len(y) - Len(p))
      /\ \A i \in 1..Len(v) : v[i] = IF i <= Len(q) THEN q[i] ELSE y[(i - Len(q)) + Len(p)]
  BY <1>1, RebaseByName
<1>4. /\ Len(p) \in Nat /\ Len(q) \in Nat /\ Len(x) \in Nat /\ Len(y) \in Nat /\ Len(q) >= 1
      /\ Len(p) <= Len(x) /\ Len(x) <= Len(y) /\ \A i \in 1..Len(x) : x[i] = y[i]
  BY ContainsByName, PathIsSequence
<1> HIDE DEF u, v
<1>5. v \in Paths
  BY DEF v
<1>6. Len(u) \in 1..Len(v) /\ Len(u) <= Len(v)
  BY <1>2, <1>3, <1>4
<1>7. ASSUME NEW i \in 1..Len(u)
      PROVE  u[i] = v[i]
  <2>0. i \in 1..Len(u) /\ i \in 1..Len(v)
    BY <1>2, <1>3, <1>4, <1>6
  <2>1. CASE i <= Len(q)
    BY <1>2, <1>3, <2>0, <2>1
  <2>2. CASE ~(i <= Len(q))
    <3> DEFINE k == (i - Len(q)) + Len(p)
    <3>1. k \in 1..Len(x) /\ i \in 1..Len(v)
      BY <1>2, <1>3, <1>4, <1>6, <2>2
    <3>2. u[i] = x[k] /\ v[i] = y[k]
      BY <1>2, <1>3, <2>2, <3>1
    <3> QED BY <1>4, <3>1, <3>2
  <2> QED BY <2>1, <2>2
<1> DEFINE w == SubSeq(v, 1, Len(u))
<1>8. w \in Paths
  BY <1>5, <1>6, PathsAreSequences
<1>9. w \in Seq(Names) /\ Len(w) = Len(u) /\ \A i \in 1..Len(u) : w[i] = v[i]
  BY <1>3, <1>6
<1> HIDE DEF w, Names
<1>10. u = w
  BY <1>2, <1>7, <1>9, SeqEqual
<1>11. u \in Paths
  BY <1>8, <1>10
<1>12. containsPath(u, v)
  BY <1>5, <1>6, <1>7, <1>11, ContainsByName
<1> QED BY <1>11, <1>12 DEF u, v

(* A tree in which everything stands in a folder.                           *)
Rooted(t) == \A p, q \in Paths : p # q /\ containsPath(p, q) /\ t[q] # None => t[p] = Folder

LEMMA WithoutIsRooted ==
  ASSUME NEW t, Rooted(t), NEW top \in Paths
  PROVE  Rooted(Without(t, top))
BY ContainsIsOrder DEF Rooted, Without

LEMMA PutIsRooted ==
  ASSUME NEW t, IsTree(t), Rooted(t), NEW p \in Paths, NEW x \in Contents(p), x # None
  PROVE  Rooted(Put(t, p, x))
<1> SUFFICES ASSUME NEW a \in Paths, NEW b \in Paths, a # b, containsPath(a, b), Put(t, p, x)[b] # None
             PROVE  Put(t, p, x)[a] = Folder
  BY DEF Rooted
<1>1. CASE containsPath(b, p)
  <2>1. containsPath(a, p) /\ a # p
    BY <1>1, ContainsIsOrder
  <2> QED BY <2>1 DEF Put
<1>2. CASE ~containsPath(b, p)
  <2>1. b # p
    BY <1>2, ContainsIsOrder
  <2>2. t[b] # None
    BY <1>2, <2>1 DEF Put
  <2>3. t[a] = Folder /\ a \in FolderPaths
    BY <2>2, AboveIsFolder DEF Rooted
  <2>4. a = p => x = Folder
    BY <2>3, Kinds DEF Contents
  <2> QED BY <2>3, <2>4 DEF Put
<1> QED BY <1>1, <1>2

(* There is a folder for what goes to p.                                    *)
HasFolder(t, p) == AtRoot(p) \/ t[Parent(p)] = Folder

LEMMA FolderAbove ==
  ASSUME NEW t, Rooted(t), NEW p \in Paths, HasFolder(t, p)
  PROVE  \A a \in Paths : a # p /\ containsPath(a, p) => t[a] = Folder
<1> SUFFICES ASSUME NEW a \in Paths, a # p, containsPath(a, p)
             PROVE  t[a] = Folder
  OBVIOUS
<1>1. ~AtRoot(p)
  BY RootIsNowhere
<1>2. Parent(p) \in Paths /\ containsPath(a, Parent(p)) /\ t[Parent(p)] = Folder
  BY <1>1, ParentIsPath DEF HasFolder
<1> QED BY <1>2, Kinds DEF Rooted

LEMMA OneIsRooted ==
  ASSUME NEW t, IsTree(t), Rooted(t), NEW p \in Paths, NEW x \in Contents(p),
         \/ x # None /\ (t[p] # None \/ HasFolder(t, p))
         \/ x = None /\ p \in FilePaths
  PROVE  Rooted([t EXCEPT ![p] = x])
<1> DEFINE u == [t EXCEPT ![p] = x]
<1> SUFFICES ASSUME NEW a \in Paths, NEW b \in Paths, a # b, containsPath(a, b), u[b] # None
             PROVE  u[a] = Folder
  BY DEF Rooted
<1>0. DOMAIN t = Paths
  BY DEF IsTree
<1>1. a \in FolderPaths
  BY AboveIsFolder
<1>2. CASE b = p
  <2>1. t[a] = Folder
    BY <1>0, <1>2, FolderAbove DEF Rooted
  <2> QED BY <1>0, <1>2, <2>1
<1>3. CASE b # p
  <2>1. t[a] = Folder
    BY <1>0, <1>3 DEF Rooted
  <2>2. a = p => x = Folder
    BY <1>1, Kinds DEF Contents, FilePaths
  <2> QED BY <1>0, <2>1, <2>2
<1> QED BY <1>2, <1>3

LEMMA MovedIsRooted ==
  ASSUME NEW t, IsTree(t), Rooted(t), NEW p \in Paths, NEW q \in Paths, ~overlaps(p, q), HasFolder(t, q)
  PROVE  Rooted(Moved(t, p, q))
<1> SUFFICES ASSUME NEW a \in Paths, NEW b \in Paths, a # b, containsPath(a, b), Moved(t, p, q)[b] # None
             PROVE  Moved(t, p, q)[a] = Folder
  BY DEF Rooted
<1>1. CASE containsPath(q, b)
  <2> DEFINE y == Rebase(b, q, p)
  <2>1. y \in Paths /\ t[y] # None
    BY <1>1 DEF Moved
  <2>2. CASE containsPath(q, a)
    <3> DEFINE x == Rebase(a, q, p)
    <3>1. x \in Paths /\ containsPath(x, y)
      BY <2>1, <2>2, RebaseAbove
    <3>2. x # y
      BY <1>1, <2>1, <2>2, <3>1, RebaseBack
    <3>3. t[x] = Folder
      BY <2>1, <3>1, <3>2 DEF Rooted
    <3> QED BY <2>2, <3>1, <3>3 DEF Moved
  <2>3. CASE ~containsPath(q, a)
    <3>1. containsPath(a, q) /\ a # q
      BY <1>1, <2>3, ContainsIsOrder DEF overlaps
    <3>2. t[a] = Folder
      BY <3>1, FolderAbove
    <3>3. ~containsPath(p, a)
      BY <3>1, ContainsIsOrder DEF overlaps
    <3> QED BY <2>3, <3>2, <3>3 DEF Moved
  <2> QED BY <2>2, <2>3
<1>2. CASE ~containsPath(q, b)
  <2>1. ~containsPath(p, b) /\ t[b] # None
    BY <1>2 DEF Moved
  <2>2. ~containsPath(q, a) /\ ~containsPath(p, a)
    BY <1>2, <2>1, ContainsIsOrder
  <2>3. t[a] = Folder
    BY <2>1 DEF Rooted
  <2> QED BY <2>2, <2>3 DEF Moved
<1> QED BY <1>1, <1>2

-----------------------------------------------------------------------------
(* Trails.  A move takes along what stands where it starts or below; what   *)
(* stands at p goes with each queued move in the order of their ids, then   *)
(* with each that is owed.                                                  *)
Takes(c, x) == c.op = "rename" /\ containsPath(c.path, x)
Goes(c, x, y) == y = IF Takes(c, x) THEN Rebase(x, c.path, c.to) ELSE x
GoesBy(R, i, x, y) == /\ \A s \in R : s.id = i /\ Takes(s, x) => y = Rebase(x, s.path, s.to)
                      /\ (\A s \in R : s.id = i => ~Takes(s, x)) => y = x
Trail(R, n, f) == f \in [0..n -> Paths] /\ \A i \in 1..n : GoesBy(R, i, f[i - 1], f[i])
OwedTrail(o, g) == g \in [0..Len(o) -> Paths] /\ \A i \in 1..Len(o) : Goes(o[i], g[i - 1], g[i])

QueueLeads(R, n, p, m) == \E f \in [0..n -> Paths] : Trail(R, n, f) /\ f[0] = p /\ f[n] = m
OwedLeads(o, m, q) == \E g \in [0..Len(o) -> Paths] : OwedTrail(o, g) /\ g[0] = m /\ g[Len(o)] = q
Leads(p, q) == \E m \in Paths : QueueLeads(rows, lastId, p, m) /\ OwedLeads(owed, m, q)

(* Nothing moves where no move takes it along.                              *)
LEMMA StaysPut ==
  ASSUME NEW R, NEW n \in Nat, NEW f, Trail(R, n, f), NEW k \in 0..n,
         \A s \in R : s.id \in 1..k => ~Takes(s, f[0])
  PROVE  \A i \in 0..k : f[i] = f[0]
<1> DEFINE S == {i \in 0..k : f[i] # f[0]}
<1> SUFFICES ASSUME S # {} PROVE FALSE
  OBVIOUS
<1>1. S \subseteq Nat
  OBVIOUS
<1>2. PICK i \in S : \A j \in S : i <= j
  BY <1>1, LeastOf
<1>3. i \in 1..k /\ i \in 1..n /\ i - 1 \in 0..k /\ f[i - 1] = f[0]
  BY <1>2
<1>4. GoesBy(R, i, f[0], f[i])
  BY <1>3 DEF Trail
<1>5. f[i] = f[0]
  BY <1>3, <1>4 DEF GoesBy
<1> QED BY <1>2, <1>5

LEMMA OwedStaysPut ==
  ASSUME NEW o \in Seq(Owable), NEW g, OwedTrail(o, g), \A i \in 1..Len(o) : ~Takes(o[i], g[0])
  PROVE  g[Len(o)] = g[0]
<1> DEFINE S == {i \in 0..Len(o) : g[i] # g[0]}
<1>0. Len(o) \in Nat
  OBVIOUS
<1> SUFFICES ASSUME S # {} PROVE FALSE
  BY <1>0
<1>1. S \subseteq Nat
  OBVIOUS
<1>2. PICK i \in S : \A j \in S : i <= j
  BY <1>1, LeastOf
<1>3. i \in 1..Len(o) /\ i - 1 \in 0..Len(o) /\ g[i - 1] = g[0]
  BY <1>0, <1>2
<1>4. Goes(o[i], g[0], g[i])
  BY <1>3 DEF OwedTrail
<1>5. g[i] = g[0]
  BY <1>3, <1>4 DEF Goes
<1> QED BY <1>2, <1>5

(* What has moved stands where a move brought it.                           *)
LEMMA ComesFrom ==
  ASSUME NEW R, \A s \in R : OfItsKind(s), NEW n \in Nat, NEW f, Trail(R, n, f)
  PROVE  \A i \in 0..n : \/ f[i] = f[0]
                         \/ \E s \in R : s.op = "rename" /\ s.id \in 1..i /\ containsPath(s.to, f[i])
<1> DEFINE By(i, x) == \E s \in R : s.op = "rename" /\ s.id \in 1..i /\ containsPath(s.to, x)
           S == {i \in 0..n : f[i] # f[0] /\ ~By(i, f[i])}
<1> SUFFICES ASSUME S # {} PROVE FALSE
  OBVIOUS
<1>1. S \subseteq Nat
  OBVIOUS
<1>2. PICK i \in S : \A j \in S : i <= j
  BY <1>1, LeastOf
<1>3. i \in 1..n /\ i - 1 \in 0..n /\ (f[i - 1] = f[0] \/ By(i - 1, f[i - 1]))
  BY <1>2
<1>4. GoesBy(R, i, f[i - 1], f[i]) /\ f[i] \in Paths /\ f[i - 1] \in Paths
  BY <1>3 DEF Trail
<1>5. CASE \E s \in R : s.id = i /\ Takes(s, f[i - 1])
  <2>1. PICK s \in R : s.id = i /\ Takes(s, f[i - 1])
    BY <1>5
  <2>2. s.path \in Paths /\ s.to \in Paths /\ containsPath(s.path, f[i - 1]) /\ f[i] = Rebase(f[i - 1], s.path, s.to)
    BY <1>4, <2>1 DEF GoesBy, Takes, OfItsKind
  <2>3. containsPath(s.to, f[i])
    BY <1>4, <2>2, RebaseBack
  <2>4. By(i, f[i])
    BY <1>3, <2>1, <2>3 DEF Takes
  <2> QED BY <1>2, <2>4
<1>6. CASE \A s \in R : s.id = i => ~Takes(s, f[i - 1])
  <2>1. f[i] = f[i - 1]
    BY <1>4, <1>6 DEF GoesBy
  <2>2. f[i] = f[0] \/ By(i, f[i])
    BY <1>3, <2>1
  <2> QED BY <1>2, <2>2
<1> QED BY <1>5, <1>6

(* An entry that stands in for another, and queues that hold the same moves *)
(* up to the id n.                                                          *)
Same(s, t) == s.id = t.id /\ s.op = t.op /\ s.path = t.path /\ s.to = t.to
SameMoves(R, S, n) ==
  /\ \A s \in R : s.op = "rename" /\ s.id <= n => \E t \in S : Same(s, t)
  /\ \A t \in S : t.op = "rename" /\ t.id <= n => \E s \in R : Same(t, s)

LEMMA SameGoes ==
  ASSUME NEW R, NEW S, NEW n \in Nat, NEW i \in 1..n, SameMoves(R, S, n), NEW x, NEW y, GoesBy(R, i, x, y)
  PROVE  GoesBy(S, i, x, y)
<1>1. ASSUME NEW t \in S, t.id = i, Takes(t, x)
      PROVE  \E s \in R : s.id = i /\ Takes(s, x) /\ s.path = t.path /\ s.to = t.to
  BY <1>1 DEF SameMoves, Same, Takes
<1>2. ASSUME NEW s \in R, s.id = i, Takes(s, x)
      PROVE  \E t \in S : t.id = i /\ Takes(t, x)
  BY <1>2 DEF SameMoves, Same, Takes
<1> QED BY <1>1, <1>2 DEF GoesBy

(* A queue that holds the same moves and then perhaps one more leads on as  *)
(* far as that one takes.                                                   *)
LEMMA LeadsOn ==
  ASSUME NEW R, NEW S, NEW n \in Nat, NEW m \in Nat, n <= m, SameMoves(R, S, n),
         \A t \in S : t.op = "rename" => t.id <= n + 1,
         NEW p, NEW x, NEW y \in Paths, QueueLeads(R, n, p, x),
         IF n < m THEN GoesBy(S, n + 1, x, y) ELSE y = x
  PROVE  QueueLeads(S, m, p, y)
<1>1. PICK f \in [0..n -> Paths] : Trail(R, n, f) /\ f[0] = p /\ f[n] = x
  BY DEF QueueLeads
<1> DEFINE g == [i \in 0..m |-> IF i <= n THEN f[i] ELSE y]
<1>2. g \in [0..m -> Paths]
  OBVIOUS
<1>3. g[0] = p /\ g[m] = y
  BY <1>1
<1>4. ASSUME NEW i \in 1..m
      PROVE  GoesBy(S, i, g[i - 1], g[i])
  <2>1. CASE i <= n
    <3>1. i \in 1..n /\ g[i - 1] = f[i - 1] /\ g[i] = f[i]
      BY <2>1
    <3> HIDE DEF g
    <3> QED BY <1>1, <3>1, SameGoes DEF Trail
  <2>2. CASE i = n + 1
    <3>1. g[i - 1] = x /\ g[i] = y /\ n < m
      BY <1>1, <2>2
    <3> HIDE DEF g
    <3> QED BY <2>2, <3>1
  <2>3. CASE i > n + 1
    <3>1. g[i - 1] = y /\ g[i] = y
      BY <2>3
    <3> HIDE DEF g
    <3>2. \A t \in S : t.id = i => ~Takes(t, y)
      BY <2>3 DEF Takes
    <3> QED BY <3>1, <3>2 DEF GoesBy
  <2> QED BY <2>1, <2>2, <2>3
<1> HIDE DEF g
<1> QED BY <1>2, <1>3, <1>4 DEF QueueLeads, Trail

LEMMA LeadsTheSame ==
  ASSUME NEW R, NEW S, NEW n \in Nat, NEW m \in Nat, n <= m, SameMoves(R, S, n),
         \A t \in S : t.op = "rename" => t.id <= n,
         \A t \in S : t.id \in Int, NEW p, NEW x \in Paths, QueueLeads(R, n, p, x)
  PROVE  QueueLeads(S, m, p, x)
<1>1. \A t \in S : t.id = n + 1 => ~Takes(t, x)
  BY DEF Takes
<1>2. GoesBy(S, n + 1, x, x)
  BY <1>1 DEF GoesBy
<1> QED BY <1>2, LeadsOn

(* No entry before r that moves or takes away is about the same paths.      *)
Foremost(R, r) == \A s \in R : s.op # "write" /\ s.id < r.id => ~Touches(s, r)

LEMMA NotTaken ==
  ASSUME NEW r, r.op = "rename", OfItsKind(r), NEW s, s.op = "rename", OfItsKind(s), ~Touches(s, r)
  PROVE  ~overlaps(s.path, r.path) /\ ~overlaps(s.to, r.path) /\ ~overlaps(s.path, r.to)
BY DEF Touches, endpoints

(* A move the remote has made, or need not make any more, is retired: what  *)
(* is not where it started goes where it went before.                       *)
LEMMA LeadsWithout ==
  ASSUME NEW R, NEW S, NEW n \in Nat, NEW r \in R, \A s \in R : OfItsKind(s), r.op = "rename", r.id \in 1..n,
         \A s \in R : s.id \in Nat, \A s \in R : s.id = r.id => s = r, Foremost(R, r),
         \A s \in R : s.op = "rename" /\ s.id # r.id => \E t \in S : Same(s, t),
         \A t \in S : t.op = "rename" => t.id # r.id /\ \E s \in R : Same(t, s),
         NEW p \in Paths, ~containsPath(r.path, p), NEW x, QueueLeads(R, n, p, x)
  PROVE  QueueLeads(S, n, p, x)
<1>1. PICK f \in [0..n -> Paths] : Trail(R, n, f) /\ f[0] = p /\ f[n] = x
  BY DEF QueueLeads
<1>2. r.id - 1 \in 0..n /\ f[r.id - 1] \in Paths
  BY <1>1
<1>3. ~containsPath(r.path, f[r.id - 1])
  <2>1. CASE f[r.id - 1] = f[0]
    BY <1>1, <2>1
  <2>2. CASE \E s \in R : s.op = "rename" /\ s.id \in 1..(r.id - 1) /\ containsPath(s.to, f[r.id - 1])
    <3>1. PICK s \in R : s.op = "rename" /\ s.id \in 1..(r.id - 1) /\ containsPath(s.to, f[r.id - 1])
      BY <2>2
    <3>2. ~Touches(s, r) /\ s.to \in Paths /\ r.path \in Paths
      BY <3>1 DEF Foremost, OfItsKind
    <3>3. ~overlaps(s.to, r.path)
      BY <3>1, <3>2, NotTaken
    <3> QED BY <1>2, <3>1, <3>2, <3>3, ContainsIsOrder
  <2> QED BY <1>1, <1>2, <2>1, <2>2, ComesFrom
<1>4. ASSUME NEW i \in 1..n
      PROVE  GoesBy(S, i, f[i - 1], f[i])
  <2>1. GoesBy(R, i, f[i - 1], f[i])
    BY <1>1 DEF Trail
  <2>2. CASE i = r.id
    <3>1. \A s \in R : s.id = i => ~Takes(s, f[i - 1])
      BY <1>3, <2>2 DEF Takes
    <3>2. f[i] = f[i - 1]
      BY <2>1, <3>1 DEF GoesBy
    <3>3. \A t \in S : t.id = i => ~Takes(t, f[i - 1])
      BY <2>2 DEF Takes
    <3> QED BY <3>2, <3>3 DEF GoesBy
  <2>3. CASE i # r.id
    <3> DEFINE u == f[i - 1]
               v == f[i]
    <3>1. GoesBy(R, i, u, v)
      BY <2>1
    <3> HIDE DEF u, v
    <3>2. ASSUME NEW t \in S, t.id = i, Takes(t, u)
          PROVE  v = Rebase(u, t.path, t.to)
      BY <3>1, <3>2 DEF GoesBy, Takes, Same
    <3>3. ASSUME NEW s \in R, s.id = i, Takes(s, u)
          PROVE  \E t \in S : t.id = i /\ Takes(t, u)
      BY <2>3, <3>3 DEF Takes, Same
    <3>4. GoesBy(S, i, u, v)
      BY <3>1, <3>2, <3>3 DEF GoesBy
    <3> QED BY <3>4 DEF u, v
  <2> QED BY <2>2, <2>3
<1> QED BY <1>1, <1>4 DEF QueueLeads, Trail

(* A move the remote makes takes a file on to where its trail leads anyway. *)
LEMMA LeadsFromThere ==
  ASSUME NEW R, NEW n \in Nat, NEW r \in R, \A s \in R : OfItsKind(s), r.op = "rename", r.id \in 1..n,
         \A s \in R : s.id \in Nat, \A s \in R : s.id = r.id => s = r, Foremost(R, r), ~overlaps(r.path, r.to),
         NEW y \in Paths, containsPath(r.path, y), NEW x \in Paths, x = Rebase(y, r.path, r.to),
         NEW q, QueueLeads(R, n, y, q)
  PROVE  QueueLeads(R, n, x, q)
<1>1. PICK f \in [0..n -> Paths] : Trail(R, n, f) /\ f[0] = y /\ f[n] = q
  BY DEF QueueLeads
<1> DEFINE k == r.id
<1>2. k \in 1..n /\ k - 1 \in 0..n /\ r.path \in Paths /\ r.to \in Paths /\ containsPath(r.to, x)
  BY RebaseBack DEF OfItsKind
<1>3. ASSUME NEW s \in R, s.id \in 1..(k - 1)
      PROVE  ~Takes(s, y) /\ ~Takes(s, x)
  <2> SUFFICES ASSUME s.op = "rename" PROVE ~containsPath(s.path, y) /\ ~containsPath(s.path, x)
    BY DEF Takes
  <2>1. ~Touches(s, r) /\ s.path \in Paths
    BY <1>2, <1>3 DEF Foremost, OfItsKind
  <2>2. ~overlaps(s.path, r.path) /\ ~overlaps(s.path, r.to)
    BY <2>1, NotTaken
  <2> QED BY <1>2, <2>1, <2>2, ContainsIsOrder
<1>4. \A i \in 0..(k - 1) : f[i] = y
  BY <1>1, <1>2, <1>3, StaysPut
<1>5. GoesBy(R, k, f[k - 1], f[k])
  BY <1>1, <1>2 DEF Trail
<1>6. f[k - 1] = y
  BY <1>2, <1>4
<1>7. f[k] = x
  BY <1>2, <1>5, <1>6 DEF GoesBy, Takes
<1>8. \A s \in R : s.id = k => ~Takes(s, x)
  BY <1>2, ContainsIsOrder DEF Takes, overlaps
<1> DEFINE g == [i \in 0..n |-> IF i < k THEN x ELSE f[i]]
<1>9. g \in [0..n -> Paths] /\ g[0] = x /\ g[n] = q
  BY <1>1, <1>2
<1>10. ASSUME NEW i \in 1..n
       PROVE  GoesBy(R, i, g[i - 1], g[i])
  <2>1. CASE i < k
    <3>1. g[i - 1] = x /\ g[i] = x /\ i \in 1..(k - 1)
      BY <1>2, <2>1
    <3> HIDE DEF g, k
    <3> QED BY <1>3, <3>1 DEF GoesBy
  <2>2. CASE i = k
    <3>1. g[i - 1] = x /\ g[i] = x
      BY <1>2, <1>7, <2>2
    <3> HIDE DEF g, k
    <3> QED BY <1>8, <2>2, <3>1 DEF GoesBy
  <2>3. CASE i > k
    <3>1. g[i - 1] = f[i - 1] /\ g[i] = f[i]
      BY <1>2, <2>3
    <3> HIDE DEF g, k
    <3> QED BY <1>1, <3>1 DEF Trail
  <2> QED BY <1>2, <2>1, <2>2, <2>3
<1> HIDE DEF g
<1> QED BY <1>9, <1>10 DEF QueueLeads, Trail

LEMMA OwedLeadsOn ==
  ASSUME NEW o \in Seq(Owable), NEW c, NEW m, NEW q, OwedLeads(o, m, q), NEW r \in Paths, Goes(c, q, r)
  PROVE  OwedLeads(Append(o, c), m, r)
<1>1. PICK g \in [0..Len(o) -> Paths] : OwedTrail(o, g) /\ g[0] = m /\ g[Len(o)] = q
  BY DEF OwedLeads
<1> DEFINE n == Len(o)
           e == Append(o, c)
           h == [i \in 0..(n + 1) |-> IF i <= n THEN g[i] ELSE r]
<1>2. n \in Nat /\ Len(e) = n + 1 /\ \A i \in 1..n : e[i] = o[i]
  OBVIOUS
<1>3. e[n + 1] = c
  OBVIOUS
<1> HIDE DEF n, e
<1>4. h \in [0..(n + 1) -> Paths] /\ h[0] = m /\ h[n + 1] = r
  BY <1>1, <1>2 DEF n
<1>5. ASSUME NEW i \in 1..(n + 1)
      PROVE  Goes(e[i], h[i - 1], h[i])
  <2>1. CASE i <= n
    <3>1. i \in 1..n /\ h[i - 1] = g[i - 1] /\ h[i] = g[i]
      BY <1>2, <2>1
    <3>2. Goes(o[i], g[i - 1], g[i])
      BY <1>1, <3>1 DEF OwedTrail, n
    <3> HIDE DEF h
    <3> QED BY <1>2, <3>1, <3>2
  <2>2. CASE i = n + 1
    <3>1. h[i - 1] = q /\ h[i] = r
      BY <1>1, <1>2, <2>2 DEF n
    <3> HIDE DEF h
    <3> QED BY <1>3, <2>2, <3>1
  <2> QED BY <1>2, <2>1, <2>2
<1> HIDE DEF h
<1>6. OwedTrail(e, h)
  BY <1>2, <1>4, <1>5 DEF OwedTrail
<1> QED BY <1>2, <1>4, <1>6 DEF OwedLeads, e

LEMMA OwedLeadsAfter ==
  ASSUME NEW o \in Seq(Owable), o # <<>>, NEW m, NEW q, OwedLeads(o, m, q)
  PROVE  \E x \in Paths : Goes(Head(o), m, x) /\ OwedLeads(Tail(o), x, q)
<1>1. PICK g \in [0..Len(o) -> Paths] : OwedTrail(o, g) /\ g[0] = m /\ g[Len(o)] = q
  BY DEF OwedLeads
<1> DEFINE n == Len(o) - 1
           e == Tail(o)
           h == [i \in 0..n |-> g[i + 1]]
<1>2. n \in Nat /\ Len(o) = n + 1 /\ Head(o) = o[1]
  OBVIOUS
<1>3. Len(e) = n /\ \A i \in 1..n : e[i] = o[i + 1]
  OBVIOUS
<1> HIDE DEF n, e
<1>4. h \in [0..n -> Paths] /\ h[0] = g[1] /\ h[n] = q
  BY <1>1, <1>2
<1>5. ASSUME NEW i \in 1..n
      PROVE  Goes(e[i], h[i - 1], h[i])
  <2>1. i + 1 \in 1..Len(o) /\ h[i - 1] = g[i] /\ h[i] = g[i + 1] /\ (i + 1) - 1 = i
    BY <1>2
  <2> HIDE DEF h
  <2>2. Goes(o[i + 1], g[(i + 1) - 1], g[i + 1])
    BY <1>1, <2>1 DEF OwedTrail
  <2> QED BY <1>3, <2>1, <2>2
<1> HIDE DEF h
<1>6. OwedTrail(e, h)
  BY <1>3, <1>4, <1>5 DEF OwedTrail
<1>7. OwedLeads(e, g[1], q)
  BY <1>3, <1>4, <1>6 DEF OwedLeads
<1>8. 1 \in 1..Len(o) /\ 1 - 1 = 0 /\ g[1] \in Paths
  BY <1>1, <1>2
<1>9. Goes(Head(o), m, g[1])
  BY <1>1, <1>2, <1>8 DEF OwedTrail
<1> QED BY <1>7, <1>8, <1>9 DEF e

(* What a step may do to the queue: new entries get new ids, and of the     *)
(* moves at most the entry `out' is retired.  Mostly no new one moves.      *)
Grows(S, out) ==
  /\ \A t \in S : t.id # out /\ (t.id \in 1..lastId => \E s \in rows : Same(t, s))
  /\ \A t \in S : t.id \in Nat \ {0}
  /\ \A s \in rows : s.op = "rename" /\ s.id # out => \E t \in S : Same(s, t)
Follows(S, out) == Grows(S, out) /\ \A t \in S : t.op = "rename" => t.id <= lastId

LEMMA FewerFollow ==
  ASSUME QueueInv, NEW S \in SUBSET rows, \A s \in rows : s.op = "rename" => s \in S
  PROVE  Follows(S, 0)
BY DEF Follows, Grows, Same, QueueInv, RowsNumbered

LEMMA SomeFollow ==
  ASSUME NEW S, NEW out, Follows(S, out), NEW T \in SUBSET S, \A s \in S : s.op = "rename" => s \in T
  PROVE  Follows(T, out)
<1>1. \A s \in rows : s.op = "rename" /\ s.id # out => \E t \in T : Same(s, t)
  BY DEF Follows, Grows, Same
<1> QED BY <1>1 DEF Follows, Grows

LEMMA RetiredFollow ==
  ASSUME QueueInv, NEW r, NEW out \in {0, r.id}, \A s \in rows : s.op = "rename" /\ s.id = r.id => out = r.id
  PROVE  Follows(Retired(r), out)
BY DEF Follows, Grows, Same, QueueInv, RowsNumbered, Retired

LEMMA WaitingFollow ==
  ASSUME NEW s, IsRow(s), NEW w
  PROVE  Same(s, [s EXCEPT !.wait = w]) /\ Same([s EXCEPT !.wait = w], s)
BY DEF Same, IsRow

LEMMA HeldFollow ==
  ASSUME QueueInv, NEW r
  PROVE  Follows(Held(r), 0)
<1> DEFINE W(s) == [s EXCEPT !.wait = TRUE]
           H(s) == IF s.id = r.id THEN W(s) ELSE s
<1>1. \A s \in rows : Same(s, W(s)) /\ Same(W(s), s)
  BY WaitingFollow DEF QueueInv
<1> HIDE DEF W
<1>2. \A s \in rows : Same(s, H(s)) /\ Same(H(s), s)
  BY <1>1 DEF Same
<1>3. Held(r) = {H(s) : s \in rows}
  BY DEF Held, W
<1> HIDE DEF H
<1>4. \A s \in rows : s.id \in 1..lastId
  BY DEF QueueInv, RowsNumbered
<1>5. ASSUME NEW t \in Held(r)
      PROVE  t.id # 0 /\ t.id \in 1..lastId /\ \E s \in rows : Same(t, s)
  <2>1. PICK s \in rows : t = H(s)
    BY <1>3
  <2>2. Same(t, s) /\ t.id = s.id
    BY <1>2, <2>1 DEF Same
  <2> QED BY <1>4, <2>2
<1>6. \A s \in rows : \E t \in Held(r) : Same(s, t)
  BY <1>2, <1>3
<1> QED BY <1>5, <1>6 DEF Follows, Grows

LEMMA ReleasedFollow ==
  ASSUME QueueInv, NEW r \in rows
  PROVE  Follows((rows \ {r}) \cup {[r EXCEPT !.wait = FALSE]}, 0)
<1> DEFINE w == [r EXCEPT !.wait = FALSE]
<1>1. Same(r, w) /\ Same(w, r)
  BY WaitingFollow DEF QueueInv
<1> HIDE DEF w
<1>2. \A s \in rows : s.id \in 1..lastId
  BY DEF QueueInv, RowsNumbered
<1>3. Follows((rows \ {r}) \cup {w}, 0)
  BY <1>1, <1>2 DEF Follows, Grows, Same
<1> QED BY <1>3 DEF w

LEMMA WriteFollows ==
  ASSUME QueueInv, NEW p, NEW force
  PROVE  Follows(queueWrite(p, force), 0)
<1> DEFINE old == IF structuralAt(p) THEN {} ELSE {r \in rows : r.path = p /\ r.op = "write"}
           new == Row(lastId + 1, "write", p, p, force)
<1>1. new.id = lastId + 1 /\ new.op = "write"
  BY DEF Row
<1>2. queueWrite(p, force) = (rows \ old) \cup {new}
  BY DEF queueWrite
<1>3. \A s \in rows : s.op = "rename" => s \in rows \ old
  OBVIOUS
<1> HIDE DEF old, new
<1>4. lastId \in Nat /\ \A s \in rows : s.id \in 1..lastId
  BY DEF QueueInv, RowsNumbered
<1> QED BY <1>1, <1>2, <1>3, <1>4 DEF Follows, Grows, Same

LEMMA NumberedFollow ==
  ASSUME QueueInv, NEW S, NEW out \in Nat, Follows(S, out), out <= lastId,
         NEW op \in {"write", "delete"}, NEW T, NEW ps \in Seq(T), NEW force
  PROVE  Follows(S \cup Numbered(op, ps, force), out)
<1>1. ASSUME NEW t \in Numbered(op, ps, force)
      PROVE  t.id > lastId /\ t.id \in Nat \ {0} /\ t.id # out /\ t.op # "rename"
  <2>1. PICK i \in DOMAIN ps : t = Row(lastId + i, op, ps[i], ps[i], force)
    BY DEF Numbered
  <2>2. t.id = lastId + i /\ t.op = op
    BY <2>1 DEF Row
  <2>3. i \in Nat /\ i >= 1 /\ lastId \in Nat
    BY DEF QueueInv
  <2> QED BY <2>2, <2>3
<1>2. lastId \in Nat /\ \A t \in Numbered(op, ps, force) : t.id \notin 1..lastId
  BY <1>1 DEF QueueInv
<1> HIDE DEF Same
<1> QED BY <1>1, <1>2 DEF Follows, Grows

(* The entry of a change: of a move, the move and the writes it carries.    *)
LEMMA EntryFollows ==
  ASSUME QueueInv, NEW c \in Owable, c.op # "rename"
  PROVE  Follows(enqueue(c), 0)
<1>1. c.op \in {"write", "mkdir", "delete"} /\ c.path \in Paths /\ c.below \in SUBSET Paths
  BY DEF Owable, OfItsKind, Changes
<1>2. CASE c.op = "write"
  BY <1>2, WriteFollows DEF enqueue
<1>3. CASE c.op = "mkdir"
  <2> DEFINE new == Row(lastId + 1, "mkdir", c.path, c.path, FALSE)
  <2>1. new.id = lastId + 1 /\ new.op = "mkdir"
    BY DEF Row
  <2>2. enqueue(c) \in {rows, rows \cup {new}}
    BY <1>3 DEF enqueue, queueMkdir
  <2> HIDE DEF new
  <2>3. lastId \in Nat /\ \A s \in rows : s.id \in 1..lastId
    BY DEF QueueInv, RowsNumbered
  <2> QED BY <2>1, <2>2, <2>3 DEF Follows, Grows, Same
<1>4. CASE c.op = "delete"
  <2> DEFINE below == SetToSeq(c.below)
             ps == <<c.path>> \o below
  <2>1. enqueue(c) = rows \cup Numbered("delete", ps, FALSE)
    BY <1>4 DEF enqueue, queueDeletePaths
  <2>2. IsFiniteSet(c.below)
    BY <1>1, SyncQueueAssumption, FS_Subset DEF SyncQueueAssumption
  <2>3. below \in Seq(c.below)
    BY <2>2, SequenceOfSet
  <2> HIDE DEF below
  <2>4. ps \in Seq(Paths)
    BY <1>1, <2>3
  <2> HIDE DEF ps
  <2>5. Follows(rows, 0)
    BY FewerFollow
  <2>6. 0 \in Nat /\ 0 <= lastId
    BY DEF QueueInv
  <2>7. Follows(rows \cup Numbered("delete", ps, FALSE), 0)
    BY <2>4, <2>5, <2>6, NumberedFollow
  <2> QED BY <2>1, <2>7
<1> QED BY <1>1, <1>2, <1>3, <1>4

LEMMA MoveEntry ==
  ASSUME QueueInv, NEW c \in Owable, c.op = "rename"
  PROVE  /\ \A t \in enqueue(c) : \/ t \in rows
                                  \/ t = Row(lastId + 1, "rename", c.path, c.to, FALSE)
                                  \/ t.op = "write" /\ t.id > lastId
         /\ Row(lastId + 1, "rename", c.path, c.to, FALSE) \in enqueue(c)
         /\ \A s \in rows : s.op = "rename" => s \in enqueue(c)
<1> DEFINE p == c.path
           q == c.to
           Id(w) == lastId + 1 + Cardinality({v \in writesBelow(p) : v.id <= w.id})
           Again(w) == [w EXCEPT !.id = Id(w), !.path = Rebase(@, p, q), !.to = Rebase(@, p, q)]
<1>1. ASSUME NEW w \in writesBelow(p)
      PROVE  Again(w).op = "write" /\ Again(w).id > lastId
  <2>1. w \in rows /\ IsRow(w) /\ w.op = "write" /\ lastId \in Nat
    BY DEF writesBelow, QueueInv
  <2> DEFINE ws == {v \in writesBelow(p) : v.id <= w.id}
  <2>2. IsFiniteSet(rows) /\ ws \in SUBSET rows
    BY RowsAreFinite, InvIsGood DEF writesBelow
  <2> HIDE DEF ws
  <2>3. Cardinality(ws) \in Nat
    BY <2>2, FS_Subset, FS_CardinalityType
  <2>4. Id(w) > lastId
    BY <2>1, <2>3 DEF ws
  <2> HIDE DEF Id
  <2>5. Again(w).op = "write" /\ Again(w).id = Id(w)
    BY <2>1 DEF IsRow
  <2> QED BY <2>4, <2>5
<1>2. enqueue(c) = (rows \ writesBelow(p)) \cup {Row(lastId + 1, "rename", p, q, FALSE)}
                   \cup {Again(w) : w \in writesBelow(p)}
  BY DEF enqueue, queueRename
<1> HIDE DEF Again
<1> QED BY <1>1, <1>2 DEF writesBelow

LEMMA MoveGrows ==
  ASSUME QueueInv, NEW c \in Owable, c.op = "rename"
  PROVE  Grows(enqueue(c), 0)
<1>1. c \in Changes /\ Good(rows, lastId)
  BY InvIsGood DEF Owable
<1>2. \A t \in enqueue(c) : t.id \in Nat \ {0}
  BY <1>1, EntryIsGood DEF Good
<1>3. lastId \in Nat /\ Row(lastId + 1, "rename", c.path, c.to, FALSE).id = lastId + 1
  BY DEF QueueInv, Row
<1>4. ASSUME NEW t \in enqueue(c), t.id \in 1..lastId
      PROVE  t \in rows
  <2>1. ~(t.id > lastId) /\ t.id # lastId + 1
    BY <1>3, <1>4
  <2>2. \/ t \in rows
        \/ t = Row(lastId + 1, "rename", c.path, c.to, FALSE)
        \/ t.op = "write" /\ t.id > lastId
    BY MoveEntry
  <2> QED BY <1>3, <2>1, <2>2
<1> QED BY <1>2, <1>4, MoveEntry DEF Grows, Same

-----------------------------------------------------------------------------
(* The invariant.  On both sides everything stands in a folder.  Nothing    *)
(* stands where a move that waits starts, and nothing can come there.  The  *)
(* moves in hand are rows of the queue that no other goes before.  Once the *)
(* remote has made a move, or has not got what it moves, no file stands     *)
(* there where it starts.                                                   *)
Roots == Rooted(disk) /\ Rooted(remote)

Emptied(c) == ~overlaps(c.path, c.to) /\ \A x \in Paths : containsPath(c.path, x) => disk[x] = None
Vacated == \A c \in Queued("rename") : Emptied(c)

Hands == pass \cup (IF job = Idle THEN {} ELSE {job.row})
StandsFor(r) == r.id \in 1..lastId /\ \A s \in rows : s.id = r.id => Same(r, s)
Taken == /\ \A r \in Hands : StandsFor(r) /\ (r.op = "rename" => Foremost(rows, r) /\ \E s \in rows : s.id = r.id)
         /\ \A r, s \in Hands : r.id = s.id => r = s
         /\ job # Idle => job.row \notin pass

Gone == /\ job.phase = "missing" => job.row.op = "rename"
        /\ job # Idle /\ job.row.op = "rename" /\ (job.phase \in {"done", "missing"} \/ job.force)
             => \A x \in Paths : containsPath(job.row.path, x) => ~IsFile(remote[x])

(* A file is known by where and when it was made, and all its copies are on *)
(* their way to one place: the copy on this device is there, and from every *)
(* other place the moves that wait lead there.                              *)
Carries == job # Idle /\ (job.row.op = "write" \/ job.force)
Born(x, n) == IsFile(x) => x.file[2] <= n
Fresh == /\ \A p \in Paths : Born(disk[p], edits) /\ Born(remote[p], edits)
         /\ Carries => Born(job.content, edits)
Here(F, p) == IsFile(disk[p]) /\ disk[p].file = F
Away(F, p) == \/ IsFile(remote[p]) /\ remote[p].file = F
              \/ Carries /\ p = Written(job.row) /\ job.content.file = F
Files == Paths \X Int
Tracked == \A F \in Files : \E q \in Paths : \A p \in Paths : (Here(F, p) => p = q) /\ (Away(F, p) => Leads(p, q))

RouteInv == Roots /\ Vacated /\ Taken /\ Gone /\ Fresh /\ Tracked

LEMMA QueuedMoves ==
  \A c : c \in Queued("rename") <=> c.op = "rename" /\ (c \in rows \/ \E i \in DOMAIN owed : c = owed[i])
BY DEF Queued

(* A move in hand, and the row of the queue it stands for.                  *)
LEMMA MoveInHand ==
  ASSUME QueueInv, KindInv, Vacated, Taken, NEW r \in Hands, r.op = "rename"
  PROVE  /\ \E s \in rows : Same(r, s) /\ Foremost(rows, s) /\ \A t \in rows : t.id = s.id => t = s
         /\ Emptied(r) /\ OfItsKind(r) /\ r.id \in 1..lastId /\ r.path \in Paths /\ r.to \in Paths
<1>1. PICK s \in rows : s.id = r.id
  BY DEF Taken
<1>2. Same(r, s) /\ Foremost(rows, r) /\ r.id \in 1..lastId
  BY <1>1 DEF Taken, StandsFor
<1>3. endpoints(s) = endpoints(r) /\ s.op = "rename" /\ s.path = r.path /\ s.to = r.to
  BY <1>2 DEF Same, endpoints
<1>4. Foremost(rows, s)
  BY <1>1, <1>2, <1>3 DEF Foremost, Touches
<1>5. Emptied(s) /\ OfItsKind(s)
  BY <1>3, QueuedMoves DEF Vacated, KindInv
<1>6. Emptied(r) /\ r.path \in Paths /\ r.to \in Paths
  BY <1>3, <1>5 DEF Emptied, OfItsKind
<1>7. OfItsKind(r)
  BY DEF Hands, KindInv, IsJob
<1> QED BY <1>1, <1>2, <1>4, <1>6, <1>7 DEF QueueInv, RowsNumbered

LEMMA JobIsInHand == job.phase # "idle" => job # Idle /\ job.row \in Hands
BY DEF Idle, Hands

-----------------------------------------------------------------------------
(* Everything stands in a folder.                                           *)

LEMMA RoomIsFolder ==
  ASSUME NEW p, HasRoom(p)
  PROVE  HasFolder(disk, p)
BY DEF HasRoom, HasFolder

LEMMA ApartFromSource ==
  ASSUME Roots, NEW p \in Paths, NEW q \in Paths, renameItem(p, q)
  PROVE  ~overlaps(p, q) /\ HasFolder(disk, q) /\ disk[q] = None
<1>1. disk[p] # None /\ disk[q] = None /\ HasRoom(q) /\ ~containsPath(p, q)
  BY DEF renameItem, Free, Vacant
<1>2. ~containsPath(q, p)
  BY <1>1, Kinds DEF Roots, Rooted
<1> QED BY <1>1, <1>2, RoomIsFolder DEF overlaps

LEMMA UserKeepsRoots ==
  ASSUME KindInv, Roots, User
  PROVE  Roots'
<1>0. IsTree(disk) /\ Rooted(disk)
  BY DEF KindInv, Roots
<1> SUFFICES Rooted(disk')
  BY DEF Roots, User, writeFile, createDir, renameItem, deleteItem, Edited
<1>1. ASSUME NEW p \in Paths, writeFile(p)
      PROVE  Rooted(disk')
  <2>1. PICK x \in Contents(p) : disk' = [disk EXCEPT ![p] = x] /\ x # None
    <3>1. p \in FilePaths /\ edits' \in Nat
      BY <1>1 DEF writeFile, Edited, KindInv
    <3>2. CASE IsFile(disk[p])
      <4>1. disk[p] \in Versions
        BY <3>2, FileIsVersion DEF KindInv, IsTree
      <4>2. [disk[p] EXCEPT !.n = edits'] \in Versions
        BY <3>1, <4>1 DEF Versions
      <4>3. disk' = [disk EXCEPT ![p] = [disk[p] EXCEPT !.n = edits']]
        BY <1>1, <3>2 DEF writeFile
      <4> QED BY <3>1, <4>2, <4>3, Kinds
    <3>3. CASE ~IsFile(disk[p])
      <4>1. Version(p, edits', edits') \in Versions
        BY <3>1 DEF Version, Versions
      <4>2. disk' = [disk EXCEPT ![p] = Version(p, edits', edits')]
        BY <1>1, <3>3 DEF writeFile
      <4> QED BY <3>1, <4>1, <4>2, Kinds
    <3> QED BY <3>2, <3>3
  <2>2. disk[p] # None \/ HasFolder(disk, p)
    BY <1>1, RoomIsFolder DEF writeFile, Free, Vacant, IsFile, None
  <2> QED BY <1>0, <2>1, <2>2, OneIsRooted
<1>2. ASSUME NEW p \in Paths, createDir(p)
      PROVE  Rooted(disk')
  <2>1. Folder \in Contents(p) /\ Folder # None /\ HasFolder(disk, p) /\ disk' = [disk EXCEPT ![p] = Folder]
    BY <1>2, Kinds, RoomIsFolder DEF createDir, Free, Vacant
  <2> QED BY <1>0, <2>1, OneIsRooted
<1>3. ASSUME NEW p \in Paths, NEW q \in Paths, renameItem(p, q)
      PROVE  Rooted(disk')
  BY <1>0, <1>3, ApartFromSource, MovedIsRooted DEF renameItem
<1>4. ASSUME NEW p \in Paths, deleteItem(p)
      PROVE  Rooted(disk')
  BY <1>0, <1>4, WithoutIsRooted DEF deleteItem
<1> QED BY <1>1, <1>2, <1>3, <1>4 DEF User

LEMMA PullKeepsRoots ==
  ASSUME KindInv, Roots, Pull
  PROVE  Roots'
<1>0. IsTree(disk) /\ Rooted(disk)
  BY DEF KindInv, Roots
<1> SUFFICES Rooted(disk')
  BY DEF Roots, Pull, Download, Reconcile, MirrorDeletion
<1>1. ASSUME NEW p \in Paths, Download(p)
      PROVE  Rooted(disk')
  <2>1. remote[p] \in Contents(p) /\ remote[p] # None /\ disk' = Put(disk, p, remote[p])
    BY <1>1 DEF Download, KindInv, IsTree, IsFile, None
  <2> QED BY <1>0, <2>1, PutIsRooted
<1>2. ASSUME NEW p \in Paths, MirrorDeletion(p)
      PROVE  Rooted(disk')
  <2>1. p \in FilePaths /\ None \in Contents(p) /\ disk' \in {disk, [disk EXCEPT ![p] = None]}
    BY <1>2, Kinds DEF MirrorDeletion
  <2>2. Rooted([disk EXCEPT ![p] = None])
    BY <1>0, <2>1, OneIsRooted
  <2> QED BY <1>0, <2>1, <2>2
<1>3. ASSUME NEW p \in Paths, Reconcile(p)
      PROVE  Rooted(disk')
  BY <1>0, <1>3 DEF Reconcile
<1> QED BY <1>1, <1>2, <1>3 DEF Pull

(* What Carry does to the remote, and what it knows of the job.             *)
LEMMA Carried ==
  ASSUME QueueInv, KindInv, Vacated, Taken, Carry
  PROVE  LET r == job.row IN
         /\ job # Idle /\ r \in Hands /\ IsJob(job) /\ r.path \in Paths /\ r.to \in Paths
         /\ \/ r.op = "delete" /\ Answers("done", Without(remote, r.path))
            \/ r.op = "mkdir" /\ r.path \in FolderPaths /\ Answers("done", Put(remote, r.path, Folder))
            \/ /\ r.op = "write" \/ job.force
               /\ Written(r) \in FilePaths /\ job.content \in Versions
               /\ Answers("done", Put(remote, Written(r), job.content)) \/ Answers("refused", remote)
            \/ /\ r.op = "rename" /\ ~job.force
               /\ \/ remote[r.path] = None /\ Answers("missing", remote)
                  \/ HasFolder(remote, r.to) /\ Answers("done", Moved(remote, r.path, r.to))
                  \/ Answers("failed", remote)
<1>1. /\ job # Idle /\ job.row \in Hands /\ IsJob(job) /\ OfItsKind(job.row) /\ job.row.path \in Paths /\ job.row.to \in Paths
  BY Busy, JobIsInHand DEF Carry, OfItsKind
<1>2. job.row.op = "mkdir" => job.row.path \in FolderPaths
  BY <1>1 DEF OfItsKind
<1>3. job.row.op = "write" \/ job.force => Written(job.row) \in FilePaths /\ job.content \in Versions
  BY <1>1 DEF IsJob
<1> QED BY <1>1, <1>2, <1>3 DEF Carry, HasFolder

LEMMA CarryKeepsRoots ==
  ASSUME QueueInv, KindInv, Roots, Vacated, Taken, Carry
  PROVE  Roots'
<1> DEFINE r == job.row
<1>0. IsTree(remote) /\ Rooted(remote) /\ r \in Hands /\ r.path \in Paths /\ r.to \in Paths
  BY Carried DEF KindInv, Roots
<1> SUFFICES Rooted(remote')
  BY DEF Roots, Carry
<1>1. ASSUME r.op = "delete", remote' = Without(remote, r.path)
      PROVE  Rooted(remote')
  BY <1>0, <1>1, WithoutIsRooted
<1>2. ASSUME r.path \in FolderPaths, remote' = Put(remote, r.path, Folder)
      PROVE  Rooted(remote')
  <2>1. Folder \in Contents(r.path) /\ Folder # None
    BY <1>2, Kinds
  <2> QED BY <1>0, <1>2, <2>1, PutIsRooted
<1>3. ASSUME Written(r) \in FilePaths, job.content \in Versions, remote' = Put(remote, Written(r), job.content)
      PROVE  Rooted(remote')
  <2>1. Written(r) \in Paths /\ job.content \in Contents(Written(r)) /\ job.content # None
    BY <1>3, Kinds DEF FilePaths
  <2> QED BY <1>0, <1>3, <2>1, PutIsRooted
<1>4. ASSUME r.op = "rename", HasFolder(remote, r.to), remote' = Moved(remote, r.path, r.to)
      PROVE  Rooted(remote')
  <2>1. ~overlaps(r.path, r.to)
    BY <1>0, <1>4, MoveInHand DEF Emptied
  <2> QED BY <1>0, <1>4, <2>1, MovedIsRooted
<1> QED BY <1>0, <1>1, <1>2, <1>3, <1>4, Carried DEF Answers

LEMMA RootsStep ==
  ASSUME QueueInv, KindInv, Roots, Vacated, Taken, [Next]_vars
  PROVE  Roots'
<1>1. CASE SourceMissing
  <2>1. CASE disk[job.row.to] = Folder /\ remote' = Put(remote, job.row.to, Folder)
    <3>1. job.row.to \in Paths
      BY <1>1, Busy DEF SourceMissing, OfItsKind
    <3>2. Folder \in Contents(job.row.to) /\ Folder # None
      BY <2>1, <3>1, Kinds DEF KindInv, IsTree
    <3> QED BY <1>1, <2>1, <3>1, <3>2, PutIsRooted DEF Roots, KindInv, SourceMissing
  <2>2. CASE UNCHANGED remote
    BY <1>1, <2>2 DEF Roots, SourceMissing
  <2> QED BY <1>1, <2>1, <2>2 DEF SourceMissing
<1>2. ASSUME UNCHANGED <<disk, remote>>
      PROVE  Roots'
  BY <1>2 DEF Roots
<1>3. ASSUME WriteEntry \/ StartPass \/ Finish \/ (\E r \in pass : Drop(r) \/ Send(r))
             \/ (\E r \in rows : BackoffOver(r)) \/ PushFails \/ UNCHANGED vars
      PROVE  UNCHANGED <<disk, remote>>
  BY <1>3 DEF WriteEntry, StartPass, Finish, Drop, Send, BackoffOver, PushFails, vars, trees
<1> QED BY <1>1, <1>2, <1>3, UserKeepsRoots, PullKeepsRoots, CarryKeepsRoots DEF Next, Sync

-----------------------------------------------------------------------------
(* Nothing stands where a move that waits starts.                           *)

LEMMA FreeIsClear ==
  ASSUME "rename" \notin Reused, NEW p, Free(p), NEW c \in Queued("rename")
  PROVE  ~overlaps(c.path, p) /\ ~overlaps(c.to, p)
<1>1. ~Concerned("rename", p) /\ c.op = "rename"
  BY QueuedMoves DEF Free, Structural
<1> QED BY <1>1 DEF Concerned, endpoints

LEMMA PullIsClear ==
  ASSUME NEW p, Pulls(p), NEW c \in Queued("rename")
  PROVE  ~containsPath(c.path, p) /\ ~containsPath(c.to, p)
<1>1. c.op = "rename" /\ (c \in rows \/ \E i \in DOMAIN owed : c = owed[i])
  BY QueuedMoves
<1> QED BY <1>1 DEF Pulls, hasPendingStructuralOp, Structural, endpoints

LEMMA MovesOf ==
  ASSUME KindInv, NEW c \in Queued("rename")
  PROVE  c.path \in Paths /\ c.to \in Paths /\ c.op = "rename"
<1>1. c.op = "rename" /\ (c \in rows \/ \E i \in DOMAIN owed : c = owed[i])
  BY QueuedMoves
<1>2. \A i \in DOMAIN owed : owed[i] \in Owable
  BY DEF KindInv
<1> QED BY <1>1, <1>2 DEF KindInv, Owable, OfItsKind

LEMMA UserKeepsVacated ==
  ASSUME "rename" \notin Reused, KindInv, Roots, Vacated, User
  PROVE  Vacated'
<1>1. ASSUME NEW change, Edited(change), NEW d \in Queued("rename")'
      PROVE  d \in Queued("rename") \/ (d = change /\ change.op = "rename")
  <2>1. d.op = "rename" /\ (d \in rows' \/ \E i \in DOMAIN owed' : d = owed'[i])
    BY DEF Queued
  <2>2. rows' = rows /\ owed' = Append(owed, change) /\ owed \in Seq(Owable)
    BY <1>1 DEF Edited, KindInv
  <2>3. \A i \in DOMAIN owed' : owed'[i] = change \/ (i \in DOMAIN owed /\ owed'[i] = owed[i])
    BY <2>2
  <2> QED BY <2>1, <2>2, <2>3, QueuedMoves
<1>2. ASSUME NEW change, Edited(change), change.op = "rename" => Emptied(change)',
             \A c \in Queued("rename") : \A x \in Paths : containsPath(c.path, x) => disk'[x] = None
      PROVE  Vacated'
  BY <1>1, <1>2 DEF Vacated, Emptied
<1>3. DOMAIN disk = Paths /\ \A c \in Queued("rename") : Emptied(c) /\ c.path \in Paths
  BY MovesOf DEF Vacated, KindInv, IsTree
<1>4. ASSUME NEW p \in Paths, writeFile(p) \/ createDir(p)
      PROVE  Vacated'
  <2>1. PICK change : Edited(change) /\ change.op # "rename"
    BY <1>4 DEF writeFile, createDir, Change
  <2>2. \A x \in Paths : x # p => disk'[x] = disk[x]
    BY <1>3, <1>4 DEF writeFile, createDir
  <2>3. disk[p] # None \/ Free(p)
    BY <1>4 DEF writeFile, createDir, IsFile, None
  <2>4. ASSUME NEW c \in Queued("rename"), NEW x \in Paths, containsPath(c.path, x)
        PROVE  disk'[x] = None
    <3>1. x # p
      BY <1>3, <2>3, <2>4, FreeIsClear DEF Emptied, overlaps
    <3> QED BY <1>3, <2>2, <2>4, <3>1 DEF Emptied
  <2> QED BY <1>2, <2>1, <2>4
<1>5. ASSUME NEW p \in Paths, NEW q \in Paths, renameItem(p, q)
      PROVE  Vacated'
  <2>1. Edited(Change("rename", p, q, {})) /\ disk' = Moved(disk, p, q) /\ ~overlaps(p, q) /\ Free(q)
    BY <1>5, ApartFromSource DEF renameItem
  <2>2. Emptied(Change("rename", p, q, {}))'
    <3>1. ASSUME NEW x \in Paths, containsPath(p, x)
          PROVE  disk'[x] = None
      <4>1. ~containsPath(q, x)
        BY <2>1, <3>1, ContainsIsOrder
      <4> QED BY <2>1, <3>1, <4>1 DEF Moved
    <3> QED BY <2>1, <3>1 DEF Emptied, Change
  <2>3. ASSUME NEW c \in Queued("rename"), NEW x \in Paths, containsPath(c.path, x)
        PROVE  disk'[x] = None
    <3>1. ~containsPath(q, x)
      BY <1>3, <2>1, <2>3, FreeIsClear, ContainsIsOrder
    <3> QED BY <1>3, <2>1, <2>3, <3>1 DEF Moved, Emptied
  <2> QED BY <1>2, <2>1, <2>2, <2>3
<1>6. ASSUME NEW p \in Paths, deleteItem(p)
      PROVE  Vacated'
  <2>1. Edited(Change("delete", p, p, FilesBelow(p))) /\ Change("delete", p, p, FilesBelow(p)).op # "rename"
    BY <1>6 DEF deleteItem, Change
  <2>2. \A c \in Queued("rename") : \A x \in Paths : containsPath(c.path, x) => disk'[x] = None
    BY <1>3, <1>6 DEF deleteItem, Without, Emptied
  <2> QED BY <1>2, <2>1, <2>2
<1> QED BY <1>4, <1>5, <1>6 DEF User

(* Of the moves in the queue no other step than a new entry adds one.       *)
LEMMA VacatedFollows ==
  ASSUME QueueInv, Vacated, NEW out, Follows(rows', out), UNCHANGED owed,
         \A c \in Queued("rename") : \A x \in Paths : containsPath(c.path, x) => disk'[x] = None
  PROVE  Vacated'
<1> SUFFICES ASSUME NEW d \in Queued("rename")'
             PROVE  \E c \in Queued("rename") : c.path = d.path /\ c.to = d.to
  BY DEF Vacated, Emptied
<1>1. d.op = "rename" /\ (d \in rows' \/ \E i \in DOMAIN owed : d = owed[i])
  BY DEF Queued
<1>2. CASE d \in rows'
  <2>1. d.id \in 1..lastId
    BY <1>1, <1>2 DEF Follows, Grows, QueueInv
  <2>2. PICK s \in rows : Same(d, s)
    BY <1>2, <2>1 DEF Follows, Grows
  <2> QED BY <1>1, <2>2, QueuedMoves DEF Same
<1>3. CASE \E i \in DOMAIN owed : d = owed[i]
  BY <1>1, <1>3, QueuedMoves
<1> QED BY <1>1, <1>2, <1>3

LEMMA WriteEntryKeepsVacated ==
  ASSUME QueueInv, KindInv, Vacated, WriteEntry
  PROVE  Vacated'
<1> DEFINE c == Head(owed)
<1>1. c \in Owable /\ c = owed[1] /\ 1 \in DOMAIN owed /\ rows' = enqueue(c) /\ disk' = disk
  BY DEF KindInv, WriteEntry
<1>2. \A i \in DOMAIN Tail(owed) : i + 1 \in DOMAIN owed /\ Tail(owed)[i] = owed[i + 1]
  BY DEF KindInv, WriteEntry
<1> SUFFICES ASSUME NEW d \in Queued("rename")'
             PROVE  \E e \in Queued("rename") : e.path = d.path /\ e.to = d.to
  BY <1>1 DEF Vacated, Emptied
<1>3. d.op = "rename" /\ (d \in rows' \/ \E i \in DOMAIN owed' : d = owed'[i])
  BY DEF Queued
<1>4. CASE \E i \in DOMAIN owed' : d = owed'[i]
  BY <1>2, <1>3, <1>4, QueuedMoves DEF WriteEntry
<1>5. CASE d \in rows' /\ c.op = "rename"
  <2>1. d \in rows \/ d = Row(lastId + 1, "rename", c.path, c.to, FALSE)
    BY <1>1, <1>3, <1>5, MoveEntry
  <2>2. d \in rows \/ (d.path = c.path /\ d.to = c.to)
    BY <2>1 DEF Row
  <2> QED BY <1>1, <1>3, <1>5, <2>2, QueuedMoves
<1>6. CASE d \in rows' /\ c.op # "rename"
  <2>1. Follows(rows', 0)
    BY <1>1, <1>6, EntryFollows
  <2>2. d.id \in 1..lastId
    BY <1>3, <1>6, <2>1 DEF Follows, Grows, QueueInv
  <2>3. PICK s \in rows : Same(d, s)
    BY <1>6, <2>1, <2>2 DEF Follows, Grows
  <2> QED BY <1>3, <2>3, QueuedMoves DEF Same
<1> QED BY <1>3, <1>4, <1>5, <1>6

(* The other steps and the queue.                                           *)
LEMMA StepFollows ==
  ASSUME QueueInv, KindInv, Taken, Gone, [Next]_vars, ~User, ~WriteEntry
  PROVE  /\ UNCHANGED owed /\ lastId' \in Nat /\ lastId' >= lastId
         /\ \/ Follows(rows', 0)
            \/ /\ job.row.op = "rename" /\ job.row.id # 0 /\ job' = Idle /\ UNCHANGED pass /\ disk' = disk
               /\ (Finish /\ job.phase = "done") \/ (SourceMissing /\ job.phase = "missing")
               /\ Follows(rows', job.row.id)
<1>0. lastId \in Nat /\ Follows(rows, 0)
  BY FewerFollow DEF QueueInv
<1>1. CASE StartPass \/ Carry \/ (\E r \in pass : Send(r)) \/ UNCHANGED vars
  BY <1>0, <1>1 DEF StartPass, Carry, Send, vars
<1>2. CASE PushFails
  BY <1>0, <1>2, HeldFollow DEF PushFails
<1>3. ASSUME NEW r \in rows, BackoffOver(r)
      PROVE  UNCHANGED owed /\ lastId' \in Nat /\ lastId' >= lastId /\ Follows(rows', 0)
  BY <1>0, <1>3, ReleasedFollow DEF BackoffOver
<1>4. ASSUME NEW r \in pass, Drop(r)
      PROVE  UNCHANGED owed /\ lastId' \in Nat /\ lastId' >= lastId /\ Follows(rows', 0)
  <2>1. r.op # "rename" /\ \A s \in rows : s.id = r.id => s.op # "rename"
    BY <1>4 DEF Drop, Settled, Taken, Hands, StandsFor, Same
  <2> QED BY <1>0, <1>4, <2>1, RetiredFollow DEF Drop
<1>5. ASSUME NEW p, NEW again, Requeues(p, again)
      PROVE  lastId' \in Nat /\ lastId' >= lastId /\ Follows(rows', 0)
  <2>1. CASE again
    <3>1. rows' = queueWrite(p, FALSE) /\ lastId' = lastId + 1
      BY <1>5, <2>1 DEF Requeues
    <3>2. Follows(queueWrite(p, FALSE), 0)
      BY WriteFollows
    <3>3. Follows(rows', 0)
      BY <3>1, <3>2
    <3>4. lastId' \in Nat /\ lastId' >= lastId
      BY <1>0, <3>1
    <3> QED BY <3>3, <3>4
  <2>2. CASE ~again
    BY <1>0, <1>5, <2>2 DEF Requeues
  <2> QED BY <2>1, <2>2
<1>6. CASE Pull
  BY <1>0, <1>5, <1>6 DEF Pull, Download, Reconcile, MirrorDeletion
<1>7. CASE Finish
  <2> DEFINE r == job.row
  <2>1. r \in Hands /\ StandsFor(r)
    BY <1>7, JobIsInHand DEF Finish, Taken
  <2>2. CASE job.phase # "done"
    <3>1. rows' \in {rows, Held(r)}
      BY <1>7, <2>2 DEF Finish
    <3> QED BY <1>0, <1>7, <3>1, HeldFollow DEF Finish
  <2>3. CASE job.phase = "done" /\ r.op # "rename"
    <3>1. rows' = Retired(r) /\ \A s \in rows : s.id = r.id => s.op # "rename"
      BY <1>7, <2>1, <2>3 DEF Finish, StandsFor, Same
    <3> QED BY <1>0, <1>7, <3>1, RetiredFollow DEF Finish
  <2>4. CASE job.phase = "done" /\ r.op = "rename"
    <3>1. rows' = Retired(r) /\ r.id # 0
      BY <1>7, <2>1, <2>4 DEF Finish, StandsFor
    <3> QED BY <1>0, <1>7, <2>4, <3>1, RetiredFollow DEF Finish
  <2> QED BY <2>2, <2>3, <2>4
<1>8. CASE SourceMissing
  <2> DEFINE r == job.row
             again == FilesBelow(r.to)
             superseded == {s \in rows : s.op = "write" /\ s.path \in again /\ ~structuralAt(s.path)}
  <2>1. r \in Hands /\ StandsFor(r) /\ r.id \in Nat /\ r.id # 0 /\ r.id <= lastId
    BY <1>8, JobIsInHand DEF SourceMissing, Taken, StandsFor, QueueInv
  <2>2. Follows(Retired(r), r.id)
    BY RetiredFollow
  <2>3. Follows(Retired(r) \ superseded, r.id)
    BY <2>2, SomeFollow
  <2>4. /\ SetToSeq(again) \in Seq(again) /\ Cardinality(again) \in Nat
    BY BelowIsFinite, SequenceOfSet
  <2> HIDE DEF superseded, again
  <2>5. Follows((Retired(r) \ superseded) \cup Numbered("write", SetToSeq(again), TRUE), r.id)
    BY <2>1, <2>3, <2>4, NumberedFollow
  <2>6. r.op = "rename" /\ job.phase = "missing"
    BY <1>8 DEF SourceMissing, Gone
  <2>7. /\ UNCHANGED <<owed, pass>> /\ disk' = disk
        /\ \/ rows' = Retired(r) /\ job' = Idle /\ UNCHANGED lastId
           \/ /\ rows' = (Retired(r) \ superseded) \cup Numbered("write", SetToSeq(again), TRUE)
              /\ lastId' = lastId + Cardinality(again) /\ job' = Idle
           \/ UNCHANGED <<rows, lastId>>
    BY <1>8 DEF SourceMissing, again, superseded
  <2>8. lastId + Cardinality(again) \in Nat /\ lastId + Cardinality(again) >= lastId
    BY <1>0, <2>4
  <2>9. CASE rows' = Retired(r) /\ job' = Idle /\ UNCHANGED lastId
    BY <1>0, <1>8, <2>1, <2>2, <2>6, <2>7, <2>9
  <2>10. CASE /\ rows' = (Retired(r) \ superseded) \cup Numbered("write", SetToSeq(again), TRUE)
              /\ lastId' = lastId + Cardinality(again) /\ job' = Idle
    <3>1. lastId' \in Nat /\ lastId' >= lastId
      BY <2>8, <2>10
    <3>2. Follows(rows', r.id)
      BY <2>5, <2>10
    <3> QED BY <1>8, <2>1, <2>6, <2>7, <2>10, <3>1, <3>2
  <2>11. CASE UNCHANGED <<rows, lastId>>
    <3>1. Follows(rows', 0) /\ lastId' \in Nat /\ lastId' >= lastId
      BY <1>0, <2>11
    <3> QED BY <2>7, <3>1
  <2> QED BY <2>7, <2>9, <2>10, <2>11
<1> QED BY <1>1, <1>2, <1>3, <1>4, <1>6, <1>7, <1>8 DEF Next, Sync

LEMMA VacatedStep ==
  ASSUME "rename" \notin Reused, QueueInv, KindInv, Roots, Vacated, Taken, Gone, [Next]_vars
  PROVE  Vacated'
<1>1. CASE User
  BY <1>1, UserKeepsVacated
<1>2. CASE WriteEntry
  BY <1>2, WriteEntryKeepsVacated
<1>3. CASE ~User /\ ~WriteEntry
  <2>1. UNCHANGED owed /\ \E out : Follows(rows', out)
    BY <1>3, StepFollows
  <2>2. ASSUME NEW c \in Queued("rename"), NEW x \in Paths, containsPath(c.path, x)
        PROVE  disk'[x] = None
    <3>1. disk[x] = None /\ c.path \in Paths
      BY <2>2, MovesOf DEF Vacated, Emptied
    <3>2. CASE \E p \in Paths : Download(p)
      <4>1. PICK p \in Paths : Download(p)
        BY <3>2
      <4>2. ~containsPath(c.path, p)
        BY <4>1, PullIsClear DEF Download
      <4>3. ~containsPath(x, p)
        BY <2>2, <3>1, <4>2, ContainsIsOrder
      <4>4. x # p
        BY <2>2, <4>2
      <4> QED BY <3>1, <4>1, <4>3, <4>4 DEF Download, Put
    <3>3. CASE \E p \in Paths : MirrorDeletion(p)
      BY <3>1, <3>3 DEF MirrorDeletion, KindInv, IsTree
    <3>4. CASE disk' = disk
      BY <3>1, <3>4
    <3>5. disk' = disk \/ Pull
      BY <1>3 DEF Next, Sync, WriteEntry, StartPass, Drop, Send, Carry, Finish, SourceMissing, PushFails,
                  BackoffOver, trees, vars
    <3> QED BY <3>2, <3>3, <3>4, <3>5 DEF Pull, Reconcile
  <2> QED BY <2>1, <2>2, VacatedFollows
<1> QED BY <1>1, <1>2, <1>3

-----------------------------------------------------------------------------
(* The entries in hand.                                                     *)

LEMMA TakenGrows ==
  ASSUME QueueInv, Taken, NEW out, Grows(rows', out), lastId' \in Nat, lastId' >= lastId,
         Hands' \subseteq Hands, \A r \in Hands' : r.op = "rename" => r.id # out,
         job' # Idle => job'.row \notin pass'
  PROVE  Taken'
<1>1. ASSUME NEW r \in Hands'
      PROVE  /\ r.id \in 1..lastId' /\ \A t \in rows' : t.id = r.id => Same(r, t)
             /\ r.op = "rename" => Foremost(rows', r) /\ \E t \in rows' : t.id = r.id
  <2>1. /\ r.id \in 1..lastId /\ \A s \in rows : s.id = r.id => Same(r, s)
        /\ r.op = "rename" => Foremost(rows, r) /\ \E s \in rows : s.id = r.id
    BY DEF Taken, StandsFor
  <2>2. lastId \in Nat
    BY DEF QueueInv
  <2>3. \A t \in rows' : t.id = r.id => Same(r, t)
    BY <2>1 DEF Grows, Same
  <2>4. r.op = "rename" => Foremost(rows', r)
    <3> SUFFICES ASSUME r.op = "rename", NEW t \in rows', t.op # "write", t.id < r.id
                 PROVE  ~Touches(t, r)
      BY DEF Foremost
    <3>1. t.id \in 1..lastId
      BY <2>1, <2>2 DEF Grows
    <3>2. PICK s \in rows : Same(t, s)
      BY <3>1 DEF Grows
    <3>3. ~Touches(s, r) /\ endpoints(t) = endpoints(s)
      BY <2>1, <3>2 DEF Foremost, Same, endpoints
    <3> QED BY <3>3 DEF Touches
  <2>5. r.op = "rename" => \E t \in rows' : t.id = r.id
    BY <2>1 DEF Grows, Same
  <2> QED BY <2>1, <2>2, <2>3, <2>4, <2>5
<1>2. \A r \in Hands' : StandsFor(r)'
  BY <1>1 DEF StandsFor
<1>3. \A r, s \in Hands' : r.id = s.id => r = s
  BY DEF Taken
<1> QED BY <1>1, <1>2, <1>3 DEF Taken

LEMMA SomeIds ==
  ASSUME QueueInv, NEW c \in Changes
  PROVE  idsFor(c) \in Nat
<1>1. c.op \in {"write", "mkdir", "rename", "delete"} /\ c.below \in SUBSET Paths
  BY DEF Changes
<1>2. IsFiniteSet(c.below) /\ Cardinality(c.below) \in Nat
  BY <1>1, SyncQueueAssumption, FS_Subset, FS_CardinalityType DEF SyncQueueAssumption
<1>3. IsFiniteSet(writesBelow(c.path)) /\ Cardinality(writesBelow(c.path)) \in Nat
  <2>1. IsFiniteSet(rows) /\ writesBelow(c.path) \in SUBSET rows
    BY InvIsGood, RowsAreFinite DEF writesBelow
  <2> QED BY <2>1, FS_Subset, FS_CardinalityType
<1> QED BY <1>1, <1>2, <1>3 DEF idsFor

(* A job the remote has answered, or that goes on as an upload.             *)
LEMMA JobAnswered ==
  ASSUME IsJob(job), NEW outcome, outcome # "idle", NEW t, Answers(outcome, t)
  PROVE  /\ remote' = t /\ job' # Idle /\ job'.phase = outcome /\ job'.row = job.row
         /\ job'.force = job.force /\ job'.content = job.content
<1>1. job' = [job EXCEPT !.phase = outcome] /\ remote' = t
  BY DEF Answers
<1>2. job'.phase = outcome /\ job'.row = job.row /\ job'.force = job.force /\ job'.content = job.content
  BY <1>1 DEF IsJob
<1> QED BY <1>1, <1>2 DEF Idle

LEMMA JobForced ==
  ASSUME QueueInv, KindInv, SourceMissing, job' # Idle
  PROVE  /\ job'.phase = "sent" /\ job'.row = job.row /\ job'.force = TRUE
         /\ job'.content = disk[job.row.to] /\ IsFile(disk[job.row.to]) /\ UNCHANGED <<rows, remote, lastId>>
<1>1. IsJob(job)
  BY Busy DEF SourceMissing
<1>2. /\ job' = [job EXCEPT !.phase = "sent", !.content = disk[job.row.to], !.force = TRUE]
      /\ IsFile(disk[job.row.to]) /\ UNCHANGED <<rows, remote, lastId>>
  BY DEF SourceMissing
<1> QED BY <1>1, <1>2 DEF IsJob

LEMMA SameHands ==
  ASSUME QueueInv, KindInv, Vacated, Taken, [Next]_vars, ~StartPass
  PROVE  Hands' \subseteq Hands /\ (job' # Idle => job'.row \notin pass')
<1>1. CASE UNCHANGED <<pass, job>>
  BY <1>1 DEF Hands, Taken
<1>2. ASSUME NEW r \in pass, Drop(r)
      PROVE  Hands' \subseteq Hands /\ (job' # Idle => job'.row \notin pass')
  BY <1>2 DEF Drop, Hands, Taken
<1>3. ASSUME NEW r \in pass, Send(r)
      PROVE  Hands' \subseteq Hands /\ (job' # Idle => job'.row \notin pass')
  <2>1. job'.row = r /\ pass' = pass \ {r}
    BY <1>3 DEF Send
  <2> QED BY <2>1 DEF Hands
<1>4. CASE Carry
  <2>1. job # Idle /\ pass' = pass /\ job'.row = job.row
    <3>1. IsJob(job) /\ job # Idle
      BY <1>4, Carried
    <3>2. job' # Idle /\ job'.row = job.row
      BY <1>4, <3>1, Carried, JobAnswered
    <3> QED BY <1>4, <3>1, <3>2 DEF Carry
  <2> QED BY <2>1 DEF Hands, Taken
<1>5. CASE job' = Idle /\ pass' = pass
  BY <1>5 DEF Hands
<1>6. CASE SourceMissing /\ job' # Idle
  <2>1. job'.row = job.row /\ pass' = pass /\ job # Idle
    BY <1>6, JobForced, Busy DEF SourceMissing
  <2> QED BY <2>1 DEF Hands, Taken
<1>7. \/ UNCHANGED <<pass, job>> \/ (\E r \in pass : Drop(r) \/ Send(r)) \/ Carry
      \/ (job' = Idle /\ pass' = pass) \/ (SourceMissing /\ job' # Idle)
  BY DEF Next, User, Sync, Pull, writeFile, createDir, renameItem, deleteItem, Edited, WriteEntry, Finish, SourceMissing,
         BackoffOver, Download, Reconcile, MirrorDeletion, PushFails, vars
<1> QED BY <1>1, <1>2, <1>3, <1>4, <1>5, <1>6, <1>7

LEMMA TakenStep ==
  ASSUME QueueInv, KindInv, Vacated, Taken, Gone, [Next]_vars
  PROVE  Taken'
<1>0. lastId \in Nat /\ Grows(rows, 0)
  BY FewerFollow DEF QueueInv, Follows
<1>00. \A r \in Hands : r.id # 0
  BY DEF Taken, StandsFor
<1>1. CASE StartPass
  <2>1. job' = Idle /\ pass' \subseteq rows /\ \A r \in pass' : Unblocked(r)
    BY <1>1 DEF StartPass, getPendingOperations
  <2>2. Hands' = pass' /\ rows' = rows /\ lastId' = lastId
    BY <1>1, <2>1 DEF Hands, StartPass
  <2>3. ASSUME NEW r \in pass'
        PROVE  StandsFor(r)' /\ (r.op = "rename" => Foremost(rows, r) /\ \E s \in rows : s.id = r.id)
    <3>1. r \in rows /\ Unblocked(r)
      BY <2>1
    <3>2. r.op = "rename" => Foremost(rows, r)
      BY <3>1 DEF Unblocked, Blocks, Foremost
    <3>3. \A s \in rows : s.id = r.id => s = r
      BY <3>1 DEF QueueInv, RowsNumbered
    <3>4. r.id \in 1..lastId
      BY <3>1 DEF QueueInv, RowsNumbered
    <3> QED BY <2>2, <3>1, <3>2, <3>3, <3>4 DEF StandsFor, Same
  <2>4. \A r, s \in pass' : r.id = s.id => r = s
    BY <2>1 DEF QueueInv, RowsNumbered
  <2> QED BY <2>1, <2>2, <2>3, <2>4 DEF Taken
<1>2. CASE User
  <2>1. UNCHANGED <<rows, lastId>> /\ ~StartPass
    <3>1. UNCHANGED <<rows, lastId>> /\ edits' = edits + 1
      BY <1>2 DEF User, writeFile, createDir, renameItem, deleteItem, Edited
    <3> QED BY <3>1 DEF StartPass, KindInv
  <2> QED BY <1>0, <1>00, <2>1, SameHands, TakenGrows
<1>3. CASE WriteEntry
  <2> DEFINE c == Head(owed)
  <2>1. c \in Owable /\ rows' = enqueue(c) /\ lastId' = lastId + idsFor(c) /\ UNCHANGED <<pass, job>>
    BY <1>3 DEF KindInv, WriteEntry
  <2>2. idsFor(c) \in Nat
    BY <2>1, SomeIds DEF Owable
  <2> HIDE DEF c
  <2>3. Grows(rows', 0)
    BY <2>1, EntryFollows, MoveGrows DEF Follows
  <2>4. Hands' = Hands /\ (job' # Idle => job'.row \notin pass')
    BY <2>1 DEF Hands, Taken
  <2>5. lastId' \in Nat /\ lastId' >= lastId
    BY <1>0, <2>1, <2>2
  <2> QED BY <1>00, <2>3, <2>4, <2>5, TakenGrows
<1>4. CASE ~StartPass /\ ~User /\ ~WriteEntry
  <2>1. lastId' \in Nat /\ lastId' >= lastId /\ Hands' \subseteq Hands /\ (job' # Idle => job'.row \notin pass')
    BY <1>4, StepFollows, SameHands
  <2>2. CASE Follows(rows', 0)
    BY <1>00, <2>1, <2>2, TakenGrows DEF Follows
  <2>3. CASE ~Follows(rows', 0)
    <3>1. Follows(rows', job.row.id) /\ job' = Idle /\ pass' = pass /\ (Finish \/ SourceMissing)
      BY <1>4, <2>3, StepFollows
    <3>2. job # Idle /\ Hands' = pass
      BY <3>1, JobIsInHand DEF Hands, Finish, SourceMissing
    <3>3. \A r \in Hands' : r.id # job.row.id
      BY <3>2 DEF Taken, Hands
    <3> QED BY <2>1, <3>1, <3>3, TakenGrows DEF Follows
  <2> QED BY <2>2, <2>3
<1> QED BY <1>1, <1>2, <1>3, <1>4

-----------------------------------------------------------------------------
(* What the remote has moved away, and when files are made.                 *)

LEMMA GoneStep ==
  ASSUME QueueInv, KindInv, Roots, Vacated, Taken, Gone, [Next]_vars
  PROVE  Gone'
<1>1. CASE UNCHANGED <<remote, job>>
  BY <1>1 DEF Gone
<1>2. CASE job' = Idle
  BY <1>2 DEF Gone, Idle
<1>3. ASSUME NEW r \in pass, Send(r)
      PROVE  Gone'
  <2>1. job'.row = r /\ job'.phase = "sent" /\ job'.force = r.force
    BY <1>3 DEF Send
  <2>2. r.force => r.op # "rename"
    BY DEF KindInv, OfItsKind
  <2> QED BY <2>1, <2>2 DEF Gone
<1>4. CASE Carry
  <2> DEFINE r == job.row
  <2>0. job # Idle /\ r \in Hands /\ IsJob(job) /\ r.path \in Paths /\ r.to \in Paths
    BY <1>4, Carried
  <2>1. ASSUME NEW outcome, outcome # "idle", NEW t, Answers(outcome, t)
        PROVE  /\ remote' = t /\ job'.phase = outcome /\ job'.row = r /\ job'.force = job.force
    BY <2>0, <2>1, JobAnswered
  <2>2. CASE r.op \in {"delete", "mkdir", "write"}
    <3>1. job'.row = r /\ job'.phase # "missing"
      BY <1>4, <2>1, <2>2, Carried
    <3> QED BY <2>2, <3>1 DEF Gone
  <2>3. CASE r.op = "rename" /\ job.force
    <3>1. \A x \in Paths : containsPath(r.path, x) => ~IsFile(remote[x])
      BY <2>0, <2>3 DEF Gone
    <3>2. ~overlaps(r.path, r.to) /\ Written(r) = r.to
      BY <2>0, <2>3, MoveInHand DEF Emptied, Written
    <3>3. remote' \in {remote, Put(remote, r.to, job.content)} /\ job'.row = r /\ job'.phase # "missing"
      <4>1. Answers("done", Put(remote, r.to, job.content)) \/ Answers("refused", remote)
        BY <1>4, <2>3, <3>2, Carried
      <4> QED BY <2>1, <4>1
    <3>4. ASSUME NEW x \in Paths, containsPath(r.path, x)
          PROVE  ~IsFile(remote'[x])
      <4>1. x # r.to
        BY <3>2, <3>4 DEF overlaps
      <4>2. Put(remote, r.to, job.content)[x] \in {Folder, remote[x]}
        BY <4>1 DEF Put
      <4>3. ~IsFile(Folder)
        BY DEF IsFile, Folder
      <4> QED BY <3>1, <3>3, <3>4, <4>2, <4>3
    <3> QED BY <3>3, <3>4 DEF Gone
  <2>4. CASE r.op = "rename" /\ ~job.force
    <3>0. ~overlaps(r.path, r.to) /\ ~IsFile(None)
      BY <2>0, <2>4, MoveInHand DEF Emptied, IsFile, None
    <3>1. CASE remote[r.path] = None /\ Answers("missing", remote)
      <4>1. job'.row = r /\ remote' = remote
        BY <2>1, <3>1
      <4>2. \A x \in Paths : containsPath(r.path, x) => remote[x] = None
        BY <2>0, <3>1, Kinds DEF Roots, Rooted
      <4> QED BY <2>4, <3>0, <4>1, <4>2 DEF Gone
    <3>2. CASE Answers("done", Moved(remote, r.path, r.to))
      <4>1. job'.row = r /\ remote' = Moved(remote, r.path, r.to) /\ job'.phase = "done"
        BY <2>1, <3>2
      <4>2. \A x \in Paths : containsPath(r.path, x) => ~containsPath(r.to, x)
        BY <2>0, <3>0, ContainsIsOrder
      <4>3. \A x \in Paths : containsPath(r.path, x) => remote'[x] = None
        BY <4>1, <4>2 DEF Moved
      <4> QED BY <3>0, <4>1, <4>3 DEF Gone
    <3>3. CASE Answers("failed", remote)
      <4>1. job'.row = r /\ job'.phase = "failed" /\ job'.force = job.force
        BY <2>1, <3>3
      <4> QED BY <2>4, <4>1 DEF Gone
    <3> QED BY <1>4, <2>4, <3>1, <3>2, <3>3, Carried
  <2>5. r.op \in {"delete", "mkdir", "write", "rename"}
    BY <2>0 DEF IsJob, OfItsKind
  <2> QED BY <2>2, <2>3, <2>4, <2>5
<1>5. CASE SourceMissing /\ job' # Idle
  <2>1. job'.row = job.row /\ remote' = remote /\ job'.phase = "sent" /\ job # Idle /\ job.phase = "missing"
    BY <1>5, JobForced, Busy DEF SourceMissing
  <2> QED BY <2>1 DEF Gone
<1>6. \/ UNCHANGED <<remote, job>> \/ (\E r \in pass : Send(r)) \/ Carry
      \/ job' = Idle \/ (SourceMissing /\ job' # Idle)
  BY DEF Next, User, Sync, Pull, writeFile, createDir, renameItem, deleteItem, Edited, WriteEntry, Finish, SourceMissing,
         StartPass, Drop, BackoffOver, Download, Reconcile, MirrorDeletion, PushFails, trees, vars
<1> QED BY <1>1, <1>2, <1>3, <1>4, <1>5, <1>6

(* What this model knows is what stands somewhere or is carried.            *)
Known == {None, Folder} \cup {disk[p] : p \in Paths} \cup {remote[p] : p \in Paths}
         \cup (IF Carries THEN {job.content} ELSE {})

LEMMA KnownIsBorn ==
  ASSUME KindInv, Fresh, edits' \in Nat, edits' >= edits, NEW x \in Known
  PROVE  Born(x, edits') /\ (IsFile(x) => x \in Versions)
<1>1. IsFile(x) => Born(x, edits) /\ x \in Versions
  <2> SUFFICES ASSUME IsFile(x) PROVE Born(x, edits) /\ x \in Versions
    OBVIOUS
  <2>1. ~IsFile(None) /\ ~IsFile(Folder)
    BY DEF IsFile, None, Folder
  <2>2. ASSUME NEW p \in Paths, x = disk[p] \/ x = remote[p]
        PROVE  Born(x, edits) /\ x \in Versions
    BY <2>2, FileIsVersion DEF KindInv, IsTree, Fresh
  <2>3. CASE Carries /\ x = job.content
    BY <2>3 DEF Carries, KindInv, IsJob, Fresh
  <2> QED BY <2>1, <2>2, <2>3 DEF Known
<1>2. edits \in Nat
  BY DEF KindInv
<1>3. IsFile(x) => x.file[2] \in Int
  BY <1>1 DEF Versions
<1> QED BY <1>1, <1>2, <1>3 DEF Born

LEMMA FreshBy ==
  ASSUME KindInv, Fresh, edits' \in Nat, edits' >= edits, \A p \in Paths : disk'[p] \in Known /\ remote'[p] \in Known,
         Carries' => job'.content \in Known
  PROVE  Fresh'
BY KnownIsBorn DEF Fresh

LEMMA MovedIsKnown ==
  /\ \A p, q, x \in Paths : Moved(disk, p, q)[x] \in Known /\ Moved(remote, p, q)[x] \in Known
  /\ \A p, x \in Paths : Without(disk, p)[x] \in Known /\ Without(remote, p)[x] \in Known
  /\ \A p, x \in Paths : \A v \in Known : Put(disk, p, v)[x] \in Known /\ Put(remote, p, v)[x] \in Known
<1>1. None \in Known /\ Folder \in Known /\ \A p \in Paths : disk[p] \in Known /\ remote[p] \in Known
  BY DEF Known
<1> QED BY <1>1 DEF Moved, Without, Put

LEMMA FreshStep ==
  ASSUME QueueInv, KindInv, Vacated, Taken, Fresh, [Next]_vars
  PROVE  Fresh'
<1>0. None \in Known /\ Folder \in Known /\ \A p \in Paths : disk[p] \in Known /\ remote[p] \in Known
  BY DEF Known
<1>00. edits \in Nat /\ (Carries => job.content \in Known) /\ DOMAIN disk = Paths
  BY DEF KindInv, Known, IsTree
<1>1. ASSUME NEW p \in Paths, writeFile(p)
      PROVE  Fresh'
  <2>1. edits' = edits + 1 /\ edits' \in Nat /\ edits' >= edits /\ UNCHANGED <<remote, job>>
    BY <1>00, <1>1 DEF writeFile, Edited
  <2>2. \A x \in Known : Born(x, edits')
    BY <2>1, KnownIsBorn
  <2>3. Born(disk'[p], edits')
    <3>1. CASE IsFile(disk[p])
      <4>1. disk[p] \in Versions /\ Born(disk[p], edits')
        BY <1>0, <2>2, <3>1, FileIsVersion DEF KindInv, IsTree
      <4>2. disk'[p] = [disk[p] EXCEPT !.n = edits']
        BY <1>00, <1>1, <3>1 DEF writeFile
      <4>3. disk'[p].file = disk[p].file
        BY <4>1, <4>2 DEF Versions
      <4> QED BY <3>1, <4>1, <4>3 DEF Born
    <3>2. CASE ~IsFile(disk[p])
      <4>1. disk'[p] = Version(p, edits', edits')
        BY <1>00, <1>1, <3>2 DEF writeFile
      <4> QED BY <2>1, <4>1 DEF Born, Version
    <3> QED BY <3>1, <3>2
  <2>4. \A x \in Paths : x # p => disk'[x] = disk[x]
    BY <1>00, <1>1 DEF writeFile
  <2>5. Carries' => Carries /\ job'.content = job.content
    BY <2>1 DEF Carries
  <2>6. \A x \in Paths : Born(disk'[x], edits') /\ Born(remote'[x], edits')
    BY <1>0, <2>1, <2>2, <2>3, <2>4
  <2> QED BY <1>00, <2>2, <2>5, <2>6 DEF Fresh
<1>2. CASE User
  <2>1. ASSUME NEW p \in Paths, createDir(p) \/ deleteItem(p) \/ \E q \in Paths : renameItem(p, q)
        PROVE  Fresh'
    <3>1. edits' \in Nat /\ edits' >= edits /\ remote' = remote /\ (Carries' => job'.content \in Known)
      BY <1>00, <2>1 DEF createDir, deleteItem, renameItem, Edited, Carries
    <3>2. \A x \in Paths : disk'[x] \in Known
      BY <1>0, <1>00, <2>1, MovedIsKnown DEF createDir, deleteItem, renameItem
    <3> QED BY <1>0, <3>1, <3>2, FreshBy
  <2> QED BY <1>1, <1>2, <2>1 DEF User
<1>3. ASSUME edits' = edits, \A x \in Paths : disk'[x] \in Known /\ remote'[x] \in Known,
             Carries' => job'.content \in Known
      PROVE  Fresh'
  BY <1>00, <1>3, FreshBy
<1>4. CASE Pull
  <2>1. \A x \in Paths : disk'[x] \in Known
    BY <1>0, <1>00, <1>4, MovedIsKnown DEF Pull, Download, Reconcile, MirrorDeletion
  <2>2. UNCHANGED <<edits, remote, job>>
    BY <1>4 DEF Pull, Download, Reconcile, MirrorDeletion
  <2> QED BY <1>0, <1>00, <1>3, <2>1, <2>2 DEF Carries
<1>5. CASE Carry
  <2>1. IsJob(job) /\ job # Idle /\ UNCHANGED <<edits, disk>>
    BY <1>5, Carried DEF Carry
  <2>2. ASSUME NEW outcome, outcome # "idle", NEW t, Answers(outcome, t)
        PROVE  remote' = t /\ job'.row = job.row /\ job'.force = job.force /\ job'.content = job.content
    BY <2>1, <2>2, JobAnswered
  <2>3. job'.row = job.row /\ job'.force = job.force /\ job'.content = job.content
    BY <1>5, <2>2, Carried
  <2>4. Carries' => job'.content \in Known
    BY <1>00, <2>1, <2>3 DEF Carries
  <2>5. Written(job.row) \in Paths /\ job.row.path \in Paths /\ job.row.to \in Paths
    BY <1>5, Carried DEF Written
  <2>6. \A x \in Paths : remote'[x] \in Known
    <3>1. job.row.op = "write" \/ job.force => job.content \in Known
      BY <1>00, <2>1 DEF Carries
    <3> QED BY <1>0, <1>5, <2>2, <2>5, <3>1, Carried, MovedIsKnown
  <2> QED BY <1>0, <1>3, <2>1, <2>4, <2>6
<1>6. ASSUME NEW r \in pass, Send(r)
      PROVE  Fresh'
  <2>1. job'.content = disk[r.path] /\ r.path \in Paths /\ UNCHANGED <<edits, disk, remote>>
    BY <1>6 DEF Send, trees, KindInv, OfItsKind
  <2> QED BY <1>0, <1>3, <2>1
<1>7. CASE SourceMissing
  <2>1. job.row.to \in Paths /\ UNCHANGED <<edits, disk>>
    BY <1>7, Busy DEF SourceMissing, OfItsKind
  <2>2. Carries' => job'.content \in Known
    <3>1. job' # Idle => job'.content \in Known
      BY <1>0, <1>7, <2>1, JobForced
    <3> QED BY <3>1 DEF Carries
  <2>3. \A x \in Paths : remote'[x] \in Known
    BY <1>0, <1>7, <2>1, MovedIsKnown DEF SourceMissing
  <2> QED BY <1>0, <1>3, <2>1, <2>2, <2>3
<1>8. CASE UNCHANGED <<edits, disk, remote>> /\ (job' = job \/ job' = Idle)
  BY <1>0, <1>00, <1>3, <1>8 DEF Carries
<1>9. \/ User \/ Pull \/ Carry \/ (\E r \in pass : Send(r)) \/ SourceMissing
      \/ (UNCHANGED <<edits, disk, remote>> /\ (job' = job \/ job' = Idle))
  BY DEF Next, Sync, WriteEntry, Finish, StartPass, Drop, BackoffOver, PushFails, trees, vars
<1> QED BY <1>2, <1>4, <1>5, <1>6, <1>7, <1>8, <1>9

-----------------------------------------------------------------------------
(* Where the moves that wait lead, before and after a step.                 *)

LEMMA KeptMoves ==
  ASSUME QueueInv, NEW S, Grows(S, 0)
  PROVE  SameMoves(rows, S, lastId) /\ \A t \in S : t.id \in Int
<1>1. \A s \in rows : s.id # 0
  BY DEF QueueInv, RowsNumbered
<1>2. ASSUME NEW t \in S, t.id <= lastId
      PROVE  t.id \in 1..lastId
  BY <1>2 DEF Grows, QueueInv
<1>3. \A t \in S : t.id \in Int
  BY DEF Grows
<1> QED BY <1>1, <1>2, <1>3 DEF SameMoves, Grows

LEMMA LeadsKept ==
  ASSUME QueueInv, Follows(rows', 0), lastId' \in Nat, lastId' >= lastId, UNCHANGED owed,
         NEW p \in Paths, NEW q \in Paths, Leads(p, q)
  PROVE  Leads(p, q)'
<1>1. PICK m \in Paths : QueueLeads(rows, lastId, p, m) /\ OwedLeads(owed, m, q)
  BY DEF Leads
<1>2. SameMoves(rows, rows', lastId) /\ \A t \in rows' : t.id \in Int
  BY KeptMoves DEF Follows
<1>3. \A t \in rows' : t.op = "rename" => t.id <= lastId
  BY DEF Follows
<1>4. lastId \in Nat /\ lastId <= lastId'
  BY DEF QueueInv
<1>5. QueueLeads(rows', lastId', p, m)
  BY <1>1, <1>2, <1>3, <1>4, LeadsTheSame
<1> QED BY <1>1, <1>5 DEF Leads

LEMMA LeadsRetired ==
  ASSUME QueueInv, KindInv, Vacated, Taken, NEW r \in Hands, r.op = "rename", Follows(rows', r.id),
         lastId' \in Nat, lastId' >= lastId, UNCHANGED owed,
         NEW p \in Paths, ~containsPath(r.path, p), NEW q \in Paths, Leads(p, q)
  PROVE  Leads(p, q)'
<1>1. PICK m \in Paths : QueueLeads(rows, lastId, p, m) /\ OwedLeads(owed, m, q)
  BY DEF Leads
<1>2. PICK s \in rows : Same(r, s) /\ Foremost(rows, s) /\ \A t \in rows : t.id = s.id => t = s
  BY MoveInHand
<1>3. s.op = "rename" /\ s.id = r.id /\ s.path = r.path /\ s.id \in 1..lastId
  BY <1>2 DEF Same, QueueInv, RowsNumbered
<1>4. lastId \in Nat /\ lastId <= lastId' /\ (\A t \in rows : OfItsKind(t)) /\ \A t \in rows : t.id \in Nat
  BY DEF QueueInv, KindInv, RowsNumbered
<1>5. \A t \in rows : t.op = "rename" /\ t.id # s.id => \E u \in rows' : Same(t, u)
  BY <1>3 DEF Follows, Grows
<1>6. \A t \in rows' : t.id \in Int /\ (t.op = "rename" => t.id <= lastId)
  BY DEF Follows, Grows
<1>7. ASSUME NEW t \in rows', t.op = "rename"
      PROVE  t.id # s.id /\ \E u \in rows : Same(t, u)
  <2>1. t.id \in 1..lastId /\ t.id # r.id
    BY <1>4, <1>6, <1>7 DEF Follows, Grows
  <2> QED BY <1>3, <2>1 DEF Follows, Grows
<1>8. QueueLeads(rows', lastId, p, m)
  BY <1>1, <1>2, <1>3, <1>4, <1>5, <1>7, LeadsWithout
<1>9. SameMoves(rows', rows', lastId)
  BY DEF SameMoves, Same
<1>10. QueueLeads(rows', lastId', p, m)
  BY <1>4, <1>6, <1>8, <1>9, LeadsTheSame
<1> QED BY <1>1, <1>10 DEF Leads

LEMMA LeadsByEntry ==
  ASSUME QueueInv, KindInv, WriteEntry, lastId' \in Nat, NEW p \in Paths, NEW q \in Paths, Leads(p, q)
  PROVE  Leads(p, q)'
<1> DEFINE c == Head(owed)
           move == Row(lastId + 1, "rename", c.path, c.to, FALSE)
<1>1. PICK m \in Paths : QueueLeads(rows, lastId, p, m) /\ OwedLeads(owed, m, q)
  BY DEF Leads
<1>2. owed \in Seq(Owable) /\ owed # <<>> /\ c \in Owable /\ c \in Changes
  BY DEF KindInv, WriteEntry, Owable
<1>3. rows' = enqueue(c) /\ owed' = Tail(owed) /\ lastId' = lastId + idsFor(c) /\ lastId \in Nat
  BY DEF WriteEntry, QueueInv
<1>4. PICK x \in Paths : Goes(c, m, x) /\ OwedLeads(Tail(owed), x, q)
  BY <1>1, <1>2, OwedLeadsAfter
<1>5. idsFor(c) \in Nat
  BY <1>2, SomeIds
<1> HIDE DEF c
<1>6. lastId <= lastId'
  BY <1>3, <1>5
<1>7. CASE c.op # "rename"
  <2>1. Follows(rows', 0)
    BY <1>2, <1>3, <1>7, EntryFollows
  <2>2. SameMoves(rows, rows', lastId) /\ (\A t \in rows' : t.id \in Int)
        /\ \A t \in rows' : t.op = "rename" => t.id <= lastId
    BY <2>1, KeptMoves DEF Follows
  <2>3. QueueLeads(rows', lastId', p, m)
    BY <1>1, <1>3, <1>6, <2>2, LeadsTheSame
  <2>4. x = m
    BY <1>4, <1>7 DEF Goes, Takes
  <2> QED BY <1>3, <1>4, <2>3, <2>4 DEF Leads
<1>8. CASE c.op = "rename"
  <2>1. SameMoves(rows, rows', lastId) /\ \A t \in rows' : t.id \in Int
    BY <1>2, <1>3, <1>8, MoveGrows, KeptMoves
  <2>2. /\ \A t \in rows' : t \in rows \/ t = move \/ (t.op = "write" /\ t.id > lastId)
        /\ move \in rows'
    BY <1>2, <1>3, <1>8, MoveEntry
  <2>3. move.id = lastId + 1 /\ move.op = "rename" /\ move.path = c.path /\ move.to = c.to
    BY DEF Row
  <2> HIDE DEF move
  <2>4. \A t \in rows : t.id <= lastId /\ t.id \in Nat
    BY <1>3 DEF QueueInv, RowsNumbered
  <2>5. \A t \in rows' : t.op = "rename" => t.id <= lastId + 1
    BY <1>3, <2>2, <2>3, <2>4
  <2>6. \A t \in rows' : t.id = lastId + 1 /\ t.op = "rename" => t = move
    BY <1>3, <2>2, <2>4
  <2>7. GoesBy(rows', lastId + 1, m, x)
    <3>1. Takes(move, m) <=> Takes(c, m)
      BY <1>8, <2>3 DEF Takes
    <3>2. \A t \in rows' : t.id = lastId + 1 /\ Takes(t, m) => t = move
      BY <2>6 DEF Takes
    <3> QED BY <1>4, <2>2, <2>3, <3>1, <3>2 DEF GoesBy, Goes
  <2>8. lastId < lastId'
    <3>1. idsFor(c) = 1 + Cardinality(writesBelow(c.path))
      BY <1>8 DEF idsFor
    <3>2. IsFiniteSet(rows) /\ writesBelow(c.path) \in SUBSET rows
      BY InvIsGood, RowsAreFinite DEF writesBelow
    <3>3. Cardinality(writesBelow(c.path)) \in Nat
      BY <3>2, FS_Subset, FS_CardinalityType
    <3> QED BY <1>3, <3>1, <3>3
  <2>9. QueueLeads(rows', lastId', p, x)
    BY <1>1, <1>3, <1>6, <2>1, <2>5, <2>7, <2>8, LeadsOn
  <2> QED BY <1>3, <1>4, <2>9 DEF Leads
<1> QED BY <1>7, <1>8

LEMMA LeadsByChange ==
  ASSUME KindInv, NEW change, Edited(change), NEW p \in Paths, NEW q \in Paths, Leads(p, q),
         NEW r \in Paths, Goes(change, q, r)
  PROVE  Leads(p, r)'
<1>1. PICK m \in Paths : QueueLeads(rows, lastId, p, m) /\ OwedLeads(owed, m, q)
  BY DEF Leads
<1>2. owed \in Seq(Owable) /\ owed' = Append(owed, change) /\ UNCHANGED <<rows, lastId>>
  BY DEF KindInv, Edited
<1>3. OwedLeads(owed', m, r)
  BY <1>1, <1>2, OwedLeadsOn
<1> QED BY <1>1, <1>2, <1>3 DEF Leads

(* From where no move that waits starts, the trail leads nowhere else.      *)
LEMMA LeadsHome ==
  ASSUME QueueInv, KindInv, NEW p \in Paths, \A c \in Queued("rename") : ~containsPath(c.path, p)
  PROVE  Leads(p, p) /\ \A q \in Paths : Leads(p, q) => q = p
<1>1. (\A s \in rows : ~Takes(s, p)) /\ \A i \in 1..Len(owed) : ~Takes(owed[i], p)
  BY QueuedMoves DEF Takes, KindInv
<1>2. lastId \in Nat /\ owed \in Seq(Owable) /\ Len(owed) \in Nat
  BY DEF QueueInv, KindInv
<1>3. Leads(p, p)
  <2> DEFINE f == [i \in 0..lastId |-> p]
             g == [i \in 0..Len(owed) |-> p]
  <2>1. QueueLeads(rows, lastId, p, p)
    <3>1. f \in [0..lastId -> Paths] /\ f[0] = p /\ f[lastId] = p
      BY <1>2
    <3>2. \A i \in 1..lastId : f[i - 1] = p /\ f[i] = p
      BY <1>2
    <3> HIDE DEF f
    <3>3. \A i \in 1..lastId : GoesBy(rows, i, f[i - 1], f[i])
      BY <1>1, <3>2 DEF GoesBy
    <3> QED BY <3>1, <3>3 DEF QueueLeads, Trail
  <2>2. OwedLeads(owed, p, p)
    <3>1. g \in [0..Len(owed) -> Paths] /\ g[0] = p /\ g[Len(owed)] = p
      BY <1>2
    <3>2. \A i \in 1..Len(owed) : g[i - 1] = p /\ g[i] = p
      BY <1>2
    <3> HIDE DEF g
    <3>3. \A i \in 1..Len(owed) : Goes(owed[i], g[i - 1], g[i])
      BY <1>1, <3>2 DEF Goes
    <3> QED BY <3>1, <3>3 DEF OwedLeads, OwedTrail
  <2> QED BY <2>1, <2>2 DEF Leads
<1>4. ASSUME NEW q \in Paths, Leads(p, q)
      PROVE  q = p
  <2>1. PICK m \in Paths : QueueLeads(rows, lastId, p, m) /\ OwedLeads(owed, m, q)
    BY <1>4 DEF Leads
  <2>2. m = p
    <3>1. PICK f \in [0..lastId -> Paths] : Trail(rows, lastId, f) /\ f[0] = p /\ f[lastId] = m
      BY <2>1 DEF QueueLeads
    <3>2. lastId \in 0..lastId
      BY <1>2
    <3>3. \A i \in 0..lastId : f[i] = f[0]
      BY <1>1, <1>2, <3>1, <3>2, StaysPut
    <3> QED BY <3>1, <3>2, <3>3
  <2>3. PICK g \in [0..Len(owed) -> Paths] : OwedTrail(owed, g) /\ g[0] = m /\ g[Len(owed)] = q
    BY <2>1 DEF OwedLeads
  <2> QED BY <1>1, <1>2, <2>2, <2>3, OwedStaysPut
<1> QED BY <1>3, <1>4

LEMMA NoMoveFromHere ==
  ASSUME Vacated, NEW p \in Paths, disk[p] # None
  PROVE  \A c \in Queued("rename") : ~containsPath(c.path, p)
BY DEF Vacated, Emptied

-----------------------------------------------------------------------------
(* All copies of a file stay on their way to one place.                     *)

LEMMA TrackedSame ==
  ASSUME Tracked,
         \A F \in Files : \A p \in Paths : (Here(F, p)' => Here(F, p)) /\ (Away(F, p)' => Away(F, p)),
         \A F \in Files : \A p, q \in Paths : Away(F, p)' /\ Leads(p, q) => Leads(p, q)'
  PROVE  Tracked'
<1> SUFFICES ASSUME NEW F \in Files
             PROVE  \E q \in Paths : \A p \in Paths : (Here(F, p)' => p = q) /\ (Away(F, p)' => Leads(p, q)')
  BY DEF Tracked
<1>1. PICK q \in Paths : \A p \in Paths : (Here(F, p) => p = q) /\ (Away(F, p) => Leads(p, q))
  BY DEF Tracked
<1> QED BY <1>1

LEMMA ChangeLeads ==
  ASSUME KindInv, NEW change, Edited(change), change.op # "rename", NEW p \in Paths, NEW q \in Paths, Leads(p, q)
  PROVE  Leads(p, q)'
<1>1. Goes(change, q, q)
  BY DEF Goes, Takes
<1> QED BY <1>1, LeadsByChange

LEMMA AwayAsBefore ==
  ASSUME UNCHANGED <<remote, job>>, NEW F, NEW p
  PROVE  Away(F, p)' = Away(F, p)
BY DEF Away, Carries

LEMMA WriteKeepsTracked ==
  ASSUME QueueInv, KindInv, Fresh, Tracked, NEW w \in Paths, writeFile(w)
  PROVE  Tracked'
<1>1. /\ UNCHANGED <<remote, job>> /\ edits' = edits + 1 /\ edits \in Nat /\ DOMAIN disk = Paths
      /\ w \in FilePaths
  BY DEF writeFile, Edited, KindInv, IsTree
<1>2. PICK change : Edited(change) /\ change.op # "rename"
  BY DEF writeFile, Change
<1>3. \A x \in Paths : x # w => disk'[x] = disk[x]
  BY <1>1 DEF writeFile
<1>4. \A F \in Files : \A p, q \in Paths : Leads(p, q) => Leads(p, q)'
  BY <1>2, ChangeLeads
<1>5. CASE IsFile(disk[w])
  <2>1. disk[w] \in Versions
    BY <1>5, FileIsVersion DEF KindInv, IsTree
  <2>2. disk'[w] = [disk[w] EXCEPT !.n = edits']
    BY <1>1, <1>5 DEF writeFile
  <2>3. disk'[w].file = disk[w].file
    BY <2>1, <2>2 DEF Versions
  <2>4. \A F \in Files : \A p \in Paths : Here(F, p)' => Here(F, p)
    BY <1>3, <1>5, <2>3 DEF Here
  <2> QED BY <1>1, <1>4, <2>4, AwayAsBefore, TrackedSame
<1>6. CASE ~IsFile(disk[w])
  <2> DEFINE new == <<w, edits'>>
  <2>1. disk'[w].file = new
    BY <1>1, <1>6 DEF writeFile, Version
  <2>2. ASSUME NEW p \in Paths
        PROVE  ~Here(new, p) /\ ~Away(new, p)
    <3>1. new[2] = edits'
      OBVIOUS
    <3> HIDE DEF new
    <3>2. ~(new[2] <= edits)
      BY <1>1, <3>1
    <3>3. ~Here(new, p)
      BY <3>2 DEF Fresh, Born, Here
    <3>4. ~(IsFile(remote[p]) /\ remote[p].file = new)
      BY <3>2 DEF Fresh, Born
    <3>5. ~(Carries /\ job.content.file = new)
      <4>1. Carries => job.content \in Versions
        BY DEF Carries, KindInv, IsJob
      <4>2. Carries => IsFile(job.content)
        BY <4>1 DEF Versions, IsFile
      <4> QED BY <3>2, <4>2 DEF Fresh, Born
    <3> QED BY <3>3, <3>4, <3>5 DEF Away
  <2> HIDE DEF new
  <2> SUFFICES ASSUME NEW F \in Files
               PROVE  \E q \in Paths : \A p \in Paths : (Here(F, p)' => p = q) /\ (Away(F, p)' => Leads(p, q)')
    BY DEF Tracked
  <2>3. \A p \in Paths : Here(F, p)' => Here(F, p) \/ (p = w /\ F = new)
    BY <1>3, <2>1 DEF Here
  <2>4. \A p \in Paths : Away(F, p)' => Away(F, p)
    BY <1>1, AwayAsBefore
  <2>5. CASE F = new
    BY <2>2, <2>3, <2>4, <2>5
  <2>6. CASE F # new
    <3>1. PICK q \in Paths : \A p \in Paths : (Here(F, p) => p = q) /\ (Away(F, p) => Leads(p, q))
      BY DEF Tracked
    <3> QED BY <1>4, <2>3, <2>4, <2>6, <3>1
  <2> QED BY <2>5, <2>6
<1> QED BY <1>5, <1>6

LEMMA RenameKeepsTracked ==
  ASSUME QueueInv, KindInv, Tracked, Roots, NEW from \in Paths, NEW to \in Paths, renameItem(from, to)
  PROVE  Tracked'
<1> DEFINE change == Change("rename", from, to, {})
<1>1. /\ UNCHANGED <<remote, job>> /\ Edited(change) /\ disk' = Moved(disk, from, to)
      /\ \A r \in Paths : containsPath(from, r) => Rebase(r, from, to) \in Paths
  BY DEF renameItem, Edited
<1>2. change.op = "rename" /\ change.path = from /\ change.to = to
  BY DEF Change
<1> HIDE DEF change
<1> SUFFICES ASSUME NEW F \in Files
             PROVE  \E q \in Paths : \A p \in Paths : (Here(F, p)' => p = q) /\ (Away(F, p)' => Leads(p, q)')
  BY DEF Tracked
<1>3. PICK q \in Paths : \A p \in Paths : (Here(F, p) => p = q) /\ (Away(F, p) => Leads(p, q))
  BY DEF Tracked
<1> DEFINE next == IF containsPath(from, q) THEN Rebase(q, from, to) ELSE q
<1>4. next \in Paths /\ Goes(change, q, next)
  BY <1>1, <1>2 DEF Goes, Takes
<1>5. ASSUME NEW p \in Paths, Here(F, p)'
      PROVE  p = next
  <2>0. ~IsFile(None)
    BY DEF IsFile, None
  <2>1. IsFile(Moved(disk, from, to)[p]) /\ Moved(disk, from, to)[p].file = F
    BY <1>1, <1>5 DEF Here
  <2>2. CASE containsPath(to, p)
    <3> DEFINE y == Rebase(p, to, from)
    <3>1. y \in Paths /\ Here(F, y)
      BY <2>0, <2>1, <2>2 DEF Moved, Here
    <3>2. containsPath(from, y) /\ Rebase(y, from, to) = p
      BY <2>2, <3>1, RebaseBack
    <3> HIDE DEF y
    <3> QED BY <1>3, <3>1, <3>2
  <2>3. CASE ~containsPath(to, p)
    <3>1. ~containsPath(from, p) /\ Here(F, p)
      BY <2>0, <2>1, <2>3 DEF Moved, Here
    <3> QED BY <1>3, <3>1
  <2> QED BY <2>2, <2>3
<1> HIDE DEF next
<1>6. ASSUME NEW p \in Paths, Away(F, p)'
      PROVE  Leads(p, next)'
  BY <1>1, <1>3, <1>4, <1>6, AwayAsBefore, LeadsByChange
<1> QED BY <1>4, <1>5, <1>6

LEMMA UserKeepsTracked ==
  ASSUME QueueInv, KindInv, Roots, Fresh, Tracked, User
  PROVE  Tracked'
<1>1. ASSUME NEW w \in Paths, createDir(w) \/ deleteItem(w)
      PROVE  Tracked'
  <2>1. UNCHANGED <<remote, job>> /\ \E change : Edited(change) /\ change.op # "rename"
    BY <1>1 DEF createDir, deleteItem, Edited, Change
  <2>2. ~IsFile(None) /\ ~IsFile(Folder) /\ DOMAIN disk = Paths
    BY DEF IsFile, None, Folder, KindInv, IsTree
  <2>3. \A F \in Files : \A p \in Paths : Here(F, p)' => Here(F, p)
    BY <1>1, <2>2 DEF createDir, deleteItem, Without, Here
  <2>4. \A p, q \in Paths : Leads(p, q) => Leads(p, q)'
    BY <2>1, ChangeLeads
  <2> QED BY <2>1, <2>3, <2>4, AwayAsBefore, TrackedSame
<1> QED BY <1>1, WriteKeepsTracked, RenameKeepsTracked DEF User

(* An upload begins with what stands on this device, where it stands.       *)
LEMMA UploadIsTracked ==
  ASSUME QueueInv, KindInv, Vacated, Tracked, UNCHANGED <<disk, remote, rows, lastId, owed>>,
         NEW w \in Paths, IsFile(disk[w]), Carries' => Written(job'.row) = w /\ job'.content = disk[w]
  PROVE  Tracked'
<1>1. Leads(w, w)
  <2>1. disk[w] # None
    BY DEF IsFile, None
  <2> QED BY <2>1, NoMoveFromHere, LeadsHome
<1> SUFFICES ASSUME NEW F \in Files
             PROVE  \E q \in Paths : \A p \in Paths : (Here(F, p)' => p = q) /\ (Away(F, p)' => Leads(p, q)')
  BY DEF Tracked
<1>2. PICK q \in Paths : \A p \in Paths : (Here(F, p) => p = q) /\ (Away(F, p) => Leads(p, q))
  BY DEF Tracked
<1>3. ASSUME NEW p \in Paths, Away(F, p)'
      PROVE  Leads(p, q)
  <2>1. CASE IsFile(remote[p]) /\ remote[p].file = F
    BY <1>2, <2>1 DEF Away
  <2>2. CASE ~(IsFile(remote[p]) /\ remote[p].file = F)
    <3>1. p = w /\ disk[w].file = F
      BY <1>3, <2>2 DEF Away
    <3>2. w = q
      BY <1>2, <3>1 DEF Here
    <3> QED BY <1>1, <3>1, <3>2
  <2> QED BY <2>1, <2>2
<1>4. ASSUME NEW p \in Paths
      PROVE  (Leads(p, q) => Leads(p, q)') /\ (Here(F, p)' => Here(F, p))
  BY DEF Leads, Here
<1> QED BY <1>2, <1>3, <1>4

LEMMA SendKeepsTracked ==
  ASSUME QueueInv, KindInv, Vacated, Tracked, NEW r \in pass, Send(r)
  PROVE  Tracked'
<1>1. /\ UNCHANGED <<disk, remote, rows, lastId, owed>> /\ job'.row = r /\ job'.content = disk[r.path]
      /\ job'.force = r.force /\ ~Settled(r) /\ OfItsKind(r)
  BY DEF Send, trees, KindInv
<1>2. CASE r.op = "write"
  <2>1. r.path \in FilePaths /\ r.path \in Paths /\ disk[r.path] # None
    BY <1>1, <1>2 DEF Settled, OfItsKind
  <2>2. IsFile(disk[r.path]) /\ Written(r) = r.path
    <3>1. disk[r.path] \in Versions
      BY <2>1, Kinds DEF KindInv, IsTree
    <3> QED BY <1>2, <3>1 DEF Versions, IsFile, Written
  <2> QED BY <1>1, <2>1, <2>2, UploadIsTracked
<1>3. CASE r.op # "write"
  <2>1. ~Carries'
    BY <1>1, <1>3 DEF Carries, OfItsKind
  <2>2. \A F \in Files : \A p \in Paths : (Here(F, p)' => Here(F, p)) /\ (Away(F, p)' => Away(F, p))
    BY <1>1, <2>1 DEF Here, Away
  <2>3. \A p, q \in Paths : Leads(p, q) => Leads(p, q)'
    BY <1>1 DEF Leads
  <2> QED BY <2>2, <2>3, TrackedSame
<1> QED BY <1>2, <1>3

LEMMA CarryKeepsTracked ==
  ASSUME QueueInv, KindInv, Vacated, Taken, Tracked, Carry
  PROVE  Tracked'
<1> DEFINE r == job.row
<1>0. job # Idle /\ r \in Hands /\ IsJob(job) /\ r.path \in Paths /\ r.to \in Paths
  BY Carried
<1>1. UNCHANGED <<disk, rows, lastId, owed>>
  BY DEF Carry
<1>2. ASSUME NEW outcome, outcome # "idle", NEW t, Answers(outcome, t)
      PROVE  remote' = t /\ Carries' = Carries /\ job'.row = r /\ job'.content = job.content
  BY <1>0, <1>2, JobAnswered DEF Carries
<1>3. \A F \in Files : \A p, q \in Paths : (Leads(p, q) => Leads(p, q)') /\ (Here(F, p)' => Here(F, p))
  BY <1>1 DEF Leads, Here
<1>4. ~IsFile(None) /\ ~IsFile(Folder)
  BY DEF IsFile, None, Folder
<1>5. ASSUME NEW outcome, outcome # "idle", NEW t, Answers(outcome, t),
             \A F \in Files : \A p \in Paths : IsFile(t[p]) /\ t[p].file = F => Away(F, p)
      PROVE  Tracked'
  <2>1. \A F \in Files : \A p \in Paths : Away(F, p)' => Away(F, p)
    BY <1>2, <1>5 DEF Away
  <2> QED BY <1>3, <2>1, TrackedSame
<1>6. CASE Answers("done", Without(remote, r.path))
  <2>1. \A F \in Files : \A p \in Paths :
          IsFile(Without(remote, r.path)[p]) /\ Without(remote, r.path)[p].file = F => Away(F, p)
    BY <1>4 DEF Without, Away
  <2> QED BY <1>5, <1>6, <2>1
<1>7. CASE Answers("done", Put(remote, r.path, Folder))
  <2>1. \A F \in Files : \A p \in Paths :
          IsFile(Put(remote, r.path, Folder)[p]) /\ Put(remote, r.path, Folder)[p].file = F => Away(F, p)
    BY <1>4 DEF Put, Away
  <2> QED BY <1>5, <1>7, <2>1
<1>8. CASE Carries /\ Answers("done", Put(remote, Written(r), job.content))
  <2> DEFINE t == Put(remote, Written(r), job.content)
  <2>1. ASSUME NEW F \in Files, NEW p \in Paths, IsFile(t[p]), t[p].file = F
        PROVE  Away(F, p)
    <3>1. CASE p = Written(r)
      BY <1>8, <2>1, <3>1 DEF Put, Away
    <3>2. CASE p # Written(r)
      BY <1>4, <2>1, <3>2 DEF Put, Away
    <3> QED BY <3>1, <3>2
  <2> HIDE DEF t
  <2> QED BY <1>5, <1>8, <2>1 DEF t
<1>9. CASE \E outcome \in {"refused", "missing", "failed"} : Answers(outcome, remote)
  <2>1. \A F \in Files : \A p \in Paths : IsFile(remote[p]) /\ remote[p].file = F => Away(F, p)
    BY DEF Away
  <2> QED BY <1>5, <1>9, <2>1
<1>10. CASE r.op = "rename" /\ ~job.force /\ Answers("done", Moved(remote, r.path, r.to))
  <2>1. remote' = Moved(remote, r.path, r.to) /\ ~Carries'
    BY <1>2, <1>10 DEF Carries
  <2>2. PICK s \in rows : Same(r, s) /\ Foremost(rows, s) /\ \A u \in rows : u.id = s.id => u = s
    BY <1>0, <1>10, MoveInHand
  <2>3. s.op = "rename" /\ s.path = r.path /\ s.to = r.to /\ s.id \in 1..lastId /\ ~overlaps(s.path, s.to)
    BY <1>0, <1>10, <2>2, MoveInHand DEF Same, Emptied
  <2>4. lastId \in Nat /\ \A u \in rows : OfItsKind(u) /\ u.id \in Nat
    BY DEF QueueInv, KindInv, RowsNumbered
  <2>5. ASSUME NEW x \in Paths, NEW y \in Paths, containsPath(s.path, y), x = Rebase(y, s.path, s.to),
               NEW q \in Paths, Leads(y, q)
        PROVE  Leads(x, q)
    <3>1. PICK m \in Paths : QueueLeads(rows, lastId, y, m) /\ OwedLeads(owed, m, q)
      BY <2>5 DEF Leads
    <3>2. QueueLeads(rows, lastId, x, m)
      BY <2>2, <2>3, <2>4, <2>5, <3>1, LeadsFromThere
    <3> QED BY <3>1, <3>2 DEF Leads
  <2> SUFFICES ASSUME NEW F \in Files
               PROVE  \E q \in Paths : \A p \in Paths : (Here(F, p)' => p = q) /\ (Away(F, p)' => Leads(p, q)')
    BY DEF Tracked
  <2>6. PICK q \in Paths : \A p \in Paths : (Here(F, p) => p = q) /\ (Away(F, p) => Leads(p, q))
    BY DEF Tracked
  <2>7. ASSUME NEW p \in Paths, Away(F, p)'
        PROVE  Leads(p, q)
    <3>1. IsFile(Moved(remote, r.path, r.to)[p]) /\ Moved(remote, r.path, r.to)[p].file = F
      BY <2>1, <2>7 DEF Away
    <3>2. CASE containsPath(r.to, p)
      <4> DEFINE y == Rebase(p, r.to, r.path)
      <4>1. y \in Paths /\ Away(F, y)
        BY <1>4, <3>1, <3>2 DEF Moved, Away
      <4>2. containsPath(r.path, y) /\ Rebase(y, r.path, r.to) = p
        BY <1>0, <3>2, <4>1, RebaseBack
      <4> HIDE DEF y
      <4> QED BY <2>3, <2>5, <2>6, <4>1, <4>2
    <3>3. CASE ~containsPath(r.to, p)
      BY <1>4, <2>6, <3>1, <3>3 DEF Moved, Away
    <3> QED BY <3>2, <3>3
  <2> QED BY <1>3, <2>6, <2>7
<1> QED BY <1>0, <1>6, <1>7, <1>8, <1>9, <1>10, Carried DEF Carries

(* A pull brings a file only to where the moves that wait lead it anyway.   *)
LEMMA DownloadKeepsTracked ==
  ASSUME QueueInv, KindInv, Tracked, NEW w \in Paths, Download(w)
  PROVE  Tracked'
<1>1. /\ UNCHANGED <<remote, rows, lastId, owed, job>> /\ disk' = Put(disk, w, remote[w])
      /\ IsFile(remote[w]) /\ Pulls(w)
  BY DEF Download
<1>2. \A q \in Paths : Leads(w, q) => q = w
  BY <1>1, PullIsClear, LeadsHome
<1>3. ~IsFile(Folder)
  BY DEF IsFile, Folder
<1> SUFFICES ASSUME NEW F \in Files
             PROVE  \E q \in Paths : \A p \in Paths : (Here(F, p)' => p = q) /\ (Away(F, p)' => Leads(p, q)')
  BY DEF Tracked
<1>4. PICK q \in Paths : \A p \in Paths : (Here(F, p) => p = q) /\ (Away(F, p) => Leads(p, q))
  BY DEF Tracked
<1>5. \A p \in Paths : Here(F, p)' => Here(F, p) \/ (p = w /\ Away(F, w))
  BY <1>1, <1>3 DEF Here, Away, Put
<1>6. \A p \in Paths : Away(F, p)' => Away(F, p)
  BY <1>1, AwayAsBefore
<1>7. \A p \in Paths : Leads(p, q) => Leads(p, q)'
  BY <1>1 DEF Leads
<1> QED BY <1>2, <1>4, <1>5, <1>6, <1>7

LEMMA TrackedStep ==
  ASSUME QueueInv, KindInv, RouteInv, [Next]_vars
  PROVE  Tracked'
<1>0. Roots /\ Vacated /\ Taken /\ Gone /\ Fresh /\ Tracked /\ ~IsFile(None) /\ ~IsFile(Folder) /\ lastId' \in Nat
  BY StepQueue DEF RouteInv, IsFile, None, Folder, QueueInv
<1>1. CASE User
  BY <1>0, <1>1, UserKeepsTracked
<1>2. CASE WriteEntry
  <2>1. UNCHANGED <<disk, remote, job>>
    BY <1>2 DEF WriteEntry
  <2>2. \A F \in Files : \A p \in Paths : Here(F, p)' => Here(F, p)
    BY <2>1 DEF Here
  <2>3. \A p, q \in Paths : Leads(p, q) => Leads(p, q)'
    BY <1>0, <1>2, LeadsByEntry
  <2> QED BY <1>0, <2>1, <2>2, <2>3, AwayAsBefore, TrackedSame
<1>3. CASE Carry
  BY <1>0, <1>3, CarryKeepsTracked
<1>4. CASE \E r \in pass : Send(r)
  BY <1>0, <1>4, SendKeepsTracked
<1>5. CASE \E p \in Paths : Download(p)
  BY <1>0, <1>5, DownloadKeepsTracked
<1>6. CASE SourceMissing /\ job' # Idle
  <2>1. /\ UNCHANGED <<disk, remote, rows, lastId, owed>> /\ job'.row = job.row
        /\ job'.content = disk[job.row.to] /\ IsFile(disk[job.row.to])
    BY <1>6, JobForced DEF SourceMissing
  <2>2. job.row.op = "rename" /\ job.row.to \in Paths
    BY <1>0, <1>6, Busy DEF SourceMissing, Gone, OfItsKind
  <2>3. Written(job.row) = job.row.to
    BY <2>2 DEF Written
  <2> QED BY <1>0, <2>1, <2>2, <2>3, UploadIsTracked
<1>7. ASSUME ~User, ~WriteEntry,
             \A F \in Files : \A p \in Paths : (Here(F, p)' => Here(F, p)) /\ (Away(F, p)' => Away(F, p)),
             job' = Idle => \A p \in Paths : IsFile(remote'[p]) => IsFile(remote[p])
      PROVE  Tracked'
  <2>1. /\ UNCHANGED owed /\ lastId' \in Nat /\ lastId' >= lastId
        /\ \/ Follows(rows', 0)
           \/ /\ job.row.op = "rename" /\ job.row.id # 0 /\ job' = Idle /\ UNCHANGED pass /\ disk' = disk
              /\ (Finish /\ job.phase = "done") \/ (SourceMissing /\ job.phase = "missing")
              /\ Follows(rows', job.row.id)
    BY <1>0, <1>7, StepFollows
  <2>2. CASE Follows(rows', 0)
    BY <1>0, <1>7, <2>1, <2>2, LeadsKept, TrackedSame
  <2>3. CASE /\ job.row.op = "rename" /\ job' = Idle /\ job.phase \in {"done", "missing"}
             /\ Follows(rows', job.row.id)
    <3>1. job # Idle /\ job.row \in Hands
      BY <2>3, JobIsInHand
    <3>2. \A x \in Paths : containsPath(job.row.path, x) => ~IsFile(remote[x])
      BY <1>0, <2>3, <3>1 DEF Gone
    <3>3. ASSUME NEW F \in Files, NEW p \in Paths, NEW q \in Paths, Away(F, p)', Leads(p, q)
          PROVE  Leads(p, q)'
      <4>1. ~containsPath(job.row.path, p)
        BY <1>7, <2>3, <3>2, <3>3 DEF Away, Carries
      <4> QED BY <1>0, <2>1, <2>3, <3>1, <3>3, <4>1, LeadsRetired
    <3> QED BY <1>0, <1>7, <3>3, TrackedSame
  <2> QED BY <2>1, <2>2, <2>3
<1>8. CASE SourceMissing /\ job' = Idle
  <2>1. disk' = disk /\ (remote' = remote \/ remote' = Put(remote, job.row.to, Folder))
    BY <1>8 DEF SourceMissing
  <2>2. \A p \in Paths : IsFile(remote'[p]) => remote'[p] = remote[p]
    BY <1>0, <2>1 DEF Put
  <2>3. ~User /\ ~WriteEntry
    <3>1. job # Idle /\ UNCHANGED <<edits, owed>>
      BY <1>8, JobIsInHand DEF SourceMissing
    <3> QED BY <1>8, <3>1 DEF User, WriteEntry, writeFile, createDir, renameItem, deleteItem, Edited
  <2>4. \A F \in Files : \A p \in Paths : (Here(F, p)' => Here(F, p)) /\ (Away(F, p)' => Away(F, p))
    BY <1>8, <2>1, <2>2 DEF Here, Away, Carries
  <2> QED BY <1>7, <2>2, <2>3, <2>4
<1>9. ASSUME UNCHANGED remote, job' = job \/ job' = Idle, \A p \in Paths : IsFile(disk'[p]) => disk'[p] = disk[p]
      PROVE  Tracked'
  <2>1. \A F \in Files : \A p \in Paths : (Here(F, p)' => Here(F, p)) /\ (Away(F, p)' => Away(F, p))
    BY <1>9 DEF Here, Away, Carries
  <2> QED BY <1>1, <1>2, <1>7, <1>9, <2>1
<1>10. CASE \E p \in Paths : MirrorDeletion(p)
  BY <1>0, <1>9, <1>10 DEF MirrorDeletion, KindInv, IsTree
<1>11. CASE UNCHANGED <<disk, remote>> /\ (job' = job \/ job' = Idle)
  BY <1>9, <1>11
<1>12. \/ User \/ WriteEntry \/ Carry \/ (\E r \in pass : Send(r)) \/ (\E p \in Paths : Download(p))
       \/ (SourceMissing /\ job' # Idle) \/ (SourceMissing /\ job' = Idle) \/ (\E p \in Paths : MirrorDeletion(p))
       \/ (UNCHANGED <<disk, remote>> /\ (job' = job \/ job' = Idle))
  BY DEF Next, Sync, Pull, StartPass, Drop, Finish, BackoffOver, PushFails, Reconcile, trees, vars
<1> QED BY <1>1, <1>2, <1>3, <1>4, <1>5, <1>6, <1>8, <1>10, <1>11, <1>12

LEMMA InitRoute ==
  ASSUME Init
  PROVE  RouteInv
<1>1. PICK t \in Trees :
        /\ disk = [p \in Paths |-> CASE t[p] \in {"none", "away"} -> None
                                     [] t[p] = "folder" -> Folder
                                     [] t[p] = "file" -> Version(p, 0, 0)]
        /\ remote = [p \in Paths |-> IF t[p] = "away" THEN Version(p, Elsewhere, 0) ELSE disk[p]]
  BY DEF Init
<1>2. /\ \A p, q \in Paths : p # q /\ containsPath(p, q) /\ t[q] # "none" => t[p] = "folder"
      /\ \A p \in Paths : t[p] \in {"none", "folder", "file", "away"}
  <2>1. t \in [Paths -> {"none", "folder", "file", "away"}]
    BY SyncQueueAssumption DEF SyncQueueAssumption
  <2> QED BY <2>1, KindsAssumption
<1>3. edits = 0 /\ rows = {} /\ pass = {} /\ owed = <<>> /\ job = Idle /\ lastId = 0
  BY DEF Init
<1>4. ASSUME NEW p \in Paths
      PROVE  /\ t[p] = "none" => disk[p] = None /\ remote[p] = None
             /\ t[p] = "folder" => disk[p] = Folder /\ remote[p] = Folder
             /\ disk[p] \in {None, Folder, Version(p, 0, 0)}
             /\ remote[p] \in {None, Folder, Version(p, 0, 0), Version(p, Elsewhere, 0)}
  BY <1>1, <1>2
<1>5. /\ ~IsFile(None) /\ ~IsFile(Folder)
      /\ \A p : /\ Version(p, 0, 0).file = <<p, 0>> /\ Version(p, Elsewhere, 0).file = <<p, Elsewhere>>
                /\ Version(p, 0, 0).file[1] = p /\ Version(p, Elsewhere, 0).file[1] = p
                /\ Version(p, 0, 0).file[2] <= 0 /\ Version(p, Elsewhere, 0).file[2] <= 0
  BY DEF IsFile, None, Folder, Version, Elsewhere
<1>6. Roots
  BY <1>2, <1>4 DEF Roots, Rooted
<1>7. Vacated
  BY <1>3 DEF Vacated, Queued
<1>8. Taken /\ Gone
  BY <1>3 DEF Taken, Hands, Gone, Idle
<1>9. Fresh
  BY <1>3, <1>4, <1>5 DEF Fresh, Born, Carries
<1>10. ASSUME NEW F \in Files, NEW p \in Paths, Here(F, p) \/ Away(F, p)
       PROVE  F[1] = p
  BY <1>3, <1>4, <1>5, <1>10 DEF Here, Away, Carries
<1>11. ASSUME NEW p \in Paths
       PROVE  Leads(p, p)
  <2>1. QueueInv /\ KindInv
    BY InitQueue, InitKinds
  <2>2. Queued("rename") = {}
    BY <1>3 DEF Queued
  <2> QED BY <2>1, <2>2, LeadsHome
<1>12. Tracked
  <2> SUFFICES ASSUME NEW F \in Files
               PROVE  \E q \in Paths : \A p \in Paths : (Here(F, p) => p = q) /\ (Away(F, p) => Leads(p, q))
    BY DEF Tracked
  <2>1. F[1] \in Paths
    BY DEF Files
  <2> QED BY <1>10, <1>11, <2>1
<1> QED BY <1>6, <1>7, <1>8, <1>9, <1>12 DEF RouteInv

LEMMA RouteStep ==
  ASSUME "rename" \notin Reused, QueueInv, KindInv, RouteInv, [Next]_vars
  PROVE  RouteInv'
<1>1. Roots /\ Vacated /\ Taken /\ Gone /\ Fresh /\ Tracked
  BY DEF RouteInv
<1>2. Roots' /\ Vacated' /\ Taken' /\ Gone' /\ Fresh' /\ Tracked'
  BY <1>1, RootsStep, VacatedStep, TakenStep, GoneStep, FreshStep, TrackedStep
<1> QED BY <1>2 DEF RouteInv

(* While the user takes no name again that a queued move starts from or     *)
(* goes to, a pull never takes at a path a version for the remote's of a    *)
(* file this device has elsewhere: in whatever order the entries become     *)
(* due, fail, lose their answers and go out again, and whatever the user    *)
(* moves, makes, writes and deletes meanwhile, every copy of a file is on   *)
(* its way to where the file stands, and a path the pull looks at is one    *)
(* from which no move leads away (getPendingOperations, queueRename,        *)
(* hasPendingStructuralOp).                                                 *)
THEOREM StrangersStayApart ==
  ASSUME "rename" \notin Reused
  PROVE  Spec => []StrangersNeverMeet
<1>1. QueueInv /\ KindInv /\ RouteInv => StrangersNeverMeet
  <2> SUFFICES ASSUME QueueInv, KindInv, Tracked, NEW p \in FilePaths, NEW q \in FilePaths,
                      Pulls(p), IsFile(remote[p]), IsFile(disk[q]), remote[p].file = disk[q].file
               PROVE  p = q
    BY DEF StrangersNeverMeet, RouteInv
  <2>1. p \in Paths /\ q \in Paths
    BY DEF FilePaths
  <2> DEFINE F == disk[q].file
  <2>2. F \in Files
    BY <2>1, FileIsVersion DEF KindInv, IsTree, Versions, Files
  <2>3. Here(F, q) /\ Away(F, p)
    BY DEF Here, Away
  <2> HIDE DEF F
  <2>4. Leads(p, q)
    BY <2>1, <2>2, <2>3 DEF Tracked
  <2> QED BY <2>1, <2>4, PullIsClear, LeadsHome
<1>2. QueueInv /\ KindInv /\ RouteInv /\ [Next]_vars => QueueInv' /\ KindInv' /\ RouteInv'
  BY StepQueue, KindStep, RouteStep
<1>3. Init => QueueInv /\ KindInv /\ RouteInv
  BY InitQueue, InitKinds, InitRoute
<1> QED BY <1>1, <1>2, <1>3, PTL DEF Spec
==============================================================================
