---------------------------- MODULE FileSyncProofs ----------------------------
(* The type invariant of FileSync, for any devices, edits and bounds. *)
EXTENDS FileSync, SequenceTheorems, TLAPS

-----------------------------------------------------------------------------
(* What the operations of the queue preserve. *)

LEMMA EntryType ==
  ASSUME NEW op \in {"write", "delete"}
  PROVE  Entry(op) \in QueueEntry /\ ~Entry(op).taken /\ ~Entry(op).manual
  BY DEF Entry, QueueEntry

(* A fresh entry at the end. *)
LEMMA AppendOK ==
  ASSUME NEW q, NEW h \in BOOLEAN, QueueOK(q, h), NEW op \in {"write", "delete"}
  PROVE  QueueOK(Append(q, Entry(op)), h)
<1> DEFINE e == Entry(op)
<1>1. e \in QueueEntry /\ ~e.taken /\ ~e.manual
  BY EntryType
<1> HIDE DEF e
<1>2. q \in Seq(QueueEntry) /\ Len(q) \in Nat
  BY DEF QueueOK
<1>3. /\ Append(q, e) \in Seq(QueueEntry)
      /\ Len(Append(q, e)) = Len(q) + 1
      /\ \A i \in 1..Len(q) : Append(q, e)[i] = q[i]
      /\ Append(q, e)[Len(q) + 1] = e
  BY <1>1, <1>2, AppendProperties
<1>4. ASSUME NEW i \in 1..Len(Append(q, e))
      PROVE  /\ Append(q, e)[i].taken => i = 1 /\ h
             /\ Append(q, e)[i].manual => i = 1
  <2>1. CASE i \in 1..Len(q)
    BY <1>3, <2>1 DEF QueueOK
  <2>2. CASE i = Len(q) + 1
    BY <1>1, <1>3, <2>2
  <2> QED BY <1>2, <1>3, <2>1, <2>2
<1>5. QueueOK(Append(q, e), h)
  BY <1>3, <1>4 DEF QueueOK
<1> QED BY <1>5 DEF e

(* A queue of one entry. *)
LEMMA SingleOK ==
  ASSUME NEW e \in QueueEntry, NEW h \in BOOLEAN, e.taken => h
  PROVE  QueueOK(<<e>>, h)
<1>1. <<e>> \in Seq(QueueEntry) /\ Len(<<e>>) = 1 /\ <<e>>[1] = e
  OBVIOUS
<1> QED BY <1>1 DEF QueueOK

LEMMA EmptyOK == ASSUME NEW h \in BOOLEAN PROVE QueueOK(<<>>, h)
<1>1. <<>> \in Seq(QueueEntry) /\ Len(<<>>) = 0
  OBVIOUS
<1> QED BY <1>1 DEF QueueOK

(* Another first entry. *)
LEMMA FirstOK ==
  ASSUME NEW q, NEW h \in BOOLEAN, QueueOK(q, h), q # <<>>,
         NEW e \in QueueEntry, NEW g \in BOOLEAN, e.taken => g
  PROVE  QueueOK([q EXCEPT ![1] = e], g)
<1>1. q \in Seq(QueueEntry) /\ Len(q) \in Nat /\ 1 \in 1..Len(q)
  BY DEF QueueOK
<1>2. /\ [q EXCEPT ![1] = e] \in Seq(QueueEntry)
      /\ Len([q EXCEPT ![1] = e]) = Len(q)
      /\ \A j \in 1..Len(q) : [q EXCEPT ![1] = e][j] = IF j = 1 THEN e ELSE q[j]
  BY <1>1, ExceptSeq
<1>3. \A j \in 1..Len(q) : j # 1 => ~q[j].taken /\ ~q[j].manual
  BY DEF QueueOK
<1> QED BY <1>2, <1>3 DEF QueueOK

(* The first entry gone: no entry is in hand then. *)
LEMMA TailOK ==
  ASSUME NEW q, NEW h \in BOOLEAN, QueueOK(q, h), q # <<>>, NEW g \in BOOLEAN
  PROVE  QueueOK(Tail(q), g)
<1>1. q \in Seq(QueueEntry) /\ Len(q) \in Nat
  BY DEF QueueOK
<1>2. /\ Tail(q) \in Seq(QueueEntry) /\ Len(Tail(q)) = Len(q) - 1
      /\ \A i \in 1..Len(Tail(q)) : Tail(q)[i] = q[i + 1]
  BY <1>1, HeadTailProperties
<1>3. ASSUME NEW i \in 1..Len(Tail(q)) PROVE ~Tail(q)[i].taken /\ ~Tail(q)[i].manual
  <2>1. i + 1 \in 1..Len(q) /\ i + 1 # 1
    BY <1>1, <1>2
  <2> QED BY <1>2, <2>1 DEF QueueOK
<1> QED BY <1>2, <1>3 DEF QueueOK

LEMMA FirstEntry ==
  ASSUME NEW q, NEW h \in BOOLEAN, QueueOK(q, h), q # <<>>
  PROVE  q[1] \in QueueEntry /\ (q[1].taken => h)
<1>1. q \in Seq(QueueEntry) /\ 1 \in 1..Len(q)
  BY DEF QueueOK
<1> QED BY <1>1 DEF QueueOK

LEMMA QueueWriteOK ==
  ASSUME NEW q, NEW h \in BOOLEAN, QueueOK(q, h)
  PROVE  QueueOK(queueWrite(q), h)
  BY AppendOK, SingleOK, EntryType DEF queueWrite

LEMMA QueueDeleteOK ==
  ASSUME NEW q, NEW h \in BOOLEAN, QueueOK(q, h)
  PROVE  QueueOK(queueDelete(q), h)
  BY AppendOK DEF queueDelete

LEMMA QueueWriteAgainOK ==
  ASSUME NEW q, NEW h \in BOOLEAN, QueueOK(q, h)
  PROVE  QueueOK(queueWriteAgain(q), h)
<1>1. QueueOK(Waiting(q), h)
  BY FirstEntry, SingleOK, EmptyOK DEF Waiting
<1> QED BY <1>1, AppendOK DEF queueWriteAgain

LEMMA TakeOK ==
  ASSUME NEW q, QueueOK(q, FALSE), q # <<>>
  PROVE  QueueOK(Take(q), TRUE)
<1> DEFINE e == [q[1] EXCEPT !.taken = TRUE]
<1>1. e \in QueueEntry
  BY FirstEntry DEF QueueEntry
<1>2. QueueOK([q EXCEPT ![1] = e], TRUE)
  BY <1>1, FirstOK
<1> QED BY <1>2 DEF Take

LEMMA ReleaseOK ==
  ASSUME NEW q, NEW h \in BOOLEAN, QueueOK(q, h)
  PROVE  QueueOK(Release(q), FALSE)
<1>1. CASE q = <<>>
  BY <1>1, EmptyOK DEF Release
<1>2. CASE q # <<>>
  <2> DEFINE e == [q[1] EXCEPT !.taken = FALSE]
  <2>1. e \in QueueEntry /\ ~e.taken
    BY <1>2, FirstEntry DEF QueueEntry
  <2>2. QueueOK([q EXCEPT ![1] = e], FALSE)
    BY <1>2, <2>1, FirstOK
  <2> QED BY <1>2, <2>2 DEF Release
<1> QED BY <1>1, <1>2

LEMMA ForPersonOK ==
  ASSUME NEW q, NEW h \in BOOLEAN, QueueOK(q, h)
  PROVE  QueueOK(ForPerson(q), h)
<1>1. CASE q # <<>> /\ q[1].taken
  <2> DEFINE e == [q[1] EXCEPT !.manual = TRUE]
  <2>1. e \in QueueEntry /\ (e.taken => h)
    BY <1>1, FirstEntry DEF QueueEntry
  <2>2. QueueOK([q EXCEPT ![1] = e], h)
    BY <1>1, <2>1, FirstOK
  <2> QED BY <1>1, <2>2 DEF ForPerson
<1>2. CASE ~(q # <<>> /\ q[1].taken)
  BY <1>2 DEF ForPerson
<1> QED BY <1>1, <1>2

LEMMA ResetOK ==
  ASSUME NEW q, NEW h \in BOOLEAN, QueueOK(q, h)
  PROVE  QueueOK(resetStuckOperations(q), h)
<1>1. CASE q = <<>>
  BY <1>1 DEF resetStuckOperations
<1>2. CASE q # <<>>
  <2> DEFINE e == [q[1] EXCEPT !.manual = FALSE]
  <2>1. e \in QueueEntry /\ (e.taken => h)
    BY <1>2, FirstEntry DEF QueueEntry
  <2>2. QueueOK([q EXCEPT ![1] = e], h)
    BY <1>2, <2>1, FirstOK
  <2> QED BY <1>2, <2>2 DEF resetStuckOperations
<1> QED BY <1>1, <1>2

LEMMA MarkSyncedOK ==
  ASSUME NEW q, NEW h \in BOOLEAN, QueueOK(q, h)
  PROVE  QueueOK(markSynced(q), FALSE)
<1>1. CASE q # <<>> /\ q[1].taken
  BY <1>1, TailOK DEF markSynced
<1>2. CASE q = <<>>
  BY <1>2, EmptyOK DEF markSynced
<1>3. CASE q # <<>> /\ ~q[1].taken
  BY <1>3 DEF markSynced, QueueOK
<1> QED BY <1>1, <1>2, <1>3

-----------------------------------------------------------------------------
(* The queues of all devices. *)

(* A step of d's cycle that may change its queue. *)
LEMMA QueueStep ==
  ASSUME Types, QueuesOK, NEW d \in Device, NEW q, NEW there,
         queue' = [queue EXCEPT ![d] = q], pc' = [pc EXCEPT ![d] = there],
         NEW h \in BOOLEAN, h => there \in Working, QueueOK(q, h)
  PROVE  QueuesOK'
<1>1. queue = [x \in Device |-> queue[x]] /\ pc \in [Device -> Phase]
  BY DEF Types
<1>2. ASSUME NEW x \in Device PROVE QueueOK(queue'[x], pc'[x] \in Working)
  <2>1. CASE x = d
    <3>1. queue'[d] = q /\ pc'[d] = there
      BY <1>1
    <3> QED BY <2>1, <3>1 DEF QueueOK
  <2>2. CASE x # d
    <3>1. queue'[x] = queue[x] /\ pc'[x] = pc[x]
      BY <1>1, <2>2
    <3> QED BY <3>1 DEF QueuesOK, InHand
  <2> QED BY <2>1, <2>2
<1> QED BY <1>2 DEF QueuesOK, InHand

(* A step of d's cycle that leaves the queue alone, when no entry is in hand. *)
LEMMA PhaseStep ==
  ASSUME Types, QueuesOK, NEW d \in Device, NEW there,
         UNCHANGED queue, pc' = [pc EXCEPT ![d] = there],
         InHand(d) => there \in Working
  PROVE  QueuesOK'
<1>1. queue' = [queue EXCEPT ![d] = queue[d]]
  BY DEF Types
<1>2. QueueOK(queue[d], InHand(d)) /\ InHand(d) \in BOOLEAN
  BY DEF QueuesOK, InHand
<1> QED BY <1>1, <1>2, QueueStep

(* A step that changes d's queue alone. *)
LEMMA EntryStep ==
  ASSUME Types, QueuesOK, NEW d \in Device, NEW q,
         queue' = [queue EXCEPT ![d] = q], UNCHANGED pc, QueueOK(q, InHand(d))
  PROVE  QueuesOK'
<1>1. pc' = [pc EXCEPT ![d] = pc[d]]
  BY DEF Types
<1>2. InHand(d) \in BOOLEAN /\ (InHand(d) => pc[d] \in Working)
  BY DEF InHand
<1> QED BY <1>1, <1>2, QueueStep

LEMMA NoQueueStep ==
  ASSUME QueuesOK, UNCHANGED <<queue, pc>>
  PROVE  QueuesOK'
  BY DEF QueuesOK, InHand

-----------------------------------------------------------------------------
(* The types of the cycle's own state. *)

CycleTypes ==
  /\ pc \in [Device -> Phase] /\ got \in [Device -> Version]
  /\ plan \in [Device -> [wrote : BOOLEAN, push : BOOLEAN, echo : BOOLEAN]]
  /\ request \in [Device -> Request] /\ \A d \in Device : HasText(d)

LEMMA Constants ==
  /\ MaxStamp \in Nat /\ 0 \in Stamp /\ Absent \in File /\ {} \in File
  /\ NoRow \in Row /\ NoVersion \in Version
  /\ NoRequest \in Request /\ WriteHasText(NoRequest)
  /\ NoPlan \in [wrote : BOOLEAN, push : BOOLEAN, echo : BOOLEAN]
  /\ \A c \in Content : c # Absent
  BY FileSyncAssumption DEF Stamp, File, Content, NoRow, Row, NoVersion, Version,
     NoRequest, Request, WriteHasText, NoPlan

LEMMA TurnsToTypes ==
  ASSUME Types, NEW d \in Device, NEW there \in {"push", "idle"}, TurnsTo(d, there)
  PROVE  CycleTypes'
  BY Constants DEF CycleTypes, Types, TurnsTo, Goes, HasText, NoVersion, Phase

LEMMA GoesTypes ==
  ASSUME Types, NEW d \in Device, NEW there \in Phase, there # "fetched",
         Goes(d, there), UNCHANGED cycle
  PROVE  CycleTypes'
  BY DEF CycleTypes, Types, Goes, cycle, HasText

(* What an upload or a deletion that the remote carries out leaves there. *)
RemoteTypes ==
  /\ remote \in Version /\ stamp \in Stamp
  /\ remote.etag <= stamp /\ (remote.etag = 0 <=> remote.content = Absent)
  /\ removed \subseteq Edit /\ undone \subseteq Edit /\ withdrawn \subseteq undone

LEMMA CommitTypes ==
  ASSUME Types, NEW r \in Request, Commits(r), UNCHANGED undone, WriteHasText(r)
  PROVE  RemoteTypes'
  BY FileSyncAssumption, Constants
  DEF RemoteTypes, Types, Commits, Edits, Version, Request, WriteHasText, Stamp,
      NoVersion, File, Content

OutcomeOK(o) == o.file \in File /\ o.copy \in SUBSET Content /\ o.echo \in BOOLEAN

LEMMA OutcomeType ==
  ASSUME NEW file \in File, NEW copy \in SUBSET Content, NEW echo \in BOOLEAN
  PROVE  OutcomeOK(Outcome(file, copy, echo))
  BY DEF Outcome, OutcomeOK

LEMMA CleanType == ASSUME NEW file \in File PROVE OutcomeOK(Clean(file))
<1>1. {} \in SUBSET Content /\ FALSE \in BOOLEAN
  OBVIOUS
<1> QED BY <1>1, OutcomeType DEF Clean

LEMMA ReconciledType ==
  ASSUME NEW r \in Row, NEW mine \in File, NEW theirs \in Content,
         NEW o \in reconciled(r, mine, theirs)
  PROVE  OutcomeOK(o)
<1>1. r.base \in File /\ theirs \in File /\ \A c \in Content : c # Absent
  BY Constants DEF Row, File
<1>2. CASE \E file \in {mine, theirs} : o = Clean(file)
  BY <1>1, <1>2, CleanType
<1>3. CASE o = Outcome(mine, {}, TRUE)
  <2>1. {} \in SUBSET Content /\ TRUE \in BOOLEAN
    OBVIOUS
  <2> QED BY <1>3, <2>1, OutcomeType
<1>4. CASE mine # Absent /\ o = Conflict(mine, theirs)
  <2>1. {mine} \in SUBSET Content /\ FALSE \in BOOLEAN
    BY <1>4 DEF File
  <2> QED BY <1>1, <1>4, <2>1, OutcomeType DEF Conflict
<1>5. CASE mine # Absent /\ o = Clean(mine \cup theirs)
  <2>1. mine \cup theirs \in File
    BY <1>5 DEF File, Content
  <2> QED BY <1>5, <2>1, CleanType
<1>6. CASE /\ mine # Absent /\ r.base # Absent
           /\ o = Clean(mergeText(r.base, mine, theirs))
  <2>1. mergeText(r.base, mine, theirs) \in File
    BY <1>1, <1>6 DEF mergeText, File, Content
  <2> QED BY <1>6, <2>1, CleanType
<1> QED BY <1>2, <1>3, <1>4, <1>5, <1>6 DEF reconciled

-----------------------------------------------------------------------------
(* The steps of the user and of the index. *)

LEMMA SaveTypes ==
  ASSUME Types, NEW d \in Device, NEW e \in Edit, Save(d, e)
  PROVE  Types'
  BY DEF Save, Changes, Text, Types, File, Content, HasText, cycle, retries

LEMMA UndoTypes ==
  ASSUME Types, NEW d \in Device, NEW e \in Edit, Undo(d, e)
  PROVE  Types'
  BY DEF Undo, Changes, Text, Types, File, Content, HasText, cycle, retries

LEMMA DeleteTypes ==
  ASSUME Types, NEW d \in Device, Delete(d)
  PROVE  Types'
  BY FileSyncAssumption DEF Delete, Changes, Types, File, Content, HasText, cycle, retries

LEMMA RestoreTypes ==
  ASSUME Types, NEW d \in Device, Restore(d)
  PROVE  Types'
  BY DEF Restore, Changes, Types, File, Content, HasText, cycle, retries

LEMMA AnnounceTypes ==
  ASSUME Types, NEW d \in Device, Announce(d)
  PROVE  Types'
  BY DEF Announce, Types, HasText, cycle, retries, bounds

-----------------------------------------------------------------------------
(* The steps of the pull. *)

LEMMA ListTypes ==
  ASSUME Types, NEW d \in Device, List(d)
  PROVE  Types'
<1>1. CycleTypes'
  <2>1. CASE Pushes(d)
    BY <2>1, TurnsToTypes DEF Pushes
  <2>2. CASE ~Pushes(d)
    <3>1. [got[d] EXCEPT !.etag = remote.etag] \in Version
      BY DEF Types, Version
    <3>2. got' = [got EXCEPT ![d] = [got[d] EXCEPT !.etag = remote.etag]]
      BY <2>2 DEF List, Types
    <3>3. got' \in [Device -> Version] /\ \A x \in Device : got'[x].content = got[x].content
      BY <3>1, <3>2 DEF Types, Version
    <3>4. PICK there \in {"missing", "listed"} : Goes(d, there) /\ UNCHANGED <<plan, request>>
      BY <2>2 DEF List
    <3> QED BY <3>3, <3>4 DEF Types, CycleTypes, Goes, HasText, Phase
  <2> QED BY <2>1, <2>2
<1> QED BY <1>1 DEF List, Types, CycleTypes, local, bounds

LEMMA DownloadTypes ==
  ASSUME Types, NEW d \in Device, Download(d)
  PROVE  Types'
<1>1. CycleTypes'
  <2>1. CASE Pushes(d)
    BY <2>1, TurnsToTypes DEF Pushes
  <2>2. CASE ~Pushes(d)
    <3>1. [got[d] EXCEPT !.content = remote.content] \in Version
      BY DEF Types, Version
    <3>2. got' = [got EXCEPT ![d] = [got[d] EXCEPT !.content = remote.content]]
      BY <2>2 DEF Download, Types
    <3>3. /\ got' \in [Device -> Version] /\ got'[d].content = remote.content
          /\ \A x \in Device \ {d} : got'[x] = got[x]
      BY <3>1, <3>2 DEF Types, Version
    <3>4. remote.content # Absent /\ Goes(d, "fetched") /\ UNCHANGED <<plan, request>>
      BY <2>2 DEF Download
    <3> QED BY <3>3, <3>4 DEF Types, CycleTypes, Goes, HasText, Phase
  <2> QED BY <2>1, <2>2
<1> QED BY <1>1 DEF Download, Types, CycleTypes, local, retries, bounds

LEMMA ReconcileTypes ==
  ASSUME Types, NEW d \in Device, Reconcile(d)
  PROVE  Types'
<1>1. CASE Pushes(d) /\ UNCHANGED <<disk, dirty, copies>>
  <2>1. CycleTypes'
    BY <1>1, TurnsToTypes DEF Pushes
  <2> QED BY <1>1, <2>1 DEF Reconcile, Types, CycleTypes, retries, bounds
<1>2. CASE ~(Pushes(d) /\ UNCHANGED <<disk, dirty, copies>>)
  <2>1. PICK o \in reconciled(row[d], disk[d], got[d].content) :
          /\ disk' = [disk EXCEPT ![d] = o.file]
          /\ dirty' = [dirty EXCEPT ![d] = @ \/ o.file # disk[d]]
          /\ copies' = [copies EXCEPT ![d] = @ \cup Kept(o)]
          /\ plan' = [plan EXCEPT ![d] = [wrote |-> o.file # disk[d], echo |-> o.echo,
                                          push |-> o.file # got[d].content]]
          /\ Goes(d, "merged")
          /\ UNCHANGED <<got, request>>
    BY <1>2 DEF Reconcile
  <2>2. row[d] \in Row /\ disk[d] \in File /\ got[d].content \in Content
    BY DEF Types, Reconcile, At, HasText, Version, File
  <2>3. o.file \in File /\ o.copy \subseteq Content /\ o.echo \in BOOLEAN
    BY <2>2, ReconciledType DEF OutcomeOK
  <2>4. CycleTypes'
    BY <2>1, <2>3 DEF Types, CycleTypes, Goes, HasText, Phase
  <2>5. /\ disk' \in [Device -> File] /\ dirty' \in [Device -> BOOLEAN]
        /\ copies' \in [Device -> SUBSET Content]
    BY <2>1, <2>3 DEF Types, Kept
  <2> QED BY <2>4, <2>5 DEF Reconcile, Types, CycleTypes, retries, bounds
<1> QED BY <1>1, <1>2

LEMMA RecordPulledBaseTypes ==
  ASSUME Types, NEW d \in Device, RecordPulledBase(d)
  PROVE  Types'
<1>1. CycleTypes'
  BY GoesTypes DEF RecordPulledBase, Phase
<1> DEFINE r == [row[d] EXCEPT !.base = PulledBase(d), !.baseEtag = got[d].etag]
<1>2. row[d] \in Row /\ PulledBase(d) \in File /\ got[d].etag \in Stamp
  BY DEF Types, Version, PulledBase
<1>3. r \in Row
  BY <1>2 DEF Row
<1>4. row' = [row EXCEPT ![d] = r]
  BY DEF RecordPulledBase, Types
<1>5. row' \in [Device -> Row]
  BY <1>3, <1>4 DEF Types
<1> QED BY <1>1, <1>5 DEF RecordPulledBase, Types, CycleTypes, local, retries, bounds

LEMMA RecordPulledTypes ==
  ASSUME Types, NEW d \in Device, RecordPulled(d)
  PROVE  Types'
<1>1. CycleTypes'
  BY TurnsToTypes DEF RecordPulled, Pushes
<1>2. row' \in [Device -> Row] /\ dirty' \in [Device -> BOOLEAN]
  BY Constants DEF RecordPulled, clearPendingPushSha, Types, Row, Version
<1>3. queue' = [x \in Device |-> queue'[x]]
  BY DEF RecordPulled, Types
<1> QED BY <1>1, <1>2, <1>3 DEF RecordPulled, Types, CycleTypes, retries, bounds

LEMMA MirrorDeletionTypes ==
  ASSUME Types, NEW d \in Device, MirrorDeletion(d)
  PROVE  Types'
<1>1. CycleTypes'
  BY TurnsToTypes DEF MirrorDeletion, Pushes
<1>2. row' \in [Device -> Row] /\ disk' \in [Device -> File]
  BY Constants DEF MirrorDeletion, Types
<1>3. queue' = [x \in Device |-> queue'[x]]
  BY DEF MirrorDeletion, Types
<1> QED BY <1>1, <1>2, <1>3 DEF MirrorDeletion, Types, CycleTypes, retries, bounds

-----------------------------------------------------------------------------
(* The steps of the push. *)

(* The count of refusals is kept or starts at zero. *)
LEMMA CountEndsTypes ==
  ASSUME NEW d \in Device, NEW q, CountEnds(d, q), refusals \in [Device -> 0..(MaxRefusals - 1)]
  PROVE  refusals' \in [Device -> 0..(MaxRefusals - 1)]
<1>1. 0 \in 0..(MaxRefusals - 1)
  BY FileSyncAssumption
<1>2. CASE q = <<>>
  BY <1>1, <1>2 DEF CountEnds
<1>3. CASE q # <<>>
  BY <1>3 DEF CountEnds
<1> QED BY <1>2, <1>3

LEMMA QuietTypes ==
  ASSUME Types, NEW d \in Device, Quiet(d)
  PROVE  Types'
<1>1. CycleTypes'
  BY TurnsToTypes DEF Quiet, Ends
<1>2. refusals' \in [Device -> 0..(MaxRefusals - 1)]
  BY CountEndsTypes DEF Quiet, Types
<1> QED BY <1>1, <1>2 DEF Quiet, Types, CycleTypes, local, bounds

LEMMA PickUpTypes ==
  ASSUME Types, NEW d \in Device, NEW op \in {"write", "delete"}, PickUp(d, op)
  PROVE  Types'
<1>1. CycleTypes'
  BY GoesTypes DEF PickUp, Phase
<1> QED BY <1>1 DEF PickUp, Types, CycleTypes, local, retries, bounds

LEMMA SettledTypes ==
  ASSUME Types, NEW d \in Device, Settled(d)
  PROVE  Types'
<1>1. CycleTypes'
  BY TurnsToTypes DEF Settled, Ends
<1>2. refusals' \in [Device -> 0..(MaxRefusals - 1)]
  <2>1. refusals \in [Device -> 0..(MaxRefusals - 1)] /\ 0 \in 0..(MaxRefusals - 1)
    BY FileSyncAssumption DEF Types
  <2>2. CountEnds(d, markSynced(queue[d])) \/ refusals' = [refusals EXCEPT ![d] = 0]
    BY DEF Settled
  <2> QED BY <2>1, <2>2, CountEndsTypes
<1>3. queue' = [x \in Device |-> queue'[x]]
  BY DEF Settled, Types
<1>4. UNCHANGED <<remote, stamp, withdrawn, local, row, refused, wire, copies, saved, undone, removed, bounds>>
  BY DEF Settled
<1> QED BY <1>1, <1>2, <1>3, <1>4 DEF Types, CycleTypes, local, bounds

LEMMA DeferredTypes ==
  ASSUME Types, NEW d \in Device, Deferred(d)
  PROVE  Types'
<1>1. CycleTypes'
  BY TurnsToTypes DEF Deferred, Ends
<1> QED BY <1>1 DEF Deferred, Types, CycleTypes, local, retries, bounds

LEMMA SendWriteTypes ==
  ASSUME Types, NEW d \in Device, SendWrite(d)
  PROVE  Types'
<1>1. expectedRemoteOf(row[d]) \subseteq Stamp
  BY Constants DEF expectedRemoteOf, Types, Row, Stamp
<1>2. request' \in [Device -> Request]
  BY <1>1 DEF SendWrite, Types, Request
<1>3. CycleTypes'
  BY <1>2 DEF SendWrite, Types, CycleTypes, Goes, HasText, WriteHasText, Phase
<1>4. row' \in [Device -> Row]
  BY DEF SendWrite, Types, Row
<1> QED BY <1>3, <1>4 DEF SendWrite, Types, CycleTypes, local, retries, bounds

LEMMA SendDeleteTypes ==
  ASSUME Types, NEW d \in Device, SendDelete(d)
  PROVE  Types'
<1>1. request' \in [Device -> Request]
  BY Constants DEF SendDelete, Types, Request
<1>2. CycleTypes'
  BY <1>1 DEF SendDelete, Types, CycleTypes, Goes, HasText, WriteHasText, Phase
<1> QED BY <1>2 DEF SendDelete, Types, CycleTypes, local, retries, bounds

LEMMA AnsweredTypes ==
  ASSUME Types, NEW d \in Device, Answered(d)
  PROVE  Types'
<1>1. RemoteTypes'
  BY CommitTypes DEF Answered, Types, HasText
<1>2. got' \in [Device -> Version]
  <2>1. stamp' \in Stamp /\ 0 \in Stamp
    BY <1>1, Constants DEF RemoteTypes, Stamp
  <2>2. PICK told \in AnswersEtag : got' = [got EXCEPT ![d] = [NoVersion EXCEPT !.etag = IF told THEN stamp' ELSE 0]]
    BY DEF Answered
  <2>3. [NoVersion EXCEPT !.etag = IF told THEN stamp' ELSE 0] \in Version
    BY <2>1 DEF NoVersion, Version, File
  <2> QED BY <2>2, <2>3 DEF Types
<1>3. CycleTypes'
  BY <1>2 DEF Answered, Types, CycleTypes, Goes, HasText, Phase
<1> QED BY <1>1, <1>3 DEF Answered, RemoteTypes, Types, CycleTypes, local, retries, bounds

LEMMA RefusedTypes ==
  ASSUME Types, NEW d \in Device, Refused(d)
  PROVE  Types'
<1>1. CycleTypes'
  BY TurnsToTypes DEF Refused, Ends
<1>2. row' \in [Device -> Row]
  BY Constants DEF Refused, clearPendingPushSha, Types, Row
<1>3. refused' \in [Device -> BOOLEAN] /\ refusals' \in [Device -> 0..(MaxRefusals - 1)]
  <2>1. refused' \in [Device -> BOOLEAN]
    BY DEF Refused, Types
  <2>2. CASE refusals[d] + 1 < MaxRefusals
    <3>1. refusals[d] + 1 \in 0..(MaxRefusals - 1)
      BY <2>2, FileSyncAssumption DEF Types
    <3> QED BY <2>1, <2>2, <3>1 DEF Refused, Types
  <2>3. CASE ~(refusals[d] + 1 < MaxRefusals)
    <3>1. 0 \in 0..(MaxRefusals - 1)
      BY FileSyncAssumption
    <3> QED BY <2>1, <2>3, <3>1 DEF Refused, Types
  <2> QED BY <2>2, <2>3
<1> QED BY <1>1, <1>2, <1>3 DEF Refused, Types, CycleTypes, local, bounds

LEMMA UnansweredTypes ==
  ASSUME Types, NEW d \in Device, Unanswered(d)
  PROVE  Types'
<1>1. CycleTypes'
  BY TurnsToTypes DEF Unanswered, Ends
<1>2. RemoteTypes'
  BY CommitTypes DEF Unanswered, RemoteTypes, Types, HasText
<1>3. wire' \subseteq Request /\ \A r \in wire' : WriteHasText(r)
  BY DEF Unanswered, Types, HasText
<1>4. faults' \in 0..MaxFaults
  BY FileSyncAssumption DEF Unanswered, MayFail, Types
<1> QED BY <1>1, <1>2, <1>3, <1>4 DEF Unanswered, RemoteTypes, Types, CycleTypes, local, retries

LEMMA LandsTypes ==
  ASSUME Types, NEW r \in wire, Lands(r)
  PROVE  Types'
<1>1. RemoteTypes'
  BY CommitTypes DEF Lands, RemoteTypes, Types
<1> QED BY <1>1 DEF Lands, RemoteTypes, Types, HasText, local, retries, cycle, bounds

LEMMA MarkSyncedTypes ==
  ASSUME Types, NEW d \in Device, MarkSynced(d)
  PROVE  Types'
<1>1. CycleTypes'
  BY GoesTypes DEF MarkSynced, Phase
<1>2. refusals' \in [Device -> 0..(MaxRefusals - 1)]
  BY FileSyncAssumption DEF MarkSynced, Types
<1> QED BY <1>1, <1>2 DEF MarkSynced, Types, CycleTypes, local, bounds

LEMMA RecordRemoteTypes ==
  ASSUME Types, NEW d \in Device, RecordRemote(d)
  PROVE  Types'
<1>1. CycleTypes'
  BY TurnsToTypes, GoesTypes DEF RecordRemote, Ends, Phase
<1>2. row' \in [Device -> Row]
  <2>1. CASE request[d].op = "delete"
    BY <2>1, Constants DEF RecordRemote, Types
  <2>2. CASE request[d].op # "delete"
    <3> DEFINE e == IF got[d].etag # 0 THEN got[d].etag ELSE row[d].remoteEtag
               r == [row[d] EXCEPT !.remoteEtag = e]
    <3>1. row[d] \in Row /\ e \in Stamp
      BY DEF Types, Row, Version
    <3>2. r \in Row
      BY <3>1 DEF Row
    <3>3. row' = [row EXCEPT ![d] = r]
      BY <2>2 DEF RecordRemote, Types
    <3> QED BY <3>2, <3>3 DEF Types
  <2> QED BY <2>1, <2>2
<1> QED BY <1>1, <1>2 DEF RecordRemote, Types, CycleTypes, local, retries, bounds

LEMMA RecordPushedBaseTypes ==
  ASSUME Types, NEW d \in Device, RecordPushedBase(d)
  PROVE  Types'
<1>1. CycleTypes'
  BY GoesTypes DEF RecordPushedBase, Phase
<1> DEFINE r == [row[d] EXCEPT !.base = request[d].content, !.baseEtag = got[d].etag]
<1>2. row[d] \in Row /\ request[d].content \in File /\ got[d].etag \in Stamp
  BY DEF Types, Version, Request
<1>3. r \in Row
  BY <1>2 DEF Row
<1>4. row' = [row EXCEPT ![d] = r]
  BY DEF RecordPushedBase, Types
<1>5. row' \in [Device -> Row]
  BY <1>3, <1>4 DEF Types
<1> QED BY <1>1, <1>5 DEF RecordPushedBase, Types, CycleTypes, local, retries, bounds

LEMMA ClearJournalTypes ==
  ASSUME Types, NEW d \in Device, ClearJournal(d)
  PROVE  Types'
<1>1. CycleTypes'
  BY TurnsToTypes DEF ClearJournal, Ends
<1>2. row' \in [Device -> Row]
  BY Constants DEF ClearJournal, clearPendingPushSha, Types, Row
<1> QED BY <1>1, <1>2 DEF ClearJournal, Types, CycleTypes, local, retries, bounds

LEMMA RetryFailedTypes ==
  ASSUME Types, NEW d \in Device, RetryFailed(d)
  PROVE  Types'
<1>1. refusals' \in [Device -> 0..(MaxRefusals - 1)]
  BY FileSyncAssumption DEF RetryFailed, Types
<1> QED BY <1>1 DEF RetryFailed, Types, HasText, local, cycle, bounds

LEMMA CrashTypes ==
  ASSUME Types, NEW d \in Device, Crash(d)
  PROVE  Types'
<1>1. CycleTypes'
  BY TurnsToTypes DEF Crash, Ends
<1>2. RemoteTypes'
  BY CommitTypes DEF Crash, RemoteTypes, Types, HasText
<1>3. faults' \in 0..MaxFaults
  BY FileSyncAssumption DEF Crash, MayFail, Types
<1>4. refusals' \in [Device -> 0..(MaxRefusals - 1)]
  BY FileSyncAssumption DEF Crash, Types
<1> QED BY <1>1, <1>2, <1>3, <1>4 DEF Crash, RemoteTypes, Types, CycleTypes

-----------------------------------------------------------------------------
(* What the steps leave of the queues. *)

LEMMA UserQueues ==
  ASSUME QueuesOK, NEW d \in Device, User(d)
  PROVE  QueuesOK'
<1>1. UNCHANGED <<queue, pc>>
  BY DEF User, Save, Undo, Delete, Restore, Changes
<1> QED BY <1>1, NoQueueStep

LEMMA AnnounceQueues ==
  ASSUME Types, QueuesOK, NEW d \in Device, Announce(d)
  PROVE  QueuesOK'
<1> DEFINE q == IF disk[d] = Absent THEN queueDelete(queue[d]) ELSE queueWrite(queue[d])
<1>1. queue' = [queue EXCEPT ![d] = q] /\ UNCHANGED pc
  BY DEF Announce, Types
<1>2. QueueOK(queue[d], InHand(d)) /\ InHand(d) \in BOOLEAN
  BY DEF QueuesOK, InHand
<1>3. QueueOK(q, InHand(d))
  BY <1>2, QueueWriteOK, QueueDeleteOK
<1> QED BY <1>1, <1>3, EntryStep

LEMMA RetryFailedQueues ==
  ASSUME Types, QueuesOK, NEW d \in Device, RetryFailed(d)
  PROVE  QueuesOK'
<1>1. queue' = [queue EXCEPT ![d] = resetStuckOperations(queue[d])] /\ UNCHANGED pc
  BY DEF RetryFailed, Types
<1>2. QueueOK(queue[d], InHand(d)) /\ InHand(d) \in BOOLEAN
  BY DEF QueuesOK, InHand
<1>3. QueueOK(resetStuckOperations(queue[d]), InHand(d))
  BY <1>2, ResetOK
<1> QED BY <1>1, <1>3, EntryStep

LEMMA PullQueues ==
  ASSUME Types, QueuesOK, NEW d \in Device, Pull(d)
  PROVE  QueuesOK'
<1>1. pc[d] \notin Working /\ ~InHand(d)
  BY DEF Pull, List, Download, Reconcile, RecordPulledBase, RecordPulled, MirrorDeletion, At,
     InHand, Working
<1>2. PICK there \in Phase : Goes(d, there) /\ there \notin Working
  BY DEF Pull, List, Download, Reconcile, RecordPulledBase, RecordPulled, MirrorDeletion,
     Pushes, TurnsTo, Goes, Phase, Working
<1>3. CASE UNCHANGED queue
  BY <1>1, <1>2, <1>3, PhaseStep DEF Goes
<1>4. QueueOK(queue[d], FALSE) /\ FALSE \in BOOLEAN
  BY <1>1 DEF QueuesOK, QueueOK
<1>5. CASE queue' = [queue EXCEPT ![d] = queueWriteAgain(queue[d])]
  <2>1. QueueOK(queueWriteAgain(queue[d]), FALSE)
    BY <1>4, QueueWriteAgainOK
  <2> QED BY <1>2, <1>5, <2>1, QueueStep DEF Goes
<1>6. CASE queue' = [queue EXCEPT ![d] = queueWrite(queue[d])]
  <2>1. QueueOK(queueWrite(queue[d]), FALSE)
    BY <1>4, QueueWriteOK
  <2> QED BY <1>2, <1>6, <2>1, QueueStep DEF Goes
<1> QED
  BY <1>3, <1>5, <1>6
  DEF Pull, List, Download, Reconcile, RecordPulledBase, RecordPulled, MirrorDeletion, Types

(* A pass takes the entry up, keeps it through the upload, and lets it go or removes it. *)
LEMMA PushQueues ==
  ASSUME Types, QueuesOK, NEW d \in Device, Push(d)
  PROVE  QueuesOK'
<1>1. QueueOK(queue[d], InHand(d)) /\ InHand(d) \in BOOLEAN
  BY DEF QueuesOK, InHand
<1>2. CASE Quiet(d) \/ RecordRemote(d) \/ RecordPushedBase(d) \/ ClearJournal(d)
  <2>1. ~InHand(d) /\ UNCHANGED queue
    BY <1>2 DEF Quiet, RecordRemote, RecordPushedBase, ClearJournal, At, InHand, Working
  <2>2. \E there : pc' = [pc EXCEPT ![d] = there]
    BY <1>2 DEF Quiet, RecordRemote, RecordPushedBase, ClearJournal, Ends, TurnsTo, Goes
  <2> QED BY <2>1, <2>2, PhaseStep
<1>3. CASE Settled(d) \/ MarkSynced(d)
  <2>1. queue' = [queue EXCEPT ![d] = markSynced(queue[d])]
    BY <1>3 DEF Settled, MarkSynced, Types
  <2>2. QueueOK(markSynced(queue[d]), FALSE)
    BY <1>1, MarkSyncedOK
  <2>3. \E there : pc' = [pc EXCEPT ![d] = there]
    BY <1>3 DEF Settled, MarkSynced, Ends, TurnsTo, Goes
  <2> QED BY <2>1, <2>2, <2>3, QueueStep
<1>4. CASE PickUp(d, "write") \/ PickUp(d, "delete")
  <2>1. queue[d] # <<>> /\ queue' = [queue EXCEPT ![d] = Take(queue[d])] /\ ~InHand(d)
    BY <1>4 DEF PickUp, Due, Types, At, InHand, Working
  <2>2. QueueOK(queue[d], FALSE)
    BY <1>1, <2>1 DEF QueueOK
  <2>3. QueueOK(Take(queue[d]), TRUE)
    BY <2>1, <2>2, TakeOK
  <2>4. PICK op \in {"write", "delete"} : pc' = [pc EXCEPT ![d] = op]
    BY <1>4 DEF PickUp, Goes
  <2>5. op \in Working
    BY DEF Working
  <2> QED BY <2>1, <2>3, <2>4, <2>5, QueueStep
<1>7. CASE SendWrite(d) \/ SendDelete(d)
  <2>1. UNCHANGED queue /\ pc' = [pc EXCEPT ![d] = "sent"]
    BY <1>7 DEF SendWrite, SendDelete, Goes
  <2> QED BY <2>1, PhaseStep DEF Working
<1>8. CASE Deferred(d)
  <2>1. QueueOK(Release(queue[d]), FALSE)
    BY <1>1, ReleaseOK
  <2>2. queue' = [queue EXCEPT ![d] = Release(queue[d])] /\ pc' = [pc EXCEPT ![d] = "idle"]
    BY <1>8 DEF Deferred, Ends, TurnsTo, Goes, Types
  <2> QED BY <2>1, <2>2, QueueStep
<1>5. CASE Answered(d)
  <2>1. UNCHANGED queue /\ pc' = [pc EXCEPT ![d] = "answered"]
    BY <1>5 DEF Answered, Goes
  <2> QED BY <2>1, PhaseStep DEF Working
<1>6. CASE Refused(d)
  <2>1. QueueOK(Release(queue[d]), FALSE) /\ QueueOK(Release(ForPerson(queue[d])), FALSE)
    BY <1>1, ReleaseOK, ForPersonOK
  <2>2. PICK q \in {Release(queue[d]), Release(ForPerson(queue[d]))} :
          queue' = [queue EXCEPT ![d] = q]
    BY <1>6 DEF Refused, Types
  <2> QED BY <1>6, <2>1, <2>2, QueueStep DEF Refused, Ends, TurnsTo, Goes
<1> QED BY <1>2, <1>3, <1>4, <1>5, <1>6, <1>7, <1>8 DEF Push

LEMMA FaultQueues ==
  ASSUME Types, QueuesOK, NEW d \in Device, Unanswered(d) \/ Crash(d)
  PROVE  QueuesOK'
<1>1. QueueOK(queue[d], InHand(d)) /\ InHand(d) \in BOOLEAN
  BY DEF QueuesOK, InHand
<1>2. /\ QueueOK(Release(queue[d]), FALSE)
      /\ QueueOK(Release(resetStuckOperations(queue[d])), FALSE)
  BY <1>1, ReleaseOK, ResetOK
<1>3. PICK q \in {Release(queue[d]), Release(resetStuckOperations(queue[d]))} :
        queue' = [queue EXCEPT ![d] = q]
  BY DEF Unanswered, Crash, Types
<1>4. pc' = [pc EXCEPT ![d] = "idle"]
  BY DEF Unanswered, Crash, Ends, TurnsTo, Goes
<1> QED BY <1>2, <1>3, <1>4, QueueStep

-----------------------------------------------------------------------------
LEMMA InitTypeOK == ASSUME Init PROVE TypeOK
<1>1. 1 \in Stamp /\ 0 \in 0..(MaxRefusals - 1) /\ 0 \in 0..MaxDeletes /\ 0 \in 0..MaxFaults
  BY FileSyncAssumption DEF Stamp
<1>2. Synced({}, 1) \in Row /\ NoRow \in Row /\ [content |-> {}, etag |-> 1] \in Version
  BY <1>1, Constants DEF Synced, Row, Version
<1>3. remote \in Version /\ disk \in [Device -> File] /\ row \in [Device -> Row] /\ stamp \in Stamp
  BY <1>1, <1>2, Constants DEF Init
<1>4. remote.etag <= stamp /\ (remote.etag = 0 <=> remote.content = Absent)
  <2>1. {} # Absent
    BY Constants DEF Content
  <2> QED BY <2>1 DEF Init, NoVersion
<1>5. CycleTypes
  BY Constants DEF Init, CycleTypes, HasText, Phase
<1>6. Types
  BY <1>1, <1>3, <1>4, <1>5, Constants DEF Init, CycleTypes, Types
<1>7. QueuesOK
  <2>1. ASSUME NEW d \in Device PROVE queue[d] = <<>> /\ InHand(d) \in BOOLEAN
    BY DEF Init, InHand
  <2> QED BY <2>1, EmptyOK DEF QueuesOK
<1> QED BY <1>6, <1>7 DEF TypeOK

LEMMA StepTypeOK == ASSUME TypeOK, [Next]_vars PROVE TypeOK'
<1> USE DEF TypeOK
<1>1. ASSUME NEW d \in Device, User(d) PROVE TypeOK'
  BY <1>1, SaveTypes, UndoTypes, DeleteTypes, RestoreTypes, UserQueues DEF User
<1>2. ASSUME NEW d \in Device, RetryFailed(d) \/ Announce(d) PROVE TypeOK'
  BY <1>2, RetryFailedTypes, RetryFailedQueues, AnnounceTypes, AnnounceQueues
<1>3. ASSUME NEW d \in Device, Pull(d) PROVE TypeOK'
  BY <1>3, ListTypes, DownloadTypes, ReconcileTypes, RecordPulledBaseTypes, RecordPulledTypes,
     MirrorDeletionTypes, PullQueues DEF Pull
<1>4. ASSUME NEW d \in Device, Push(d) PROVE TypeOK'
  BY <1>4, QuietTypes, PickUpTypes, SettledTypes, DeferredTypes, SendWriteTypes, SendDeleteTypes, AnsweredTypes,
     RefusedTypes, MarkSyncedTypes, RecordRemoteTypes, RecordPushedBaseTypes, ClearJournalTypes,
     PushQueues DEF Push
<1>5. ASSUME NEW d \in Device, Unanswered(d) \/ Crash(d) PROVE TypeOK'
  BY <1>5, UnansweredTypes, CrashTypes, FaultQueues
<1>6. ASSUME NEW r \in wire, Lands(r) PROVE TypeOK'
  <2>1. UNCHANGED <<queue, pc>>
    BY <1>6 DEF Lands
  <2> QED BY <1>6, <2>1, LandsTypes, NoQueueStep
<1>7. CASE UNCHANGED vars
  <2>1. UNCHANGED <<queue, pc>>
    BY <1>7 DEF vars
  <2>2. Types'
    BY <1>7 DEF vars, Types, HasText, local, retries, cycle, bounds
  <2> QED BY <2>1, <2>2, NoQueueStep
<1> QED BY <1>1, <1>2, <1>3, <1>4, <1>5, <1>6, <1>7 DEF Next

(* The state of the model is always well formed. In particular the engine holds  *)
(* an entry of offline_queue only while it carries that entry out, it holds the  *)
(* first of the path, and only the first ever waits for a person: whatever saves *)
(* queue, replace or supersede while the upload is under way (SyncQueue.ts       *)
(* queueWrite, markSynced by id).                                                *)
THEOREM TypeCorrect == Spec => []TypeOK
<1>1. Init => TypeOK
  BY InitTypeOK
<1>2. TypeOK /\ [Next]_vars => TypeOK'
  BY StepTypeOK
<1> QED BY <1>1, <1>2, PTL DEF Spec
=============================================================================
