-------------------------- MODULE FileSyncEditProofs --------------------------
(* What devices that sync one file promise their users, for any number of     *)
(* devices, edits and versions, as long as no user deletes the file: no edit   *)
(* is lost and no upload replaces a version it has not taken in, whatever      *)
(* answers are lost; a clean file follows the remote and what was taken out    *)
(* stays out, without faults; and one device alone is never in conflict.       *)
EXTENDS FileSyncProofs

(* What the theorems assume. A deletion that crosses an edit of another device, *)
(* and a first upload recorded by half, are left to the runs.                    *)
Undeleted == MaxDeletes = 0
Recorded == MaxFaults = 0 \/ "record" \notin FaultKinds

-----------------------------------------------------------------------------
(* The invariant.                                                           *)

(* An edit that no user took out and that no conflict copy took over. *)
Lasts(e) == e \notin undone /\ ~InCopies(e)

Pulling == {"fetched", "merged", "recorded"}     \* a version has been downloaded
Reconciled == {"merged", "recorded"}
Uploaded == {"answered", "synced", "confirmed"}  \* the remote has the text of the request
Unsettled == {"idle", "listed", "fetched", "merged", "based"}

(* Without deletions: nothing queues one, carries one out or could undo one. *)
Alive(d) ==
  /\ trash[d] = Absent /\ ~hasPendingStructuralOp(d)
  /\ pc[d] \notin {"delete", "missing"}
  /\ dirty[d] => disk[d] # Absent

(* The markers a device holds are ones the remote gave. *)
Marks(d) ==
  /\ row[d].baseEtag <= stamp /\ row[d].remoteEtag <= stamp /\ got[d].etag <= stamp
  /\ pc[d] \in {"listed"} \cup Pulling => got[d].etag # 0
  /\ pc[d] \in Pulling => got[d].content # Absent
  /\ pc[d] \in {"sent"} \cup Uploaded => request[d].op = "write"

(* What a row knows. Without a base it knows no marker, but while a first upload *)
(* is recorded; a base without its marker has an older one than the remote, so   *)
(* that a pull comes before the next upload; and an upload expects what the row  *)
(* says when it arrives.                                                         *)
Rows(d) ==
  /\ row[d].base = Absent =>
       row[d].baseEtag = 0 /\ (row[d].remoteEtag = 0 \/ pc[d] = "confirmed")
  /\ row[d].base # Absent /\ row[d].baseEtag = 0 =>
       row[d].remoteEtag < stamp /\ pc[d] \in Unsettled
  /\ pc[d] = "recorded" => row[d].base # Absent
  /\ pc[d] = "sent" => request[d].expect = expectedRemoteOf(row[d])
  /\ pc[d] \in Uploaded /\ got[d].etag = 0 => row[d].remoteEtag < stamp

(* A text that goes with the remote's current marker is the remote's text. *)
Ties(d) ==
  /\ row[d].baseEtag # 0 /\ row[d].baseEtag = stamp => remote.content = row[d].base
  /\ pc[d] \in Pulling /\ got[d].etag = stamp => remote.content = got[d].content
  /\ pc[d] \in Uploaded /\ got[d].etag # 0 /\ got[d].etag = stamp =>
       remote.content = request[d].content

(* Where a lasting edit is, once d has seen it. *)
InRemote(e) == Contains(remote.content, e)
Known(d, e) ==
  /\ Contains(row[d].base, e) => Contains(disk[d], e) /\ InRemote(e)
  /\ Contains(row[d].journal, e) => Contains(disk[d], e)
  /\ pc[d] \in Pulling =>
       /\ Contains(got[d].content, e) => InRemote(e)
       /\ Contains(row[d].base, e) => Contains(got[d].content, e)
  /\ pc[d] \in Reconciled /\ Contains(got[d].content, e) => Contains(disk[d], e)
  /\ pc[d] \in {"sent"} \cup Uploaded =>
       /\ Contains(request[d].content, e) => Contains(disk[d], e)
       /\ Contains(row[d].base, e) => Contains(request[d].content, e)
  /\ pc[d] \in Uploaded /\ Contains(request[d].content, e) => InRemote(e)

Sound(d) == Marks(d) /\ Rows(d) /\ Ties(d) /\ \A e \in Edit : Lasts(e) => Known(d, e)

(* An upload that still fits the remote has all that lasts there. *)
Covers(r) ==
  \E k \in 0..stamp :
    /\ r.expect = {k}
    /\ k = stamp => \A e \in Edit : Lasts(e) /\ InRemote(e) => Contains(r.content, e)
Late(r) == r.op = "write" /\ Covers(r)

(* A lasting edit that was saved is on a disk. *)
OnDisk == \A e \in saved : Lasts(e) => \E d \in Device : Contains(disk[d], e)

Whole == removed = {} /\ remote.etag = stamp /\ \A d \in Device : Alive(d)

EditInv ==
  /\ TypeOK /\ Whole /\ OnDisk
  /\ \A d \in Device : Sound(d)
  /\ \A r \in wire : Late(r)

-----------------------------------------------------------------------------
(* What a step leaves of the remote and of a disk.                          *)

(* Fewer edits last. *)
Shrinks == \A e \in Edit : Lasts(e)' => Lasts(e)

(* The remote stays, or has a next version with all that lasts. *)
Advances ==
  \/ UNCHANGED <<remote, stamp>>
  \/ /\ stamp' = stamp + 1
     /\ \A e \in Edit : Lasts(e)' /\ InRemote(e) => InRemote(e)'

KeepsDisk(d) == \A e \in Edit : Lasts(e)' /\ Contains(disk[d], e) => Contains(disk'[d], e)

(* The types the proofs need, as facts. *)
LEMMA Fields ==
  ASSUME Types, NEW d \in Device
  PROVE  /\ stamp \in Nat /\ remote.etag \in Nat
         /\ row[d].baseEtag \in Nat /\ row[d].remoteEtag \in Nat /\ got[d].etag \in Nat
         /\ row[d] \in Row /\ got[d] \in Version /\ request[d] \in Request
         /\ disk[d] \in File /\ pc[d] \in Phase
  BY FileSyncAssumption DEF Types, Row, Version, Stamp

LEMMA ShrinksBy ==
  ASSUME Types, undone \subseteq undone', \A d \in Device : copies[d] \subseteq copies'[d]
  PROVE  Shrinks
  BY DEF Shrinks, Lasts, InCopies

(* A device that took no step of its cycle. *)
LEMMA Bystander ==
  ASSUME Types, NEW x \in Device, Sound(x), Shrinks, Advances, KeepsDisk(x),
         row'[x] = row[x], got'[x] = got[x], request'[x] = request[x], pc'[x] = pc[x]
  PROVE  Sound(x)'
<1>1. stamp \in Nat /\ row[x].baseEtag \in Nat /\ row[x].remoteEtag \in Nat /\ got[x].etag \in Nat
  BY Fields
<1>2. stamp' = stamp \/ stamp' = stamp + 1
  BY DEF Advances
<1>3. Marks(x)'
  BY <1>1, <1>2 DEF Sound, Marks
<1>4. Rows(x)'
  BY <1>1, <1>2 DEF Sound, Rows
<1>5. Ties(x)'
  BY <1>1 DEF Sound, Marks, Ties, Advances
<1>6. ASSUME NEW e \in Edit, Lasts(e)' PROVE Known(x, e)'
  <2>1. Lasts(e) /\ Known(x, e)
    BY <1>6 DEF Shrinks, Sound
  <2>2. InRemote(e) => InRemote(e)'
    BY <1>6 DEF Advances, InRemote
  <2>3. Contains(disk[x], e) => Contains(disk'[x], e)
    BY <1>6 DEF KeepsDisk
  <2> QED BY <2>1, <2>2, <2>3 DEF Known
<1> QED BY <1>3, <1>4, <1>5, <1>6 DEF Sound

(* The cycle of a device goes on with nothing downloaded and nothing sent; *)
(* the row's journal may be gone.                                          *)
LEMMA Loose ==
  ASSUME Types, NEW x \in Device, Sound(x), Shrinks, Advances, UNCHANGED disk,
         row'[x] = row[x] \/ row'[x] = clearPendingPushSha(row[x]),
         got'[x].etag \in Nat, got'[x].etag <= stamp,
         pc'[x] \in {"idle", "push", "write"}, pc[x] # "confirmed",
         pc'[x] = "idle" \/ row[x].base = Absent \/ row[x].baseEtag # 0
  PROVE  Sound(x)'
<1>1. stamp \in Nat /\ row[x].baseEtag \in Nat /\ row[x].remoteEtag \in Nat /\ row[x] \in Row
  BY Fields
<1>2. stamp' = stamp \/ stamp' = stamp + 1
  BY DEF Advances
<1>3. /\ row'[x].base = row[x].base /\ row'[x].baseEtag = row[x].baseEtag
      /\ row'[x].remoteEtag = row[x].remoteEtag
      /\ row'[x].journal \in {row[x].journal, Absent}
  BY <1>1 DEF clearPendingPushSha, Row
<1>4. Marks(x)'
  BY <1>1, <1>2, <1>3 DEF Sound, Marks, Pulling, Uploaded
<1>5. Rows(x)'
  BY <1>1, <1>2, <1>3 DEF Sound, Rows, Uploaded, Unsettled
<1>6. Ties(x)'
  BY <1>1, <1>3 DEF Sound, Marks, Ties, Advances, Pulling, Uploaded
<1>7. ASSUME NEW e \in Edit, Lasts(e)' PROVE Known(x, e)'
  <2>1. Lasts(e) /\ Known(x, e)
    BY <1>7 DEF Shrinks, Sound
  <2>2. InRemote(e) => InRemote(e)'
    BY <1>7 DEF Advances, InRemote
  <2> QED BY <1>3, <2>1, <2>2 DEF Known, Contains, Pulling, Reconciled, Uploaded
<1> QED BY <1>4, <1>5, <1>6, <1>7 DEF Sound

-----------------------------------------------------------------------------
(* What the remote carries out.                                             *)

LEMMA SentCovers ==
  ASSUME Types, NEW d \in Device, Sound(d), remote.etag = stamp, pc[d] = "sent"
  PROVE  Late(request[d])
<1>1. stamp \in Nat /\ row[d].baseEtag \in Nat /\ row[d].remoteEtag \in Nat
  BY Fields
<1>2. /\ request[d].op = "write" /\ request[d].expect = expectedRemoteOf(row[d])
      /\ row[d].baseEtag <= stamp
  BY DEF Sound, Marks, Rows
<1>3. CASE row[d].base = Absent
  <2>1. request[d].expect = {0}
    BY <1>2, <1>3 DEF Sound, Rows, expectedRemoteOf
  <2>2. stamp = 0 => remote.content = Absent
    BY DEF Types
  <2>3. stamp = 0 => \A e \in Edit : ~InRemote(e)
    BY <2>2 DEF InRemote, Contains
  <2>4. 0 \in 0..stamp
    BY <1>1
  <2> QED BY <1>2, <2>1, <2>3, <2>4 DEF Late, Covers
<1>4. CASE row[d].base # Absent
  <2>1. row[d].baseEtag # 0
    BY <1>4 DEF Sound, Rows, Unsettled
  <2>2. request[d].expect = {row[d].baseEtag} /\ row[d].baseEtag \in 0..stamp
    BY <1>1, <1>2, <1>4, <2>1 DEF expectedRemoteOf
  <2>3. ASSUME row[d].baseEtag = stamp, NEW e \in Edit, Lasts(e), InRemote(e)
        PROVE  Contains(request[d].content, e)
    <3>1. remote.content = row[d].base
      BY <2>1, <2>3 DEF Sound, Ties
    <3> QED BY <2>3, <3>1 DEF Sound, Known, InRemote
  <2> QED BY <1>2, <2>2, <2>3 DEF Late, Covers
<1> QED BY <1>3, <1>4

LEMMA CommitAdvances ==
  ASSUME Types, Shrinks, remote.etag = stamp, NEW r, Late(r), Commits(r)
  PROVE  /\ Advances /\ UNCHANGED removed
         /\ stamp' = stamp + 1 /\ remote'.etag = stamp' /\ remote'.content = r.content
<1>1. PICK k \in 0..stamp :
        /\ r.expect = {k}
        /\ k = stamp => \A e \in Edit : Lasts(e) /\ InRemote(e) => Contains(r.content, e)
  BY DEF Late, Covers
<1>2. k = stamp
  BY <1>1 DEF Commits
<1>3. /\ stamp' = stamp + 1 /\ remote' = [content |-> r.content, etag |-> stamp + 1]
      /\ UNCHANGED removed
  BY DEF Late, Commits
<1>4. ASSUME NEW e \in Edit, Lasts(e)', InRemote(e) PROVE InRemote(e)'
  <2>1. Contains(r.content, e)
    BY <1>1, <1>2, <1>4 DEF Shrinks
  <2> QED BY <1>3, <2>1 DEF InRemote
<1> QED BY <1>3, <1>4 DEF Advances

(* An upload on the wire stays one that replaces nothing it has not taken in. *)
LEMMA LateKept ==
  ASSUME Types, Shrinks, Advances, NEW r, Late(r)
  PROVE  Late(r)'
<1>1. PICK k \in 0..stamp :
        /\ r.expect = {k}
        /\ k = stamp => \A e \in Edit : Lasts(e) /\ InRemote(e) => Contains(r.content, e)
  BY DEF Late, Covers
<1>2. stamp \in Nat
  BY FileSyncAssumption DEF Types, Stamp
<1>3. CASE UNCHANGED <<remote, stamp>>
  <2>1. ASSUME NEW e \in Edit, Lasts(e)', InRemote(e)' PROVE Lasts(e) /\ InRemote(e)
    BY <1>3, <2>1 DEF Shrinks, InRemote
  <2> QED BY <1>1, <1>3, <2>1 DEF Late, Covers
<1>4. CASE stamp' = stamp + 1
  <2>1. k \in 0..stamp' /\ k # stamp'
    BY <1>1, <1>2, <1>4
  <2> QED BY <1>1, <2>1 DEF Late, Covers
<1> QED BY <1>3, <1>4 DEF Advances

(* The devices that took no step, beside the one that did. *)
LEMMA Others ==
  ASSUME Types, \A x \in Device : Sound(x), Shrinks, Advances, NEW d \in Device, Sound(d)',
         \A x \in Device \ {d} :
           /\ row'[x] = row[x] /\ got'[x] = got[x] /\ request'[x] = request[x]
           /\ pc'[x] = pc[x] /\ disk'[x] = disk[x]
  PROVE  \A x \in Device : Sound(x)'
<1>1. ASSUME NEW x \in Device, x # d PROVE Sound(x)'
  <2>1. KeepsDisk(x)
    BY <1>1 DEF KeepsDisk
  <2> QED BY <1>1, <2>1, Bystander
<1> QED BY <1>1

-----------------------------------------------------------------------------
(* The reconcile.                                                           *)

(* Whatever the reconcile makes of two texts that both have what lasts of the    *)
(* base, and a local text that has what lasts of the journal: an edit of either  *)
(* is in the file, or in the conflict copy.                                      *)
LEMMA OutcomeKeeps ==
  ASSUME NEW r, NEW mine, NEW theirs, theirs # Absent,
         NEW o \in reconciled(r, mine, theirs), NEW e,
         Contains(r.base, e) => Contains(mine, e) /\ Contains(theirs, e),
         Contains(r.journal, e) => Contains(mine, e),
         \A c \in o.copy : e \notin c,
         Contains(mine, e) \/ Contains(theirs, e)
  PROVE  e \in o.file
<1>1. CASE mine = Absent \/ mine = theirs
  BY <1>1 DEF reconciled, Clean, Outcome, Contains
<1>2. CASE mine # Absent /\ isEcho(r, mine, theirs)
  BY <1>2 DEF reconciled, isEcho, Outcome, Contains
<1>3. CASE mine # Absent /\ mine # theirs /\ ~isEcho(r, mine, theirs)
  <2>1. CASE o = Clean(theirs) /\ mine = r.base
    BY <1>3, <2>1 DEF Clean, Outcome, Contains
  <2>2. CASE o = Clean(mine) /\ theirs = r.base
    BY <1>3, <2>2 DEF Clean, Outcome, Contains
  <2>3. CASE o = Conflict(mine, theirs)
    BY <1>3, <2>3 DEF Conflict, Outcome, Contains
  <2>4. CASE r.base # Absent /\ o = Clean(mergeText(r.base, mine, theirs))
    BY <1>3, <2>4 DEF Clean, Outcome, Contains, mergeText
  <2>5. CASE o = Clean(mine \cup theirs)
    BY <1>3, <2>5 DEF Clean, Outcome, Contains
  <2> QED BY <1>3, <2>1, <2>2, <2>3, <2>4, <2>5 DEF reconciled
<1> QED BY <1>1, <1>2, <1>3

LEMMA OutcomeIsText ==
  ASSUME NEW r \in Row, NEW mine \in File, NEW theirs \in Content,
         NEW o \in reconciled(r, mine, theirs)
  PROVE  o.file \in Content
<1>1. r.base # Absent => r.base \in Content
  BY DEF Row, File
<1>2. mine # Absent => mine \in Content
  BY DEF File
<1>3. CASE o = Clean(theirs) \/ o = Conflict(mine, theirs)
  BY <1>3 DEF Clean, Conflict, Outcome
<1>4. CASE mine # Absent /\ (o = Clean(mine) \/ o = Outcome(mine, {}, TRUE))
  BY <1>2, <1>4 DEF Clean, Outcome
<1>5. CASE mine # Absent /\ r.base # Absent /\ o = Clean(mergeText(r.base, mine, theirs))
  BY <1>1, <1>2, <1>5 DEF Clean, Outcome, mergeText, Content
<1>6. CASE mine # Absent /\ o = Clean(mine \cup theirs)
  BY <1>2, <1>6 DEF Clean, Outcome, Content
<1> QED BY <1>3, <1>4, <1>5, <1>6 DEF reconciled

-----------------------------------------------------------------------------
(* The steps of the pull, for the device that takes them.                   *)

(* A step that touches no disk, no copy and no history. *)
Quietly == UNCHANGED <<disk, copies, undone>>

LEMMA QuietlyShrinks ==
  ASSUME Quietly
  PROVE  Shrinks /\ \A d \in Device : KeepsDisk(d)
  BY DEF Quietly, Shrinks, Lasts, InCopies, KeepsDisk

LEMMA SettledRow ==
  ASSUME NEW d, Sound(d), pc[d] \notin Unsettled
  PROVE  row[d].base = Absent \/ row[d].baseEtag # 0
  BY DEF Sound, Rows

LEMMA TurnsToEnds ==
  ASSUME Types, NEW d \in Device, NEW there, TurnsTo(d, there)
  PROVE  /\ pc'[d] = there /\ got'[d] = NoVersion /\ request'[d] = NoRequest
         /\ got'[d].etag = 0
  BY DEF Types, TurnsTo, Goes, NoVersion

LEMMA ListSound ==
  ASSUME Types, Whole, NEW d \in Device, Sound(d), List(d)
  PROVE  Sound(d)'
<1>1. Quietly /\ UNCHANGED <<remote, stamp, row>>
  BY DEF List, Quietly, local
<1>2. Shrinks /\ Advances
  BY <1>1, QuietlyShrinks DEF Advances
<1>3. /\ stamp \in Nat /\ got[d] \in Version /\ pc[d] = "idle" /\ remote.etag = stamp
      /\ (remote.etag = 0 <=> remote.content = Absent)
      /\ row[d].baseEtag \in Nat /\ row[d].remoteEtag \in Nat
  BY Fields DEF List, At, Whole, Types
<1>4. row[d].baseEtag <= stamp /\ row[d].remoteEtag <= stamp
  BY DEF Sound, Marks
<1>5. CASE Pushes(d)
  <2>1. row[d].base = Absent \/ row[d].baseEtag # 0
    <3>1. ASSUME row[d].base # Absent, row[d].baseEtag = 0 PROVE FALSE
      <4>1. row[d].remoteEtag < stamp
        BY <3>1 DEF Sound, Rows
      <4>2. stamp # 0 /\ remote.content # Absent /\ row[d].remoteEtag # remote.etag
        BY <1>3, <4>1
      <4>3. pc'[d] = "listed"
        BY <1>3, <4>2 DEF List, unchanged, Goes, Types, Whole, Alive
      <4> QED BY <1>5, <4>3, TurnsToEnds DEF Pushes
    <3> QED BY <3>1
  <2>2. pc'[d] = "push" /\ got'[d].etag = 0
    BY <1>5, TurnsToEnds DEF Pushes
  <2> QED BY <1>1, <1>2, <1>3, <2>1, <2>2, Loose DEF Quietly
<1>6. CASE ~Pushes(d)
  <2>1. /\ got' = [got EXCEPT ![d].etag = remote.etag] /\ UNCHANGED request
        /\ remote.content # Absent \/ row[d].remoteEtag # 0
        /\ Goes(d, IF remote.content = Absent /\ row[d].remoteEtag # 0 THEN "missing" ELSE "listed")
    BY <1>6 DEF List
  <2>2. remote.content # Absent /\ remote.etag # 0
    BY <1>3, <1>4, <2>1
  <2>3. got'[d].etag = stamp /\ got'[d].content = got[d].content
    BY <1>3, <2>1 DEF Types, Version
  <2>4. pc'[d] = "listed"
    BY <2>1, <2>2 DEF Goes, Types
  <2>5. Marks(d)'
    BY <1>1, <1>3, <1>4, <2>2, <2>3, <2>4 DEF Marks, Pulling, Uploaded
  <2>6. Rows(d)'
    BY <1>1, <1>3, <2>4 DEF Sound, Rows, Uploaded, Unsettled
  <2>7. Ties(d)'
    BY <1>1, <2>4 DEF Sound, Ties, Pulling, Uploaded
  <2>8. ASSUME NEW e \in Edit, Lasts(e)' PROVE Known(d, e)'
    <3>1. Known(d, e)
      BY <1>2, <2>8 DEF Shrinks, Sound
    <3> QED BY <1>1, <2>4, <3>1 DEF Known, InRemote, Quietly, Pulling, Reconciled, Uploaded
  <2> QED BY <2>5, <2>6, <2>7, <2>8 DEF Sound
<1> QED BY <1>5, <1>6

LEMMA DownloadSound ==
  ASSUME Types, Whole, NEW d \in Device, Sound(d), Download(d)
  PROVE  Sound(d)'
<1>1. Quietly /\ UNCHANGED <<remote, stamp, row>>
  BY DEF Download, Quietly, local
<1>2. Shrinks /\ Advances
  BY <1>1, QuietlyShrinks DEF Advances
<1>3. /\ stamp \in Nat /\ got[d] \in Version /\ pc[d] = "listed" /\ remote.etag = stamp
      /\ (remote.etag = 0 <=> remote.content = Absent)
      /\ got[d].etag \in Nat
  BY Fields DEF Download, At, Whole, Types
<1>4. got[d].etag <= stamp /\ got[d].etag # 0 /\ remote.content # Absent
  <2>1. got[d].etag <= stamp /\ got[d].etag # 0
    BY <1>3 DEF Sound, Marks
  <2> QED BY <1>3, <2>1
<1>5. got' = [got EXCEPT ![d].content = remote.content] /\ UNCHANGED request /\ Goes(d, "fetched")
  BY <1>4 DEF Download
<1>6. /\ got'[d].etag = got[d].etag /\ got'[d].content = remote.content
      /\ pc'[d] = "fetched" /\ request'[d] = request[d]
  BY <1>3, <1>5 DEF Types, Version, Goes
<1>7. Marks(d)'
  BY <1>1, <1>4, <1>6 DEF Sound, Marks, Pulling, Uploaded
<1>8. Rows(d)'
  BY <1>1, <1>3, <1>6 DEF Sound, Rows, Uploaded, Unsettled
<1>9. Ties(d)'
  BY <1>1, <1>6 DEF Sound, Ties, Pulling, Uploaded
<1>10. ASSUME NEW e \in Edit, Lasts(e)' PROVE Known(d, e)'
  <2>1. Known(d, e)
    BY <1>2, <1>10 DEF Shrinks, Sound
  <2> QED BY <1>1, <1>6, <2>1 DEF Known, InRemote, Quietly, Pulling, Reconciled, Uploaded
<1> QED BY <1>7, <1>8, <1>9, <1>10 DEF Sound

(* What the reconcile does to a device's disk and copies. *)
LEMMA ReconcileSound ==
  ASSUME Types, Whole, NEW d \in Device, Sound(d), Reconcile(d)
  PROVE  /\ Shrinks /\ KeepsDisk(d) /\ Sound(d)' /\ disk'[d] # Absent
<1>1. /\ UNCHANGED <<remote, stamp, row, undone>> /\ pc[d] = "fetched"
      /\ row[d] \in Row /\ disk[d] \in File /\ got[d].content \in Content
      /\ ~hasPendingStructuralOp(d)
  BY DEF Reconcile, At, Types, HasText, Version, File, Whole, Alive
<1>2. PICK o \in reconciled(row[d], disk[d], got[d].content) :
        /\ disk' = [disk EXCEPT ![d] = o.file]
        /\ copies' = [copies EXCEPT ![d] = @ \cup Kept(o)]
        /\ Goes(d, "merged") /\ UNCHANGED <<got, request>>
  BY <1>1 DEF Reconcile
<1>3. disk'[d] = o.file /\ copies'[d] = copies[d] \cup o.copy /\ pc'[d] = "merged"
  BY <1>2 DEF Types, Kept, Goes
<1>4. o.file \in Content /\ o.file # Absent /\ got[d].content # Absent
  BY <1>1, OutcomeIsText, Constants
<1>5. Shrinks
  <2>1. \A x \in Device : copies[x] \subseteq copies'[x]
    BY <1>2 DEF Types
  <2> QED BY <1>1, <2>1, ShrinksBy
<1>6. Advances
  BY <1>1 DEF Advances
<1>7. ASSUME NEW e \in Edit, Lasts(e)', Contains(disk[d], e) \/ Contains(got[d].content, e)
      PROVE  Contains(disk'[d], e)
  <2>1. Known(d, e)
    BY <1>5, <1>7 DEF Shrinks, Sound
  <2>2. /\ Contains(row[d].base, e) => Contains(disk[d], e) /\ Contains(got[d].content, e)
        /\ Contains(row[d].journal, e) => Contains(disk[d], e)
    BY <1>1, <2>1 DEF Known, Pulling
  <2>3. \A c \in o.copy : e \notin c
    BY <1>3, <1>7 DEF Lasts, InCopies
  <2>4. e \in o.file
    BY <1>4, <1>7, <2>2, <2>3, OutcomeKeeps
  <2> QED BY <1>3, <1>4, <2>4 DEF Contains
<1>8. Marks(d)'
  BY <1>1, <1>2, <1>3 DEF Sound, Marks, Pulling, Uploaded
<1>9. Rows(d)'
  BY <1>1, <1>2, <1>3 DEF Sound, Rows, Uploaded, Unsettled
<1>10. Ties(d)'
  BY <1>1, <1>2, <1>3 DEF Sound, Ties, Pulling, Uploaded
<1>11. ASSUME NEW e \in Edit, Lasts(e)' PROVE Known(d, e)'
  <2>1. Known(d, e)
    BY <1>5, <1>11 DEF Shrinks, Sound
  <2> QED BY <1>1, <1>2, <1>3, <1>7, <1>11, <2>1 DEF Known, InRemote, Pulling, Reconciled, Uploaded
<1> QED BY <1>3, <1>4, <1>5, <1>7, <1>8, <1>9, <1>10, <1>11 DEF Sound, KeepsDisk

LEMMA RecordPulledBaseSound ==
  ASSUME Types, NEW d \in Device, Sound(d), RecordPulledBase(d)
  PROVE  Sound(d)'
<1>1. /\ Quietly /\ UNCHANGED <<remote, stamp, got, request>>
      /\ pc[d] = "merged" /\ pc'[d] = "recorded"
  BY DEF RecordPulledBase, Quietly, local, cycle, At, Goes, Types
<1> DEFINE r == [row[d] EXCEPT !.base = got[d].content, !.baseEtag = got[d].etag]
<1>2. row'[d] = r
  BY DEF RecordPulledBase, PulledBase, Types
<1>3. /\ r.base = got[d].content /\ r.baseEtag = got[d].etag
      /\ r.remoteEtag = row[d].remoteEtag /\ r.journal = row[d].journal
  BY Fields DEF Row
<1>4. got[d].etag <= stamp /\ got[d].etag # 0 /\ got[d].content # Absent
  BY <1>1 DEF Sound, Marks, Pulling
<1> HIDE DEF r
<1>5. Marks(d)'
  BY <1>1, <1>2, <1>3, <1>4 DEF Sound, Marks, Pulling, Uploaded
<1>6. Rows(d)'
  BY <1>1, <1>2, <1>3, <1>4 DEF Rows, Uploaded
<1>7. Ties(d)'
  BY <1>1, <1>2, <1>3 DEF Sound, Ties, Pulling, Uploaded
<1>8. ASSUME NEW e \in Edit, Lasts(e)' PROVE Known(d, e)'
  <2>1. Known(d, e)
    BY <1>1, <1>8, QuietlyShrinks DEF Shrinks, Sound
  <2> QED BY <1>1, <1>2, <1>3, <2>1 DEF Known, InRemote, Quietly, Pulling, Reconciled, Uploaded
<1> QED BY <1>5, <1>6, <1>7, <1>8 DEF Sound

LEMMA RecordPulledSound ==
  ASSUME Types, NEW d \in Device, Sound(d), RecordPulled(d)
  PROVE  Sound(d)'
<1>1. /\ Quietly /\ UNCHANGED <<remote, stamp>>
      /\ pc[d] = "recorded" /\ pc'[d] = "push"
  BY TurnsToEnds DEF RecordPulled, Quietly, At, Pushes
<1>2. got'[d].etag = 0
  BY TurnsToEnds DEF RecordPulled, Pushes
<1> DEFINE r == [row[d] EXCEPT !.remoteEtag = got[d].etag]
<1>3. row'[d] \in {r, clearPendingPushSha(r)}
  BY DEF RecordPulled, Types
<1>4. /\ r.base = row[d].base /\ r.baseEtag = row[d].baseEtag
      /\ r.remoteEtag = got[d].etag /\ r.journal = row[d].journal /\ r \in Row
  BY Fields DEF Row, Version
<1> HIDE DEF r
<1>5. /\ row'[d].base = row[d].base /\ row'[d].baseEtag = row[d].baseEtag
      /\ row'[d].remoteEtag = got[d].etag
      /\ row'[d].journal \in {row[d].journal, Absent}
  BY <1>3, <1>4 DEF clearPendingPushSha, Row
<1>6. got[d].etag <= stamp /\ row[d].baseEtag <= stamp /\ stamp \in Nat
  BY Fields DEF Sound, Marks
<1>7. row[d].base # Absent /\ row[d].baseEtag # 0
  BY <1>1 DEF Sound, Rows, Unsettled
<1>8. Marks(d)'
  BY <1>1, <1>2, <1>5, <1>6 DEF Marks, Pulling, Uploaded
<1>9. Rows(d)'
  BY <1>1, <1>5, <1>7 DEF Rows, Uploaded
<1>10. Ties(d)'
  BY <1>1, <1>5 DEF Sound, Ties, Pulling, Uploaded
<1>11. ASSUME NEW e \in Edit, Lasts(e)' PROVE Known(d, e)'
  <2>1. Known(d, e)
    BY <1>1, <1>11, QuietlyShrinks DEF Shrinks, Sound
  <2> QED BY <1>1, <1>5, <2>1 DEF Known, InRemote, Contains, Quietly, Pulling, Reconciled, Uploaded
<1> QED BY <1>8, <1>9, <1>10, <1>11 DEF Sound

-----------------------------------------------------------------------------
(* The steps of the push, for the device that takes them.                   *)

(* The steps that end a pass, take an entry up or let it go. *)
LEMMA PassSound ==
  ASSUME Types, Whole, NEW d \in Device, Sound(d),
         \/ Quiet(d) \/ PickUp(d, "write") \/ PickUp(d, "delete") \/ Settled(d) \/ Deferred(d)
         \/ Refused(d) \/ ClearJournal(d),
         pc'[d] # "delete"
  PROVE  Sound(d)'
<1>1. Quietly /\ UNCHANGED <<remote, stamp>>
  BY DEF Quiet, PickUp, Settled, Deferred, Refused, ClearJournal, Quietly, local
<1>2. Shrinks /\ Advances
  BY <1>1, QuietlyShrinks DEF Advances
<1>3. row'[d] = row[d] \/ row'[d] = clearPendingPushSha(row[d])
  BY DEF Quiet, PickUp, Settled, Deferred, Refused, ClearJournal, Types
<1>4. got[d].etag \in Nat /\ stamp \in Nat /\ got[d].etag <= stamp
  BY Fields DEF Sound, Marks
<1>5. pc[d] \in {"push", "write", "delete", "sent", "based"}
  BY DEF Quiet, PickUp, Settled, Deferred, Refused, ClearJournal, At
<1>6. CASE PickUp(d, "write") \/ PickUp(d, "delete")
  <2>1. pc[d] = "push" /\ pc'[d] = "write" /\ got' = got
    BY <1>6 DEF PickUp, At, Goes, Types, cycle
  <2>2. row[d].base = Absent \/ row[d].baseEtag # 0
    BY <2>1, SettledRow DEF Unsettled
  <2> QED BY <1>1, <1>2, <1>3, <1>4, <2>1, <2>2, Loose DEF Quietly
<1>7. CASE ~(PickUp(d, "write") \/ PickUp(d, "delete"))
  <2>1. Ends(d)
    BY <1>7 DEF Quiet, Settled, Deferred, Refused, ClearJournal
  <2>2. pc'[d] = "idle" /\ got'[d].etag = 0
    BY <2>1, TurnsToEnds DEF Ends
  <2> QED BY <1>1, <1>2, <1>3, <1>4, <1>5, <2>2, Loose DEF Quietly
<1> QED BY <1>6, <1>7

LEMMA SendWriteSound ==
  ASSUME Types, NEW d \in Device, Sound(d), SendWrite(d)
  PROVE  Sound(d)'
<1>1. /\ Quietly /\ UNCHANGED <<remote, stamp, got>>
      /\ pc[d] = "write" /\ pc'[d] = "sent"
  BY DEF SendWrite, Quietly, local, At, Goes, Types
<1>2. /\ request'[d].op = "write" /\ request'[d].content = disk[d]
      /\ request'[d].expect = expectedRemoteOf(row[d])
  BY DEF SendWrite, Types
<1>3. /\ row'[d].base = row[d].base /\ row'[d].baseEtag = row[d].baseEtag
      /\ row'[d].remoteEtag = row[d].remoteEtag /\ row'[d].journal = disk[d]
  BY DEF SendWrite, Types, Row
<1>4. expectedRemoteOf(row'[d]) = expectedRemoteOf(row[d])
  BY <1>3 DEF expectedRemoteOf
<1>5. Marks(d)'
  BY <1>1, <1>2, <1>3 DEF Sound, Marks, Pulling
<1>6. Rows(d)'
  BY <1>1, <1>2, <1>3, <1>4 DEF Sound, Rows, Uploaded, Unsettled
<1>7. Ties(d)'
  BY <1>1, <1>3 DEF Sound, Ties, Pulling, Uploaded
<1>8. ASSUME NEW e \in Edit, Lasts(e)' PROVE Known(d, e)'
  <2>1. Known(d, e)
    BY <1>1, <1>8, QuietlyShrinks DEF Shrinks, Sound
  <2> QED BY <1>1, <1>2, <1>3, <2>1 DEF Known, InRemote, Quietly, Pulling, Reconciled, Uploaded
<1> QED BY <1>5, <1>6, <1>7, <1>8 DEF Sound

LEMMA AnsweredSound ==
  ASSUME Types, Whole, NEW d \in Device, Sound(d), Answered(d)
  PROVE  Advances /\ UNCHANGED removed /\ remote'.etag = stamp' /\ Sound(d)'
<1>1. /\ Quietly /\ UNCHANGED <<row, request>>
      /\ pc[d] = "sent" /\ pc'[d] = "answered" /\ remote.etag = stamp
  BY DEF Answered, Quietly, local, At, Goes, Types, Whole
<1>2. Late(request[d]) /\ Shrinks
  BY <1>1, SentCovers, QuietlyShrinks
<1>3. /\ Advances /\ UNCHANGED removed
      /\ stamp' = stamp + 1 /\ remote'.etag = stamp' /\ remote'.content = request[d].content
  BY <1>1, <1>2, CommitAdvances DEF Answered
<1>4. got'[d].etag \in {0, stamp'}
  BY DEF Answered, Types, NoVersion
<1>5. stamp \in Nat /\ row[d].baseEtag \in Nat /\ row[d].remoteEtag \in Nat
  BY Fields
<1>6. row[d].baseEtag <= stamp /\ row[d].remoteEtag <= stamp /\ request[d].op = "write"
  BY <1>1 DEF Sound, Marks
<1>7. Marks(d)'
  BY <1>1, <1>3, <1>4, <1>5, <1>6 DEF Marks, Pulling
<1>8. Rows(d)'
  BY <1>1, <1>3, <1>4, <1>5, <1>6 DEF Sound, Rows, Uploaded, Unsettled
<1>9. Ties(d)'
  BY <1>1, <1>3, <1>5, <1>6 DEF Ties, Pulling, Uploaded
<1>10. ASSUME NEW e \in Edit, Lasts(e)' PROVE Known(d, e)'
  <2>1. Known(d, e)
    BY <1>2, <1>10 DEF Shrinks, Sound
  <2> QED BY <1>1, <1>3, <2>1 DEF Known, InRemote, Quietly, Pulling, Reconciled, Uploaded
<1> QED BY <1>3, <1>7, <1>8, <1>9, <1>10 DEF Sound

LEMMA MarkSyncedSound ==
  ASSUME Types, NEW d \in Device, Sound(d), MarkSynced(d)
  PROVE  Sound(d)'
<1>1. /\ Quietly /\ UNCHANGED <<remote, stamp, row, got, request>>
      /\ pc[d] = "answered" /\ pc'[d] = "synced"
  BY DEF MarkSynced, Quietly, local, cycle, At, Goes, Types
<1>2. Marks(d)' /\ Rows(d)' /\ Ties(d)'
  BY <1>1 DEF Sound, Marks, Rows, Ties, Pulling, Uploaded, Unsettled
<1>3. ASSUME NEW e \in Edit, Lasts(e)' PROVE Known(d, e)'
  <2>1. Known(d, e)
    BY <1>1, <1>3, QuietlyShrinks DEF Shrinks, Sound
  <2> QED BY <1>1, <2>1 DEF Known, InRemote, Quietly, Pulling, Reconciled, Uploaded
<1> QED BY <1>2, <1>3 DEF Sound

LEMMA RecordRemoteSound ==
  ASSUME Types, NEW d \in Device, Sound(d), RecordRemote(d)
  PROVE  Sound(d)'
<1>1. pc[d] = "synced" /\ request[d].op = "write"
  BY DEF RecordRemote, At, Sound, Marks, Uploaded
<1>2. /\ Quietly /\ UNCHANGED <<remote, stamp, got, request>> /\ pc'[d] = "confirmed"
  BY <1>1 DEF RecordRemote, Quietly, local, cycle, Goes, Types
<1>3. /\ row'[d].base = row[d].base /\ row'[d].baseEtag = row[d].baseEtag
      /\ row'[d].journal = row[d].journal
      /\ row'[d].remoteEtag = IF got[d].etag # 0 THEN got[d].etag ELSE row[d].remoteEtag
  BY <1>1 DEF RecordRemote, Types, Row
<1>4. Marks(d)'
  BY <1>1, <1>2, <1>3 DEF Sound, Marks, Pulling, Uploaded
<1>5. Rows(d)'
  BY <1>1, <1>2, <1>3 DEF Sound, Rows, Uploaded, Unsettled
<1>6. Ties(d)'
  BY <1>1, <1>2, <1>3 DEF Sound, Ties, Pulling, Uploaded
<1>7. ASSUME NEW e \in Edit, Lasts(e)' PROVE Known(d, e)'
  <2>1. Known(d, e)
    BY <1>2, <1>7, QuietlyShrinks DEF Shrinks, Sound
  <2> QED BY <1>1, <1>2, <1>3, <2>1 DEF Known, InRemote, Quietly, Pulling, Reconciled, Uploaded
<1> QED BY <1>4, <1>5, <1>6, <1>7 DEF Sound

LEMMA RecordPushedBaseSound ==
  ASSUME Types, NEW d \in Device, Sound(d), RecordPushedBase(d)
  PROVE  Sound(d)'
<1>1. /\ Quietly /\ UNCHANGED <<remote, stamp, got, request>>
      /\ pc[d] = "confirmed" /\ pc'[d] = "based"
  BY DEF RecordPushedBase, Quietly, local, cycle, At, Goes, Types
<1> DEFINE r == [row[d] EXCEPT !.base = request[d].content, !.baseEtag = got[d].etag]
<1>2. row'[d] = r
  BY DEF RecordPushedBase, Types
<1>3. /\ r.base = request[d].content /\ r.baseEtag = got[d].etag
      /\ r.remoteEtag = row[d].remoteEtag /\ r.journal = row[d].journal
  BY Fields DEF Row
<1> HIDE DEF r
<1>4. request[d].op = "write" /\ request[d].content # Absent
  BY <1>1 DEF Sound, Marks, Uploaded, Types, HasText, WriteHasText
<1>5. Marks(d)'
  BY <1>1, <1>2, <1>3 DEF Sound, Marks, Pulling, Uploaded
<1>6. Rows(d)'
  BY <1>1, <1>2, <1>3, <1>4 DEF Sound, Rows, Uploaded, Unsettled
<1>7. Ties(d)'
  BY <1>1, <1>2, <1>3 DEF Sound, Ties, Pulling, Uploaded
<1>8. ASSUME NEW e \in Edit, Lasts(e)' PROVE Known(d, e)'
  <2>1. Known(d, e)
    BY <1>1, <1>8, QuietlyShrinks DEF Shrinks, Sound
  <2> QED BY <1>1, <1>2, <1>3, <2>1 DEF Known, InRemote, Quietly, Pulling, Reconciled, Uploaded
<1> QED BY <1>5, <1>6, <1>7, <1>8 DEF Sound

-----------------------------------------------------------------------------
(* The queue without deletions.                                             *)

OnlyWrites(q) == q \in Seq(QueueEntry) /\ ~Holds(q, "delete")

LEMMA AppendOnlyWrites ==
  ASSUME NEW q, OnlyWrites(q)
  PROVE  OnlyWrites(Append(q, Entry("write")))
<1>1. Entry("write") \in QueueEntry /\ Entry("write").op = "write" /\ q \in Seq(QueueEntry)
  BY DEF Entry, QueueEntry, OnlyWrites
<1> QED BY <1>1, AppendProperties DEF OnlyWrites, Holds

LEMMA SingleOnlyWrites ==
  ASSUME NEW e \in QueueEntry, e.op = "write"
  PROVE  OnlyWrites(<<e>>)
<1>1. <<e>> \in Seq(QueueEntry) /\ Len(<<e>>) = 1 /\ <<e>>[1] = e
  OBVIOUS
<1> QED BY <1>1 DEF OnlyWrites, Holds

LEMMA FirstIsWrite ==
  ASSUME NEW q, OnlyWrites(q), q # <<>>
  PROVE  q[1] \in QueueEntry /\ q[1].op = "write"
<1>1. 1 \in 1..Len(q) /\ q[1] \in QueueEntry
  BY DEF OnlyWrites
<1> QED BY <1>1 DEF OnlyWrites, Holds, QueueEntry

LEMMA SameFirstOnlyWrites ==
  ASSUME NEW q, OnlyWrites(q), q # <<>>, NEW e \in QueueEntry, e.op = "write"
  PROVE  OnlyWrites([q EXCEPT ![1] = e])
<1>1. q \in Seq(QueueEntry) /\ 1 \in 1..Len(q)
  BY DEF OnlyWrites
<1>2. /\ [q EXCEPT ![1] = e] \in Seq(QueueEntry)
      /\ Len([q EXCEPT ![1] = e]) = Len(q)
      /\ \A j \in 1..Len(q) : [q EXCEPT ![1] = e][j] = IF j = 1 THEN e ELSE q[j]
  BY <1>1, ExceptSeq
<1> QED BY <1>2 DEF OnlyWrites, Holds

(* No operation of the queue but a deletion's own makes a deletion. *)
LEMMA QueueOnlyWrites ==
  ASSUME NEW q, OnlyWrites(q)
  PROVE  /\ OnlyWrites(queueWrite(q)) /\ OnlyWrites(queueWriteAgain(q))
         /\ q # <<>> => OnlyWrites(Take(q))
         /\ OnlyWrites(Release(q)) /\ OnlyWrites(ForPerson(q))
         /\ OnlyWrites(resetStuckOperations(q)) /\ OnlyWrites(markSynced(q))
<1>1. Entry("write") \in QueueEntry /\ Entry("write").op = "write"
  BY DEF Entry, QueueEntry
<1>2. OnlyWrites(queueWrite(q))
  BY <1>1, SingleOnlyWrites, AppendOnlyWrites DEF queueWrite
<1>3. OnlyWrites(Waiting(q))
  <2>1. OnlyWrites(<<>>)
    <3>1. <<>> \in Seq(QueueEntry) /\ Len(<<>>) = 0
      OBVIOUS
    <3> QED BY <3>1 DEF OnlyWrites, Holds
  <2> QED BY <2>1, FirstIsWrite, SingleOnlyWrites DEF Waiting
<1>4. OnlyWrites(queueWriteAgain(q))
  BY <1>3, AppendOnlyWrites DEF queueWriteAgain, OnlyWrites
<1>5. ASSUME q # <<>> PROVE OnlyWrites(Take(q))
  <2> DEFINE e == [q[1] EXCEPT !.taken = TRUE]
  <2>1. e \in QueueEntry /\ e.op = "write"
    BY <1>5, FirstIsWrite DEF QueueEntry
  <2>2. OnlyWrites([q EXCEPT ![1] = e])
    BY <1>5, <2>1, SameFirstOnlyWrites
  <2> QED BY <2>2 DEF Take
<1>6. OnlyWrites(Release(q))
  <2> DEFINE e == [q[1] EXCEPT !.taken = FALSE]
  <2>1. q # <<>> => e \in QueueEntry /\ e.op = "write"
    BY FirstIsWrite DEF QueueEntry
  <2>2. q # <<>> => OnlyWrites([q EXCEPT ![1] = e])
    BY <2>1, SameFirstOnlyWrites
  <2> QED BY <2>2 DEF Release
<1>7. OnlyWrites(ForPerson(q))
  <2> DEFINE e == [q[1] EXCEPT !.manual = TRUE]
  <2>1. q # <<>> => e \in QueueEntry /\ e.op = "write"
    BY FirstIsWrite DEF QueueEntry
  <2>2. q # <<>> => OnlyWrites([q EXCEPT ![1] = e])
    BY <2>1, SameFirstOnlyWrites
  <2> QED BY <2>2 DEF ForPerson
<1>8. OnlyWrites(resetStuckOperations(q))
  <2> DEFINE e == [q[1] EXCEPT !.manual = FALSE]
  <2>1. q # <<>> => e \in QueueEntry /\ e.op = "write"
    BY FirstIsWrite DEF QueueEntry
  <2>2. q # <<>> => OnlyWrites([q EXCEPT ![1] = e])
    BY <2>1, SameFirstOnlyWrites
  <2> QED BY <2>2 DEF resetStuckOperations
<1>9. OnlyWrites(markSynced(q))
  <2>1. CASE q # <<>>
    <3>1. q \in Seq(QueueEntry) /\ Len(q) \in Nat
      BY DEF OnlyWrites
    <3>2. /\ Tail(q) \in Seq(QueueEntry) /\ Len(Tail(q)) = Len(q) - 1
          /\ \A i \in 1..Len(Tail(q)) : Tail(q)[i] = q[i + 1]
      BY <2>1, <3>1, HeadTailProperties
    <3>3. \A i \in 1..Len(Tail(q)) : i + 1 \in 1..Len(q)
      BY <3>1, <3>2
    <3>4. OnlyWrites(Tail(q))
      BY <3>2, <3>3 DEF OnlyWrites, Holds
    <3> QED BY <3>4 DEF markSynced
  <2>2. CASE q = <<>>
    BY <2>2 DEF markSynced
  <2> QED BY <2>1, <2>2
<1> QED BY <1>2, <1>4, <1>5, <1>6, <1>7, <1>8, <1>9

-----------------------------------------------------------------------------
(* Without deletions some steps are never taken.                            *)

LEMMA QueueAlive ==
  ASSUME TypeOK, Whole, NEW d \in Device
  PROVE  OnlyWrites(queue[d])
  BY DEF TypeOK, QueuesOK, QueueOK, Whole, Alive, hasPendingStructuralOp, OnlyWrites

LEMMA Unreached ==
  ASSUME TypeOK, Undeleted, Whole, NEW d \in Device
  PROVE  /\ ~Delete(d) /\ ~Restore(d)
         /\ ~MirrorDeletion(d) /\ ~SendDelete(d) /\ ~PickUp(d, "delete")
<1>1. deletes = 0 /\ trash[d] = Absent /\ pc[d] \notin {"delete", "missing"}
  BY FileSyncAssumption DEF TypeOK, Types, Undeleted, Whole, Alive
<1>2. ~Delete(d) /\ ~Restore(d)
  BY <1>1 DEF Delete, Restore, Undeleted
<1>3. ~MirrorDeletion(d) /\ ~SendDelete(d)
  BY <1>1 DEF MirrorDeletion, SendDelete, At
<1>4. ~PickUp(d, "delete")
  <2>1. ASSUME PickUp(d, "delete") PROVE FALSE
    <3>1. queue[d] # <<>> /\ queue[d][1].op = "delete"
      BY <2>1 DEF PickUp, Due
    <3> QED BY <3>1, QueueAlive, FirstIsWrite
  <2> QED BY <2>1
<1> QED BY <1>2, <1>3, <1>4

(* A step of d touches nothing of the other devices. *)
OnlyBy(d) ==
  \A x \in Device \ {d} :
    /\ row'[x] = row[x] /\ got'[x] = got[x] /\ request'[x] = request[x]
    /\ pc'[x] = pc[x] /\ disk'[x] = disk[x]
    /\ trash'[x] = trash[x] /\ dirty'[x] = dirty[x] /\ queue'[x] = queue[x]

LEMMA OthersAlive ==
  ASSUME NEW d \in Device, OnlyBy(d), \A x \in Device : Alive(x), Alive(d)'
  PROVE  \A x \in Device : Alive(x)'
<1>1. ASSUME NEW x \in Device, x # d PROVE Alive(x)'
  BY <1>1 DEF OnlyBy, Alive, hasPendingStructuralOp
<1> QED BY <1>1

(* What a step of device d comes to. *)
Comes(d) ==
  /\ Shrinks /\ Advances /\ \A x \in Device : KeepsDisk(x)
  /\ OnlyBy(d) /\ Sound(d)' /\ Alive(d)'
  /\ UNCHANGED removed /\ remote'.etag = stamp'

LEMMA ComesWhole ==
  ASSUME TypeOK, Whole, \A x \in Device : Sound(x), NEW d \in Device, Comes(d)
  PROVE  Whole' /\ \A x \in Device : Sound(x)'
<1>1. \A x \in Device : Sound(x)'
  BY Others DEF Comes, OnlyBy, TypeOK
<1>2. \A x \in Device : Alive(x)'
  BY OthersAlive DEF Comes, Whole
<1> QED BY <1>1, <1>2 DEF Comes, Whole

-----------------------------------------------------------------------------
(* Every step of a device.                                                  *)

LEMMA UserComes ==
  ASSUME TypeOK, Undeleted, Whole, NEW d \in Device, Sound(d), User(d)
  PROVE  Comes(d)
<1>1. PICK e \in Edit : Save(d, e) \/ Undo(d, e)
  BY Unreached DEF User
<1>2. /\ UNCHANGED <<remote, stamp, row, queue, pc, cycle, copies, trash, removed>>
      /\ undone \subseteq undone' /\ dirty' = [dirty EXCEPT ![d] = TRUE]
  BY <1>1 DEF Save, Undo, Changes
<1>3. Types
  BY DEF TypeOK
<1>4. Shrinks /\ Advances
  BY <1>2, <1>3, ShrinksBy DEF Advances
<1>5. /\ disk' \in [Device -> File] /\ disk'[d] # Absent
      /\ \A x \in Device \ {d} : disk'[x] = disk[x]
      /\ \A f \in Edit : Lasts(f)' /\ Contains(disk[d], f) => Contains(disk'[d], f)
  <2>1. disk[d] \in File /\ disk \in [Device -> File]
    BY <1>3 DEF Types
  <2>2. CASE Save(d, e)
    <3>1. disk' = [disk EXCEPT ![d] = Text(d) \cup {e}] /\ Text(d) \cup {e} \in Content
      BY <2>1, <2>2 DEF Save, Changes, Text, File, Content
    <3>2. Text(d) \cup {e} # Absent
      BY <3>1, Constants
    <3> QED BY <2>1, <3>1, <3>2 DEF Contains, Text, File
  <2>3. CASE Undo(d, e)
    <3>1. disk' = [disk EXCEPT ![d] = Text(d) \ {e}] /\ Text(d) \ {e} \in Content
      BY <2>1, <2>3 DEF Undo, Changes, Text, File, Content
    <3>2. Text(d) \ {e} # Absent
      BY <3>1, Constants
    <3>3. ~Lasts(e)'
      BY <2>3 DEF Undo, Lasts
    <3> QED BY <2>1, <3>1, <3>2, <3>3 DEF Contains, Text, File
  <2> QED BY <1>1, <2>2, <2>3
<1>6. \A x \in Device : KeepsDisk(x)
  BY <1>5 DEF KeepsDisk
<1>7. Sound(d)'
  BY <1>2, <1>3, <1>4, <1>6, Bystander DEF cycle
<1>8. Alive(d)'
  BY <1>2, <1>5 DEF Whole, Alive, hasPendingStructuralOp
<1>9. OnlyBy(d)
  BY <1>2, <1>3, <1>5 DEF OnlyBy, cycle, Types
<1> QED BY <1>2, <1>4, <1>6, <1>7, <1>8, <1>9 DEF Comes, Whole

LEMMA ServiceComes ==
  ASSUME TypeOK, Whole, NEW d \in Device, Sound(d), RetryFailed(d) \/ Announce(d)
  PROVE  Comes(d)
<1>1. /\ Quietly /\ UNCHANGED <<remote, stamp, row, pc, cycle, trash, removed>>
      /\ Types
  BY DEF RetryFailed, Announce, Quietly, local, TypeOK
<1>2. Shrinks /\ Advances /\ \A x \in Device : KeepsDisk(x)
  BY <1>1, QuietlyShrinks DEF Advances
<1>3. Sound(d)'
  BY <1>1, <1>2, Bystander DEF cycle, Quietly
<1>4. OnlyWrites(queue'[d])
  <2>1. queue'[d] \in {resetStuckOperations(queue[d]), queueWrite(queue[d])}
    BY <1>1 DEF RetryFailed, Announce, Types, Whole, Alive
  <2> QED BY <2>1, QueueAlive, QueueOnlyWrites
<1>5. dirty'[d] => dirty[d]
  BY <1>1 DEF RetryFailed, Announce, Types, local
<1>6. Alive(d)'
  BY <1>1, <1>4, <1>5 DEF Whole, Alive, hasPendingStructuralOp, OnlyWrites, Quietly
<1>7. OnlyBy(d)
  BY <1>1 DEF RetryFailed, Announce, OnlyBy, cycle, local, Quietly, Types
<1> QED BY <1>1, <1>2, <1>3, <1>6, <1>7 DEF Comes, Whole

LEMMA PullOnly ==
  ASSUME Types, NEW d \in Device, Pull(d)
  PROVE  OnlyBy(d)
<1>1. CASE List(d) \/ Download(d)
  BY <1>1 DEF List, Download, OnlyBy, Pushes, TurnsTo, Goes, local, Types
<1>2. CASE Reconcile(d)
  BY <1>2 DEF Reconcile, OnlyBy, Pushes, TurnsTo, Goes, Types
<1>3. CASE RecordPulledBase(d) \/ RecordPulled(d)
  BY <1>3 DEF RecordPulledBase, RecordPulled, OnlyBy, Pushes, TurnsTo, Goes, local, cycle, Types
<1>4. CASE MirrorDeletion(d)
  BY <1>4 DEF MirrorDeletion, OnlyBy, Pushes, TurnsTo, Goes, Types
<1> QED BY <1>1, <1>2, <1>3, <1>4 DEF Pull

LEMMA PullComes ==
  ASSUME TypeOK, Undeleted, Whole, NEW d \in Device, Sound(d), Pull(d)
  PROVE  Comes(d)
<1>1. \/ List(d) \/ Download(d) \/ Reconcile(d) \/ RecordPulledBase(d) \/ RecordPulled(d)
  BY Unreached DEF Pull
<1>2. UNCHANGED <<remote, stamp, trash, removed>> /\ Types
  BY <1>1 DEF List, Download, Reconcile, RecordPulledBase, RecordPulled, local, TypeOK
<1>3. Advances
  BY <1>2 DEF Advances
<1>4. Sound(d)'
  BY <1>1, <1>2, ListSound, DownloadSound, ReconcileSound, RecordPulledBaseSound, RecordPulledSound
<1>5. OnlyBy(d)
  BY <1>2, PullOnly
<1>6. Shrinks /\ \A x \in Device : KeepsDisk(x)
  <2>1. CASE Reconcile(d)
    <3>1. Shrinks /\ KeepsDisk(d)
      BY <1>2, <2>1, ReconcileSound
    <3>2. ASSUME NEW x \in Device, x # d PROVE KeepsDisk(x)
      BY <1>5, <3>2 DEF OnlyBy, KeepsDisk
    <3> QED BY <3>1, <3>2
  <2>2. CASE ~Reconcile(d)
    <3>1. Quietly
      BY <1>1, <2>2 DEF List, Download, RecordPulledBase, RecordPulled, Quietly, local
    <3> QED BY <3>1, QuietlyShrinks
  <2> QED BY <2>1, <2>2
<1>7. Alive(d)'
  <2>1. OnlyWrites(queue'[d])
    <3>1. queue'[d] \in {queue[d], queueWriteAgain(queue[d])}
      BY <1>1, <1>2 DEF List, Download, Reconcile, RecordPulledBase, RecordPulled, Types
    <3> QED BY <3>1, QueueAlive, QueueOnlyWrites
  <2>2. pc'[d] \notin {"delete", "missing"}
    <3>1. CASE List(d)
      <4>1. row[d].remoteEtag <= stamp /\ row[d].remoteEtag \in Nat /\ remote.etag = stamp
        BY <1>2, Fields DEF Sound, Marks, Whole
      <4>2. remote.content = Absent => row[d].remoteEtag = 0
        BY <1>2, <4>1 DEF Types
      <4>3. pc'[d] \in {"push", "listed"}
        BY <1>2, <3>1, <4>2 DEF List, Pushes, TurnsTo, Goes, Types
      <4> QED BY <4>3
    <3>2. CASE ~List(d)
      <4>1. pc'[d] \in {"push", "fetched", "merged", "recorded"}
        BY <1>1, <1>2, <3>2
        DEF Download, Reconcile, RecordPulledBase, RecordPulled, Pushes, TurnsTo, Goes, Types
      <4> QED BY <4>1
    <3> QED BY <3>1, <3>2
  <2>3. dirty'[d] => disk'[d] # Absent
    <3>1. CASE Reconcile(d)
      BY <1>2, <3>1, ReconcileSound
    <3>2. CASE ~Reconcile(d)
      <4>1. disk' = disk /\ (dirty'[d] => dirty[d])
        BY <1>1, <1>2, <3>2 DEF List, Download, RecordPulledBase, RecordPulled, local, Types
      <4> QED BY <4>1 DEF Whole, Alive
    <3> QED BY <3>1, <3>2
  <2> QED BY <1>2, <2>1, <2>2, <2>3 DEF Whole, Alive, hasPendingStructuralOp, OnlyWrites
<1> QED BY <1>2, <1>3, <1>4, <1>5, <1>6, <1>7 DEF Comes, Whole

LEMMA PushOnly ==
  ASSUME Types, NEW d \in Device, Push(d)
  PROVE  OnlyBy(d)
<1>1. CASE Quiet(d) \/ PickUp(d, "write") \/ PickUp(d, "delete") \/ Settled(d) \/ Deferred(d)
  BY <1>1 DEF Quiet, PickUp, Settled, Deferred, OnlyBy, Ends, TurnsTo, Goes, local, cycle, Types
<1>2. CASE SendWrite(d) \/ SendDelete(d) \/ Answered(d)
  BY <1>2 DEF SendWrite, SendDelete, Answered, OnlyBy, Goes, local, Types
<1>3. CASE Refused(d) \/ ClearJournal(d)
  BY <1>3 DEF Refused, ClearJournal, OnlyBy, Ends, TurnsTo, Goes, local, Types
<1>4. CASE MarkSynced(d) \/ RecordRemote(d) \/ RecordPushedBase(d)
  BY <1>4 DEF MarkSynced, RecordRemote, RecordPushedBase, OnlyBy, Ends, TurnsTo, Goes, local, cycle, Types
<1> QED BY <1>1, <1>2, <1>3, <1>4 DEF Push

LEMMA PushComes ==
  ASSUME TypeOK, Undeleted, Whole, NEW d \in Device, Sound(d), Push(d)
  PROVE  Comes(d)
<1>1. /\ ~SendDelete(d) /\ ~PickUp(d, "delete") /\ Types
      /\ UNCHANGED <<copies, undone, local>>
  BY Unreached
  DEF Push, Quiet, PickUp, Settled, Deferred, SendWrite, Answered, Refused, MarkSynced,
      RecordRemote, RecordPushedBase, ClearJournal, TypeOK
<1>2. Quietly
  BY <1>1 DEF Quietly, local
<1>3. Shrinks /\ \A x \in Device : KeepsDisk(x)
  BY <1>2, QuietlyShrinks
<1>4. Advances /\ UNCHANGED removed /\ remote'.etag = stamp'
  <2>1. CASE Answered(d)
    BY <1>1, <2>1, AnsweredSound
  <2>2. CASE ~Answered(d)
    <3>1. UNCHANGED <<remote, stamp, removed>>
      BY <1>1, <2>2
      DEF Push, Quiet, PickUp, Settled, Deferred, SendWrite, Refused, MarkSynced,
          RecordRemote, RecordPushedBase, ClearJournal
    <3> QED BY <3>1 DEF Advances, Whole
  <2> QED BY <2>1, <2>2
<1>5. pc'[d] \notin {"delete", "missing"}
  <2>1. PICK there : Goes(d, there) /\ there \notin {"delete", "missing"}
    BY <1>1
    DEF Push, Quiet, PickUp, Settled, Deferred, SendWrite, Answered, Refused, MarkSynced,
        RecordRemote, RecordPushedBase, ClearJournal, Ends, TurnsTo
  <2> QED BY <1>1, <2>1 DEF Goes, Types
<1>6. Sound(d)'
  BY <1>1, <1>5, PassSound, SendWriteSound, AnsweredSound, MarkSyncedSound, RecordRemoteSound,
     RecordPushedBaseSound DEF Push
<1>7. OnlyWrites(queue'[d])
  <2>1. OnlyWrites(queue[d])
    BY QueueAlive
  <2>2. CASE PickUp(d, "write")
    <3>1. queue[d] # <<>> /\ queue'[d] = Take(queue[d])
      BY <1>1, <2>2 DEF PickUp, Due, Types
    <3> QED BY <2>1, <3>1, QueueOnlyWrites
  <2>3. CASE Refused(d)
    <3>1. queue'[d] \in {Release(queue[d]), Release(ForPerson(queue[d]))}
      BY <1>1, <2>3 DEF Refused, Types
    <3> QED BY <2>1, <3>1, QueueOnlyWrites
  <2>4. CASE ~PickUp(d, "write") /\ ~Refused(d)
    <3>1. queue'[d] \in {queue[d], Release(queue[d]), markSynced(queue[d])}
      BY <1>1, <2>4
      DEF Push, Quiet, Settled, Deferred, SendWrite, Answered, MarkSynced,
          RecordRemote, RecordPushedBase, ClearJournal, Types
    <3> QED BY <2>1, <3>1, QueueOnlyWrites
  <2> QED BY <2>2, <2>3, <2>4
<1>8. Alive(d)'
  BY <1>1, <1>5, <1>7 DEF Whole, Alive, hasPendingStructuralOp, OnlyWrites, local
<1>9. OnlyBy(d)
  BY <1>1, PushOnly
<1> QED BY <1>3, <1>4, <1>6, <1>8, <1>9 DEF Comes

(* A fault: the answer does not arrive, or the app ends. *)
LEMMA FaultComes ==
  ASSUME TypeOK, Recorded, Whole, NEW d \in Device, Sound(d), Unanswered(d) \/ Crash(d)
  PROVE  Comes(d)
<1>1. /\ Types /\ Quietly /\ UNCHANGED <<row, trash, dirty>> /\ Ends(d)
      /\ pc[d] \notin {"confirmed", "based"}
  <2>1. Types /\ MayFail(d)
    BY DEF TypeOK, Unanswered, Crash
  <2>2. ~Recording(d)
    BY <2>1, FileSyncAssumption DEF MayFail, Recorded, Types
  <2> QED BY <2>1, <2>2 DEF Unanswered, Crash, Quietly, local, Recording, At
<1>2. Shrinks /\ \A x \in Device : KeepsDisk(x)
  BY <1>1, QuietlyShrinks
<1>3. Advances /\ UNCHANGED removed /\ remote'.etag = stamp'
  <2>1. CASE UNCHANGED <<remote, stamp, removed>>
    BY <2>1 DEF Advances, Whole
  <2>2. CASE pc[d] = "sent" /\ Commits(request[d])
    <3>1. Late(request[d])
      BY <1>1, <2>2, SentCovers DEF Whole
    <3> QED BY <1>1, <1>2, <2>2, <3>1, CommitAdvances DEF Whole
  <2> QED BY <2>1, <2>2 DEF Unanswered, Crash, At
<1>4. pc'[d] = "idle" /\ got'[d].etag = 0
  BY <1>1, TurnsToEnds DEF Ends
<1>5. stamp \in Nat
  BY <1>1, Fields
<1>6. Sound(d)'
  BY <1>1, <1>2, <1>3, <1>4, <1>5, Loose DEF Quietly
<1>7. OnlyWrites(queue'[d])
  <2>1. queue'[d] \in {Release(queue[d]), Release(resetStuckOperations(queue[d]))}
    BY <1>1 DEF Unanswered, Crash, Types
  <2> QED BY <2>1, QueueAlive, QueueOnlyWrites
<1>8. Alive(d)'
  BY <1>1, <1>4, <1>7 DEF Whole, Alive, hasPendingStructuralOp, OnlyWrites, Quietly
<1>9. OnlyBy(d)
  <2>1. \A x \in Device \ {d} : queue'[x] = queue[x]
    BY <1>1 DEF Unanswered, Crash, Types
  <2> QED BY <1>1, <2>1 DEF OnlyBy, Ends, TurnsTo, Goes, Quietly, Types
<1> QED BY <1>2, <1>3, <1>6, <1>8, <1>9 DEF Comes

LEMMA DeviceComes ==
  ASSUME TypeOK, Undeleted, Recorded, Whole, NEW d \in Device, Sound(d),
         \/ User(d) \/ RetryFailed(d) \/ Announce(d)
         \/ Pull(d) \/ Push(d) \/ Unanswered(d) \/ Crash(d)
  PROVE  Comes(d)
  BY UserComes, ServiceComes, PullComes, PushComes, FaultComes

-----------------------------------------------------------------------------
(* The invariant holds.                                                     *)

(* An upload that its device gave up lands, or is refused. *)
LEMMA LandsComes ==
  ASSUME TypeOK, Whole, \A x \in Device : Sound(x), NEW r \in wire, Late(r), Lands(r)
  PROVE  /\ Shrinks /\ Advances /\ \A x \in Device : KeepsDisk(x)
         /\ Whole' /\ \A x \in Device : Sound(x)'
<1>1. /\ Types /\ Quietly
      /\ UNCHANGED <<trash, dirty, disk, row, queue, pc, got, request>>
  BY DEF TypeOK, Lands, Quietly, local, cycle
<1>2. Shrinks /\ \A x \in Device : KeepsDisk(x)
  BY <1>1, QuietlyShrinks
<1>3. Advances /\ UNCHANGED removed /\ remote'.etag = stamp'
  <2>1. CASE Commits(r)
    BY <1>1, <1>2, <2>1, CommitAdvances DEF Whole
  <2>2. CASE UNCHANGED <<remote, stamp, withdrawn, removed>>
    BY <2>2 DEF Advances, Whole
  <2> QED BY <2>1, <2>2 DEF Lands
<1>4. \A x \in Device : Sound(x)'
  BY <1>1, <1>2, <1>3, Bystander
<1>5. \A x \in Device : Alive(x)'
  BY <1>1 DEF Whole, Alive, hasPendingStructuralOp
<1> QED BY <1>2, <1>3, <1>4, <1>5 DEF Whole

LEMMA OnDiskKept ==
  ASSUME TypeOK, OnDisk, Shrinks, \A x \in Device : KeepsDisk(x), UNCHANGED saved
  PROVE  OnDisk'
<1>1. ASSUME NEW e \in saved, Lasts(e)' PROVE \E x \in Device : Contains(disk'[x], e)
  <2>1. e \in Edit
    BY DEF TypeOK, Types
  <2>2. PICK x \in Device : Contains(disk[x], e)
    BY <1>1, <2>1 DEF OnDisk, Shrinks
  <2>3. Contains(disk'[x], e)
    BY <1>1, <2>1, <2>2 DEF KeepsDisk
  <2> QED BY <2>3
<1> QED BY <1>1 DEF OnDisk

LEMMA SaveOnDisk ==
  ASSUME TypeOK, OnDisk, Shrinks, \A x \in Device : KeepsDisk(x),
         NEW d \in Device, NEW e \in Edit, Save(d, e)
  PROVE  OnDisk'
<1>1. ASSUME NEW f \in saved', Lasts(f)' PROVE \E x \in Device : Contains(disk'[x], f)
  <2>1. CASE f \in saved
    <3>1. f \in Edit
      BY <2>1 DEF TypeOK, Types
    <3>2. PICK x \in Device : Contains(disk[x], f)
      BY <1>1, <2>1, <3>1 DEF OnDisk, Shrinks
    <3>3. Contains(disk'[x], f)
      BY <1>1, <3>1, <3>2 DEF KeepsDisk
    <3> QED BY <3>3
  <2>2. CASE f = e
    <3>1. disk'[d] = Text(d) \cup {e} /\ Text(d) \cup {e} \in Content
      BY DEF Save, Changes, Text, TypeOK, Types, File, Content
    <3>2. Contains(disk'[d], e)
      BY <3>1, Constants DEF Contains
    <3> QED BY <2>2, <3>2
  <2> QED BY <2>1, <2>2 DEF Save
<1> QED BY <1>1 DEF OnDisk

LEMMA DeviceStep ==
  ASSUME EditInv, Undeleted, Recorded, NEW d \in Device,
         \/ User(d) \/ RetryFailed(d) \/ Announce(d)
         \/ Pull(d) \/ Push(d) \/ Unanswered(d) \/ Crash(d)
  PROVE  /\ Advances /\ Whole' /\ OnDisk'
         /\ \A x \in Device : Sound(x)'
         /\ \A r \in wire' : Late(r)'
<1>1. Comes(d) /\ Types
  BY DeviceComes DEF EditInv, TypeOK
<1>2. Whole' /\ \A x \in Device : Sound(x)'
  BY <1>1, ComesWhole DEF EditInv
<1>3. OnDisk'
  <2>1. UNCHANGED saved \/ \E e \in Edit : Save(d, e)
    BY DEF User, Save, Undo, Delete, Restore, RetryFailed, Announce,
       Pull, List, Download, Reconcile, RecordPulledBase, RecordPulled, MirrorDeletion,
       Push, Quiet, PickUp, Settled, Deferred, SendWrite, SendDelete, Answered, Refused,
       MarkSynced, RecordRemote, RecordPushedBase, ClearJournal, Unanswered, Crash
  <2> QED BY <1>1, <2>1, OnDiskKept, SaveOnDisk DEF Comes, EditInv
<1>4. \A r \in wire' : r \in wire \/ (r = request[d] /\ pc[d] = "sent")
  BY DEF User, Save, Undo, Delete, Restore, Changes, RetryFailed, Announce,
     Pull, List, Download, Reconcile, RecordPulledBase, RecordPulled, MirrorDeletion,
     Push, Quiet, PickUp, Settled, Deferred, SendWrite, SendDelete, Answered, Refused,
     MarkSynced, RecordRemote, RecordPushedBase, ClearJournal, Unanswered, Crash, At
<1>5. ASSUME NEW r \in wire' PROVE Late(r)'
  <2>1. Late(r)
    BY <1>1, <1>4, SentCovers DEF EditInv, Whole
  <2> QED BY <1>1, <2>1, LateKept DEF Comes
<1> QED BY <1>1, <1>2, <1>3, <1>5 DEF Comes

LEMMA LandsStep ==
  ASSUME EditInv, NEW r \in wire, Lands(r)
  PROVE  /\ Advances /\ Whole' /\ OnDisk'
         /\ \A x \in Device : Sound(x)'
         /\ \A q \in wire' : Late(q)'
<1>1. /\ Types /\ Shrinks /\ Advances /\ \A x \in Device : KeepsDisk(x)
      /\ Whole' /\ \A x \in Device : Sound(x)'
  BY LandsComes DEF EditInv, TypeOK
<1>2. OnDisk'
  BY <1>1, OnDiskKept DEF Lands, EditInv
<1>3. ASSUME NEW q \in wire' PROVE Late(q)'
  <2>1. Late(q)
    BY DEF Lands, EditInv
  <2> QED BY <1>1, <2>1, LateKept
<1> QED BY <1>1, <1>2, <1>3

LEMMA StutterStep ==
  ASSUME EditInv, UNCHANGED vars
  PROVE  /\ Advances /\ Whole' /\ OnDisk'
         /\ \A x \in Device : Sound(x)'
         /\ \A r \in wire' : Late(r)'
<1>1. /\ Types /\ Quietly
      /\ UNCHANGED <<remote, stamp, trash, dirty, disk, row, queue, pc, got, request, wire, saved, removed>>
  BY DEF vars, Quietly, local, cycle, EditInv, TypeOK
<1>2. Shrinks /\ Advances /\ \A x \in Device : KeepsDisk(x)
  BY <1>1, QuietlyShrinks DEF Advances
<1>3. \A x \in Device : Sound(x)'
  BY <1>1, <1>2, Bystander DEF EditInv
<1>4. Whole'
  BY <1>1 DEF EditInv, Whole, Alive, hasPendingStructuralOp
<1>5. OnDisk'
  BY <1>1, <1>2, OnDiskKept DEF EditInv
<1>6. \A r \in wire' : Late(r)'
  BY <1>1, <1>2, LateKept DEF EditInv
<1> QED BY <1>2, <1>3, <1>4, <1>5, <1>6

LEMMA EditStep ==
  ASSUME EditInv, Undeleted, Recorded, [Next]_vars
  PROVE  EditInv' /\ Advances
<1>1. TypeOK'
  BY StepTypeOK DEF EditInv
<1>2. /\ Advances /\ Whole' /\ OnDisk'
      /\ \A x \in Device : Sound(x)'
      /\ \A r \in wire' : Late(r)'
  BY DeviceStep, LandsStep, StutterStep DEF Next
<1> QED BY <1>1, <1>2 DEF EditInv

LEMMA EditInit == ASSUME Init PROVE EditInv
<1>1. TypeOK
  BY InitTypeOK
<1>2. ASSUME NEW d \in Device
      PROVE  /\ trash[d] = Absent /\ queue[d] = <<>> /\ pc[d] = "idle" /\ ~dirty[d]
             /\ got[d] = NoVersion
             /\ \/ row[d] = Synced({}, 1) /\ stamp = 1 /\ remote.content = row[d].base
                \/ row[d] = NoRow /\ stamp = 0
  <2>1. CASE stamp = 1
    <3>1. row[d] = Synced({}, 1) /\ remote.content = {}
      BY <2>1 DEF Init
    <3>2. row[d].base = {}
      BY <3>1 DEF Synced
    <3> QED BY <2>1, <3>1, <3>2 DEF Init
  <2>2. CASE stamp # 1
    BY <2>2 DEF Init
  <2> QED BY <2>1, <2>2
<1>3. {} # Absent
  BY Constants DEF Content
<1>4. ASSUME NEW d \in Device PROVE Sound(d)
  <2>1. Marks(d)
    BY <1>2 DEF Marks, Synced, NoRow, NoVersion, Pulling, Uploaded
  <2>2. Rows(d)
    BY <1>2, <1>3 DEF Rows, Synced, NoRow, Uploaded
  <2>3. Ties(d)
    <3>1. row[d].baseEtag # 0 => remote.content = row[d].base
      BY <1>2 DEF Synced, NoRow
    <3>2. pc[d] \notin Pulling \cup Uploaded
      BY <1>2 DEF Pulling, Uploaded
    <3> QED BY <3>1, <3>2 DEF Ties
  <2>4. \A e \in Edit : Known(d, e)
    BY <1>2 DEF Known, Synced, NoRow, Contains, Pulling, Reconciled, Uploaded
  <2> QED BY <2>1, <2>2, <2>3, <2>4 DEF Sound
<1>5. Whole
  <2>1. removed = {} /\ remote.etag = stamp
    BY DEF Init, NoVersion
  <2>2. ASSUME NEW d \in Device PROVE Alive(d)
    BY <1>2 DEF Alive, hasPendingStructuralOp, Holds
  <2> QED BY <2>1, <2>2 DEF Whole
<1>6. OnDisk /\ wire = {}
  BY DEF Init, OnDisk
<1> QED BY <1>1, <1>4, <1>5, <1>6 DEF EditInv

-----------------------------------------------------------------------------
(* What a row, a download and a request know about the remote goes together: *)
(* a base holds no lasting edit that disk and remote lack, and an upload that *)
(* the remote would accept has all that lasts there.                          *)
THEOREM EditInvariance ==
  ASSUME Undeleted, Recorded
  PROVE  Spec => []EditInv
<1>1. Init => EditInv
  BY EditInit
<1>2. EditInv /\ [Next]_vars => EditInv'
  BY EditStep
<1> QED BY <1>1, <1>2, PTL DEF Spec

(* Whatever saves, merges, refused and late uploads, lost answers and crashes  *)
(* cross, an edit that no user took out is on some device, on the remote or in *)
(* a conflict copy (SyncWorker.ts reconcileDownloadedFile, SyncEngine.ts       *)
(* processQueue).                                                              *)
THEOREM EditsSurvive ==
  ASSUME Undeleted, Recorded
  PROVE  Spec => []NoEditLost
<1>1. EditInv => NoEditLost
  BY DEF EditInv, OnDisk, Lasts, NoEditLost
<1> QED BY <1>1, EditInvariance, PTL

(* Copies come from a reconcile, which leaves the remote alone. *)
LEMMA RemoteOrCopies ==
  ASSUME [Next]_vars
  PROVE  UNCHANGED remote \/ UNCHANGED copies
  BY DEF Next, User, Save, Undo, Delete, Restore, Changes, RetryFailed, Announce,
     Pull, List, Download, Reconcile, RecordPulledBase, RecordPulled, MirrorDeletion,
     Push, Quiet, PickUp, Settled, Deferred, SendWrite, SendDelete, Answered, Refused,
     MarkSynced, RecordRemote, RecordPushedBase, ClearJournal, Unanswered, Crash, Lands, vars

(* No upload, whenever it arrives, replaces a version whose edits it has not    *)
(* taken in (SyncEngine.ts expectedRemoteOf, the conditional writes of the      *)
(* targets, Sammelplan 3.103).                                                  *)
THEOREM UploadsTakeIn ==
  ASSUME Undeleted, Recorded
  PROVE  Spec => RemoteKeepsEdits
<1>1. ASSUME EditInv, [Next]_vars
      PROVE  [\A e \in saved \ (undone' \cup removed') :
                Contains(remote.content, e) => Contains(remote'.content, e) \/ InCopies(e)]_vars
  <2>1. ASSUME NEW e \in saved, e \notin undone', Contains(remote.content, e),
               ~Contains(remote'.content, e), ~InCopies(e)
        PROVE  FALSE
    <3>1. UNCHANGED copies /\ Advances /\ e \in Edit
      BY <1>1, <2>1, RemoteOrCopies, EditStep DEF EditInv, TypeOK, Types
    <3>2. Lasts(e)'
      BY <2>1, <3>1 DEF Lasts, InCopies
    <3> QED BY <2>1, <3>1, <3>2 DEF Advances, InRemote
  <2> QED BY <2>1
<1> QED BY <1>1, EditInvariance, PTL DEF Spec, RemoteKeepsEdits

-----------------------------------------------------------------------------
(* Without faults a journal is only there while its upload is under way.    *)

InFlight == {"sent", "answered", "synced", "confirmed", "based"}
Journalled(d) == row[d].journal # Absent => pc[d] \in InFlight
JournalInv == wire = {} /\ \A d \in Device : Journalled(d)

LEMMA NoFaults ==
  ASSUME Types, MaxFaults = 0, NEW d \in Device
  PROVE  ~Unanswered(d) /\ ~Crash(d)
  BY DEF Types, Unanswered, Crash, MayFail

LEMMA JournalPull ==
  ASSUME Types, NEW d \in Device, Journalled(d), Pull(d)
  PROVE  Journalled(d)'
<1>1. pc[d] \notin InFlight /\ row[d].journal = Absent /\ row[d] \in Row
  BY Fields DEF Pull, List, Download, Reconcile, RecordPulledBase, RecordPulled, MirrorDeletion,
     At, InFlight, Journalled
<1>2. CASE List(d) \/ Download(d) \/ Reconcile(d)
  BY <1>1, <1>2 DEF List, Download, Reconcile, Journalled
<1>3. CASE RecordPulledBase(d)
  <2>1. row'[d] = [row[d] EXCEPT !.base = PulledBase(d), !.baseEtag = got[d].etag]
    BY <1>3 DEF RecordPulledBase, Types
  <2>2. row'[d].journal = row[d].journal
    BY <1>1, <2>1 DEF Row
  <2> QED BY <1>1, <2>2 DEF Journalled
<1>4. CASE RecordPulled(d)
  <2> DEFINE r == [row[d] EXCEPT !.remoteEtag = got[d].etag]
  <2>1. row'[d] \in {r, clearPendingPushSha(r)}
    BY <1>4 DEF RecordPulled, Types
  <2>2. r.journal = Absent /\ clearPendingPushSha(r).journal = Absent
    BY <1>1 DEF Row, clearPendingPushSha
  <2> QED BY <2>1, <2>2 DEF Journalled
<1>5. CASE MirrorDeletion(d)
  <2>1. row'[d] \in {row[d], NoRow}
    BY <1>5 DEF MirrorDeletion, Types
  <2> QED BY <1>1, <2>1 DEF Journalled, NoRow
<1> QED BY <1>2, <1>3, <1>4, <1>5 DEF Pull

LEMMA JournalPush ==
  ASSUME Types, NEW d \in Device, Journalled(d), Push(d)
  PROVE  Journalled(d)'
<1>1. row[d] \in Row
  BY Fields
<1>2. CASE SendWrite(d) \/ Answered(d) \/ MarkSynced(d)
  <2>1. pc'[d] \in InFlight
    BY <1>2 DEF SendWrite, Answered, MarkSynced, Goes, Types, InFlight
  <2> QED BY <2>1 DEF Journalled
<1>3. CASE RecordPushedBase(d)
  <2>1. pc'[d] \in InFlight
    BY <1>3 DEF RecordPushedBase, Goes, Types, InFlight
  <2> QED BY <2>1 DEF Journalled
<1>4. CASE RecordRemote(d)
  <2>1. CASE request[d].op = "delete"
    <3>1. row'[d] = NoRow
      BY <1>4, <2>1 DEF RecordRemote, Types
    <3> QED BY <3>1 DEF Journalled, NoRow
  <2>2. CASE request[d].op # "delete"
    <3>1. pc'[d] \in InFlight
      BY <1>4, <2>2 DEF RecordRemote, Goes, Types, InFlight
    <3> QED BY <3>1 DEF Journalled
  <2> QED BY <2>1, <2>2
<1>5. CASE Refused(d) \/ ClearJournal(d)
  <2>1. row'[d] = clearPendingPushSha(row[d])
    BY <1>5 DEF Refused, ClearJournal, Types
  <2>2. row'[d].journal = Absent
    BY <1>1, <2>1 DEF clearPendingPushSha, Row
  <2> QED BY <2>2 DEF Journalled
<1>6. CASE Quiet(d) \/ PickUp(d, "write") \/ PickUp(d, "delete") \/ Settled(d) \/ Deferred(d)
           \/ SendDelete(d)
  <2>1. pc[d] \notin InFlight /\ UNCHANGED row
    BY <1>6 DEF Quiet, PickUp, Settled, Deferred, SendDelete, At, InFlight
  <2> QED BY <2>1 DEF Journalled
<1> QED BY <1>2, <1>3, <1>4, <1>5, <1>6 DEF Push

LEMMA JournalStep ==
  ASSUME TypeOK, JournalInv, MaxFaults = 0, [Next]_vars
  PROVE  JournalInv'
<1>1. Types
  BY DEF TypeOK
<1>2. CASE \E d \in Device : User(d) \/ RetryFailed(d) \/ Announce(d)
  <2>1. UNCHANGED <<row, pc, wire>>
    BY <1>2 DEF User, Save, Undo, Delete, Restore, Changes, RetryFailed, Announce
  <2> QED BY <2>1 DEF JournalInv, Journalled
<1>3. ASSUME NEW d \in Device, Pull(d) \/ Push(d) PROVE JournalInv'
  <2>1. Journalled(d)'
    BY <1>1, <1>3, JournalPull, JournalPush DEF JournalInv
  <2>2. UNCHANGED wire
    BY <1>3
    DEF Pull, List, Download, Reconcile, RecordPulledBase, RecordPulled, MirrorDeletion,
        Push, Quiet, PickUp, Settled, Deferred, SendWrite, SendDelete, Answered, Refused,
        MarkSynced, RecordRemote, RecordPushedBase, ClearJournal
  <2>3. OnlyBy(d)
    <3>1. CASE Push(d)
      BY <1>1, <3>1, PushOnly
    <3>2. CASE Pull(d)
      BY <1>1, <3>2, PullOnly
    <3> QED BY <1>3, <3>1, <3>2
  <2> QED BY <2>1, <2>2, <2>3 DEF JournalInv, Journalled, OnlyBy
<1>4. \A d \in Device : ~Unanswered(d) /\ ~Crash(d)
  BY <1>1, NoFaults
<1>5. CASE \E r \in wire : Lands(r)
  BY <1>5 DEF JournalInv
<1>6. CASE UNCHANGED vars
  BY <1>6 DEF vars, JournalInv, Journalled
<1> QED BY <1>2, <1>3, <1>4, <1>5, <1>6 DEF Next

THEOREM JournalEnds ==
  ASSUME MaxFaults = 0
  PROVE  Spec => []JournalInv
<1>1. Init => JournalInv
  BY DEF Init, JournalInv, Journalled, Synced, NoRow
<1>2. TypeOK /\ JournalInv /\ [Next]_vars => JournalInv'
  BY JournalStep
<1> QED BY <1>1, <1>2, TypeCorrect, PTL DEF Spec

(* The reconcile is the step from a download to a reconciled text. *)
LEMMA OnlyReconcileMerges ==
  ASSUME Types, [Next]_vars, NEW d \in Device, pc[d] = "fetched", pc'[d] = "merged"
  PROVE  Reconcile(d)
<1>1. PICK x \in Device : Pull(x) \/ Push(x) \/ Unanswered(x) \/ Crash(x)
  BY DEF Next, User, Save, Undo, Delete, Restore, Changes, RetryFailed, Announce, Lands, vars
<1>2. \E there : Goes(x, there)
  BY <1>1
  DEF Pull, List, Download, Reconcile, RecordPulledBase, RecordPulled, MirrorDeletion, Pushes,
      Push, Quiet, PickUp, Settled, Deferred, SendWrite, SendDelete, Answered, Refused,
      MarkSynced, RecordRemote, RecordPushedBase, ClearJournal, Unanswered, Crash, Ends, TurnsTo
<1>3. x = d
  BY <1>2 DEF Goes, Types
<1>4. ~Unanswered(d) /\ ~Crash(d)
  BY DEF Unanswered, Crash, Ends, TurnsTo, Goes, Types
<1>5. ~Push(d)
  BY DEF Push, Quiet, PickUp, Settled, Deferred, SendWrite, SendDelete, Answered, Refused,
     MarkSynced, RecordRemote, RecordPushedBase, ClearJournal, At
<1> QED BY <1>1, <1>3, <1>4, <1>5
  DEF Pull, List, Download, RecordPulledBase, RecordPulled, MirrorDeletion, At

(* A file without a change of its own takes the version pulled, as long as no   *)
(* journal is left of an upload cut off (SyncWorker.ts reconcileDownloadedFile, *)
(* the echo at 2043-2046).                                                      *)
THEOREM CleanFilesFollow ==
  ASSUME MaxFaults = 0
  PROVE  Spec => CleanFileFollows
<1>1. ASSUME TypeOK, JournalInv, [Next]_vars, NEW d \in Device,
             pc[d] = "fetched", pc'[d] = "merged", disk[d] = row[d].base
      PROVE  disk'[d] = got[d].content
  <2>1. Reconcile(d) /\ Types
    BY <1>1, OnlyReconcileMerges DEF TypeOK
  <2>2. row[d].journal = Absent /\ got[d].content # Absent
    BY <1>1 DEF JournalInv, Journalled, InFlight, TypeOK, Types, HasText
  <2>3. PICK o \in reconciled(row[d], disk[d], got[d].content) : disk' = [disk EXCEPT ![d] = o.file]
    BY <1>1, <2>1 DEF Reconcile, Pushes, TurnsTo, Goes, Types
  <2>4. o = Clean(got[d].content)
    BY <1>1, <2>2, <2>3 DEF reconciled, isEcho
  <2> QED BY <2>1, <2>3, <2>4 DEF Clean, Outcome, Types
<1>2. TypeOK /\ JournalInv /\ [Next]_vars =>
        [\A d \in Device :
           /\ pc[d] = "fetched" /\ pc'[d] = "merged"
           /\ disk[d] = row[d].base /\ ~dirty[d] /\ queue[d] = <<>>
           => disk'[d] = got[d].content]_vars
  BY <1>1
<1> QED BY <1>2, TypeCorrect, JournalEnds, PTL DEF Spec, CleanFileFollows

-----------------------------------------------------------------------------
(* One device by itself: the remote has the text of the base, or the one the  *)
(* journal names, so that the reconcile finds nothing that is somebody else's. *)

Single(d) ==
  /\ pc[d] \in {"idle", "listed", "fetched", "merged"} =>
       remote.content \in {row[d].base, row[d].journal}
  /\ pc[d] \in {"recorded", "push", "write", "sent", "based"} => remote.content = row[d].base
  /\ pc[d] \in Pulling => got[d].content = remote.content
  /\ pc[d] = "sent" => request[d].content = row[d].journal
  /\ pc[d] \in Uploaded =>
       remote.content = request[d].content /\ remote.content = row[d].journal
  /\ row[d].remoteEtag = stamp /\ pc[d] # "confirmed" => remote.content = row[d].base
  /\ disk[d] = Absent => row[d].base = Absent /\ row[d].journal = Absent
  /\ pc[d] \in Reconciled => disk[d] # Absent

AloneInv == wire = {} /\ \A d \in Device : Single(d) /\ copies[d] = {}

Alone == \A x, y \in Device : x = y
NothingLate == MaxFaults = 0 \/ "late" \notin FaultKinds

LEMMA AloneUser ==
  ASSUME EditInv, Undeleted, NEW d \in Device, Single(d),
         User(d) \/ RetryFailed(d) \/ Announce(d)
  PROVE  Single(d)' /\ UNCHANGED <<wire, copies>> /\ (disk'[d] # disk[d] => gate'[d] /\ ~gate[d])
<1>1. /\ Types /\ Whole
      /\ UNCHANGED <<remote, stamp, row, pc, got, request, wire, copies>>
  BY DEF User, Save, Undo, Delete, Restore, Changes, RetryFailed, Announce, cycle, EditInv, TypeOK
<1>2. CASE User(d)
  <2>1. PICK e \in Edit : Save(d, e) \/ Undo(d, e)
    BY <1>1, <1>2, Unreached DEF User, EditInv
  <2>2. gate'[d] /\ ~gate[d]
    BY <1>1, <2>1 DEF Save, Undo, Changes, Free, Types
  <2>3. disk'[d] # Absent /\ pc[d] \notin Reconciled
    <3>1. Text(d) \cup {e} \in Content /\ Text(d) \ {e} \in Content
      BY <1>1 DEF Text, Types, File, Content
    <3>2. disk'[d] \in {Text(d) \cup {e}, Text(d) \ {e}} /\ Free(d)
      BY <1>1, <2>1 DEF Save, Undo, Changes, Types
    <3> QED BY <3>1, <3>2, Constants DEF Free, Reconciled
  <2> QED BY <1>1, <2>2, <2>3 DEF Single
<1>3. CASE RetryFailed(d) \/ Announce(d)
  <2>1. UNCHANGED disk
    BY <1>3 DEF RetryFailed, Announce, local
  <2> QED BY <1>1, <2>1 DEF Single
<1> QED BY <1>2, <1>3

LEMMA AlonePull ==
  ASSUME EditInv, Undeleted, NEW d \in Device, Single(d), Pull(d), copies[d] = {}
  PROVE  Single(d)' /\ UNCHANGED wire /\ copies'[d] = {} /\ disk'[d] = disk[d]
<1>1. /\ Types /\ Whole /\ Sound(d) /\ UNCHANGED <<remote, stamp, wire>>
      /\ row[d] \in Row /\ got[d] \in Version /\ stamp \in Nat /\ remote.etag = stamp
  BY Fields
  DEF EditInv, TypeOK, Whole, Pull, List, Download, Reconcile, RecordPulledBase, RecordPulled,
      MirrorDeletion
<1>2. CASE List(d)
  <2>1. pc[d] = "idle" /\ UNCHANGED <<row, disk, copies>>
    BY <1>2 DEF List, At, local
  <2>2. pc'[d] = "listed" \/ (pc'[d] = "push" /\ remote.content = row[d].base)
    <3>1. row[d].remoteEtag <= stamp /\ row[d].remoteEtag \in Nat /\ ~hasPendingStructuralOp(d)
      BY <1>1, Fields DEF Sound, Marks, Whole, Alive
    <3>2. remote.content = Absent => row[d].remoteEtag = stamp
      BY <1>1, <3>1 DEF Types
    <3>3. row[d].remoteEtag = stamp => remote.content = row[d].base
      BY <2>1 DEF Single
    <3>4. CASE Pushes(d)
      <4>1. remote.content = Absent \/ unchanged(d) \/ pc'[d] # "push"
        BY <1>1, <1>2, <3>1 DEF List, Goes, Types
      <4>2. pc'[d] = "push"
        BY <1>1, <3>4, TurnsToEnds DEF Pushes
      <4> QED BY <1>1, <3>2, <3>3, <4>1, <4>2 DEF unchanged
    <3>5. CASE ~Pushes(d)
      <4>1. Goes(d, IF remote.content = Absent /\ row[d].remoteEtag # 0 THEN "missing" ELSE "listed")
        BY <1>2, <3>5 DEF List
      <4>2. remote.content = Absent => row[d].remoteEtag = 0
        BY <1>1, <3>1, <3>2 DEF Types
      <4> QED BY <1>1, <4>1, <4>2 DEF Goes, Types
    <3> QED BY <3>4, <3>5
  <2> QED BY <1>1, <2>1, <2>2 DEF Single, Pulling, Uploaded, Reconciled
<1>3. CASE Download(d)
  <2>1. pc[d] = "listed" /\ UNCHANGED <<row, disk, copies>>
    BY <1>3 DEF Download, At, local
  <2>2. remote.content # Absent
    <3>1. got[d].etag # 0 /\ got[d].etag <= stamp /\ got[d].etag \in Nat
      BY <1>1, <2>1, Fields DEF Sound, Marks
    <3> QED BY <1>1, <3>1 DEF Types
  <2>3. pc'[d] = "fetched" /\ got'[d].content = remote.content
    BY <1>1, <1>3, <2>2 DEF Download, Goes, Types, Version
  <2> QED BY <1>1, <2>1, <2>3 DEF Single, Uploaded, Reconciled
<1>4. CASE Reconcile(d)
  <2>1. pc[d] = "fetched" /\ UNCHANGED row /\ got[d].content \in Content /\ disk[d] \in File
    BY <1>1, <1>4 DEF Reconcile, At, Types, HasText, Version, File
  <2>2. PICK o \in reconciled(row[d], disk[d], got[d].content) :
          /\ disk' = [disk EXCEPT ![d] = o.file]
          /\ copies' = [copies EXCEPT ![d] = @ \cup Kept(o)]
          /\ Goes(d, "merged") /\ UNCHANGED <<got, request>>
    BY <1>1, <1>4 DEF Reconcile, Whole, Alive
  <2>3. got[d].content # Absent /\ got[d].content \in {row[d].base, row[d].journal}
    BY <1>1, <2>1, Constants DEF Single, Pulling
  <2>4. disk[d] # Absent
    BY <2>3 DEF Single
  <2>5. o.file = disk[d] /\ o.copy = {}
    BY <2>2, <2>3, <2>4 DEF reconciled, isEcho, Clean, Outcome
  <2>6. disk'[d] = disk[d] /\ copies'[d] = {} /\ pc'[d] = "merged"
    BY <1>1, <2>2, <2>5 DEF Kept, Goes, Types
  <2> QED BY <1>1, <2>1, <2>2, <2>4, <2>6 DEF Single, Pulling, Uploaded, Reconciled
<1>5. CASE RecordPulledBase(d)
  <2>1. /\ pc[d] = "merged" /\ pc'[d] = "recorded"
        /\ UNCHANGED <<disk, copies, got, request>>
    BY <1>1, <1>5 DEF RecordPulledBase, At, Goes, Types, local, cycle
  <2> DEFINE r == [row[d] EXCEPT !.base = got[d].content, !.baseEtag = got[d].etag]
  <2>2. row'[d] = r
    BY <1>1, <1>5 DEF RecordPulledBase, PulledBase, Types
  <2>3. r.base = got[d].content /\ r.remoteEtag = row[d].remoteEtag /\ r.journal = row[d].journal
    BY <1>1 DEF Row
  <2> HIDE DEF r
  <2> QED BY <1>1, <2>1, <2>2, <2>3 DEF Single, Pulling, Uploaded, Reconciled
<1>6. CASE RecordPulled(d)
  <2>1. pc[d] = "recorded" /\ pc'[d] = "push" /\ UNCHANGED <<disk, copies>>
    BY <1>1, <1>6, TurnsToEnds DEF RecordPulled, At, Pushes
  <2> DEFINE r == [row[d] EXCEPT !.remoteEtag = got[d].etag]
  <2>2. row'[d] \in {r, clearPendingPushSha(r)}
    BY <1>1, <1>6 DEF RecordPulled, Types
  <2>3. r.base = row[d].base /\ r.journal = row[d].journal /\ r \in Row
    BY <1>1 DEF Row, Version
  <2> HIDE DEF r
  <2>4. row'[d].base = row[d].base /\ row'[d].journal \in {row[d].journal, Absent}
    BY <2>2, <2>3 DEF clearPendingPushSha, Row
  <2> QED BY <1>1, <2>1, <2>4 DEF Single, Pulling, Uploaded, Reconciled
<1>7. ~MirrorDeletion(d)
  BY Unreached DEF EditInv, Undeleted
<1> QED BY <1>2, <1>3, <1>4, <1>5, <1>6, <1>7 DEF Pull

LEMMA AlonePush ==
  ASSUME EditInv, Undeleted, NEW d \in Device, Single(d), Push(d)
  PROVE  Single(d)' /\ UNCHANGED <<disk, wire, copies>>
<1>1. /\ Types /\ Whole /\ Sound(d) /\ row[d] \in Row /\ stamp \in Nat /\ remote.etag = stamp
      /\ row[d].remoteEtag \in Nat /\ row[d].remoteEtag <= stamp
  BY Fields DEF EditInv, TypeOK, Whole, Sound, Marks
<1>2. UNCHANGED <<disk, wire, copies>>
  BY DEF Push, Quiet, PickUp, Settled, Deferred, SendWrite, SendDelete, Answered, Refused,
     MarkSynced, RecordRemote, RecordPushedBase, ClearJournal, local
<1>3. CASE Quiet(d) \/ Settled(d) \/ Deferred(d) \/ Refused(d) \/ ClearJournal(d)
  <2>1. UNCHANGED <<remote, stamp>> /\ Ends(d) /\ pc[d] \in {"push", "write", "delete", "sent", "based"}
    BY <1>3 DEF Quiet, Settled, Deferred, Refused, ClearJournal, At
  <2>2. pc[d] # "delete"
    BY <1>1 DEF Whole, Alive
  <2>3. pc'[d] = "idle"
    BY <1>1, <2>1, TurnsToEnds DEF Ends
  <2>4. row'[d] = row[d] \/ row'[d] = clearPendingPushSha(row[d])
    BY <1>1, <1>3 DEF Quiet, Settled, Deferred, Refused, ClearJournal, Types
  <2>5. row'[d].base = row[d].base /\ row'[d].journal \in {row[d].journal, Absent}
    BY <1>1, <2>4 DEF clearPendingPushSha, Row
  <2> QED BY <1>2, <2>1, <2>2, <2>3, <2>5 DEF Single, Pulling, Uploaded, Reconciled
<1>4. CASE PickUp(d, "write")
  <2>1. UNCHANGED <<remote, stamp, row>> /\ pc[d] = "push" /\ pc'[d] = "write"
    BY <1>1, <1>4 DEF PickUp, At, Goes, Types
  <2> QED BY <1>2, <2>1 DEF Single, Pulling, Uploaded, Reconciled
<1>5. CASE SendWrite(d)
  <2>1. /\ UNCHANGED <<remote, stamp>> /\ pc[d] = "write" /\ pc'[d] = "sent" /\ disk[d] # Absent
        /\ request'[d].content = disk[d]
    BY <1>1, <1>5 DEF SendWrite, At, Goes, Types
  <2>2. /\ row'[d].base = row[d].base /\ row'[d].remoteEtag = row[d].remoteEtag
        /\ row'[d].journal = disk[d]
    BY <1>1, <1>5 DEF SendWrite, Types, Row
  <2> QED BY <1>2, <2>1, <2>2 DEF Single, Pulling, Uploaded, Reconciled
<1>6. CASE Answered(d)
  <2>1. UNCHANGED <<row, request>> /\ pc[d] = "sent" /\ pc'[d] = "answered" /\ Commits(request[d])
    BY <1>1, <1>6 DEF Answered, At, Goes, Types
  <2>2. Late(request[d]) /\ Shrinks
    BY <1>1, <1>2, <2>1, <1>6, SentCovers, QuietlyShrinks DEF Answered, Quietly
  <2>3. stamp' = stamp + 1 /\ remote'.content = request[d].content
    BY <1>1, <2>1, <2>2, CommitAdvances
  <2>4. row[d].remoteEtag # stamp'
    BY <1>1, <2>3
  <2> QED BY <1>2, <2>1, <2>3, <2>4 DEF Single, Pulling, Uploaded, Reconciled
<1>7. CASE MarkSynced(d)
  <2>1. /\ UNCHANGED <<remote, stamp, row, request>> /\ pc[d] = "answered" /\ pc'[d] = "synced"
    BY <1>1, <1>7 DEF MarkSynced, At, Goes, Types, cycle
  <2> QED BY <1>2, <2>1 DEF Single, Pulling, Uploaded, Reconciled
<1>8. CASE RecordRemote(d)
  <2>1. pc[d] = "synced" /\ request[d].op = "write"
    BY <1>1, <1>8 DEF RecordRemote, At, Sound, Marks, Uploaded
  <2>2. UNCHANGED <<remote, stamp, request>> /\ pc'[d] = "confirmed"
    BY <1>1, <1>8, <2>1 DEF RecordRemote, Goes, Types, cycle
  <2>3. row'[d].base = row[d].base /\ row'[d].journal = row[d].journal
    BY <1>1, <1>8, <2>1 DEF RecordRemote, Types, Row
  <2> QED BY <1>2, <2>1, <2>2, <2>3 DEF Single, Pulling, Uploaded, Reconciled
<1>9. CASE RecordPushedBase(d)
  <2>1. UNCHANGED <<remote, stamp>> /\ pc[d] = "confirmed" /\ pc'[d] = "based"
    BY <1>1, <1>9 DEF RecordPushedBase, At, Goes, Types
  <2> DEFINE r == [row[d] EXCEPT !.base = request[d].content, !.baseEtag = got[d].etag]
  <2>2. row'[d] = r
    BY <1>1, <1>9 DEF RecordPushedBase, Types
  <2>3. r.base = request[d].content /\ r.journal = row[d].journal
    BY <1>1 DEF Row
  <2> HIDE DEF r
  <2> QED BY <1>2, <2>1, <2>2, <2>3 DEF Single, Pulling, Uploaded, Reconciled
<1>10. ~SendDelete(d) /\ ~PickUp(d, "delete")
  BY Unreached DEF EditInv
<1> QED BY <1>2, <1>3, <1>4, <1>5, <1>6, <1>7, <1>8, <1>9, <1>10 DEF Push

LEMMA AloneFault ==
  ASSUME EditInv, Recorded, NothingLate, NEW d \in Device, Single(d), Unanswered(d) \/ Crash(d)
  PROVE  Single(d)' /\ UNCHANGED <<disk, wire, copies>>
<1>1. /\ Types /\ Whole /\ Sound(d) /\ stamp \in Nat /\ remote.etag = stamp
      /\ row[d].remoteEtag \in Nat /\ row[d].remoteEtag <= stamp
  BY Fields DEF EditInv, TypeOK, Whole, Sound, Marks
<1>2. MayFail(d) /\ MaxFaults # 0
  BY <1>1 DEF Unanswered, Crash, MayFail, Types
<1>3. /\ UNCHANGED <<disk, row, wire, copies, undone>> /\ Ends(d)
      /\ pc[d] \notin {"confirmed", "based"}
  BY <1>2 DEF Unanswered, Crash, local, MayFail, Recording, Recorded, NothingLate, At
<1>4. pc'[d] = "idle" /\ pc[d] \notin {"delete", "missing"}
  BY <1>1, <1>3, TurnsToEnds DEF Ends, Whole, Alive
<1>5. CASE UNCHANGED <<remote, stamp>>
  BY <1>1, <1>3, <1>4, <1>5 DEF Types, Phase, Single, Pulling, Uploaded, Reconciled
<1>6. CASE pc[d] = "sent" /\ Commits(request[d])
  <2>1. Late(request[d]) /\ Shrinks
    BY <1>1, <1>3, <1>6, SentCovers, QuietlyShrinks DEF Quietly
  <2>2. stamp' = stamp + 1 /\ remote'.content = request[d].content
    BY <1>1, <1>6, <2>1, CommitAdvances
  <2>3. row[d].remoteEtag # stamp'
    BY <1>1, <2>2
  <2> QED BY <1>3, <1>4, <1>6, <2>2, <2>3 DEF Single, Pulling, Uploaded, Reconciled
<1> QED BY <1>3, <1>5, <1>6 DEF Unanswered, Crash, At

LEMMA AloneStep ==
  ASSUME EditInv, Undeleted, Recorded, NothingLate, Alone, AloneInv, [Next]_vars
  PROVE  /\ AloneInv'
         /\ \A d \in Device : disk'[d] # disk[d] => gate'[d] /\ ~gate[d]
<1>1. ASSUME NEW d \in Device,
             \/ User(d) \/ RetryFailed(d) \/ Announce(d)
             \/ Pull(d) \/ Push(d) \/ Unanswered(d) \/ Crash(d)
      PROVE  /\ AloneInv'
             /\ \A x \in Device : disk'[x] # disk[x] => gate'[x] /\ ~gate[x]
  <2>1. Single(d) /\ copies[d] = {} /\ wire = {}
    BY DEF AloneInv
  <2>2. /\ Single(d)' /\ UNCHANGED wire /\ copies'[d] = {}
        /\ disk'[d] # disk[d] => gate'[d] /\ ~gate[d]
    BY <1>1, <2>1, AloneUser, AlonePull, AlonePush, AloneFault
  <2>3. \A x \in Device : x = d
    BY DEF Alone
  <2> QED BY <2>1, <2>2, <2>3 DEF AloneInv
<1>2. CASE \E r \in wire : Lands(r)
  BY <1>2 DEF AloneInv
<1>3. CASE UNCHANGED vars
  BY <1>3 DEF vars, local, cycle, AloneInv, Single
<1> QED BY <1>1, <1>2, <1>3 DEF Next

THEOREM AloneInvariance ==
  ASSUME Undeleted, Recorded, NothingLate, Alone
  PROVE  Spec => []AloneInv
<1>1. Init => AloneInv
  <2>1. ASSUME Init, NEW d \in Device PROVE Single(d)
    <3>1. remote.content = row[d].base /\ pc[d] = "idle"
      <4>1. CASE stamp = 1
        <5>1. row[d] = Synced({}, 1) /\ remote.content = {}
          BY <2>1, <4>1 DEF Init
        <5> QED BY <2>1, <5>1 DEF Init, Synced
      <4>2. CASE stamp # 1
        BY <2>1, <4>2 DEF Init, NoRow, NoVersion
      <4> QED BY <4>1, <4>2
    <3>2. disk[d] = Absent => row[d] = NoRow
      <4>1. {} # Absent
        BY Constants DEF Content
      <4> QED BY <2>1, <4>1 DEF Init
    <3>3. NoRow.base = Absent /\ NoRow.journal = Absent
      BY DEF NoRow
    <3> QED BY <3>1, <3>2, <3>3 DEF Single, Pulling, Uploaded, Reconciled
  <2> QED BY <2>1 DEF Init, AloneInv
<1>2. EditInv /\ AloneInv /\ [Next]_vars => AloneInv'
  BY AloneStep
<1> QED BY <1>1, <1>2, EditInvariance, PTL DEF Spec

(* With one device there is nobody to be in conflict with: whatever answers are *)
(* lost and crashes cut its uploads off, the remote has its base or the text    *)
(* its journal names (SyncWorker.ts reconcileDownloadedFile, pending_push_sha   *)
(* of SyncStateRepository.ts).                                                  *)
THEOREM NobodyElse ==
  ASSUME Undeleted, Recorded, NothingLate, Alone
  PROVE  Spec => []NoConflictWithOneself
<1>1. AloneInv => NoConflictWithOneself
  BY DEF AloneInv, NoConflictWithOneself
<1> QED BY <1>1, AloneInvariance, PTL

(* Nor does its sync ever change the user's file: reconcileDownloadedFile of *)
(* SyncWorker.ts keeps it, as only the user is ahead of the remote.          *)
THEOREM NoOtherHand ==
  ASSUME Undeleted, Recorded, NothingLate, Alone
  PROVE  Spec => OnlyTheUserChangesFiles
<1>1. EditInv /\ AloneInv /\ [Next]_vars =>
        [\A d \in Device : disk'[d] # disk[d] => dirty[d] \/ (gate'[d] /\ ~gate[d])]_vars
  BY AloneStep
<1> QED BY <1>1, EditInvariance, AloneInvariance, PTL DEF Spec, OnlyTheUserChangesFiles

-----------------------------------------------------------------------------
(* Without faults an undo holds. An edit that was ever on the remote is shown; *)
(* a device that has a shown edit has it in the text it counts as the base, so *)
(* that a text without it is an undo and not a file that has yet to hear of    *)
(* it; and an edit that was never shown is on one device only.                 *)

Shown(e) == InRemote(e) \/ e \in withdrawn

(* The text the remote had, as far as the device has come. *)
Seen(d) ==
  IF pc[d] \in Uploaded THEN request[d].content
  ELSE IF pc[d] = "merged" THEN got[d].content
  ELSE row[d].base

(* What nobody took out stays where the device has met it. *)
Stays(d, e) ==
  /\ Contains(row[d].base, e) => Contains(disk[d], e) /\ InRemote(e)
  /\ pc[d] \in Pulling =>
       /\ Contains(got[d].content, e) => InRemote(e)
       /\ Contains(row[d].base, e) => Contains(got[d].content, e)
  /\ pc[d] \in Reconciled /\ Contains(got[d].content, e) => Contains(disk[d], e)
  /\ pc[d] \in {"sent"} \cup Uploaded =>
       /\ Contains(request[d].content, e) => Contains(disk[d], e)
       /\ Contains(row[d].base, e) => Contains(request[d].content, e)
  /\ pc[d] \in Uploaded /\ Contains(request[d].content, e) => InRemote(e)

Traced(d, e) ==
  /\ Contains(row[d].base, e) => Shown(e)
  /\ pc[d] \in Pulling /\ Contains(got[d].content, e) => Shown(e)
  /\ pc[d] \in Uploaded /\ Contains(request[d].content, e) => Shown(e)
  /\ Shown(e) /\ Contains(disk[d], e) => Contains(Seen(d), e)
  /\ pc[d] = "sent" /\ Shown(e) =>
       /\ Contains(disk[d], e) => Contains(request[d].content, e)
       /\ Contains(request[d].content, e) => Contains(row[d].base, e)

Has(d, e) == Contains(disk[d], e) \/ (pc[d] = "sent" /\ Contains(request[d].content, e))

Clear(d, e) == (e \notin undone => Stays(d, e)) /\ Traced(d, e)

UndoneRight(e) ==
  /\ \A d \in Device : Clear(d, e) /\ (Has(d, e) => e \in saved)
  /\ Shown(e) => e \in saved
  /\ ~Shown(e) => \A x, y \in Device : Has(x, e) /\ Has(y, e) => x = y
  /\ e \in withdrawn => ~InRemote(e)

UndoInv == \A e \in Edit : UndoneRight(e)

(* What a step of d comes to for one edit. *)
Moves(d, e) ==
  /\ Shown(e) => Shown(e)'
  /\ Shown(e)' => Shown(e) \/ Has(d, e)
  /\ e \notin undone' /\ InRemote(e) => InRemote(e)'
  /\ undone \subseteq undone' /\ saved \subseteq saved'
  /\ Clear(d, e)'
  /\ Has(d, e)' => Has(d, e) \/ Shown(e) \/ (e \notin saved /\ e \in saved')
  /\ (e \in withdrawn => ~InRemote(e))'

LEMMA MovesRight ==
  ASSUME NEW d \in Device, NEW e, UndoneRight(e), OnlyBy(d), Moves(d, e)
  PROVE  UndoneRight(e)'
<1>1. ASSUME NEW x \in Device, x # d PROVE Clear(x, e)' /\ (Has(x, e)' <=> Has(x, e))
  <2>1. /\ row'[x] = row[x] /\ got'[x] = got[x] /\ request'[x] = request[x]
        /\ pc'[x] = pc[x] /\ disk'[x] = disk[x]
    BY <1>1 DEF OnlyBy
  <2>2. Clear(x, e)
    BY DEF UndoneRight
  <2>3. e \notin undone' => Stays(x, e)'
    BY <2>1, <2>2 DEF Clear, Stays, Moves
  <2>4. Seen(x)' = Seen(x) /\ (Has(x, e)' <=> Has(x, e))
    BY <2>1 DEF Seen, Has
  <2>5. CASE Shown(e) \/ ~Shown(e)'
    <3>1. Shown(e) <=> Shown(e)'
      BY <2>5 DEF Moves
    <3>2. Traced(x, e)'
      BY <2>1, <2>2, <2>4, <3>1 DEF Clear, Traced
    <3> QED BY <2>3, <2>4, <3>2 DEF Clear
  <2>6. CASE ~Shown(e) /\ Shown(e)'
    <3>1. ~Has(x, e)
      BY <1>1, <2>6 DEF Moves, UndoneRight
    <3>2. Traced(x, e)'
      BY <2>1, <2>6, <3>1 DEF Traced, Has
    <3> QED BY <2>3, <2>4, <3>2 DEF Clear
  <2> QED BY <2>5, <2>6
<1>2. ASSUME NEW x \in Device PROVE Clear(x, e)' /\ (Has(x, e)' => e \in saved')
  BY <1>1 DEF Moves, UndoneRight
<1>3. Shown(e)' => e \in saved'
  BY DEF Moves, UndoneRight
<1>4. ASSUME ~Shown(e)', NEW x \in Device, NEW y \in Device, Has(x, e)', Has(y, e)'
      PROVE  x = y
  <2>1. ~Shown(e) /\ (Has(d, e)' => Has(d, e) \/ e \notin saved)
    BY <1>4 DEF Moves
  <2>2. \A z \in Device : Has(z, e) => e \in saved
    BY DEF UndoneRight
  <2>3. x # d => Has(x, e)
    BY <1>1, <1>4
  <2>4. y # d => Has(y, e)
    BY <1>1, <1>4
  <2>5. CASE e \notin saved
    BY <2>2, <2>3, <2>4, <2>5
  <2>6. CASE e \in saved
    BY <1>4, <2>1, <2>3, <2>4, <2>6 DEF UndoneRight
  <2> QED BY <2>5, <2>6
<1> QED BY <1>2, <1>3, <1>4 DEF Moves, UndoneRight

(* A step that leaves the remote alone. *)
LEMMA HereMoves ==
  ASSUME NEW d \in Device, NEW e, UndoneRight(e), UNCHANGED <<remote, withdrawn>>,
         undone \subseteq undone', saved \subseteq saved', Clear(d, e)',
         Has(d, e)' => Has(d, e) \/ Shown(e) \/ (e \notin saved /\ e \in saved')
  PROVE  Moves(d, e)
  BY DEF Moves, Shown, InRemote, UndoneRight

(* The steps between uploads and reconciles, by which nothing is learnt. *)
LEMMA BetweenClear ==
  ASSUME NEW d \in Device, NEW e, Clear(d, e), UNCHANGED <<remote, withdrawn, undone>>,
         row'[d].base = row[d].base, disk'[d] = disk[d],
         pc'[d] \in {"idle", "push", "write", "listed"}, pc[d] \notin Uploaded \cup {"merged"}
  PROVE  Clear(d, e)' /\ (Has(d, e)' => Has(d, e))
  BY DEF Clear, Stays, Traced, Shown, InRemote, Seen, Has, Pulling, Reconciled, Uploaded

LEMMA UserMoves ==
  ASSUME TypeOK, Undeleted, Whole, NEW d \in Device, NEW e \in Edit, UndoneRight(e), User(d)
  PROVE  Moves(d, e)
<1>1. PICK f \in Edit : Save(d, f) \/ Undo(d, f)
  BY Unreached DEF User
<1>2. /\ UNCHANGED <<remote, withdrawn, row, pc, got, request>>
      /\ undone \subseteq undone' /\ saved \subseteq saved' /\ Types
      /\ Text(d) \cup {f} \in Content /\ Text(d) \ {f} \in Content
  BY <1>1 DEF Save, Undo, Changes, cycle, TypeOK, Types, Text, File, Content
<1>3. Clear(d, e) /\ (Has(d, e) => e \in saved) /\ (Shown(e) => e \in saved)
  BY DEF UndoneRight
<1>4. CASE Save(d, f)
  <2>1. disk'[d] = Text(d) \cup {f} /\ f \notin saved /\ saved' = saved \cup {f} /\ undone' = undone
    BY <1>2, <1>4 DEF Save, Changes, Types
  <2>2. Contains(disk'[d], e) <=> Contains(disk[d], e) \/ e = f
    BY <1>2, <2>1, Constants DEF Contains, Text
  <2>3. e = f => ~Shown(e) /\ ~Contains(disk[d], e)
    BY <1>3, <2>1 DEF Has
  <2>4. Clear(d, e)'
    BY <1>2, <1>3, <2>1, <2>2, <2>3 DEF Clear, Stays, Traced, Shown, InRemote, Seen
  <2>5. Has(d, e)' => Has(d, e) \/ (e \notin saved /\ e \in saved')
    BY <1>2, <2>1, <2>2 DEF Has
  <2> QED BY <1>2, <2>4, <2>5, HereMoves
<1>5. CASE Undo(d, f)
  <2>1. disk'[d] = Text(d) \ {f} /\ undone' = undone \cup {f}
    BY <1>2, <1>5 DEF Undo, Changes, Types
  <2>2. /\ Contains(disk'[d], e) => Contains(disk[d], e)
        /\ e # f /\ Contains(disk[d], e) => Contains(disk'[d], e)
    BY <1>2, <2>1, Constants DEF Contains, Text
  <2>3. Clear(d, e)'
    BY <1>2, <1>3, <2>1, <2>2 DEF Clear, Stays, Traced, Shown, InRemote, Seen
  <2>4. Has(d, e)' => Has(d, e)
    BY <1>2, <2>2 DEF Has
  <2> QED BY <1>2, <2>3, <2>4, HereMoves
<1> QED BY <1>1, <1>4, <1>5

LEMMA ServiceMoves ==
  ASSUME NEW d \in Device, NEW e \in Edit, UndoneRight(e), RetryFailed(d) \/ Announce(d)
  PROVE  Moves(d, e)
<1>1. UNCHANGED <<remote, withdrawn, row, pc, got, request, disk, undone, saved>>
  BY DEF RetryFailed, Announce, cycle, local
<1>2. Clear(d, e)' /\ (Has(d, e)' => Has(d, e))
  BY <1>1 DEF UndoneRight, Clear, Stays, Traced, Shown, InRemote, Seen, Has
<1> QED BY <1>1, <1>2, HereMoves

(* What the reconcile of a device without a journal makes of an edit: it comes   *)
(* from one of the texts; one that the device has only as part of its base stays *)
(* only if the remote has it; and what the remote has stays, where the base does *)
(* not tell that the device took it out.                                         *)
LEMMA OutcomeTraces ==
  ASSUME NEW r, NEW mine, NEW theirs, theirs # Absent, r.journal = Absent,
         NEW o \in reconciled(r, mine, theirs), NEW e
  PROVE  /\ e \in o.file => Contains(mine, e) \/ Contains(theirs, e)
         /\ (Contains(mine, e) => Contains(r.base, e)) /\ e \in o.file => Contains(theirs, e)
         /\ /\ Contains(r.base, e) => Contains(mine, e) /\ Contains(theirs, e)
            /\ Contains(theirs, e)
            => e \in o.file
<1>1. CASE mine = Absent \/ mine = theirs
  BY <1>1 DEF reconciled, Clean, Outcome, Contains
<1>2. CASE mine # Absent /\ mine # theirs
  <2>0. ~isEcho(r, mine, theirs)
    BY DEF isEcho
  <2>1. CASE o = Clean(theirs) \/ o = Conflict(mine, theirs)
    BY <1>2, <2>1 DEF Clean, Conflict, Outcome, Contains
  <2>2. CASE o = Clean(mine) /\ theirs = r.base
    BY <1>2, <2>2 DEF Clean, Outcome, Contains
  <2>3. CASE r.base # Absent /\ o = Clean(mergeText(r.base, mine, theirs))
    BY <1>2, <2>3 DEF Clean, Outcome, Contains, mergeText
  <2>4. CASE r.base = Absent /\ o = Clean(mine \cup theirs)
    BY <1>2, <2>4 DEF Clean, Outcome, Contains
  <2> QED BY <1>2, <2>0, <2>1, <2>2, <2>3, <2>4 DEF reconciled
<1> QED BY <1>1, <1>2

LEMMA ReconcileMoves ==
  ASSUME Types, Whole, NEW d \in Device, NEW e \in Edit, UndoneRight(e), Journalled(d),
         Reconcile(d)
  PROVE  Moves(d, e)
<1>1. /\ UNCHANGED <<remote, row, undone, withdrawn, saved>> /\ pc[d] = "fetched"
      /\ row[d] \in Row /\ disk[d] \in File /\ got[d].content \in Content
      /\ ~hasPendingStructuralOp(d) /\ row[d].journal = Absent
  BY DEF Reconcile, At, Types, HasText, Version, File, Whole, Alive, Journalled, InFlight
<1>2. PICK o \in reconciled(row[d], disk[d], got[d].content) :
        disk' = [disk EXCEPT ![d] = o.file] /\ Goes(d, "merged") /\ UNCHANGED <<got, request>>
  BY <1>1 DEF Reconcile
<1>3. disk'[d] = o.file /\ pc'[d] = "merged"
  BY <1>2 DEF Types, Goes
<1>4. o.file # Absent /\ got[d].content # Absent
  BY <1>1, OutcomeIsText, Constants
<1>5. Clear(d, e)
  BY DEF UndoneRight
<1>6. /\ e \in o.file => Contains(disk[d], e) \/ Contains(got[d].content, e)
      /\ (Contains(disk[d], e) => Contains(row[d].base, e)) /\ e \in o.file =>
           Contains(got[d].content, e)
      /\ /\ Contains(row[d].base, e) => Contains(disk[d], e) /\ Contains(got[d].content, e)
         /\ Contains(got[d].content, e)
         => e \in o.file
  BY <1>1, <1>4, OutcomeTraces
<1>7. Contains(disk'[d], e) <=> e \in o.file
  BY <1>3, <1>4 DEF Contains
<1>8. e \notin undone' => Stays(d, e)'
  BY <1>1, <1>2, <1>3, <1>5, <1>6, <1>7 DEF Clear, Stays, InRemote, Pulling, Reconciled, Uploaded
<1>9. Shown(e) /\ Contains(disk[d], e) => Contains(row[d].base, e)
  BY <1>1, <1>5 DEF Clear, Traced, Seen, Uploaded
<1>10. Contains(got[d].content, e) => Shown(e)
  BY <1>1, <1>5 DEF Clear, Traced, Pulling
<1>11. Seen(d)' = got[d].content /\ (Shown(e)' <=> Shown(e))
  BY <1>1, <1>2, <1>3 DEF Seen, Uploaded, Shown, InRemote
<1>12. Traced(d, e)'
  BY <1>1, <1>2, <1>3, <1>5, <1>6, <1>7, <1>9, <1>10, <1>11 DEF Clear, Traced, Pulling, Uploaded
<1>13. Has(d, e)' => Has(d, e) \/ Shown(e)
  BY <1>3, <1>6, <1>7, <1>10 DEF Has
<1> QED BY <1>1, <1>8, <1>12, <1>13, HereMoves DEF Clear

LEMMA PullMoves ==
  ASSUME EditInv, Undeleted, JournalInv, NEW d \in Device, NEW e \in Edit, UndoneRight(e),
         Pull(d)
  PROVE  Moves(d, e)
<1>1. Types /\ Whole /\ Sound(d) /\ row[d] \in Row /\ Clear(d, e)
  BY Fields DEF EditInv, TypeOK, UndoneRight
<1>2. ~MirrorDeletion(d)
  BY Unreached DEF EditInv
<1>3. UNCHANGED <<remote, withdrawn, undone, saved>>
  BY <1>2 DEF Pull, List, Download, Reconcile, RecordPulledBase, RecordPulled
<1>4. CASE List(d)
  <2>1. pc[d] = "idle" /\ UNCHANGED <<row, disk>>
    BY <1>4 DEF List, At, local
  <2>2. pc'[d] \in {"push", "listed"}
    <3>1. Comes(d)
      BY <1>1, <1>4, PullComes DEF EditInv, Pull
    <3>2. pc'[d] \in {"push", "listed", "missing"}
      BY <1>1, <1>4 DEF List, Pushes, TurnsTo, Goes, Types
    <3> QED BY <3>1, <3>2 DEF Comes, Alive
  <2>3. Clear(d, e)' /\ (Has(d, e)' => Has(d, e))
    BY <1>1, <1>3, <2>1, <2>2, BetweenClear DEF Uploaded
  <2> QED BY <1>3, <2>3, HereMoves
<1>5. CASE Download(d)
  <2>1. pc[d] = "listed" /\ UNCHANGED <<row, disk>>
    BY <1>5 DEF Download, At, local
  <2>2. remote.content # Absent
    <3>1. got[d].etag # 0 /\ got[d].etag <= stamp /\ got[d].etag \in Nat /\ stamp \in Nat
      BY <1>1, <2>1, Fields DEF Sound, Marks
    <3>2. remote.etag = stamp
      BY <1>1 DEF Whole
    <3> QED BY <1>1, <3>1, <3>2 DEF Types
  <2>3. pc'[d] = "fetched" /\ got'[d].content = remote.content
    BY <1>1, <1>5, <2>2 DEF Download, Goes, Types, Version
  <2>4. Clear(d, e)' /\ (Has(d, e)' => Has(d, e))
    BY <1>1, <1>3, <2>1, <2>3
    DEF Clear, Stays, Traced, Shown, InRemote, Seen, Has, Pulling, Reconciled, Uploaded
  <2> QED BY <1>3, <2>4, HereMoves
<1>6. CASE Reconcile(d)
  BY <1>1, <1>6, ReconcileMoves DEF JournalInv
<1>7. CASE RecordPulledBase(d)
  <2>1. pc[d] = "merged" /\ pc'[d] = "recorded" /\ UNCHANGED <<disk, got, request>>
    BY <1>1, <1>7 DEF RecordPulledBase, At, Goes, Types, local, cycle
  <2>2. row'[d] = [row[d] EXCEPT !.base = got[d].content, !.baseEtag = got[d].etag]
    BY <1>1, <1>7 DEF RecordPulledBase, PulledBase, Types
  <2>3. row'[d].base = got[d].content
    BY <1>1, <2>2 DEF Row
  <2>4. Clear(d, e)' /\ (Has(d, e)' => Has(d, e))
    BY <1>1, <1>3, <2>1, <2>3
    DEF Clear, Stays, Traced, Shown, InRemote, Seen, Has, Pulling, Reconciled, Uploaded
  <2> QED BY <1>3, <2>4, HereMoves
<1>8. CASE RecordPulled(d)
  <2>1. pc[d] = "recorded" /\ pc'[d] = "push" /\ UNCHANGED disk
    BY <1>1, <1>8, TurnsToEnds DEF RecordPulled, At, Pushes
  <2> DEFINE r == [row[d] EXCEPT !.remoteEtag = got[d].etag]
  <2>2. row'[d] \in {r, clearPendingPushSha(r)}
    BY <1>1, <1>8 DEF RecordPulled, Types
  <2>3. r.base = row[d].base /\ r \in Row
    BY <1>1, Fields DEF Row, Version
  <2> HIDE DEF r
  <2>4. row'[d].base = row[d].base
    BY <2>2, <2>3 DEF clearPendingPushSha, Row
  <2>5. Clear(d, e)' /\ (Has(d, e)' => Has(d, e))
    BY <1>1, <1>3, <2>1, <2>4, BetweenClear DEF Uploaded
  <2> QED BY <1>3, <2>5, HereMoves
<1> QED BY <1>2, <1>4, <1>5, <1>6, <1>7, <1>8 DEF Pull

(* An upload that the remote takes replaces the very text the row has as its base. *)
LEMMA SentMatches ==
  ASSUME Types, Whole, NEW d \in Device, Sound(d), pc[d] = "sent", Commits(request[d])
  PROVE  /\ remote.content = row[d].base
         /\ remote'.content = request[d].content
         /\ withdrawn' = withdrawn \cup (undone \cap (Edits(remote) \ request[d].content))
<1>1. /\ request[d].op = "write" /\ request[d].expect = expectedRemoteOf(row[d])
      /\ remote.etag = stamp
  BY DEF Sound, Marks, Rows, Whole
<1>2. remote.etag \in expectedRemoteOf(row[d])
  BY <1>1 DEF Commits
<1>3. CASE row[d].base = Absent
  <2>1. remote.etag = 0
    BY <1>2, <1>3 DEF Sound, Rows, expectedRemoteOf
  <2> QED BY <1>1, <1>3, <2>1 DEF Commits, Types
<1>4. CASE row[d].base # Absent
  <2>1. row[d].baseEtag # 0
    BY <1>4 DEF Sound, Rows, Unsettled
  <2>2. row[d].baseEtag = stamp
    BY <1>1, <1>2, <1>4, <2>1 DEF expectedRemoteOf
  <2>3. remote.content = row[d].base
    BY <2>1, <2>2 DEF Sound, Ties
  <2> QED BY <1>1, <2>3 DEF Commits
<1> QED BY <1>3, <1>4

LEMMA AnsweredMoves ==
  ASSUME Types, Whole, NEW d \in Device, Sound(d), NEW e \in Edit, UndoneRight(e),
         UNCHANGED <<disk, row, request, undone, saved>>, pc[d] = "sent", pc'[d] = "answered",
         Commits(request[d])
  PROVE  Moves(d, e)
<1>1. /\ remote.content = row[d].base /\ remote'.content = request[d].content
      /\ withdrawn' = withdrawn \cup (undone \cap (Edits(remote) \ request[d].content))
  BY SentMatches
<1>2. request[d].content # Absent
  BY DEF Sound, Marks, Types, HasText, WriteHasText
<1>3. /\ InRemote(e) <=> Contains(row[d].base, e)
      /\ InRemote(e)' <=> Contains(request[d].content, e)
      /\ e \in withdrawn' <=>
           e \in withdrawn \/ (e \in undone /\ InRemote(e) /\ ~Contains(request[d].content, e))
  BY <1>1, <1>2 DEF InRemote, Contains, Edits
<1>4. Clear(d, e) /\ (e \in withdrawn => ~InRemote(e))
  BY DEF UndoneRight
<1>5. e \notin undone /\ InRemote(e) => Contains(request[d].content, e)
  BY <1>3, <1>4 DEF Clear, Stays
<1>6. Shown(e) => Shown(e)'
  BY <1>3, <1>5 DEF Shown
<1>7. Shown(e)' => Shown(e) \/ Contains(request[d].content, e)
  BY <1>3 DEF Shown
<1>8. ~(e \in withdrawn' /\ InRemote(e)')
  BY <1>3, <1>4 DEF Clear, Traced, Shown
<1>9. e \notin undone' => Stays(d, e)'
  BY <1>3, <1>4 DEF Clear, Stays, Pulling, Reconciled, Uploaded
<1>10. Traced(d, e)'
  BY <1>3, <1>4, <1>6, <1>7 DEF Clear, Traced, Seen, Shown, Pulling, Uploaded
<1> QED BY <1>3, <1>5, <1>6, <1>7, <1>8, <1>9, <1>10 DEF Moves, Clear, Has

LEMMA PushMoves ==
  ASSUME EditInv, Undeleted, NEW d \in Device, NEW e \in Edit, UndoneRight(e), Push(d)
  PROVE  Moves(d, e)
<1>1. /\ Types /\ Whole /\ Sound(d) /\ row[d] \in Row /\ Clear(d, e)
      /\ pc[d] \notin {"delete", "missing"}
  BY Fields DEF EditInv, TypeOK, UndoneRight, Whole, Alive
<1>2. UNCHANGED <<disk, undone, saved>>
  BY DEF Push, Quiet, PickUp, Settled, Deferred, SendWrite, SendDelete, Answered, Refused,
     MarkSynced, RecordRemote, RecordPushedBase, ClearJournal, local
<1>3. CASE Quiet(d) \/ Settled(d) \/ Deferred(d) \/ Refused(d) \/ ClearJournal(d)
  <2>1. /\ UNCHANGED <<remote, withdrawn>> /\ Ends(d)
        /\ pc[d] \in {"push", "write", "delete", "sent", "based"}
    BY <1>3 DEF Quiet, Settled, Deferred, Refused, ClearJournal, At
  <2>2. pc'[d] = "idle"
    BY <1>1, <2>1, TurnsToEnds DEF Ends
  <2>3. row'[d] = row[d] \/ row'[d] = clearPendingPushSha(row[d])
    BY <1>1, <1>3 DEF Quiet, Settled, Deferred, Refused, ClearJournal, Types
  <2>4. row'[d].base = row[d].base
    BY <1>1, <2>3 DEF clearPendingPushSha, Row
  <2>5. Clear(d, e)' /\ (Has(d, e)' => Has(d, e))
    BY <1>1, <1>2, <2>1, <2>2, <2>4, BetweenClear DEF Uploaded
  <2> QED BY <1>2, <2>1, <2>5, HereMoves
<1>4. CASE PickUp(d, "write")
  <2>1. UNCHANGED <<remote, withdrawn, row>> /\ pc[d] = "push" /\ pc'[d] = "write"
    BY <1>1, <1>4 DEF PickUp, At, Goes, Types
  <2>2. Clear(d, e)' /\ (Has(d, e)' => Has(d, e))
    BY <1>1, <1>2, <2>1, BetweenClear DEF Uploaded
  <2> QED BY <1>2, <2>1, <2>2, HereMoves
<1>5. CASE SendWrite(d)
  <2>1. /\ UNCHANGED <<remote, withdrawn>> /\ pc[d] = "write" /\ pc'[d] = "sent"
        /\ request'[d].content = disk[d]
    BY <1>1, <1>5 DEF SendWrite, At, Goes, Types
  <2>2. row'[d].base = row[d].base
    BY <1>1, <1>5 DEF SendWrite, Types, Row
  <2>3. Clear(d, e)' /\ (Has(d, e)' => Has(d, e))
    BY <1>1, <1>2, <2>1, <2>2
    DEF Clear, Stays, Traced, Shown, InRemote, Seen, Has, Pulling, Reconciled, Uploaded
  <2> QED BY <1>2, <2>1, <2>3, HereMoves
<1>6. CASE Answered(d)
  <2>1. /\ UNCHANGED <<row, request>> /\ pc[d] = "sent" /\ pc'[d] = "answered"
        /\ Commits(request[d])
    BY <1>1, <1>6 DEF Answered, At, Goes, Types
  <2> QED BY <1>1, <1>2, <2>1, AnsweredMoves
<1>7. CASE MarkSynced(d)
  <2>1. /\ UNCHANGED <<remote, withdrawn, row, got, request>>
        /\ pc[d] = "answered" /\ pc'[d] = "synced"
    BY <1>1, <1>7 DEF MarkSynced, At, Goes, Types, cycle
  <2>2. Clear(d, e)' /\ (Has(d, e)' => Has(d, e))
    BY <1>1, <1>2, <2>1
    DEF Clear, Stays, Traced, Shown, InRemote, Seen, Has, Pulling, Reconciled, Uploaded
  <2> QED BY <1>2, <2>1, <2>2, HereMoves
<1>8. CASE RecordRemote(d)
  <2>1. pc[d] = "synced" /\ request[d].op = "write"
    BY <1>1, <1>8 DEF RecordRemote, At, Sound, Marks, Uploaded
  <2>2. UNCHANGED <<remote, withdrawn, got, request>> /\ pc'[d] = "confirmed"
    BY <1>1, <1>8, <2>1 DEF RecordRemote, Goes, Types, cycle
  <2>3. row'[d].base = row[d].base
    BY <1>1, <1>8, <2>1 DEF RecordRemote, Types, Row
  <2>4. Clear(d, e)' /\ (Has(d, e)' => Has(d, e))
    BY <1>1, <1>2, <2>1, <2>2, <2>3
    DEF Clear, Stays, Traced, Shown, InRemote, Seen, Has, Pulling, Reconciled, Uploaded
  <2> QED BY <1>2, <2>2, <2>4, HereMoves
<1>9. CASE RecordPushedBase(d)
  <2>1. UNCHANGED <<remote, withdrawn, got, request>> /\ pc[d] = "confirmed" /\ pc'[d] = "based"
    BY <1>1, <1>9 DEF RecordPushedBase, At, Goes, Types, cycle
  <2>2. row'[d] = [row[d] EXCEPT !.base = request[d].content, !.baseEtag = got[d].etag]
    BY <1>1, <1>9 DEF RecordPushedBase, Types
  <2>3. row'[d].base = request[d].content
    BY <1>1, <2>2 DEF Row
  <2>4. Clear(d, e)' /\ (Has(d, e)' => Has(d, e))
    BY <1>1, <1>2, <2>1, <2>3
    DEF Clear, Stays, Traced, Shown, InRemote, Seen, Has, Pulling, Reconciled, Uploaded
  <2> QED BY <1>2, <2>1, <2>4, HereMoves
<1>10. ~SendDelete(d) /\ ~PickUp(d, "delete")
  BY Unreached DEF EditInv
<1> QED BY <1>3, <1>4, <1>5, <1>6, <1>7, <1>8, <1>9, <1>10 DEF Push

LEMMA UndoStep ==
  ASSUME EditInv, JournalInv, UndoInv, Undeleted, MaxFaults = 0, [Next]_vars
  PROVE  UndoInv'
<1>1. Types /\ TypeOK /\ Whole /\ \A d \in Device : Sound(d)
  BY DEF EditInv, TypeOK
<1>2. ASSUME NEW d \in Device,
             User(d) \/ RetryFailed(d) \/ Announce(d) \/ Pull(d) \/ Push(d)
      PROVE  UndoInv'
  <2>1. OnlyBy(d)
    BY <1>1, <1>2, DeviceComes DEF Comes, Recorded
  <2>2. ASSUME NEW e \in Edit PROVE UndoneRight(e)'
    <3>1. UndoneRight(e)
      BY DEF UndoInv
    <3>2. Moves(d, e)
      BY <1>1, <1>2, <3>1, UserMoves, ServiceMoves, PullMoves, PushMoves
    <3> QED BY <2>1, <3>1, <3>2, MovesRight
  <2> QED BY <2>2 DEF UndoInv
<1>3. \A d \in Device : ~Unanswered(d) /\ ~Crash(d)
  BY <1>1, NoFaults
<1>4. CASE \E r \in wire : Lands(r)
  BY <1>4 DEF JournalInv
<1>5. CASE UNCHANGED vars
  BY <1>5
  DEF vars, local, cycle, UndoInv, UndoneRight, Clear, Stays, Traced, Shown, InRemote, Seen, Has
<1> QED BY <1>2, <1>3, <1>4, <1>5 DEF Next

LEMMA UndoInit == ASSUME Init PROVE UndoInv
<1>1. ASSUME NEW d \in Device, NEW e \in Edit
      PROVE  /\ ~Contains(row[d].base, e) /\ ~Contains(disk[d], e) /\ ~InRemote(e)
             /\ pc[d] = "idle" /\ e \notin withdrawn
  <2>1. CASE stamp = 1
    <3>1. row[d] = Synced({}, 1) /\ disk[d] = {} /\ remote.content = {}
      BY <2>1 DEF Init
    <3>2. row[d].base = {}
      BY <3>1 DEF Synced
    <3> QED BY <3>1, <3>2 DEF Init, Contains, InRemote
  <2>2. CASE stamp # 1
    BY <2>2 DEF Init, NoRow, NoVersion, Contains, InRemote
  <2> QED BY <2>1, <2>2
<1>2. ASSUME NEW e \in Edit PROVE UndoneRight(e)
  <2>1. ASSUME NEW d \in Device PROVE Clear(d, e) /\ ~Has(d, e)
    BY <1>1 DEF Clear, Stays, Traced, Has, Pulling, Reconciled, Uploaded
  <2>2. ~Shown(e) /\ e \notin withdrawn
    <3>1. ~Contains(remote.content, e)
      <4>1. CASE stamp = 1
        <5>1. remote.content = {}
          BY <4>1 DEF Init
        <5> QED BY <5>1 DEF Contains
      <4>2. CASE stamp # 1
        BY <4>2 DEF Init, NoVersion, Contains
      <4> QED BY <4>1, <4>2
    <3> QED BY <3>1 DEF Init, Shown, InRemote
  <2> QED BY <2>1, <2>2 DEF UndoneRight
<1> QED BY <1>2 DEF UndoInv

THEOREM UndoInvariance ==
  ASSUME Undeleted, MaxFaults = 0
  PROVE  Spec => []UndoInv
<1>1. Recorded
  BY DEF Recorded
<1>2. EditInv /\ JournalInv /\ UndoInv /\ [Next]_vars => UndoInv'
  BY UndoStep
<1>3. Init => UndoInv
  BY UndoInit
<1>4. Spec => []EditInv
  BY <1>1, EditInvariance
<1> QED BY <1>2, <1>3, <1>4, JournalEnds, PTL DEF Spec

(* An edit that a user took out, and whose upload took it off the remote, comes *)
(* back by no merge of a device that still has it (mergeText of                 *)
(* conflict-resolver.ts, against the base of SyncStateRepository.ts), as long   *)
(* as no answer is lost.                                                        *)
THEOREM UndoesHold ==
  ASSUME Undeleted, MaxFaults = 0
  PROVE  Spec => []UndoHolds
<1>1. TypeOK /\ UndoInv => UndoHolds
  BY DEF TypeOK, Types, UndoInv, UndoneRight, UndoHolds, InRemote
<1> QED BY <1>1, UndoInvariance, TypeCorrect, PTL
=============================================================================
