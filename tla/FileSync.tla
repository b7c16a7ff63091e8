------------------------------- MODULE FileSync -------------------------------
(***************************************************************************)
(* One file of a vault on several devices that sync with one remote: the   *)
(* file on disk, its row in sync_state, its entries in offline_queue, and  *)
(* the steps of the sync worker's cycle (pull: reconcilePulledFile,        *)
(* reconcileDownloadedFile, mirrorRemoteDeletionLocked; push: processQueue)*)
(* with everything that can come between two awaits: saves of the user,    *)
(* other devices, a crash, an answer that never arrives.                   *)
(*                                                                         *)
(* A text is the set of the edits it contains; every save adds an edit of  *)
(* its own or takes one out. A three-way merge is the set merge, or it     *)
(* finds a conflict: whether two changes overlap is left open.             *)
(***************************************************************************)
EXTENDS Naturals, Sequences

CONSTANTS Device,
          Edit,          \* edits the users make, each at most once
          Absent,        \* no file, no version
          MaxStamp,      \* bound: versions the remote ever holds
          MaxDeletes,    \* bound: deletions by the users
          MaxFaults,     \* bound: crashes and answers that do not arrive
          MaxRefusals,   \* refusals in a row after which an upload waits for a person (5)
          FaultKinds,    \* which of AllFaultKinds besides the plain ones occur
          AnswersEtag    \* how the remote answers an upload: with its marker, without, either

Content == SUBSET Edit
File == {Absent} \cup Content
Stamp == 0..MaxStamp     \* markers (ETags) of the remote; 0 is none

(* A fault may cut off the push of a deletion, or what an upload records in *)
(* the row; or an upload given up by its device still lands later.          *)
AllFaultKinds == {"delete", "record", "late"}

ASSUME FileSyncAssumption ==
  /\ MaxStamp \in Nat \ {0} /\ MaxRefusals \in Nat \ {0}
  /\ MaxDeletes \in Nat /\ MaxFaults \in Nat
  /\ \A c \in Content : c # Absent
  /\ FaultKinds \subseteq AllFaultKinds
  /\ AnswersEtag \subseteq BOOLEAN /\ AnswersEtag # {}

VARIABLES
  remote,     \* the version on the remote: [content, etag]
  stamp,      \* the last marker the remote gave
  disk,       \* disk[d]: the file on d
  trash,      \* trash[d]: what d's user deleted last and can put back
  dirty,      \* dirty[d]: a change on disk stands in no queue yet
  gate,       \* gate[d]: the user's operation holds the path's gate
  row,        \* row[d]: the sync_state row [base, baseEtag, remoteEtag, journal]
  queue,      \* queue[d]: entries [op, taken, manual]: taken is the one the engine
              \*   works on, a manual one waits for a person
  refused,    \* refused[d]: reconcileAgain holds the path
  refusals,   \* refusals[d]: uploads of the path refused in a row
  pc,         \* pc[d]: where d's cycle stands
  got,        \* got[d]: the version downloaded, with the marker the listing gave
  plan,       \* plan[d]: what the reconcile still has to record
  request,    \* request[d]: the push under way
  wire,       \* uploads given up by their device that may still land
  copies,     \* copies[d]: conflict copies
  saved,      \* history: edits ever saved
  undone,     \* history: edits a user took out
  withdrawn,  \* history: edits taken out whose upload took them off the remote
  removed,    \* history: edits deleted with the file
  deletes, faults

local == <<disk, trash, dirty, gate>>
cycle == <<got, plan, request>>
retries == <<refused, refusals>>
bounds == <<deletes, faults>>
vars == <<remote, stamp, withdrawn, local, row, queue, retries, pc, cycle, wire, copies,
          saved, undone, removed, bounds>>

NoRow == [base |-> Absent, baseEtag |-> 0, remoteEtag |-> 0, journal |-> Absent]
NoVersion == [content |-> Absent, etag |-> 0]
NoPlan == [wrote |-> FALSE, push |-> FALSE, echo |-> FALSE]
NoRequest == [op |-> "none", content |-> Absent, expect |-> {}]
Synced(c, e) == [base |-> c, baseEtag |-> e, remoteEtag |-> e, journal |-> Absent]

(* A vault in sync with an empty text; or no file anywhere: then each device's *)
(* first save makes a file of its own that has never been synced.              *)
Init ==
  /\ trash = [d \in Device |-> Absent]
  /\ gate = [d \in Device |-> FALSE]
  /\ refused = [d \in Device |-> FALSE] /\ refusals = [d \in Device |-> 0]
  /\ pc = [d \in Device |-> "idle"]
  /\ got = [d \in Device |-> NoVersion]
  /\ plan = [d \in Device |-> NoPlan]
  /\ request = [d \in Device |-> NoRequest]
  /\ wire = {} /\ copies = [d \in Device |-> {}]
  /\ saved = {} /\ undone = {} /\ withdrawn = {} /\ removed = {} /\ deletes = 0 /\ faults = 0
  /\ dirty = [d \in Device |-> FALSE]
  /\ queue = [d \in Device |-> <<>>]
  /\ \/ /\ stamp = 1 /\ remote = [content |-> {}, etag |-> 1]
        /\ disk = [d \in Device |-> {}]
        /\ row = [d \in Device |-> Synced({}, 1)]
     \/ /\ stamp = 0 /\ remote = NoVersion
        /\ disk = [d \in Device |-> Absent]
        /\ row = [d \in Device |-> NoRow]

-----------------------------------------------------------------------------
(* The queue of the path: SyncQueue.ts restricted to one file.              *)

Entry(op) == [op |-> op, taken |-> FALSE, manual |-> FALSE]
Holds(q, op) == \E i \in 1..Len(q) : q[i].op = op

hasPendingStructuralOp(d) == Holds(queue[d], "delete")

(* A write takes the place of the writes before it, unless a deletion is queued. *)
(* The sync's own (supersedeRefused: false) leaves one that waits for a person:  *)
(* only the first can, the others of the path are never tried before it.         *)
Waiting(q) == IF q # <<>> /\ q[1].manual THEN <<q[1]>> ELSE <<>>
queueWrite(q) == IF Holds(q, "delete") THEN Append(q, Entry("write")) ELSE <<Entry("write")>>
queueWriteAgain(q) == Append(IF Holds(q, "delete") THEN q ELSE Waiting(q), Entry("write"))
queueDelete(q) == Append(q, Entry("delete"))

(* A pass takes the first entry of the path; a queueWrite may replace it before  *)
(* the pass is done with it, and then its id is nobody's.                        *)
Take(q) == [q EXCEPT ![1].taken = TRUE]
Release(q) == IF q = <<>> THEN q ELSE [q EXCEPT ![1].taken = FALSE]

(* markRequiresManualIntervention, if the entry is still the one in hand. *)
ForPerson(q) == IF q # <<>> /\ q[1].taken THEN [q EXCEPT ![1].manual = TRUE] ELSE q

resetStuckOperations(q) == IF q = <<>> THEN q ELSE [q EXCEPT ![1].manual = FALSE]

(* Mutant of markSynced: the entry stays. *)
markSyncedNever(q) == q

markSynced(q) == IF q # <<>> /\ q[1].taken THEN Tail(q) ELSE q

-----------------------------------------------------------------------------
(* The user and the index.                                                  *)

Free(d) == ~gate[d] /\ pc[d] \notin {"merged", "recorded"}

(* A change through the write chain, on disk; its entry follows (Announce). *)
Changes(d, file) ==
  /\ Free(d)
  /\ disk' = [disk EXCEPT ![d] = file]
  /\ dirty' = [dirty EXCEPT ![d] = TRUE]
  /\ gate' = [gate EXCEPT ![d] = TRUE]
  /\ UNCHANGED <<remote, stamp, withdrawn, row, queue, retries, pc, cycle, wire, copies, faults>>

Text(d) == IF disk[d] = Absent THEN {} ELSE disk[d]

Save(d, e) ==
  /\ e \notin saved
  /\ Changes(d, Text(d) \cup {e})
  /\ saved' = saved \cup {e}
  /\ UNCHANGED <<trash, undone, removed, deletes>>

Undo(d, e) ==
  /\ e \in Text(d)
  /\ Changes(d, Text(d) \ {e})
  /\ undone' = undone \cup {e}
  /\ UNCHANGED <<trash, saved, removed, deletes>>

Delete(d) ==
  /\ disk[d] # Absent /\ deletes < MaxDeletes
  /\ Changes(d, Absent)
  /\ trash' = [trash EXCEPT ![d] = disk[d]]
  /\ removed' = removed \cup disk[d]
  /\ deletes' = deletes + 1
  /\ UNCHANGED <<saved, undone>>

Restore(d) ==
  /\ disk[d] = Absent /\ trash[d] # Absent
  /\ Changes(d, trash[d])
  /\ trash' = [trash EXCEPT ![d] = Absent]
  /\ removed' = removed \ trash[d]
  /\ UNCHANGED <<saved, undone, deletes>>

(* The entry of a change on disk: queued by the chain, or by an index run *)
(* that finds the file changed after a crash.                             *)
Announce(d) ==
  /\ dirty[d]
  /\ queue' = [queue EXCEPT ![d] = IF disk[d] = Absent THEN queueDelete(@) ELSE queueWrite(@)]
  /\ dirty' = [dirty EXCEPT ![d] = FALSE]
  /\ gate' = [gate EXCEPT ![d] = FALSE]
  /\ UNCHANGED <<remote, stamp, withdrawn, disk, trash, row, retries, pc, cycle, wire, copies, saved, undone, removed, bounds>>

-----------------------------------------------------------------------------
(* The pull.                                                                *)

At(d, here) == pc[d] = here
Goes(d, there) == pc' = [pc EXCEPT ![d] = there]

(* The push of the cycle, or the end of the cycle: what the steps before held is gone. *)
TurnsTo(d, there) ==
  /\ Goes(d, there)
  /\ got' = [got EXCEPT ![d] = NoVersion]
  /\ plan' = [plan EXCEPT ![d] = NoPlan]
  /\ request' = [request EXCEPT ![d] = NoRequest]
Pushes(d) == TurnsTo(d, "push")
Ends(d) == TurnsTo(d, "idle")

(* Mutant of clearPendingPushSha: the journal stays. *)
clearPendingPushShaNot(r) == r
clearPendingPushSha(r) == [r EXCEPT !.journal = Absent]

(* The listing: an unchanged marker is passed by, unless the last push was refused. *)
unchanged(d) == row[d].remoteEtag = remote.etag /\ ~refused[d]

List(d) ==
  /\ At(d, "idle")
  /\ LET missing == remote.content = Absent /\ row[d].remoteEtag # 0
         listed == remote.content # Absent /\ ~unchanged(d)
     IN  IF hasPendingStructuralOp(d) \/ (~missing /\ ~listed)
         THEN Pushes(d)
         ELSE /\ Goes(d, IF missing THEN "missing" ELSE "listed")
              /\ got' = [got EXCEPT ![d].etag = remote.etag]
              /\ UNCHANGED <<plan, request>>
  /\ refused' = [refused EXCEPT ![d] = @ /\ remote.content = Absent]
  /\ UNCHANGED <<remote, stamp, withdrawn, local, row, queue, refusals, wire, copies, saved, undone, removed, bounds>>

(* The download, later: it may bring a newer version than the one listed. *)
Download(d) ==
  /\ At(d, "listed")
  /\ IF remote.content = Absent THEN Pushes(d)
     ELSE /\ Goes(d, "fetched")
          /\ got' = [got EXCEPT ![d].content = remote.content]
          /\ UNCHANGED <<plan, request>>
  /\ UNCHANGED <<remote, stamp, withdrawn, local, row, queue, retries, wire, copies, saved, undone, removed, bounds>>

(* Mutant of mergeText: what one side took out comes back from the other. *)
mergeTextUnion(base, mine, theirs) == mine \cup theirs

(* The three-way merge of texts that are sets of edits. *)
mergeText(base, mine, theirs) == (base \cap mine \cap theirs) \cup (mine \ base) \cup (theirs \ base)

(* What the reconcile makes of the local text: [file, copy, echo]. *)
Outcome(file, copy, echo) == [file |-> file, copy |-> copy, echo |-> echo]
Conflict(mine, theirs) == Outcome(theirs, {mine}, FALSE)
Clean(file) == Outcome(file, {}, FALSE)

isEcho(r, mine, theirs) == mine # theirs /\ theirs = r.journal

(* A mutant of reconciled: it does not look at the journal. *)
reconciledWithoutJournal(r, mine, theirs) ==
  IF mine = Absent \/ mine = theirs \/ mine = r.base THEN {Clean(theirs)}
  ELSE IF theirs = r.base THEN {Clean(mine)}
  ELSE IF r.base # Absent THEN {Clean(mergeText(r.base, mine, theirs)), Conflict(mine, theirs)}
  ELSE {Clean(mine \cup theirs), Conflict(mine, theirs)}

reconciled(r, mine, theirs) ==
  IF mine = Absent \/ mine = theirs THEN {Clean(theirs)}
  ELSE IF isEcho(r, mine, theirs) THEN {Outcome(mine, {}, TRUE)}
  ELSE IF mine = r.base THEN {Clean(theirs)}
  ELSE IF theirs = r.base THEN {Clean(mine)}
  ELSE IF r.base # Absent THEN {Clean(mergeText(r.base, mine, theirs)), Conflict(mine, theirs)}
  ELSE {Clean(mine \cup theirs), Conflict(mine, theirs)}

(* Mutant of Kept: the conflict copy is not written. *)
KeptNothing(o) == {}
Kept(o) == o.copy

(* Under the gate: the conflict copy, then the file, where they differ. *)
Reconcile(d) ==
  /\ At(d, "fetched") /\ ~gate[d]
  /\ IF hasPendingStructuralOp(d)
     THEN Pushes(d) /\ UNCHANGED <<disk, dirty, copies>>
     ELSE \E o \in reconciled(row[d], disk[d], got[d].content) :
       /\ disk' = [disk EXCEPT ![d] = o.file]
       /\ dirty' = [dirty EXCEPT ![d] = @ \/ o.file # disk[d]]
       /\ copies' = [copies EXCEPT ![d] = @ \cup Kept(o)]
       /\ plan' = [plan EXCEPT ![d] = [wrote |-> o.file # disk[d], echo |-> o.echo,
                                       push |-> o.file # got[d].content]]
       /\ Goes(d, "merged")
       /\ UNCHANGED <<got, request>>
  /\ UNCHANGED <<remote, stamp, withdrawn, trash, gate, row, queue, retries, wire, saved, undone, removed, bounds>>

(* Mutant of PulledBase: the reconciled text is recorded as the base before its upload. *)
PulledBaseIsMerge(d) == disk[d]

(* The base the reconcile records: the remote version, not what was made of it. *)
PulledBase(d) == got[d].content

(* recordSyncedBase. *)
RecordPulledBase(d) ==
  /\ At(d, "merged")
  /\ row' = [row EXCEPT ![d].base = PulledBase(d), ![d].baseEtag = got[d].etag]
  /\ Goes(d, "recorded")
  /\ UNCHANGED <<remote, stamp, withdrawn, local, queue, retries, cycle, wire, copies, saved, undone, removed, bounds>>

(* updateRemoteState, clearPendingPushSha for an echo, queueWrite for what is ahead. *)
RecordPulled(d) ==
  /\ At(d, "recorded")
  /\ LET r == [row[d] EXCEPT !.remoteEtag = got[d].etag]
     IN  row' = [row EXCEPT ![d] = IF plan[d].echo THEN clearPendingPushSha(r) ELSE r]
  /\ queue' = IF plan[d].push THEN [queue EXCEPT ![d] = queueWriteAgain(@)] ELSE queue
  /\ dirty' = [dirty EXCEPT ![d] = @ /\ ~plan[d].wrote]
  /\ Pushes(d)
  /\ UNCHANGED <<remote, stamp, withdrawn, disk, trash, gate, retries, wire, copies, saved, undone, removed, bounds>>

(* Mutant of UnchangedHere: any file whose row the remote confirmed. *)
UnchangedHereBlindly(d) == row[d].base # Absent
UnchangedHere(d) == row[d].base # Absent /\ disk[d] = row[d].base

(* mirrorRemoteDeletionLocked, with its probe of the remote. *)
MirrorDeletion(d) ==
  /\ At(d, "missing") /\ ~gate[d]
  /\ Pushes(d)
  /\ \/ /\ hasPendingStructuralOp(d) \/ (disk[d] # Absent /\ remote.content # Absent)
        /\ UNCHANGED <<disk, row, queue>>
     \/ /\ ~hasPendingStructuralOp(d) /\ disk[d] = Absent
        /\ row' = [row EXCEPT ![d] = NoRow]
        /\ UNCHANGED <<disk, queue>>
     \/ /\ ~hasPendingStructuralOp(d) /\ disk[d] # Absent /\ remote.content = Absent
        /\ row' = [row EXCEPT ![d] = NoRow]
        /\ IF UnchangedHere(d) THEN disk' = [disk EXCEPT ![d] = Absent] /\ UNCHANGED queue
           ELSE queue' = [queue EXCEPT ![d] = queueWrite(@)] /\ UNCHANGED disk
  /\ UNCHANGED <<remote, stamp, withdrawn, trash, dirty, gate, retries, wire, copies, saved, undone, removed, bounds>>

-----------------------------------------------------------------------------
(* The push: processQueue, for the one entry of the path that is eligible.  *)

(* Mutant of expectedRemoteOf: the upload is never conditional. *)
expectAnything(r) == Stamp

(* The markers an upload may replace: that of the base, or no file at all. *)
expectedRemoteOf(r) ==
  IF r.base # Absent THEN IF r.baseEtag # 0 THEN {r.baseEtag} ELSE Stamp
  ELSE IF r.baseEtag = 0 /\ r.remoteEtag = 0 THEN {0} ELSE Stamp

(* Already what the remote has, as far as the row knows. *)
inSync(d) == disk[d] = row[d].base /\ row[d].remoteEtag # 0

(* The probe before the upload found another marker than the base's. *)
movedOn(d) == row[d].base # Absent /\ row[d].baseEtag # 0 /\ remote.etag \notin {0, row[d].baseEtag}

(* The one entry that is due: the first, which all later ones of the path wait for. *)
Due(d, op) == queue[d] # <<>> /\ queue[d][1].op = op /\ ~queue[d][1].manual

(* The end of a pass: a count belongs to one run of refusals, and ends with the queue. *)
CountEnds(d, q) == refusals' = [refusals EXCEPT ![d] = IF q = <<>> THEN 0 ELSE @]

Quiet(d) ==
  /\ At(d, "push") /\ ~Due(d, "write") /\ ~Due(d, "delete")
  /\ CountEnds(d, queue[d])
  /\ Ends(d)
  /\ UNCHANGED <<remote, stamp, withdrawn, local, row, queue, refused, wire, copies, saved, undone, removed, bounds>>

(* getPendingOperations, once per pass; the entry's turn comes later. *)
PickUp(d, op) ==
  /\ At(d, "push") /\ Due(d, op)
  /\ queue' = [queue EXCEPT ![d] = Take(@)]
  /\ Goes(d, op)
  /\ UNCHANGED <<remote, stamp, withdrawn, local, row, retries, cycle, wire, copies, saved, undone, removed, bounds>>

(* Nothing to push: the file is gone or in sync, or the deletion is stale. *)
Settled(d) ==
  /\ \/ /\ At(d, "write") /\ disk[d] = Absent
        /\ CountEnds(d, markSynced(queue[d]))
     \/ /\ At(d, "write") /\ disk[d] # Absent /\ inSync(d)
        /\ refusals' = [refusals EXCEPT ![d] = 0]
     \/ /\ At(d, "delete") /\ disk[d] # Absent
        /\ CountEnds(d, markSynced(queue[d]))
  /\ queue' = [queue EXCEPT ![d] = markSynced(@)]
  /\ Ends(d)
  /\ UNCHANGED <<remote, stamp, withdrawn, local, row, refused, wire, copies, saved, undone, removed, bounds>>

Deferred(d) ==
  /\ At(d, "write")
  /\ disk[d] # Absent /\ ~inSync(d) /\ movedOn(d)
  /\ queue' = [queue EXCEPT ![d] = Release(@)]
  /\ Ends(d)
  /\ UNCHANGED <<remote, stamp, withdrawn, local, row, retries, wire, copies, saved, undone, removed, bounds>>

(* The upload leaves, journalled; the probe may have been passed, or failed. *)
SendWrite(d) ==
  /\ At(d, "write")
  /\ disk[d] # Absent /\ ~inSync(d) /\ ~movedOn(d)
  /\ row' = [row EXCEPT ![d].journal = disk[d]]
  /\ request' = [request EXCEPT ![d] = [op |-> "write", content |-> disk[d],
                                        expect |-> expectedRemoteOf(row[d])]]
  /\ Goes(d, "sent")
  /\ UNCHANGED <<remote, stamp, withdrawn, local, queue, retries, got, plan, wire, copies, saved, undone, removed, bounds>>

SendDelete(d) ==
  /\ At(d, "delete") /\ disk[d] = Absent
  /\ request' = [request EXCEPT ![d] = [op |-> "delete", content |-> Absent,
                                        expect |-> Stamp]]
  /\ Goes(d, "sent")
  /\ UNCHANGED <<remote, stamp, withdrawn, local, row, queue, retries, got, plan, wire, copies, saved, undone, removed, bounds>>

Edits(version) == IF version.content = Absent THEN {} ELSE version.content

(* The remote carries out r, or refuses it for a version it does not expect. *)
Commits(r) ==
  /\ remote.etag \in r.expect
  /\ IF r.op = "write"
     THEN /\ stamp < MaxStamp
          /\ stamp' = stamp + 1
          /\ remote' = [content |-> r.content, etag |-> stamp + 1]
          /\ withdrawn' = withdrawn \cup (undone \cap (Edits(remote) \ r.content))
          /\ UNCHANGED removed
     ELSE /\ remote' = NoVersion
          /\ removed' = removed \cup Edits(remote)
          /\ UNCHANGED <<stamp, withdrawn>>

Answered(d) ==
  /\ At(d, "sent") /\ Commits(request[d])
  /\ Goes(d, "answered")
  /\ \E told \in AnswersEtag :
       got' = [got EXCEPT ![d] = [NoVersion EXCEPT !.etag = IF told THEN stamp' ELSE 0]]
  /\ UNCHANGED <<local, row, queue, retries, plan, request, wire, copies, saved, undone, bounds>>

(* RemoteChangedError: the journal goes, and the next pull reconciles the file *)
(* whatever it lists; at the last refusal in a row the upload waits instead.   *)
Refused(d) ==
  /\ At(d, "sent") /\ remote.etag \notin request[d].expect
  /\ row' = [row EXCEPT ![d] = clearPendingPushSha(@)]
  /\ IF refusals[d] + 1 < MaxRefusals
     THEN /\ refused' = [refused EXCEPT ![d] = TRUE]
          /\ refusals' = [refusals EXCEPT ![d] = @ + 1]
          /\ queue' = [queue EXCEPT ![d] = Release(@)]
     ELSE /\ refusals' = [refusals EXCEPT ![d] = 0]
          /\ queue' = [queue EXCEPT ![d] = Release(ForPerson(@))]
          /\ UNCHANGED refused
  /\ Ends(d)
  /\ UNCHANGED <<remote, stamp, withdrawn, local, wire, copies, saved, undone, removed, bounds>>

Deleting(d) == pc[d] \in {"sent", "answered", "synced"} /\ request[d].op = "delete"
Recording(d) == pc[d] \in {"confirmed", "based"}
MayFail(d) ==
  /\ faults < MaxFaults
  /\ Deleting(d) => "delete" \in FaultKinds
  /\ Recording(d) => "record" \in FaultKinds

(* No answer arrives: the request was lost, carried out, or is still on its way. *)
Unanswered(d) ==
  /\ At(d, "sent") /\ MayFail(d)
  /\ faults' = faults + 1
  /\ \/ Commits(request[d]) /\ UNCHANGED wire
     \/ UNCHANGED <<remote, stamp, withdrawn, removed, wire>>
     \/ /\ "late" \in FaultKinds /\ request[d].op = "write"
        /\ wire' = wire \cup {request[d]}
        /\ UNCHANGED <<remote, stamp, withdrawn, removed>>
  /\ queue' = [queue EXCEPT ![d] = Release(@)]
  /\ Ends(d)
  /\ UNCHANGED <<local, row, retries, copies, saved, undone, deletes>>

Lands(r) ==
  /\ r \in wire
  /\ wire' = wire \ {r}
  /\ IF remote.etag \in r.expect THEN Commits(r) ELSE UNCHANGED <<remote, stamp, withdrawn, removed>>
  /\ UNCHANGED <<local, row, queue, retries, pc, cycle, copies, saved, undone, bounds>>

MarkSynced(d) ==
  /\ At(d, "answered")
  /\ queue' = [queue EXCEPT ![d] = markSynced(@)]
  /\ refusals' = [refusals EXCEPT ![d] = 0]
  /\ Goes(d, "synced")
  /\ UNCHANGED <<remote, stamp, withdrawn, local, row, refused, cycle, wire, copies, saved, undone, removed, bounds>>

(* updateRemoteState with the answered marker; a deletion takes the row with it. *)
RecordRemote(d) ==
  /\ At(d, "synced")
  /\ IF request[d].op = "delete"
     THEN row' = [row EXCEPT ![d] = NoRow] /\ Ends(d)
     ELSE /\ row' = [row EXCEPT ![d].remoteEtag = IF got[d].etag # 0 THEN got[d].etag ELSE @]
          /\ Goes(d, "confirmed") /\ UNCHANGED cycle
  /\ UNCHANGED <<remote, stamp, withdrawn, local, queue, retries, wire, copies, saved, undone, removed, bounds>>

(* recordSyncedBase, then clearPendingPushSha. *)
RecordPushedBase(d) ==
  /\ At(d, "confirmed")
  /\ row' = [row EXCEPT ![d].base = request[d].content, ![d].baseEtag = got[d].etag]
  /\ Goes(d, "based")
  /\ UNCHANGED <<remote, stamp, withdrawn, local, queue, retries, cycle, wire, copies, saved, undone, removed, bounds>>

ClearJournal(d) ==
  /\ At(d, "based")
  /\ row' = [row EXCEPT ![d] = clearPendingPushSha(@)]
  /\ Ends(d)
  /\ UNCHANGED <<remote, stamp, withdrawn, local, queue, retries, wire, copies, saved, undone, removed, bounds>>

(* "Sync now", and the start of the worker: what waits for a person is tried again. *)
RetryFailed(d) ==
  /\ refusals[d] # 0 \/ Waiting(queue[d]) # <<>>
  /\ refusals' = [refusals EXCEPT ![d] = 0]
  /\ queue' = [queue EXCEPT ![d] = resetStuckOperations(@)]
  /\ UNCHANGED <<remote, stamp, withdrawn, local, row, refused, pc, cycle, wire, copies, saved, undone, removed, bounds>>

(* The app ends: files, rows and queue stay; the cycle and the gate are gone. A *)
(* request under way is lost or lands. The next start tries everything again.   *)
Crash(d) ==
  /\ pc[d] # "idle" \/ gate[d]
  /\ MayFail(d)
  /\ faults' = faults + 1
  /\ IF At(d, "sent") THEN Commits(request[d]) \/ UNCHANGED <<remote, stamp, withdrawn, removed>>
     ELSE UNCHANGED <<remote, stamp, withdrawn, removed>>
  /\ gate' = [gate EXCEPT ![d] = FALSE]
  /\ refused' = [refused EXCEPT ![d] = FALSE] /\ refusals' = [refusals EXCEPT ![d] = 0]
  /\ queue' = [queue EXCEPT ![d] = Release(resetStuckOperations(@))]
  /\ Ends(d)
  /\ UNCHANGED <<disk, trash, dirty, row, wire, copies, saved, undone, deletes>>

-----------------------------------------------------------------------------
User(d) ==
  \/ \E e \in Edit : Save(d, e) \/ Undo(d, e)
  \/ Delete(d) \/ Restore(d)

Pull(d) ==
  \/ List(d) \/ Download(d) \/ Reconcile(d)
  \/ RecordPulledBase(d) \/ RecordPulled(d) \/ MirrorDeletion(d)

Push(d) ==
  \/ Quiet(d) \/ PickUp(d, "write") \/ PickUp(d, "delete") \/ Settled(d) \/ Deferred(d)
  \/ SendWrite(d) \/ SendDelete(d) \/ Answered(d) \/ Refused(d)
  \/ MarkSynced(d) \/ RecordRemote(d) \/ RecordPushedBase(d) \/ ClearJournal(d)

Next ==
  \/ \E d \in Device : User(d) \/ RetryFailed(d) \/ Announce(d)
  \/ \E d \in Device : Pull(d) \/ Push(d) \/ Unanswered(d) \/ Crash(d)
  \/ \E r \in wire : Lands(r)

(* Cycles are scheduled again and again, the chain's gate is handed on, and   *)
(* what is on its way arrives; faults are finitely many, users need not edit. *)
Fairness ==
  /\ \A d \in Device : WF_vars(Announce(d)) /\ WF_vars(Pull(d)) /\ WF_vars(Push(d))
  /\ WF_vars(\E r \in wire : Lands(r))

Spec == Init /\ [][Next]_vars
FairSpec == Spec /\ Fairness

-----------------------------------------------------------------------------
Row == [base : File, baseEtag : Stamp, remoteEtag : Stamp, journal : File]
Version == [content : File, etag : Stamp]
Request == [op : {"none", "write", "delete"}, content : File, expect : SUBSET Stamp]
WriteHasText(r) == r.op = "write" => r.content # Absent
HasText(d) == WriteHasText(request[d]) /\ (pc[d] = "fetched" => got[d].content # Absent)

QueueEntry == [op : {"write", "delete"}, taken : BOOLEAN, manual : BOOLEAN]
Working == {"write", "delete", "sent", "answered"}
InHand(d) == pc[d] \in Working

(* A queue whose first entry alone may be taken, by a cycle that has one in hand, *)
(* or wait for a person.                                                          *)
QueueOK(q, inHand) ==
  /\ q \in Seq(QueueEntry)
  /\ \A i \in 1..Len(q) : (q[i].taken => i = 1 /\ inHand) /\ (q[i].manual => i = 1)

Phase == {"idle", "listed", "fetched", "merged", "recorded", "missing", "push",
          "write", "delete", "sent", "answered", "synced", "confirmed", "based"}

Types ==
  /\ remote \in Version /\ stamp \in Stamp
  /\ remote.etag <= stamp /\ (remote.etag = 0 <=> remote.content = Absent)
  /\ disk \in [Device -> File] /\ trash \in [Device -> File]
  /\ dirty \in [Device -> BOOLEAN] /\ gate \in [Device -> BOOLEAN]
  /\ row \in [Device -> Row]
  /\ queue = [d \in Device |-> queue[d]]
  /\ refused \in [Device -> BOOLEAN] /\ refusals \in [Device -> 0..(MaxRefusals - 1)]
  /\ pc \in [Device -> Phase]
  /\ got \in [Device -> Version]
  /\ plan \in [Device -> [wrote : BOOLEAN, push : BOOLEAN, echo : BOOLEAN]]
  /\ request \in [Device -> Request] /\ \A d \in Device : HasText(d)
  /\ wire \subseteq Request /\ \A r \in wire : WriteHasText(r)
  /\ copies \in [Device -> SUBSET Content]
  /\ saved \subseteq Edit /\ removed \subseteq Edit
  /\ undone \subseteq Edit /\ withdrawn \subseteq undone
  /\ deletes \in 0..MaxDeletes /\ faults \in 0..MaxFaults

QueuesOK == \A d \in Device : QueueOK(queue[d], InHand(d))

(* The types of the state; the remote's marker is one it gave, or none without a *)
(* file, and the engine has hold of an entry only while it carries it out.       *)
TypeOK == Types /\ QueuesOK

Contains(file, e) == file # Absent /\ e \in file
InCopies(e) == \E d \in Device : \E c \in copies[d] : e \in c

(* No edit that no user took out is ever gone: it is on the remote, in a file *)
(* on some device, or in a conflict copy.                                     *)
NoEditLost ==
  \A e \in saved \ (undone \cup removed) :
    \/ Contains(remote.content, e)
    \/ \E d \in Device : Contains(disk[d], e)
    \/ InCopies(e)

(* No upload replaces a version whose edits it has not taken in: an edit the *)
(* remote had stays there unless a user took it out or deleted the file, or  *)
(* it was set aside in a conflict copy (Sammelplan 3.103).                   *)
RemoteKeepsEdits ==
  [][\A e \in saved \ (undone' \cup removed') :
       Contains(remote.content, e) => Contains(remote'.content, e) \/ InCopies(e)]_vars

(* With one device there is nobody to be in conflict with. *)
NoConflictWithOneself == \A d \in Device : copies[d] = {}

(* The sync of a single device never changes the user's file, unless a crash *)
(* cut the user's change off before it was announced.                        *)
OnlyTheUserChangesFiles ==
  [][\A d \in Device : disk'[d] # disk[d] => dirty[d] \/ (gate'[d] /\ ~gate[d])]_vars

(* An edit that a user took out and whose upload took it off the remote does *)
(* not come back by itself: no merge and no echo of an upload revives it.     *)
UndoHolds == \A e \in withdrawn : ~Contains(remote.content, e)

(* SyncWorker.ts:2045 says of an echo that "the local file already carries NEWER *)
(* edits typed since then"; a file without a change of its own is not kept        *)
(* against the version pulled, it takes that version.                             *)
CleanFileFollows ==
  [][\A d \in Device :
       /\ pc[d] = "fetched" /\ pc'[d] = "merged"
       /\ disk[d] = row[d].base /\ ~dirty[d] /\ queue[d] = <<>>
       => disk'[d] = got[d].content]_vars

(* Once users and faults come to rest, all devices and the remote hold the same file. *)
Converged == \A d \in Device : disk[d] = remote.content
Convergence == <>[]Converged
=============================================================================
