------------------------------ MODULE SyncQueue ------------------------------
(***************************************************************************)
(* The order of the offline queue: one device whose user writes, creates,  *)
(* moves and deletes files and folders while sync/SyncQueue.ts and         *)
(* processQueue of sync/SyncEngine.ts carry the changes to a remote that   *)
(* nobody else changes, in cycles that pull before they push.              *)
(*                                                                         *)
(* A path is the sequence of its names.  What stands at a path is nothing, *)
(* a folder, or a version of a file.  A row of sync_state is the version   *)
(* its base and its marker name.  What two versions of one file do to each *)
(* other is FileSync's business; a reconcile between them here takes the   *)
(* remote's for an earlier one of this device's.  The pushes of a pass     *)
(* come in any order of what the queue calls eligible (getPendingOperations*)
(* sorts it by the files' times).  The gap between a change on disk and    *)
(* its entry in the queue, which OwedQueue models, is the sequence owed.   *)
(***************************************************************************)
EXTENDS Integers, SequencesExt, FiniteSetsExt

CONSTANTS Paths,       \* the paths in use
          Trees,       \* what stands where in the beginning: at both ends or, "away", on the remote only
          MaxOps,      \* bound: changes by the user
          MaxFaults,   \* bound: failed pushes, lost answers and restarts
          MaxOwed,     \* bound: changes on disk whose entry is not written yet
          Lossy,       \* the operations whose answer may be lost
          Reused,      \* the changes whose names the user takes again before they are pushed
          InGap        \* whether the engine comes to a write while a move is owed

Parent(p) == Front(p)
AtRoot(p) == Len(p) = 1
FolderPaths == {Parent(p) : p \in {q \in Paths : ~AtRoot(q)}}
FilePaths == Paths \ FolderPaths

ASSUME SyncQueueAssumption ==
  /\ IsFiniteSet(Paths) /\ Paths \subseteq Seq(UNION {Range(p) : p \in Paths}) \ {<<>>}
  /\ \A p \in Paths : \A n \in 1..Len(p) : SubSeq(p, 1, n) \in Paths
  /\ Trees \subseteq [Paths -> {"none", "folder", "file", "away"}]
  /\ MaxOps \in Nat /\ MaxFaults \in Nat /\ MaxOwed \in Nat \ {0} /\ InGap \in BOOLEAN
  /\ Lossy \subseteq {"write", "mkdir", "rename", "delete"} /\ Reused \subseteq {"rename", "delete"}

containsPath(p, q) == IsPrefix(p, q)
overlaps(p, q) == containsPath(p, q) \/ containsPath(q, p)
Rebase(p, from, to) == to \o SubSeq(p, Len(from) + 1, Len(p))

(* A name is a folder's or a file's, also where a folder goes with what is *)
(* in it; what stands somewhere stands in a folder.                        *)
SameKind(p, q) == p \in FolderPaths <=> q \in FolderPaths
ASSUME KindsAssumption ==
  /\ \A t \in Trees : /\ \A p \in FolderPaths : t[p] \in {"none", "folder"}
                      /\ \A p \in FilePaths : t[p] \in {"none", "file", "away"}
                      /\ \A p, q \in Paths : p # q /\ containsPath(p, q) /\ t[q] # "none" => t[p] = "folder"
  /\ \A p, q, r \in Paths : containsPath(p, r) /\ SameKind(p, q) /\ Rebase(r, p, q) \in Paths
                              => SameKind(r, Rebase(r, p, q))

VARIABLES disk,      \* what the vault holds at each path
          remote,    \* what the remote holds there
          base,      \* the version a path's row of sync_state names, or None
          rows,      \* offline_queue
          lastId,    \* the id it gave last
          owed,      \* changes on disk whose entry is not written yet, oldest first
          pass,      \* the entries processQueue has taken and not come to yet
          job,       \* the entry under way
          edits, faults

vars == <<disk, remote, base, rows, lastId, owed, pass, job, edits, faults>>
trees == <<disk, remote, base>>

None == [kind |-> "none"]
Folder == [kind |-> "folder"]
Version(p, born, n) == [kind |-> "file", file |-> <<p, born>>, n |-> n]
Elsewhere == -1
IsFile(x) == x.kind = "file"
Idle == [phase |-> "idle"]

(* A tree after a move: what stood at `from' and below it stands at `to'   *)
(* and below it, in place of what stood there.                             *)
Moved(t, from, to) ==
  [p \in Paths |-> IF containsPath(to, p)
                   THEN LET q == Rebase(p, to, from) IN IF q \in Paths THEN t[q] ELSE None
                   ELSE IF containsPath(from, p) THEN None ELSE t[p]]
Without(t, top) == [p \in Paths |-> IF containsPath(top, p) THEN None ELSE t[p]]

(* A change and its entry.  A rename names where it goes; any other change *)
(* names its path twice, and a deletion the files that went with a folder. *)
Change(op, p, q, below) == [op |-> op, path |-> p, to |-> q, force |-> FALSE, below |-> below]
Row(id, op, p, q, force) == [id |-> id, op |-> op, path |-> p, to |-> q, force |-> force, wait |-> FALSE]
endpoints(r) == IF r.op = "rename" THEN {r.path, r.to} ELSE {r.path}
(* Mutant of Touches: only the paths themselves, not what is below or above. *)
TouchesItself(r, s) == endpoints(r) \cap endpoints(s) # {}
Touches(r, s) == \E p \in endpoints(r), q \in endpoints(s) : overlaps(p, q)
Structural == {"rename", "delete"}

Init ==
  /\ \E t \in Trees :
       /\ disk = [p \in Paths |-> CASE t[p] \in {"none", "away"} -> None
                                    [] t[p] = "folder" -> Folder
                                    [] t[p] = "file" -> Version(p, 0, 0)]
       /\ remote = [p \in Paths |-> IF t[p] = "away" THEN Version(p, Elsewhere, 0) ELSE disk[p]]
  /\ base = [p \in Paths |-> IF IsFile(disk[p]) THEN disk[p] ELSE None]
  /\ rows = {} /\ lastId = 0 /\ owed = <<>>
  /\ pass = {} /\ job = Idle
  /\ edits = 0 /\ faults = 0

-----------------------------------------------------------------------------
(* The user's changes, on disk first.                                      *)

Edited(change) ==
  /\ edits < MaxOps /\ edits' = edits + 1
  /\ Len(owed) < MaxOwed /\ owed' = Append(owed, change)
  /\ UNCHANGED <<remote, base, rows, lastId, pass, job, faults>>
HasRoom(p) == IF AtRoot(p) THEN TRUE ELSE disk[Parent(p)] = Folder
Queued(op) == {r \in rows : r.op = op} \cup {owed[i] : i \in {k \in DOMAIN owed : owed[k].op = op}}
Concerned(op, p) == \E c \in Queued(op) : \E q \in endpoints(c) : overlaps(q, p)
(* What this device has yet to download; two files of one name are left to *)
(* FileSync.                                                               *)
Newcomer(x) == IsFile(x) /\ x.file[2] = Elsewhere /\ \A q \in Paths : x \notin {disk[q], base[q]}
Vacant(p) == disk[p] = None /\ HasRoom(p) /\ ~Newcomer(remote[p])
Free(p) == Vacant(p) /\ \A op \in Structural \ Reused : ~Concerned(op, p)
FilesBelow(p) == {q \in Paths : q # p /\ containsPath(p, q) /\ IsFile(disk[q])}

writeFile(p) ==
  /\ p \in FilePaths /\ (IsFile(disk[p]) \/ Free(p))
  /\ Edited(Change("write", p, p, {}))
  /\ disk' = [disk EXCEPT ![p] = IF IsFile(@) THEN [@ EXCEPT !.n = edits'] ELSE Version(p, edits', edits')]

createDir(p) ==
  /\ p \in FolderPaths /\ Free(p)
  /\ Edited(Change("mkdir", p, p, {}))
  /\ disk' = [disk EXCEPT ![p] = Folder]

renameItem(p, q) ==
  /\ disk[p] # None /\ Free(q) /\ ~containsPath(p, q)
  /\ SameKind(p, q)
  /\ \A r \in Paths : containsPath(p, r) => Rebase(r, p, q) \in Paths
  /\ Edited(Change("rename", p, q, {}))
  /\ disk' = Moved(disk, p, q)

deleteItem(p) ==
  /\ disk[p] # None
  /\ Edited(Change("delete", p, p, FilesBelow(p)))
  /\ disk' = Without(disk, p)

-----------------------------------------------------------------------------
(* Their entries.                                                          *)

structuralAt(p) == \E r \in rows : r.path = p /\ r.op \in Structural

queueWrite(p, force) ==
  LET superseded == IF structuralAt(p) THEN {} ELSE {r \in rows : r.path = p /\ r.op = "write"}
  IN (rows \ superseded) \cup {Row(lastId + 1, "write", p, p, force)}

SinceMadeAnew(r, p) ==
  \E s \in rows : s.id > r.id /\ s.op \in Structural /\ \E q \in endpoints(s) : overlaps(p, q)
hasMkdir(p) == \E r \in rows : r.op = "mkdir" /\ r.path = p /\ ~SinceMadeAnew(r, p)
queueMkdir(p) == IF hasMkdir(p) THEN rows ELSE rows \cup {Row(lastId + 1, "mkdir", p, p, FALSE)}

Numbered(op, ps, force) == {Row(lastId + i, op, ps[i], ps[i], force) : i \in DOMAIN ps}
queueDeletePaths(p, below) == rows \cup Numbered("delete", <<p>> \o SetToSeq(below), FALSE)

(* Mutant of queueRename: queued writes keep their old paths. *)
queueRenameLeavesWrites(p, q) == rows \cup {Row(lastId + 1, "rename", p, q, FALSE)}
writesBelow(p) == {r \in rows : r.op = "write" /\ containsPath(p, r.path)}
queueRename(p, q) ==
  LET Again(w) == [w EXCEPT !.id = lastId + 1 + Cardinality({v \in writesBelow(p) : v.id <= w.id}),
                            !.path = Rebase(@, p, q), !.to = Rebase(@, p, q)]
  IN (rows \ writesBelow(p)) \cup {Row(lastId + 1, "rename", p, q, FALSE)} \cup {Again(w) : w \in writesBelow(p)}

enqueue(c) == CASE c.op = "write" -> queueWrite(c.path, FALSE)
                [] c.op = "mkdir" -> queueMkdir(c.path)
                [] c.op = "delete" -> queueDeletePaths(c.path, c.below)
                [] c.op = "rename" -> queueRename(c.path, c.to)

(* Mutant of idsFor: one id for each change. *)
idsForOne(c) == 1

(* The ids that go to the entries of a change; none is given twice.        *)
idsFor(c) == CASE c.op = "write" -> 1
               [] c.op = "mkdir" -> IF hasMkdir(c.path) THEN 0 ELSE 1
               [] c.op = "delete" -> 1 + Cardinality(c.below)
               [] c.op = "rename" -> 1 + Cardinality(writesBelow(c.path))

(* The rows of sync_state go along, in place of those where they go.       *)
renameSyncStateTree(p, q) ==
  LET Comes(r) == containsPath(q, r) /\ Rebase(r, q, p) \in Paths /\ base[Rebase(r, q, p)] # None
  IN [r \in Paths |-> IF Comes(r) THEN base[Rebase(r, q, p)]
                      ELSE IF containsPath(p, r) THEN None ELSE base[r]]

WriteEntry ==
  /\ owed # <<>>
  /\ LET c == Head(owed)
     IN /\ rows' = enqueue(c)
        /\ lastId' = lastId + idsFor(c)
        /\ base' = IF c.op = "rename" THEN renameSyncStateTree(c.path, c.to) ELSE base
  /\ owed' = Tail(owed)
  /\ UNCHANGED <<disk, remote, pass, job, edits, faults>>

(* Mutant of hasPendingStructuralOp: owed entries do not count. *)
hasPendingStructuralOpQueued(p) == \E r \in rows : r.op \in Structural /\ \E q \in endpoints(r) : containsPath(q, p)

(* What the pull asks before it believes a listing: owed entries count.    *)
hasPendingStructuralOp(p) ==
  \/ \E i \in DOMAIN owed : /\ owed[i].op \in Structural
                            /\ \E q \in {owed[i].path, owed[i].to} \cup owed[i].below : containsPath(q, p)
  \/ \E r \in rows : r.op \in Structural /\ \E q \in endpoints(r) : containsPath(q, p)

-----------------------------------------------------------------------------
(* The order of the pushes.                                                *)

(* Mutant of followsRename: whatever lies between, a write below the target follows. *)
followsRenameAlways(w, r) == containsPath(r.to, w.path)
followsRename(w, r) ==
  /\ containsPath(r.to, w.path)
  /\ \/ w.id > r.id
     \/ ~\E s \in rows : /\ s.op # "write" /\ w.id < s.id /\ s.id < r.id
                         /\ \E p \in endpoints(s) : overlaps(p, w.path)

Blocks(prior, r) ==
  \/ /\ r.op = "write" /\ prior.op = "write"
     /\ prior.id < r.id /\ prior.path = r.path
  \/ /\ r.op = "write" /\ prior.op # "write"
     /\ prior.id < r.id /\ Touches(prior, r)
  \/ /\ r.op = "write" /\ prior.op = "rename"
     /\ followsRename(r, prior)
  \/ /\ r.op # "write" /\ prior.op # "write"
     /\ prior.id < r.id /\ Touches(prior, r)
  \/ /\ r.op # "write" /\ prior.op = "write"
     /\ prior.id < r.id /\ Touches(prior, r)
     /\ ~(r.op = "rename" /\ followsRename(prior, r))

Unblocked(r) == \A prior \in rows : ~Blocks(prior, r)
getPendingOperations == {r \in rows : Unblocked(r) /\ ~r.wait}

-----------------------------------------------------------------------------
(* processQueue.                                                           *)

Retired(r) == {s \in rows : s.id # r.id}
Held(r) == {IF s.id = r.id THEN [s EXCEPT !.wait = TRUE] ELSE s : s \in rows}

StartPass ==
  /\ job = Idle /\ pass = {} /\ getPendingOperations # {}
  /\ pass' = getPendingOperations
  /\ UNCHANGED <<trees, rows, lastId, owed, job, edits, faults>>

(* Mutant of Settled: a deletion is pushed although the file came back. *)
SettledUnlessStale(r) ==
  \/ r.op = "write" /\ disk[r.path] = None
  \/ r.op = "write" /\ ~r.force /\ disk[r.path] = base[r.path]

(* Nothing is left to do for the entry: its file is gone, or came back, or *)
(* holds what the remote holds.                                            *)
Settled(r) ==
  \/ r.op = "delete" /\ disk[r.path] # None
  \/ r.op = "write" /\ disk[r.path] = None
  \/ r.op = "write" /\ ~r.force /\ disk[r.path] = base[r.path]

Drop(r) ==
  /\ job = Idle /\ r \in pass /\ Settled(r)
  /\ r.op = "write" => InGap \/ owed = <<>>
  /\ rows' = Retired(r)
  /\ pass' = pass \ {r}
  /\ UNCHANGED <<trees, lastId, owed, job, edits, faults>>

Send(r) ==
  /\ job = Idle /\ r \in pass /\ ~Settled(r)
  /\ job' = [phase |-> "sent", row |-> r, content |-> disk[r.path], expected |-> base[r.path], force |-> r.force]
  /\ pass' = pass \ {r}
  /\ UNCHANGED <<trees, rows, lastId, owed, edits, faults>>

(* The remote: a write states what it expects there; a move of what is not *)
(* there says so, and needs the folder it goes to.                         *)
Put(t, p, v) == [q \in Paths |-> IF q = p THEN v
                                 ELSE IF q # p /\ containsPath(q, p) THEN Folder ELSE t[q]]
Written(r) == IF r.op = "write" THEN r.path ELSE r.to
Answers(outcome, t) ==
  /\ remote' = t
  /\ job' = [job EXCEPT !.phase = outcome]

Carry ==
  /\ job.phase = "sent"
  /\ LET r == job.row IN
     \/ /\ r.op = "delete"
        /\ Answers("done", Without(remote, r.path))
     \/ /\ r.op = "mkdir"
        /\ Answers("done", Put(remote, r.path, Folder))
     \/ /\ r.op = "write" \/ job.force
        /\ IF job.force \/ remote[r.path] = job.expected
           THEN Answers("done", Put(remote, Written(r), job.content))
           ELSE Answers("refused", remote)
     \/ /\ r.op = "rename" /\ ~job.force
        /\ CASE remote[r.path] = None -> Answers("missing", remote)
             [] remote[r.path] # None /\ (AtRoot(r.to) \/ remote[Parent(r.to)] = Folder) ->
                  Answers("done", Moved(remote, r.path, r.to))
             [] OTHER -> Answers("failed", remote)
  /\ UNCHANGED <<disk, base, rows, lastId, owed, pass, edits, faults>>

Finish ==
  /\ job.phase \in {"done", "refused", "failed"}
  /\ LET r == job.row
         wrote == job.phase = "done" /\ (r.op = "write" \/ job.force)
     IN /\ rows' = CASE job.phase = "done" -> Retired(r)
                     [] job.phase = "refused" -> rows
                     [] job.phase = "failed" -> Held(r)
        /\ base' = IF wrote THEN [base EXCEPT ![Written(r)] = job.content]
                   ELSE IF job.phase = "done" /\ r.op = "delete" THEN [base EXCEPT ![r.path] = None]
                   ELSE base
  /\ job' = Idle
  /\ UNCHANGED <<disk, remote, lastId, owed, pass, edits, faults>>

(* The remote does not hold what an entry moves: what the vault holds goes *)
(* up under its new name.                                                  *)
SourceMissing ==
  /\ job.phase = "missing"
  /\ LET r == job.row
         again == FilesBelow(r.to)
         superseded == {s \in rows : s.op = "write" /\ s.path \in again /\ ~structuralAt(s.path)}
     IN \/ /\ disk[r.to] = None
           /\ rows' = Retired(r) /\ job' = Idle
           /\ UNCHANGED <<remote, lastId>>
        \/ /\ disk[r.to] = Folder
           /\ remote' = Put(remote, r.to, Folder)
           /\ rows' = (Retired(r) \ superseded) \cup Numbered("write", SetToSeq(again), TRUE)
           /\ lastId' = lastId + Cardinality(again)
           /\ job' = Idle
        \/ /\ IsFile(disk[r.to])
           /\ job' = [job EXCEPT !.phase = "sent", !.content = disk[r.to], !.force = TRUE]
           /\ UNCHANGED <<rows, remote, lastId>>
  /\ UNCHANGED <<disk, base, owed, pass, edits, faults>>

(* A push that fails, before the remote acted on it or after, waits.       *)
PushFails ==
  /\ job.phase = "sent" \/ (job # Idle /\ job.row.op \in Lossy)
  /\ faults < MaxFaults /\ faults' = faults + 1
  /\ rows' = Held(job.row)
  /\ job' = Idle
  /\ UNCHANGED <<trees, lastId, owed, pass, edits>>
BackoffOver(r) ==
  /\ r \in rows /\ r.wait
  /\ rows' = (rows \ {r}) \cup {[r EXCEPT !.wait = FALSE]}
  /\ UNCHANGED <<trees, lastId, owed, pass, job, edits, faults>>

-----------------------------------------------------------------------------
(* What a pull does at a path whose marker is not the row's.               *)

Pulls(p) == job = Idle /\ pass = {} /\ ~hasPendingStructuralOp(p) /\ remote[p] # base[p]

Download(p) ==
  /\ Pulls(p) /\ IsFile(remote[p]) /\ disk[p] = None
  /\ disk' = Put(disk, p, remote[p])
  /\ base' = [base EXCEPT ![p] = remote[p]]
  /\ UNCHANGED <<remote, rows, lastId, owed, pass, job, edits, faults>>
Requeues(p, again) ==
  /\ rows' = IF again THEN queueWrite(p, FALSE) ELSE rows
  /\ lastId' = IF again THEN lastId + 1 ELSE lastId
Reconcile(p) ==
  /\ Pulls(p) /\ IsFile(remote[p]) /\ IsFile(disk[p])
  /\ base' = [base EXCEPT ![p] = remote[p]]
  /\ Requeues(p, disk[p] # remote[p])
  /\ UNCHANGED <<disk, remote, owed, pass, job, edits, faults>>
MirrorDeletion(p) ==
  /\ Pulls(p) /\ p \in FilePaths /\ remote[p] = None
  /\ base' = [base EXCEPT ![p] = None]
  /\ disk' = IF disk[p] = base[p] THEN [disk EXCEPT ![p] = None] ELSE disk
  /\ Requeues(p, disk[p] \notin {None, base[p]})
  /\ UNCHANGED <<remote, owed, pass, job, edits, faults>>

User == \E p \in Paths : \/ writeFile(p) \/ createDir(p) \/ deleteItem(p)
                        \/ \E q \in Paths : renameItem(p, q)
Sync == \/ WriteEntry \/ StartPass \/ Carry \/ Finish \/ SourceMissing
        \/ \E r \in pass : Drop(r) \/ Send(r)
        \/ \E r \in rows : BackoffOver(r)
Pull == \E p \in Paths : Download(p) \/ Reconcile(p) \/ MirrorDeletion(p)
Next == User \/ Sync \/ Pull \/ PushFails

(* Every cycle pulls, then pushes; a cycle that has begun ends.            *)
Spec == /\ Init /\ [][Next]_vars
        /\ WF_vars(Sync) /\ \A p \in Paths : SF_vars(Download(p) \/ Reconcile(p) \/ MirrorDeletion(p))

-----------------------------------------------------------------------------
(* What the variables hold; rows are told apart by ids the queue has given.*)
RowsNumbered == /\ \A r \in rows : r.id \in 1..lastId
                /\ \A r, s \in rows : r.id = s.id => r = s
TypeOK ==
  /\ \A p \in FolderPaths : {disk[p], remote[p]} \subseteq {None, Folder} /\ base[p] = None
  /\ \A p \in FilePaths : Folder \notin {disk[p], remote[p], base[p]}
  /\ RowsNumbered

(* Nobody else changes the remote, so the sync changes nothing on disk but *)
(* to bring what this device never had: no pull takes a file back whose    *)
(* move or deletion is on its way, brings back one that left, or believes a*)
(* state of the remote halfway through the pushes (hasPendingStructuralOp, *)
(* mirrorRemoteDeletion, Download).                                        *)
SyncLeavesDiskAlone ==
  [][disk' # disk /\ edits' = edits => \E p \in Paths : Newcomer(remote[p]) /\ disk' = [disk EXCEPT ![p] = remote[p]]]_vars

(* A pull never finds at a path a version of a file this device has        *)
(* elsewhere: moves of files and of folders reach the remote in an order in*)
(* which none takes another's content along, and sync_state follows them   *)
(* (getPendingOperations, queueRename).                                    *)
StrangersNeverMeet ==
  \A p, q \in FilePaths : Pulls(p) /\ IsFile(remote[p]) /\ IsFile(disk[q]) /\ remote[p].file = disk[q].file => p = q

(* A push takes from the remote the only copy of what the vault still holds*)
(* only while a write is queued that carries it up again: no deletion of a *)
(* file that was moved away or made anew, no move onto another file, no    *)
(* move of a folder behind a file that left it.                            *)
OnRemote(v) == \E q \in Paths : remote[q] = v
AfterMoves(q) == FoldLeft(LAMBDA at, c : IF c.op = "rename" /\ containsPath(c.path, at)
                                        THEN Rebase(at, c.path, c.to) ELSE at, q, owed)
GoesUp(p) == \E r \in rows : r.op = "write" /\ AfterMoves(r.path) = p
RemoteKeepsCopies ==
  [][\A p \in FilePaths : IsFile(disk[p]) /\ OnRemote(disk[p]) => (\E q \in Paths : remote'[q] = disk[p]) \/ GoesUp(p)]_vars

(* The entries of a queue never wait for one another in a circle, although *)
(* a write waits for a later move to where it stands and a move for earlier*)
(* writes at its ends (getPendingOperations).                              *)
SomethingIsDue == rows # {} => \E r \in rows : Unblocked(r)

(* Once the user rests and pushes succeed, the remote comes to hold what   *)
(* the vault holds and stays there: no change is left behind, sent twice   *)
(* round, or overtaken for good (queue, processQueue and pull together).   *)
Converges == <>[](\A p \in FilePaths : remote[p] = disk[p])
==============================================================================
