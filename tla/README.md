# Verification of Plainva's sync core

Plainva keeps a vault of Markdown files on several devices and syncs it with a
remote the user chooses (WebDAV, S3, Drive, OneDrive, Dropbox). There is no
server of its own: every device works on its files, whether online or not, and
reconciles with the remote in cycles. What can go wrong lies between the awaits
of that cycle, and this directory models it in TLA+, checks it with TLC and
proves the parts that hold for every size with TLAPS.

Line numbers below refer to `packages/core/src/`. `PROJECT.json` maps every
definition to the lines it stands for.

## 1. Inventory

### 1.1 The components that carry the sync

| component | state | operations | talks to |
|---|---|---|---|
| **Path gate** `vault/pathMutation.ts` | per scope, a map from lock key (a path and its ancestors, case folded) to the promise of the last call | `withPathMutation(scope, paths, action)` | every writer of the vault and the pull |
| **Queueing adapter** `vault/QueueingVaultAdapter.ts` | the files, through the adapter it wraps; the owed queue | `writeTextFile`, `deleteItem`, `renameItem`, ... : the change on disk, then its entry | gate, owed queue, sync queue |
| **Owed queue** `vault/owedQueueEntries.ts` | entries owed to the database, the running pass, a retry timer, whether an entry was given up | `enqueue`, `flush`, `hasOwedStructuralOp`; passes and timer | the sync queue's database |
| **Sync queue** `sync/SyncQueue.ts` | table `offline_queue`: write, delete and rename entries, retry counts, next attempt, confirmation marks | `queueWrite`, `queueDelete...`, `queueRename`, `getPendingOperations`, `markSynced`, `incrementRetry`, `deferToReconcile`, `markRequiresManualIntervention`, `resetStuckOperations`, `hasPendingStructuralOp` | adapter (producer), pull (producer, reader), push (consumer) |
| **Sync state** `vault/SyncStateRepository.ts` | table `sync_state`, per path: base text, the base's marker, the last remote marker, the journal of an upload on its way | `recordSyncedBase`, `updateRemoteState`, `setPendingPushSha`, `clearPendingPushSha`, `deleteSyncState` | pull and push |
| **Sync worker** `sync/SyncWorker.ts` | cycle generation, `isSyncing`, `pendingSyncRequest`, backoff, cursor, held deletions | `start`, `stop`, `triggerImmediate`, `retryFailed`, `runCycle` with `reconcilePulledFile`, `reconcileDownloadedFile`, `mirrorRemoteDeletionLocked` | target, gate, queue, rows, journal, engine |
| **Sync engine** `sync/SyncEngine.ts` | refused paths and how often in a row | `processQueue`, `takeReconcileAgain`, `resetRefusals` | queue, rows, target |
| **Text merge** `conflict-resolver.ts` | none | `mergeText` | reconcile |
| **Conditional writes** `sync/conditionalWrite.ts` and the targets | what the server's conditions are worth | upload that replaces one version only | the remote |
| **Deletion journal** `sync/deletionJournal.ts` | entries and retractions of several devices | record, retract, merge, prune | worker |
| **Write chain, conflict sessions** `vault/ConflictAwareVaultAdapter.ts`, `vault/conflictSession.ts` | hashes of what was read, stored conflict sessions | guarded write, open, resolve, recover | editor, pull |

Around them are the index and its queries, encrypted workspaces, settings sync,
Markdown processing, comments, calendar, mail, tasks, the AI harness and the two
shells. They are listed in `PROJECT.json` with the reason they are not modelled:
pure text processing, I/O, or subsystems with protocols of their own.

### 1.2 How a change travels

1. The user saves. Under the path's gate the adapter writes the file and awaits
   the entry in the queue; if the database refuses it, the entry is *owed*.
2. A cycle begins with the **pull**: the listing is compared with the rows; a
   file whose marker differs, or whose upload was refused, is downloaded. Under
   the gate it is reconciled with the local text against the base (take theirs,
   keep mine, merge, or set mine aside in a conflict copy), and the base, the
   remote marker and possibly a new upload are recorded, in separate writes.
   A synced file missing in the listing is mirrored as a deletion.
3. The **push** takes the entries that are due. A write is read from disk,
   journalled, and uploaded under the condition that the remote still has the
   base's version; the answer is recorded in four writes (entry, remote marker,
   base, journal). A refused upload waits for the next cycle's reconcile; after
   five refusals in a row it waits for a person.

### 1.3 What is hard

- The user acts between any two awaits of a cycle, and so do the other devices.
- Reconcile, and the recording of an upload, consist of several writes; the app
  can end between any two of them.
- An answer can be lost although the request was carried out, and an upload
  given up can land after its successor.
- The listing's marker may be older than the text downloaded for it.
- Refused and deferred uploads depend on a later reconcile, which in turn is
  skipped while a deletion is pending: waiting in a circle.
- Entries are owed, retried, given up and flushed while others are announced.
- A cycle that hangs is abandoned but not stopped: it may end long after the next
  ones have begun, and triggers, timers, stops and resolutions come at any time.
- Moves of files and folders rewrite the entries already queued, and the order in which the
  queue lets its entries go must neither move one file over another nor wait in a circle.
- A file missing in a listing may be deleted, moved, or left out by a broken listing. The
  worker probes, consults a journal that all devices write without a lock, and asks a
  person before many files go; the answer arrives in a later cycle, or in the middle of one.
- An open conflict lives in several files (the journal of the session, a working copy,
  copies set aside) that other programs also write, and is settled in several steps, any of
  which may be the last before a restart.

`PROJECT.json` lists these as hazards, each at its line, with the properties
that would catch it, or a note where none does yet.

## 2. Modules

| module | models | lines of the source |
|---|---|---|
| `PathLock` | the abstract lock on paths | - (specification) |
| `PathMutation` | the gate | `vault/pathMutation.ts` |
| `PathMutationProofs` | theorems on the gate | |
| `OwedQueue` | owed entries, and the pull's question in two reads | `vault/owedQueueEntries.ts`, `sync/SyncQueue.ts:381-394` |
| `OwedQueueProofs` | all its safety properties | |
| `FileSync` | one file, on all devices and the remote | `SyncWorker.ts` (pull), `SyncEngine.ts` (push), `SyncQueue.ts`, `SyncStateRepository.ts`, `QueueingVaultAdapter.ts`, `conflict-resolver.ts`, `conditionalWrite.ts` |
| `FileSyncProofs` | type correctness of `FileSync` | |
| `FileSyncEditProofs` | edits survive, uploads take in, undoes hold, clean files follow, one device is never in conflict | |
| `SyncCycle` | when cycles run, who has the worker, the cursor | `SyncWorker.ts` (start, timers, triggers, watchdog, stop, resolution, the frame of `runCycle`) |
| `SyncCycleProofs` | all its safety properties | |
| `SyncQueue` | the queue over several paths: folders, moves, deletions, and what a pull may believe meanwhile | `SyncQueue.ts` (`getPendingOperations`, `queueRename`, ...), `SyncEngine.ts`, `SyncWorker.ts` (pull), `QueueingVaultAdapter.ts` |
| `SyncQueueProofs` | all its invariants: kinds and ids, no circular waiting, strangers never meet | |
| `Deletions` | deletions of several devices, the journal, both questions before many files go | `deletionJournal.ts`, `SyncWorker.ts` (mirror, guards, answers), `SyncQueue.ts` |
| `DeletionsProofs` | all its safety properties, and that no journal forgets | |
| `ConflictSession` | the open conflict of a file, and saves, changes and answers that meet it | `vault/conflictSession.ts`, `vault/ConflictAwareVaultAdapter.ts` |
| `ConflictSessionProofs` | answers hold, drafts are known, nothing saved is lost | |
| `MC...` | instances for TLC | |

`PathMutation` and `PathLock` are composed by refinement. `FileSync` and
`OwedQueue` stand beside each other: `FileSync` takes what the gate promises
(`gate[d]` is the user's hold on it) and what the owed queue promises (an
announced change reaches the queue, in order), and these promises are what the
other two modules check. `SyncCycle` is the frame around the cycles of one device:
`FileSync` runs one cycle after another per device, listing everything, and
`SyncCycle` checks that a device has one current cycle at a time and that listing by
a cursor leaves nothing out. `SyncQueue` widens the view to several paths and narrows it to one
device: it takes from `FileSync` that a version of this device's own never conflicts with
it, and composes the disk, the owed entries, the queue, the engine and the pull. `Deletions`
widens it to several devices for the one operation that destroys. `ConflictSession` is what
happens to a file that `FileSync` has set aside, under the gate of `PathMutation`.

### 2.1 PathMutation

A call is a ticket, numbered in the order of the synchronous part of
`withPathMutation`. `Call` is that part as a whole: collecting the tails at the
keys and putting the call's own promise in their place. `Start` is the reaction
to `Promise.all`, `Settle` the end of the action in either way, `CleanUp` the
reaction that removes the call's entries if nobody came after it. `tails` is the
map. One scope is modelled, as scopes share nothing.

`PathLock` says what callers rely on, on paths and not on keys: calls are
granted in the order they were made as far as they conflict, and two conflicting
calls never hold at once. Two calls conflict if a path of one is, or lies below, a
path of the other, in any spelling.

### 2.2 OwedQueue

`stage[c]` is what the caller of change `c` has been told; `owed` the list in
the object, `rows` the table. `pass` is the position of `writeOwed` in its loop;
`waiting` and `due` are the two moments of `passAfterRunning`: before the awaited
pass has ended, and after, but before the waiter's continuation has run, which is
where a second pass may have begun. `Answer` allows a commit whose answer is lost.
Time is the set `late`. `Ask` and `Conclude` are the two reads of
`hasPendingStructuralOp`. `flush` is called at most once, as the shells do.

### 2.3 FileSync

A text is the set of the edits it contains. A save adds one of its own, an undo
takes one out. That is as much of a text as the properties tell apart: whether an
edit was lost, came back, or was merged. `mergeText` keeps what both sides have
and what either side added; whether two changes overlap, and so whether the
result is a merge or a conflict copy, is left open in every step.

The state of a device is its file (`disk`), its row, its queue for the path and
`pc`, the position of its cycle; between any two positions anything else may
happen. The steps of a cycle and the code:

| steps | code |
|---|---|
| `List`, `Download` | listing with skip of unchanged markers, `reconcilePulledFile` |
| `Reconcile` | `reconcileDownloadedFile` up to the written file, under the gate |
| `RecordPulledBase`, `RecordPulled` | its two records and the upload of what is ahead |
| `MirrorDeletion` | `mirrorRemoteDeletionLocked` with its probe |
| `PickUp`, `Settled`, `Deferred`, `SendWrite`, `SendDelete` | `processQueue` up to the request: nothing to do, remote has moved on, or sent |
| `Answered`, `Refused`, `Unanswered` | the three ends of a request |
| `MarkSynced`, `RecordRemote`, `RecordPushedBase`, `ClearJournal` | what an upload records, one write each |
| `Save`, `Undo`, `Delete`, `Restore`, `Announce` | the write chain: the change on disk, its entry later |
| `RetryFailed`, `Crash`, `Lands` | sync now; the app ends and starts; a late upload arrives |

A device starts in sync with an empty file, or with no file at all, where two
devices can each make a first version.

Nothing refers to the content of a marker: markers are numbers that the remote
counts up, 0 is none. `AnswersEtag` says how the remote answers an upload: some
servers name the new marker, some do not, and some do it now and then.

### 2.4 SyncCycle

`isRunning`, `isSyncing`, `pendingSyncRequest`, `currentCycle` and `cursor` are the
worker's fields. Cycle generations are only ever compared, so a cycle is a name of
`Cycle`, and `active` is the one whose generation is `activeCycleGen` and that has
not ended. `timer` is the timer `timeoutId` names; `scheduleNext` overwrites that
field without clearing it, and `orphans` counts the armed timers it no longer names.
`starting` is the await of `start()`, during which a trigger can already begin a cycle.

`run[c]` is how far a cycle has come: `Decide` chooses the kind of listing (and
fetches the token), `List` gets it, `PullNext` and `PullDone` are a file of the pull at
its two boundaries, `LeavePull` the question whether the cycle is still alive,
`Adopt` the end of the push with the new cursor, `Fail` an error wherever it occurs,
`Finish` the `finally` of `executeCycle`. `Abandon` is the watchdog; a cycle it abandons
keeps all its steps and may take them at any later time, or never. The remote is a
sequence of changes, `head` of them so far; `applied` are those that arrived here. A cursor
or token is a position in that sequence.

`Resolve`, `ResolverWakes` and `ResolverEnds` are `resolveNameCollisions`, which waits for
the current cycle, takes the worker as a cycle would, and ends with a trigger.

### 2.5 SyncQueue

A path is the sequence of its names; `disk`, `remote` and `base` (the row of `sync_state`) say
what stands at each. A version of a file is who it is (`file`) and how often it was
written (`n`), so that a file that was moved, one made anew under its old name and an older
version of the same file are told apart. `rows` is `offline_queue`.

| steps | code |
|---|---|
| `writeFile`, `createDir`, `deleteItem`, `renameItem` | the change on disk (`QueueingVaultAdapter.ts`); its entry is owed |
| `WriteEntry` | the entry itself: `queueWrite` with its supersession, `queueRename` with the writes below it that get a new path and a new id, `queueDeletePaths` |
| `StartPass`, `Settled`, `Drop`, `Send` | `getPendingOperations` and `processQueue` up to the request |
| `Carry`, `Finish` | the request is carried out, whether or not its answer arrives; what the engine records of it |
| `SourceMissing`, `PushFails` | a move whose source is not there; a failed push and a restart |
| `Download`, `Reconcile`, `MirrorDeletion` | a pull, one file at a time, where `hasPendingStructuralOp` lets it |

`Blocks` is the order of the queue: which entries an entry waits for. Entries that are
not blocked go in any order.

`Paths` is closed under the folders of its paths, and a path is a folder's or a file's for
good (`KindsAssumption`): a move goes to a path of its kind (`SameKind`) under which all that goes along
has a path.

### 2.6 Deletions

Every act of a person has a time of its own (even numbers), and whatever devices do
between two acts has the odd number between them. A journal is then the time of the newest
deletion and of the newest retraction of each file, and merging two is the maximum.
Files carry versions at the remote (`remote`, and `newest` for the last one given), as a file can go and come back
while a device waits for an answer about it. `cycle[d]` is where the cycle of a device is. Between any two of its steps
persons and the other devices act:

| steps | code |
|---|---|
| `Begin`, `markDeletesJournaled` | `recordQueuedDeletionIntents`: the journal, then the mark on the entries |
| `ReadJournal`, `Publish` | `DeletionJournal.sync`, read and put apart |
| `List` | the listing, what it brings, `retractPaths` of what it refutes |
| `Probe`, `Sort` | the sample; the files the journal explains go first, and only then is sorted who was agreed to, who is open, and whether these are too many |
| `CheckFile`, `RemoveFile`, `ForgetRow` | `mirrorRemoteDeletionLocked`: the question about the one file, the removal, the row, three awaits |
| `Conclude` | the journal of what was done, both questions, which entries may go up |
| `CheckDelete`, `PushDelete`, `PushWrite` | `processQueue`: is the file here again, the request |

While `mirrorRemoteDeletionLocked` has a path (`InHand`), the user's changes to it wait at the gate; the two answers of
a person do not (section 5). If the app ends after the file was removed and before its row went, the next scan may
report the file gone as if the user had deleted it (`Crash`), as the worker's mark on its own deletions is lost.

`session[d]` is what the worker remembers of its questions:
which are on the screen, and which deletions were approved. `MassMin` and `Sample` are
`MASS_DELETE_MIN` and `PROBE_SAMPLE`. The vault has other files besides, which nobody touches: a listing that is `empty` leaves these
out, too. The faults are a listing that omits files, a remote
that lost them, an emptied vault that a scan reports as deletions, a journal that cannot be
read or written, a push that is cut off, a restart, and a day going by (which makes every earlier entry
older than the grace period).

### 2.7 ConflictSession

A text is the set of its edits, as in `FileSync`. `file`, `copy`, `beside` and `aside` are what
lies on disk: the file, its working copy, the name the copy may be kept under, and the copies
set aside under `.plainva/conflict-revisions`. `session` is the stored journal. `op` is the operation that
has the gate; its `stage` is how far it has come, each step one write. `Fails` ends it
after any of them, as a failed write, a read-back that differs or the end of the process does;
nothing else of an operation survives, as each begins by reading the stored session.

| stages | code |
|---|---|
| `recover`, `write`, `confirm` | `recoverDraft`, with `preserveRevision` |
| `ready` | what the operation is for: `writeLocked`, `writePlainLocked`, `applyLocked`, `Accept` (the comparison again, and the stored answer), or only a look |
| `finish`, `keep`, `place`, `drop`, `close` | `finishResolution`: evidence, the kept copy, the file, the working copy, the session |

Editors save with the text they started from, and learn what was stored. `Views` are writers that name
none. `Answers` are the contents a comparison can end in: the file, the draft, or both merged, and the
file with the draft kept beside it.

## 3. The runs

| run | configuration | shows | states |
|---|---|---|---|
| `path_gate` | 3 calls over a folder, a file below it in a subfolder, a file elsewhere, a rename across both | exclusion, tightness of the map, refinement of `PathLock`, every call starts | 16 thousand |
| `owed_queue` | a deletion and a write, one flush | order, truthful calls, nothing stranded, flush, the pull's question, every call settles | 100 thousand |
| `one_device` | 2 edits, 1 deletion, 2 faults, any point but the push of a deletion | a device is never in conflict with itself and never changes the user's file | 372 thousand |
| `two_devices` | 2 devices, 2 edits, no fault, both kinds of answer | what was taken out stays out; no edit is lost; a clean file follows the remote | 1.5 million |
| `delete_two_devices` | 2 devices, 1 edit, 1 deletion, 1 fault (crash anywhere but in the push of a deletion, lost answer, late upload) | edits outlive deletions elsewhere; uploads replace only what they contain | 2.9 million |
| `convergence` | 2 devices, 1 edit, 1 fault, both kinds of answer, 5 refusals | devices and remote agree in the end | 251 thousand |
| `sync_cycle` | 2 cycles under way at once, 1 remote change, 2 faults (a failed file, a failed or an abandoned cycle) | one cycle at a time has the worker, a free worker has a timer, the cursor hides nothing, a drain waits, every change arrives | 638 thousand |
| `sync_queue` | two folders, three files; 3 changes, 1 fault; all files in place, or one yet to be downloaded | the sync leaves the disk alone, strangers never meet, the remote keeps the only copies, something is always due, the remote ends as the vault | 171 thousand |
| `deletions` | 2 devices, 2 files, a mass is more than one; 2 acts, 1 fault of seven kinds | a version that lives does not go, intent is journaled first, an emptied vault asks, journals agree, deletions spread | 1.7 million |
| `conflict_session` | 2 editors, a writer without starting text; 3 edits, 1 failed step or deletion by another program, the name of the copy taken | nothing saved is lost, drafts are known to who replaces them, answers hold | 3.3 million |

Two more runs, `write_before_rename_entry` and `answer_beyond_question`, each violate one
property; section 5 tells what they show.

### 3.1 The properties

- `NoEditLost`: an edit that no user took out is in a file, on the remote or in a
  conflict copy. It is the property a user would name first, and nothing in one
  component guarantees it.
- `RemoteKeepsEdits`: no upload replaces a version it has not taken in. This is
  what the condition of an upload is for.
- `UndoHolds`: what was taken out, and uploaded as such, is not revived by a merge.
- `NoConflictWithOneself`, `OnlyTheUserChangesFiles`: with one device, every lost
  answer and every crash must end without a conflict copy and without the sync
  writing into the file.
- `CleanFileFollows`: a file without a change of its own takes the version pulled.
- `Convergence`: once users and faults rest, all copies agree. Refused, deferred
  and parked uploads, owed reconciles and stale journals would all break it.
- For the owed queue: `RowsInOrder`, `CallersAreToldTheTruth`, `NoneStranded`,
  `FlushSettlesAll`, `PullOverlooksNothing`, `EveryCallSettles`.
- For the cycles: `OneAtATime` (the worker is held by the current cycle or a resolution,
  never by both, and by nobody when it is free), `NeverAsleep` (a free worker has a timer),
  `CursorHidesNothing` (the cursor never stands beyond a change that is not applied),
  `DrainAwaitsCycle`, `ChangesArrive`. `TypeOK` says besides that there is never more than
  one timer too many.
- For the queue: `SyncLeavesDiskAlone` (with one device, the sync writes nothing into the vault
  but files it did not have), `StrangersNeverMeet` (a pull never compares a file with a version of
  another), `RemoteKeepsCopies` (no push takes from the remote the only copy of what the vault
  holds, unless a write is queued that brings it back), `SomethingIsDue` (no waiting in a
  circle), `Converges`.
- For deletions: `NothingAliveGoes` (at the moment a file goes here, the version this device last had of it is not at the
  remote, although the file was asked for steps earlier, devices push in between, and listings and journals may be wrong; a
  newer version may be there by then, and comes with the next pull), `IntentFirst` (before a confirmed deletion goes up, the journal of the
  device knows of it, at its time or later, also when it was confirmed in the middle of a cycle or again after a restart), `EmptiedVaultAsks` (many vanished files ask first, over restarts),
  `JournalsAgree` and `DeletionsSpread` (liveness, over journals that overwrite one another).
- For conflicts: `NothingLost` (what was saved stays in the file, the working copy, a kept or set-aside
  copy or the journal until a person lets it go), `DraftsAreKnown` (nobody replaces a draft they
  have not seen), `AnswerHolds` (a confirmed answer speaks of the draft as it still is, however often
  it is taken up again).
- For the gate: `MutualExclusion`, `MapIsTight`, `ImplementsPathLock`,
  `EveryCallStarts`.

For every property of a passing run, `PROJECT.json` names a mutant of the code:
a plausible slip (a forgotten filter, the merge recorded as its own base, the
wrong entry completed) under which TLC finds the property violated.

### 3.2 Bounds, and why they are enough

- `MaxCalls = 3`: one call that settles, one that waits for it and one that comes
  between the settling and the clean-up. The theorems remove the bound.
- The owed queue: two entries are what order, giving up and being stranded need;
  an answer is lost at most once per entry.
- `MaxStamp`, the number of versions the remote ever holds, limits uploads. In all
  passing runs of `FileSync` deadlock is checked, so the bound is never what stops the
  system. `CHECK_DEADLOCK FALSE` stands in the violated runs and in the other
  modules, where a finite number of calls, or a worker that was stopped, comes to an end.
- `Cycle` has two names in `sync_cycle`: a current cycle and a zombie. The watchdog
  abandons only while a name is left for the next cycle. Two faults let a file fail in a cycle that follows
  an abandoned one, or two cycles be abandoned in turn; one change is what a cursor can hide. The
  theorems remove these bounds.
- `MaxRefusals` is 5 in the code. It is 5 in `one_device` and the convergence runs;
  the two-device safety runs take 2, so that parked uploads occur often.
- `MaxDeletes = 1`: with two deletions that cross each other, a file put back in
  its base's text follows the other device's deletion, because it counts as
  unchanged. That is the code's rule, and the history `removed` does not express it.
- Faults: `FaultKinds` names those beyond a crash or a lost answer of an upload:
  "record", a crash among the writes that record an upload; "delete", a fault in
  the push of a deletion; "late". Where a run leaves one out, a finding below
  says what it would show.
- Symmetry is used on devices, edits and editors, in safety runs only.
- `sync_queue`: three changes are a write, a move of its folder and a file made anew, or two
  moves that cross and a deletion. `Lossy` leaves out "write": a lost answer to a write
  is what `FileSync` is about, and here it ends in finding `refused_behind_deletion` below, as would a user who makes a file under the
  name of one yet to be downloaded. `Reused = {"delete"}`: the user takes the name of a deleted
  file again at once, the name of a moved one only when the move has gone up (see section 5). With four changes, one fault and no
  name taken again, the safety properties hold as well (826 thousand states from one tree).
- `deletions`: with two files and `MassMin = 1`, two files are a mass and one is not; `Sample = 1`
  makes one probe the sample. Two acts are a deletion and a second one, its approval, its
  refusal or a file made anew.
- `conflict_session`: three edits are a side, the other side, and one that comes between;
  one fault is a failed step or a deletion by another program.
- `TypeOK` of `OwedQueue`, `Deletions` and `ConflictSession` holds on the same instances; add it to the
  configuration to see it. `Convergence` holds as well with a deletion on either device and its
  restoration in place of the fault (`MaxDeletes = 1`, `MaxFaults = 0`, `MaxStamp = 6`; 274 thousand states).

Two larger instances hold `NoEditLost` and `RemoteKeepsEdits` as well and take too long to be
regular runs: two devices with two edits and a deletion, three versions and no fault
(7.6 million states), and two devices with two edits, three versions and a crash, a lost
answer or a late upload (4.8 million states, not while an upload is recorded). Without the
deletion `EditsSurvive` and `UploadsTakeIn` prove it for every size.

### 3.3 Fairness

`FairSpec` of `FileSync` has weak fairness for each device's `Pull`, `Push` and
`Announce`, and for what is on the wire: `scheduleNext` re-arms the timer after
every cycle, awaits continue, and the chain queues a change it has written, or an
index run after a restart finds it. Users need not act, faults need not occur and are
bounded, and nobody needs to press "sync now": an upload parked after five
refusals would remain, and `Convergence` shows that in these instances it does not come to that.
In `SyncCycle` timers fire, `start()` goes on, a resolution ends, and the current
cycle goes on or is abandoned by the watchdog, which is there for the requests that are never
answered. A zombie need never be answered, and users and other devices need not act.
In `SyncQueue` the sync goes on (weak fairness of `Sync`: entries are written, passes begin
and requests are answered), and a pull reaches each path again and again when the queue lets it (strong fairness,
as a queue that fills and empties enables and disables the step). In `Deletions` each device
takes steps of its cycle for ever, as `scheduleNext` provides; no person need ever answer.
`ConflictSession` has no liveness property, as nothing in it must happen unless a person looks.
In `OwedQueue` promise reactions run, the database answers (if only with a
refusal), timers fire and time passes. In `PathMutation` the actions handed to
the gate settle, and promise reactions run.

## 4. What is proved

All proofs hold for every value of the constants that satisfies the module's
`ASSUME`.

**The gate** (`PathMutationProofs`). `MutualExclusion` is not inductive: it says
nothing of calls that wait. The invariant `IInv` that is, proved in `GateInvariant`, adds
to the types that calls are numbered without gaps and wait for earlier ones only
(`Numbered`); that the map holds at each key the last call that named it, so that no
unfinished call is hidden (`TailsCover`); that a call waits, at each of its keys, for the
call before it or a later one that also stands behind that one (`WaitsForPredecessor`); and that a
call that has started has every earlier call of a shared key behind it (`InTurn`).
From it, with the lemma that conflicting requests share a key (`ConflictSharesKey`),
follow `GateExcludes` (`Spec => []MutualExclusion`), `TailsTight` (`Spec => []MapIsTight`)
and `GateImplementsLock`: initial states map to initial states of `PathLock`, `Call`,
`Start` and `Settle` to its three actions, and `CleanUp` to a stutter.

**The owed queue** (`OwedQueueProofs`). All five safety properties, for any set of changes, however many
passes are refused, answered late or not at all. None of them is inductive by itself. The invariant `IInv` adds that what is
owed are the last of the announcements in their order, without repetition, and that the table holds only
earlier ones and the entry being attempted (`Order`), from which `OrderIsKept` and half of `AnswersAreTrue`
follow; that a pass that is over left an entry only with a timer or to somebody who awaits its end
(`OverLeavesNone`, for `NobodyIsStranded`); where `flush` stands with the passes before and after its own
(`FlushTakesPart`, for `FlushIsThorough`); and that what the pull knew of and its first read did
not see is in the table when the second read looks (`KnownIsQueued`, for `PullIsTold`). TLC has checked
`IInv` with three changes (4.1 million states).

**One file's sync** (`FileSyncProofs`). `TypeCorrect` is `Spec => []TypeOK`, for any
number of devices, edits, versions, deletions and faults. Beyond the types it says
what the code relies on without asking: the remote has a marker exactly when it
has a file, an upload is never prepared without a text (`HasText`), and the engine has hold of at most the
first entry of a path, and only while it works on it (`QueuesOK`), although the user's saves
replace entries under its hands. The queue functions have lemmas of their own, and
the proof has one step per action.

**What the sync of one file promises** (`FileSyncEditProofs`). The theorems hold for any number of devices, edits
and versions, and both kinds of answer. What each assumes of the bounds is what the runs have shown to be needed:

| theorem | property | deletions | faults |
|---|---|---|---|
| `EditsSurvive` | `NoEditLost` | none | any number of crashes, lost answers and late uploads, but no crash among the records of an upload |
| `UploadsTakeIn` | `RemoteKeepsEdits` | none | the same |
| `CleanFilesFollow` | `CleanFileFollows` | any | none |
| `UndoesHold` | `UndoHolds` | none | none |
| `NobodyElse`, `NoOtherHand` | `NoConflictWithOneself`, `OnlyTheUserChangesFiles`, for one device | none | as for `EditsSurvive`, but no upload lands late |

`Undeleted` is `MaxDeletes = 0`: with a deletion that crosses another device's, an edit is lost by the code's own
rule (3.2). `Recorded` leaves out the crash of finding `half_recorded_first_upload`, `NothingLate` the late
upload that section 5 shows to end in a conflict copy, and the theorems without faults the finding `own_echo_after_merge`. Where
a run goes beyond these assumptions (a deletion beside another device's edits, a crash while one device records), the
run alone speaks.

`NoEditLost` says only where an edit is, nothing of how the devices go on. The invariant `EditInv` says what each
device may rely on. The markers it holds are ones the remote gave, and the current one stands for the remote's
text (`Marks`, `Ties`). A row has a marker only with a base, except while a first upload is recorded, and a base without marker
means that a pull comes before the next upload (`Rows`). A lasting edit that stands in the base, the download, the
journal or the request is on the disk, and where the remote has answered, on the remote (`Known`). An upload
on its way either expects a version that is gone, so that the remote refuses it whenever it lands, or
has all that lasts there (`Late`); this is what makes late and repeated uploads harmless. A lasting edit is then
always on a disk (`OnDisk`), from which `EditsSurvive` is read off, and `UploadsTakeIn` from `Late` and `Known`.
For `CleanFilesFollow` it is enough that no journal outlives its upload (`JournalInv`, theorem
`JournalEnds`). `UndoInv` distinguishes a text that once had an edit, where its absence is an undo because the base has
it, from one that has yet to hear of it, and keeps an edit never shown on one device. `AloneInv` says that what
the remote has is the base, or the text the journal names while an answer is missing. One lemma per action leads to each.
TLC has checked `EditInv` on 11 million states of two devices with two edits, three versions and one fault
(the search was not exhausted), `UndoInv` on all of `two_devices`, and `AloneInv` on one device with
two edits and three faults (36 thousand states).

**The cycles** (`SyncCycleProofs`). All five safety properties of `SyncCycle`, for any number of
cycles under way, changes and faults. The inductive invariant `IInv` (theorem `Invariance`) adds two
things to them. `Chains` counts what may begin the next cycle: a timer is armed beside a running
cycle, or one more timer than `timeoutId` names, only if `start()` has begun its cycle, and
never both; without it the number of stray timers could not be bounded. `Cursors` says
what a cycle's token promises in each phase (`Promises`): before the listing of a cursor
pull, everything up to it is applied; during the pull, everything up to it is applied, in hand
or still to do, unless a file failed; in the push, everything is applied. That holds for zombies
too, which is why a late adoption does no harm to the files. One lemma per action leads from there to `NextKeeps`;
`TypeCorrect`, `WorkerTakenOnce`, `WorkerNeverAsleep`, `CursorSound` and `DrainSound` are read off.

**The queue's order** (`SyncQueueProofs`). A write waits for a later move to the place where it
stands, and a move waits for earlier writes at its ends: the one exception to the order of
ids could close a circle. `NoCircularWait` says that it does not, for any set of entries with
distinct ids: among the entries with the smallest id of its kind, either the first structural
entry or the first write that holds it up waits for none. `IdsAreUnique` is the invariant it rests on: a move
gives the writes it carries along ids of their own, beyond every id in use, and no
step gives one twice. `QueueNeverStuck` combines them into `Spec => []SomethingIsDue`, for every set of paths and all bounds.

`KindsAreKept` is `Spec => []TypeOK`. Its invariant `KindInv` says besides that entries, in the queue or owed,
and the one under way are of the kind of their paths, and that the request carries a file's version only to a file's path:
this is what keeps a move whose source is missing, and is then sent as an upload, from writing a file over a folder.

`StrangersStayApart` is `Spec => []StrangersNeverMeet`, for every tree and all bounds, any answers lost, with or without
the gap of finding 1, while no name is taken again that a queued move starts from or goes to (`"rename" \notin Reused`,
as in the run). That a file is at most once on the disk and at most once on the remote says nothing of where: the
remote may hold it anywhere along the way its moves have yet to take. The invariant `RouteInv` follows that way. A trail
applies to a path the queued moves in the order of their ids, then the owed ones (`Leads`), and `Tracked` says that every copy
of a file, also the one in a request, is where a trail leads to the place the file has on the disk. Before the remote carries
out a move the trail takes it, afterwards it passes the move by, although the move stays in the queue until its answer arrives and
goes out again if that was lost. For both to end in one place nothing may come to stand where a queued move starts
(`Vacated`, where the hypothesis is needed). A move under way is still queued, and no structural entry it touches is older
(`Taken`), so no trail is led to its source before it; once the remote has made it, or has answered that its source is
missing, the remote has no file there (`Gone`), and the entry can retire without breaking a trail. `Roots` (what stands
somewhere stands in a folder) and `Fresh` (a file made new was never anywhere) are what these parts need of the trees. A pull
looks at a path only when no structural change concerns it or what is above it, so that its trail stands still, and the file
on the disk is the one at the path itself.
TLC has checked `RouteInv` on the instance of `sync_queue` (171 thousand states), and by simulation on folders in folders with six changes.

**Deletions** (`DeletionsProofs`). For any devices and files, any number of acts and faults of all seven kinds: `IntentIsFirst`,
`MassWaits` and `MirrorAsksFirst` (which is `Spec => NothingAliveGoes`) are the safety properties of the run, and `NoJournalForgets` says that no
device ever loses a deletion or a retraction its journal knew. The invariant has to speak of the batch an emptied vault leaves in the
queue, because the question before it counts what is still there: entries of one time come from one act and are confirmed together
(`OneAct`), and as long as nobody has answered, all of them are there and asked about together or not
at all (`Together`), over restarts and pushes that were cut off. `JournalKnows` says that an entry marked as journaled is in the journal, at
its time or later, `Cleared` what holds of a deletion a cycle has taken to push. That
times never run ahead of the clock (`Dated`) is what lets a retraction be told from a newer deletion. `Noted` says the same as
`JournalKnows` of the entries about to be marked.
For `MirrorAsksFirst` the invariant carries the answer about a file to the step that removes it, past whatever others do: the
version of a row is never newer than the newest the remote ever had (`Versions`), and the remote counts on, so a version that
is gone never comes back; hence, of each file in hand or found gone by the sample, the version in its row stays gone as long as the
row does (`GoneFirst`). A pull gives a row another version, but never while a file is in hand, and an upload of this device does
not run beside its mirror.

**Conflicts** (`ConflictSessionProofs`). `AnswerSpeaksOfDraft` is `Spec => []AnswerHolds` and
`NobodyReplacesUnknownDraft` is `Spec => DraftsAreKnown`, for any number of editors, writers, edits and faults. `AnswerHolds`
alone is not inductive: when an answer is accepted, nothing in it says that the journal and the
working copy agree. `Follows` says so: the journal holds the draft as pending text, or
none is pending and the working copy was last confirmed with it. `Stands` is what an
operation may count on at each stage; its last part is the one that needs the outside world: a
working copy that an answer finds changed after the recovery contains an edit no answer can
have seen, so the comparison of `Accept` refuses it. For the second theorem an editor's text keeps what it
started from (`BasesAreKept`), so its merge with the draft takes nothing out of the draft. TLC has checked `Inv` and
`BasesAreKept` as invariants on the instance of `conflict_session`.

`NothingSavedIsLost` is `Spec => NothingLost` for any number of editors, edits and faults, in whatever
order other programs write between the steps, and one writer without starting text (`OneWriter`; with two it
fails, section 5). A text is gone only where a step replaces it, so the invariant `Lossless` says of each such step that
what it replaces stands elsewhere. A draft its writer may replace is part of what that writer holds and of what it is about
to write (`PlainIsOwn`). The working copy was last confirmed with a text that the draft or a copy set aside
contains, and so is what the next write of the recovery replaces (`CopyIsKept`): this
holds across a recovery that fails at any step and is taken up again. What the last steps of an answer
replace is what it spoke of (`AnswerIsOfThese`), because `NewEvidence` is looked at again each time and `InHand` keeps
others away from there on. TLC has checked `Lossless` on the instance of `conflict_session` (3.3 million states).

Only model-checked:

- all liveness (`EveryCallStarts`, `EveryCallSettles`, `Convergence`, `ChangesArrive`, `Converges`, `JournalsAgree`,
  `DeletionsSpread`), which is out of this prover's reach;
- what `FileSync` promises beyond the assumptions above: deletions beside edits (`delete_two_devices`), one device
  with a deletion (`one_device`);
- `SyncLeavesDiskAlone` and `RemoteKeepsCopies` of `SyncQueue`, for the bounds of the
  run. With one change more and names taken again `SyncLeavesDiskAlone` fails (section 5). Without such names (`Reused = {}`) TLC
  found no violation in millions of states of larger instances; a proof would have to say of every path of the remote, halfway
  through the pushes, what is still to come there, where `RouteInv` speaks of files only.

## 5. Where the code and its comments part

Two are runs that TLC finds violated.

1. `write_before_rename_entry`. A pass has taken the write of a file. The user moves its folder,
   which is on disk before the entry of the move is in the queue. The engine finds the file gone from its old path and
   retires the write ("File deleted before we could sync the write", `SyncEngine.ts:680`); `queueRename`
   then has no write to give the new path, the move carries the old content up, and nothing queues the edit again.
2. `answer_beyond_question`. A question about two missing files is on the screen; a third goes missing before
   the answer. Every suspended cycle replaces the list (`SyncWorker.ts:2749`) but asks only once, and the
   answer approves whatever the list holds by then, against 597-603: "The answer ... covers exactly the files the question was
   about".

The others are reproduced by changing a configuration. For one file, `MCFileSync` with
`CHECK_DEADLOCK FALSE`, `AnswersEtag = {TRUE}` and

| | devices, edits | `MaxStamp` | `MaxDeletes` | `MaxFaults` | `MaxRefusals` | `FaultKinds` | violated |
|---|---|---|---|---|---|---|---|
| `deletion_cut_off` | 1, 2 | 6 | 1 | 1 | 2 | `{"delete"}` | `OnlyTheUserChangesFiles` |
| `own_echo_after_merge` | 2, 2 | 5 | 0 | 1 | 2 | `{}` | `CleanFileFollows` |
| `half_recorded_first_upload` | 2, 2 | 5 | 0 | 1 | 2 | `{"record"}` | `RemoteKeepsEdits` |
| `refused_behind_deletion` | 1, 1 | 6 | 1 | 1 | 5 | `{}` | `Convergence` (`FairSpec`) |

- `deletion_cut_off`. The remote carried out a DELETE, its answer was lost, the row
  still names the file. The user puts the file back: the entry is dropped as stale
  ("the remote copy is the one this file syncs with", `SyncEngine.ts:502-506`),
  the next listing finds a synced file missing, and the mirror of the device's own
  deletion removes it.
- `own_echo_after_merge`. The journal of a lost upload is not cleared when the remote
  version is merged or taken. If another device returns to that text, it is taken
  for an echo by a device that has no newer edits, against `SyncWorker.ts:2043-2046`,
  and the older text is pushed over it.
- `half_recorded_first_upload`. After a first upload, a crash between the remote
  marker and the base leaves a row whose next upload has no condition, the very
  case `SyncEngine.ts:659-664` describes.
- `refused_behind_deletion`. A refused upload with a deletion behind it waits for
  a reconcile that is skipped because of the deletion; the file put back by the
  user is not uploaded, against `SyncEngine.ts:692-697`.
- Two uploads of one device lost, the first of which lands later: the device meets its own
  older text, the journal names the newer one, and a conflict copy may arise
  (`MCFileSyncOne.cfg` with `MaxFaults = 2`, `FaultKinds = {"late"}`: `NoConflictWithOneself`).
- Deletions queued behind a lost first upload: the upload is carried out and its answer lost, the user deletes and restores the file, the
  queued deletion makes the pull skip the path, a second upload replaces the journal and is cut off too. When the deletion is dropped as
  stale, the device meets its own older text, no journal names it, and a conflict copy arises
  (`MCFileSyncOne.cfg` with `MaxDeletes = 2`: `NoConflictWithOneself`).
- The window of `half_recorded_first_upload` also makes an undo disappear: the row has the new marker and
  the old base, so the undone text counts as already in sync
  (`MCFileSyncLive.cfg` with `FaultKinds = {"record"}`: `Convergence`).
- A remote that never names the marker with its answer (`AnswersEtag = {FALSE}`): the
  row of an upload is complete only after the next pull. Until then a deletion of
  another device is not mirrored (`Convergence` with a deletion), an upload
  of this device has no condition, and a file recreated meanwhile may be removed.

Three more concern the cycles; `SyncCycle` states the first two as properties that no run
lists, and putting one into `MCSyncCycle.cfg` shows a trace within seconds:

- `FullListingFollows`. `triggerFullListing` "forces the NEXT cycle to run a full listing"
  (`SyncWorker.ts:921-922`) by dropping the cursor. If a cycle is under way, that cycle adopts its
  own cursor when it ends (2910-2930), and the next one lists by it. The same holds for
  `approveSuspendedDeletions`, `keepSuspendedDeletionsLocal`, `discardMassDeletion` and
  `fullResync`, each of which counts on a full listing.
- `DrainedIsQuiet`. Callers of `stopAndDrain` "must not race a cycle that is still downloading or
  writing" (1082-1087). It awaits `currentCycle` only: a cycle the watchdog abandoned is not waited
  for once another has begun, and it finishes the file it has in hand when it is answered.
- The watchdog drops the cursor "to re-establish ground truth on recovery" (1046), but the
  zombie, if it was past its last `alive()` (2828), still adopts its own at its end. And `stop()` disarms
  the watchdog, so that `stopAndDrain` waits for as long as a hung cycle hangs.

Of several paths (`MCSyncQueue.cfg`):

- With `Reused = {"rename", "delete"}` the user takes the name of a moved file while the write of
  the moved one is in a pass: the engine reads the new file in its place and retires the moved file's entry.
- If the source of a move is not at the remote, the engine uploads whatever lies at the
  target by then (`SourceMissing`), which may be another file that has an entry of its own.
- With four changes and `Reused = {"delete"}`, a DELETE that waits is pushed after its folder was moved and
  another file stands at its path, and the next pull mirrors it here: `SyncLeavesDiskAlone`. The guard at
  `SyncEngine.ts:502-506` looks at what is on disk at the entry's path, and the file has just left it.
- After a pushed DELETE the engine removes the row of the path (`SyncEngine.ts:794`), which may be one
  that a rename has brought there meanwhile.

Of deletions (`Deletions` states the first two as properties that no run lists):

- `QueuedWritesStay` (`MCDeletions.cfg` with `Devices = {d1}`, `Faults = {"loss"}`). The remote lost two files, and the
  question is on the screen. The user deletes one of them; the next cycle finds one open file, which is no mass, and asks the
  remote for it (`SyncWorker.ts:1879`). Before it removes the file (1889) the person answers "keep":
  `keepSuspendedDeletionsLocal` does not wait for the path, clears the row and queues the upload (896-897). The file goes
  nevertheless, its upload finds no file and is dropped, and it is neither here nor at the remote, against 871-872: "keep the local
  copies and upload them again".
- `IntentStands` (`MCDeletions.cfg` with `MaxActs = 1`, `Faults = {"age"}`). An entry keeps the time of the
  confirmation. A deletion confirmed offline more than a day ago is past the grace period the
  moment it is published, and another device that still has the file retracts it at once (`SyncWorker.ts:289-295`).
- An approval lives in memory. After an approved mass of which a part was pushed, a restart leaves a
  rest that no longer counts as a mass and goes up without a new question (826-828); and a second
  approval after a restart does not put the deletions into the journal again.
- Read, not modelled: two first calls of the journal at once each load it from disk
  (`deletionJournal.ts:218-228`), and the later one replaces what the earlier one may have recorded.

Of conflicts (`MCConflictSession.cfg`; `ConflictSession` states the first two as properties that no run lists):

- `NeverTrapped`. A draft is to be kept under a name of its own; the answer is confirmed and a step fails. If
  another program then deletes the working copy, or takes the name, every later look at the file throws
  `comparisonChanged` from the branch at `conflictSession.ts:532-536`, which does not take the answer back, although the one before it
  does so "instead of trapping the session in recovery" (526-527).
- `AnswerIsCarriedOut`. An answer that meets a confirmed one which was not yet carried out carries out
  that one, and reports success (445), also when the two differ.
- With two writers that name no starting text (`Views = {v1, v2}`) one replaces the draft of the
  other, which `writePlainLocked` takes for "that writer's own, older text" (364-366).
- A working copy that cannot be snapshotted is refused a second time with nothing left to write, and then the answer
  is taken back although the file was written, against 511-512 ("where the file was written, the
  resolution stays").
- Between the read-back of the file and the deletion of the working copy whose text it took, nothing
  keeps another program from deleting the file; both are then gone. `InHand` assumes it does not.

## 6. What the models leave out

- The condition of an upload is atomic in `FileSync`. Where a server cannot do it,
  `ConditionalWrites` asks first and uploads then; the window between is not modelled. `SendWrite` takes the engine's
  own question before an upload as answered; the upload it makes when that question fails (`SyncEngine.ts:646-650`) is left out.
- `RecordPulled` (`SyncWorker.ts:2053-2056`, 2130-2131) and `MirrorDeletion` of `FileSync` (1889-1894, 1927-1928) are one step each where the
  code has two or three writes; a crash between these is not explored. `Deletions` has the mirror step by step.
- `UndoHolds` is checked without faults and from the states of `Init`: after a lost answer, or where two
  files meet for the first time, there is no base to tell an undo by.
- `Reconcile` writes conflict copy and file in one step; the branch for task notes and
  conflict sessions that are open are left out (`ConflictSession` models these by themselves); so is `local_sha256`, which saves a
  comparison and decides nothing.
- In `FileSync` the mass-deletion guards are not triggered, a deletion's entry in the journal is not delayed,
  and `stop()` during a reconcile is a crash or nothing.
- The retry budget (`retry_count`) is the bound on faults.
- In `SyncCycle` time is abstract: the length of the interval and of the backoff, and what counts
  as a sign of life, are left open. There is one start and one stop. The chain of settings
  pushes that `stopAndDrain` also awaits, and status reports, are left out. A cursor pull always
  names the next cursor, and a full listing is complete (one that its own files contradict adopts no
  cursor; that branch, 2911-2914, drops the cursor, and an answer without a next one, 2929, keeps the older, so neither can hide a change). A change whose file has a deletion or rename queued here, or is refused for good, counts as applied.
- `FileSync` has one path; name twins and prefetching are in no module.
- In `SyncQueue` a deletion reported twice by a scan, the spellings of a path, rechecks, streamed uploads
  and the retry budget are left out, and so are the folders inside a moved folder whose source is missing: it is made
  anew with its files, whose uploads make the folders they need. The user does not create a file under the name of
  one the device has not yet downloaded.
- In `Deletions` listings are full ones, probes answer truthfully, a mass always reaches the share of the
  vault, journals are not pruned and have no entries for folders or tasks, nothing is to be compared again (`recheck`,
  `keptMissingPaths`), and a move is recognised in the listing.
- In `ConflictSession` one file has one conflict. Left out are writes without starting text over a file
  without a conflict, files whose bytes are no text (`resolveBytes`, `preserveBytes`), the app's own files and `release`,
  copies beside a file that are no working copy, and writers that name the working copy itself. Other programs never write back a text
  that was there before.
- Not modelled at all, besides what 1.1 lists as text processing, I/O and user interface: encrypted
  workspaces, settings sync, comments and calendar have protocols of their own on the same remote. The
  models here do not carry over to them, as they merge whole documents of their own formats.

## 7. The plan

Done are the gate, the owed queue, one file's sync, the cycles, the queue's order, deletions and conflict
sessions. The mirror of deletions is split at every await. Left, in this order:

1. **Proofs**: `EditInv` with deletions of one device, which needs what a restored file shares with
   its base; `SyncLeavesDiskAlone` and `RemoteKeepsCopies` of `SyncQueue` without names taken again.
2. **The rest of the write chain**: writes without starting text over a file another program changed.
3. **DownloadPrefetcher** and **ConditionalWrites**, including the window of asking first.
4. **An abstract register with conditional writes** that `FileSync` implements, as
   a refinement; the two-device runs then check it in place of single properties.
5. A zombie cycle beside a fresh one in `FileSync`; a second start and the settings chain in `SyncCycle`.

## 8. Running it

    tlc -workers 2 -config MCFileSyncOne.cfg MCFileSync
    tlapm PathMutationProofs.tla

Each configuration names its module by its prefix. The longest run takes some three
minutes on two cores, the proofs of a module between seconds and some minutes.
