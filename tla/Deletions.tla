------------------------------ MODULE Deletions ------------------------------
(***************************************************************************)
(* Deletions that several devices carry to one another: the journal of     *)
(* confirmed deletions (sync/deletionJournal.ts), the cycle of             *)
(* sync/SyncWorker.ts that records, mirrors and pushes them, and the two   *)
(* questions it puts to a person before many files go at once: one before  *)
(* this device's deletions reach the remote (the vault was emptied?), one  *)
(* before files the remote no longer lists go here (the listing is         *)
(* broken?).                                                               *)
(*                                                                         *)
(* A journal is the time of the newest deletion and of the newest          *)
(* retraction of each file: entries are kept by path and the newer wins    *)
(* (mergeDeletionEntries).  Every act of a person has a time of its own;   *)
(* what the devices do between two acts has the odd time between them.     *)
(* cutoff is the time before which everything is older than the grace      *)
(* period.  Files stand for whole paths, a listing is a full one, probes   *)
(* answer truthfully, and the share of the files that makes a mass of them *)
(* is always reached.  The vault has other files besides that nobody       *)
(* touches: a listing is empty only if it leaves these out, too.           *)
(***************************************************************************)
EXTENDS Integers, FiniteSets, Functions

CONSTANTS Devices, Files,
          MassMin,     \* MASS_DELETE_MIN
          Sample,      \* PROBE_SAMPLE
          MaxActs,     \* bound: what persons do
          MaxFaults,   \* bound: faults
          Faults       \* which there are: "omit", "loss", "emptied", "journal", "push", "crash", "age"

ASSUME DeletionsAssumption ==
  /\ IsFiniteSet(Files) /\ {MassMin, Sample, MaxActs, MaxFaults} \subseteq Nat /\ Sample > 0
  /\ Faults \subseteq {"omit", "loss", "emptied", "journal", "push", "crash", "age"}

VARIABLES clock,     \* acts so far
          cutoff,    \* the time up to which entries are older than the grace period
          faults,
          remote,    \* the version of each file at the remote, 0 for none
          newest,    \* the newest version the remote ever had of it
          published, \* the journal at the remote
          local,     \* the files on each device
          row,       \* the version and the time of each file's row in sync_state
          deletes,   \* the queued deletions of each device
          writes,    \* the files each device has a write queued for
          journal,   \* the journal of each device
          cycle,     \* where its cycle is
          session,   \* what its worker remembers of questions and answers
          shown,     \* the files the question on its screen was asked about
          wanted     \* files a person deleted and nobody wanted back since

clocks == <<clock, cutoff>>
there == <<remote, newest, published>>
here == <<local, row, deletes, writes, journal>>
person == <<session, shown>>
vars == <<clocks, faults, there, here, cycle, person, wanted>>

Now == 2 * clock + 1
NoRow == [stamp |-> 0, since |-> 0]
Empty == [f \in Files |-> [gone |-> 0, back |-> 0]]
Idle == [phase |-> "idle"]
NewSession == [approvedIds |-> {}, promptIds |-> {}, signaled |-> FALSE,
               approvedMissing |-> {}, suspended |-> {}, suspendedSignaled |-> FALSE]

Init ==
  /\ clock = 0 /\ cutoff = 0 /\ faults = 0
  /\ remote = [f \in Files |-> 1] /\ newest = remote /\ published = Empty
  /\ local = [d \in Devices |-> Files]
  /\ row = [d \in Devices |-> [f \in Files |-> [stamp |-> 1, since |-> Now]]]
  /\ deletes = [d \in Devices |-> {}] /\ writes = [d \in Devices |-> {}]
  /\ journal = [d \in Devices |-> Empty]
  /\ cycle = [d \in Devices |-> Idle]
  /\ session = [d \in Devices |-> NewSession] /\ shown = [d \in Devices |-> {}]
  /\ wanted = {}

-----------------------------------------------------------------------------
(* The journal.                                                            *)

Newer(a, b) == IF a >= b THEN a ELSE b
mergeDeletionEntries(j, k) ==
  [f \in Files |-> [gone |-> Newer(j[f].gone, k[f].gone), back |-> Newer(j[f].back, k[f].back)]]

recordPathEntries(j, at) ==
  mergeDeletionEntries(j, [f \in Files |-> [gone |-> IF f \in DOMAIN at THEN at[f] ELSE 0, back |-> 0]])
explainsPath(j, f, since) == j[f].gone > j[f].back /\ j[f].gone >= since
retractPaths(j, alive) ==
  [f \in Files |-> IF f \in alive /\ explainsPath(j, f, 0) THEN [j[f] EXCEPT !.back = Now] ELSE j[f]]

-----------------------------------------------------------------------------
(* What persons do.                                                        *)

Acts == clock < MaxActs /\ clock' = clock + 1
Id(r) == <<r.file, r.at>>
Queued(S, sure) == {[file |-> f, at |-> clock', confirmed |-> sure, journaled |-> FALSE, of |-> Cardinality(S)] : f \in S}
Awaiting(d) == {r.file : r \in deletes[d]}

At(d, phase) == cycle[d].phase = phase
Mirrors(d) == At(d, "explain") \/ At(d, "mirror")
InHand(d) == IF Mirrors(d) THEN cycle[d].going \cup cycle[d].went ELSE {}

(* Files are deleted in the app, or made again under their names, unless   *)
(* the cycle holds their paths.                                            *)
DeleteFiles(d, S) ==
  /\ Acts /\ S # {} /\ S \subseteq local[d] \ InHand(d)
  /\ local' = [local EXCEPT ![d] = @ \ S]
  /\ deletes' = [deletes EXCEPT ![d] = @ \cup Queued(S, TRUE)]
  /\ wanted' = wanted \cup {f \in S : \A e \in Devices : f \notin writes[e]}
  /\ UNCHANGED <<cutoff, faults, there, row, writes, journal, cycle, person>>
Recreate(d, f) ==
  /\ Acts /\ f \notin local[d] \cup InHand(d)
  /\ local' = [local EXCEPT ![d] = @ \cup {f}]
  /\ writes' = [writes EXCEPT ![d] = @ \cup {f}]
  /\ wanted' = wanted \ {f}
  /\ UNCHANGED <<cutoff, faults, there, row, deletes, journal, cycle, person>>

(* The answers to the question before this device's deletions go up ...    *)
approveMassDeletion(d) ==
  /\ Acts /\ session[d].promptIds # {}
  /\ session' = [session EXCEPT ![d].approvedIds = @ \cup {[id |-> i, time |-> 2 * clock'] : i \in session[d].promptIds},
                                ![d].promptIds = {}, ![d].signaled = FALSE]
  /\ UNCHANGED <<cutoff, faults, there, here, cycle, shown, wanted>>
discardMassDeletion(d) ==
  /\ Acts /\ session[d].promptIds # {}
  /\ LET held == {r \in deletes[d] : Id(r) \in session[d].promptIds}
         files == {r.file : r \in held}
     IN /\ deletes' = [deletes EXCEPT ![d] = @ \ held]
        /\ row' = [row EXCEPT ![d] = [f \in Files |-> IF f \in files THEN NoRow ELSE @[f]]]
        /\ wanted' = wanted \ files
  /\ session' = [session EXCEPT ![d].promptIds = {}, ![d].signaled = FALSE]
  /\ UNCHANGED <<cutoff, faults, there, local, writes, journal, cycle, shown>>

(* ... and to the one before files go here.                                *)
approveSuspendedDeletions(d) ==
  /\ Acts /\ shown[d] # {}
  /\ session' = [session EXCEPT ![d].approvedMissing = @ \cup session[d].suspended,
                                ![d].suspended = {}, ![d].suspendedSignaled = FALSE]
  /\ shown' = [shown EXCEPT ![d] = {}]
  /\ UNCHANGED <<cutoff, faults, there, here, cycle, wanted>>
keepSuspendedDeletionsLocal(d) ==
  /\ Acts /\ shown[d] # {}
  /\ LET kept == session[d].suspended \cap local[d]
     IN /\ row' = [row EXCEPT ![d] = [f \in Files |-> IF f \in kept THEN NoRow ELSE @[f]]]
        /\ writes' = [writes EXCEPT ![d] = @ \cup kept]
        /\ wanted' = wanted \ kept
  /\ session' = [session EXCEPT ![d].approvedMissing = @ \ session[d].suspended, ![d].suspended = {}]
  /\ shown' = [shown EXCEPT ![d] = {}]
  /\ UNCHANGED <<cutoff, faults, there, local, deletes, journal, cycle>>

Person(d) == \/ \E S \in SUBSET Files : DeleteFiles(d, S)
             \/ \E f \in Files : Recreate(d, f)
             \/ approveMassDeletion(d) \/ discardMassDeletion(d)
             \/ approveSuspendedDeletions(d) \/ keepSuspendedDeletionsLocal(d)

-----------------------------------------------------------------------------
(* What goes wrong: the folder of a vault is emptied behind the app's back *)
(* and its files are reported gone, the remote loses files, the app ends,  *)
(* a grace period passes.                                                  *)

Fault(kind) == kind \in Faults /\ faults < MaxFaults /\ faults' = faults + 1

Emptied(d) ==
  /\ Fault("emptied") /\ clock' = clock + 1 /\ local[d] # {}
  /\ local' = [local EXCEPT ![d] = {}]
  /\ deletes' = [deletes EXCEPT ![d] = @ \cup Queued(local[d] \ Awaiting(d), FALSE)]
  /\ UNCHANGED <<cutoff, there, row, writes, journal, cycle, person, wanted>>
RemoteLoses(S) ==
  /\ Fault("loss") /\ Cardinality(S) > MassMin
  /\ remote' = [f \in Files |-> IF f \in S THEN 0 ELSE remote[f]]
  /\ UNCHANGED <<clocks, newest, published, here, cycle, person, wanted>>
(* The worker's mark on a file it removed itself ends with the app: the     *)
(* next scan may report that file gone, if its row still stands.           *)
Crash(d) ==
  /\ Fault("crash") /\ <<cycle[d], session[d]>> # <<Idle, NewSession>>
  /\ \/ UNCHANGED <<clock, deletes>>
     \/ /\ Mirrors(d) /\ cycle[d].went # {}
        /\ clock' = clock + 1
        /\ deletes' = [deletes EXCEPT ![d] = @ \cup Queued(cycle[d].went, FALSE)]
  /\ cycle' = [cycle EXCEPT ![d] = Idle]
  /\ session' = [session EXCEPT ![d] = NewSession] /\ shown' = [shown EXCEPT ![d] = {}]
  /\ UNCHANGED <<cutoff, there, local, row, writes, journal, wanted>>
DayPasses ==
  /\ Fault("age") /\ cutoff < 2 * clock
  /\ cutoff' = 2 * clock
  /\ UNCHANGED <<clock, there, here, cycle, person, wanted>>

-----------------------------------------------------------------------------
(* A cycle: the journal.                                                   *)

GoesTo(d, stage) == cycle' = [cycle EXCEPT ![d] = stage]
Approvals(d, r) == {a \in session[d].approvedIds : a.id = Id(r)}
Confirmed(d, r) == r.confirmed \/ Approvals(d, r) # {}
ConfirmedAt(d, r) == IF r.confirmed THEN 2 * r.at ELSE (CHOOSE a \in Approvals(d, r) : TRUE).time

(* Mutant of Publishes: the union goes up when it differs from the local journal, not from the remote one. *)
PublishesItsOwn(merged, mine, theirs) == merged # mine
Publishes(merged, mine, theirs) == merged # theirs

(* What a person confirmed is recorded, its entries are marked so, and the *)
(* journal is merged with the one at the remote and published.             *)
Resting(d) == At(d, "idle") \/ (At(d, "push") /\ cycle[d].deletes = {} /\ cycle[d].writes = {})
Begin(d) ==
  LET pending == {r \in deletes[d] : ~r.journaled /\ Confirmed(d, r)}
      Times(f) == {ConfirmedAt(d, r) : r \in {s \in pending : s.file = f}}
      latest == [f \in {r.file : r \in pending} |-> CHOOSE t \in Times(f) : \A u \in Times(f) : u <= t]
  IN /\ Resting(d)
     /\ journal' = [journal EXCEPT ![d] = recordPathEntries(@, latest)]
     /\ GoesTo(d, IF pending = {} THEN [phase |-> "read"] ELSE [phase |-> "mark", pending |-> pending])
     /\ UNCHANGED <<clocks, faults, there, local, row, deletes, writes, person, wanted>>
markDeletesJournaled(d) ==
  /\ At(d, "mark")
  /\ LET marked == deletes[d] \cap cycle[d].pending
     IN deletes' = [deletes EXCEPT ![d] = (@ \ marked) \cup {[r EXCEPT !.journaled = TRUE] : r \in marked}]
  /\ GoesTo(d, [phase |-> "read"])
  /\ UNCHANGED <<clocks, faults, there, local, row, writes, journal, person, wanted>>
ReadJournal(d) ==
  /\ At(d, "read")
  /\ \/ LET merged == mergeDeletionEntries(journal[d], published)
        IN /\ journal' = [journal EXCEPT ![d] = merged]
           /\ GoesTo(d, [phase |-> IF Publishes(merged, journal[d], published) THEN "publish" ELSE "list"])
           /\ UNCHANGED faults
     \/ Fault("journal") /\ GoesTo(d, [phase |-> "list"]) /\ UNCHANGED journal
  /\ UNCHANGED <<clocks, there, local, row, deletes, writes, person, wanted>>
Publish(d) ==
  /\ At(d, "publish")
  /\ \/ published' = journal[d] /\ UNCHANGED faults
     \/ Fault("journal") /\ UNCHANGED published
  /\ GoesTo(d, [phase |-> "list"])
  /\ UNCHANGED <<clocks, remote, newest, here, person, wanted>>

(* The listing, what it brings, and the entries it refutes.                *)
Pulled(d, listing) == {f \in listing \ Awaiting(d) : row[d][f].stamp # remote[f]}
List(d) ==
  /\ At(d, "list")
  /\ \E omitted \in SUBSET {f \in Files : remote[f] # 0}, empty \in BOOLEAN :
       LET listing == {f \in Files : remote[f] # 0} \ omitted
           pulled == Pulled(d, listing)
           stale == {f \in listing \ Awaiting(d) : explainsPath(journal[d], f, 0) /\ journal[d][f].gone <= cutoff}
       IN /\ empty => listing = {}
          /\ IF omitted = {} /\ ~empty THEN UNCHANGED faults ELSE Fault("omit")
          /\ local' = [local EXCEPT ![d] = @ \cup pulled]
          /\ row' = [row EXCEPT ![d] = [f \in Files |-> IF f \in pulled THEN [stamp |-> remote[f], since |-> Now] ELSE @[f]]]
          /\ journal' = [journal EXCEPT ![d] = retractPaths(@, stale)]
          /\ GoesTo(d, [phase |-> "probe", listing |-> listing, empty |-> empty])
  /\ UNCHANGED <<clocks, there, deletes, writes, person, wanted>>

(* The files the listing does not carry.  A sample of them is asked for;   *)
(* one that is there ends the matter.  Those the journal explains go first,*)
(* then those a person agreed to and the others, unless these look broken. *)
Nothing == [phase |-> "mirror", missing |-> {}, empty |-> FALSE, todo |-> {}, approved |-> {}, open |-> {},
            broken |-> FALSE, gone |-> {}, going |-> {}, went |-> {}, removed |-> {}, alive |-> {}]
Sorted(d, found) ==
  LET approved == IF found.alive # {} THEN {} ELSE found.open \cap session[d].approvedMissing
      open == found.open \ session[d].approvedMissing
      broken == open # {} /\ (found.empty \/ Cardinality(open) > MassMin)
  IN [found EXCEPT !.phase = "mirror", !.missing = {}, !.approved = approved, !.open = open, !.broken = broken,
                   !.todo = approved \cup (IF broken \/ found.alive # {} THEN {} ELSE open)]
Sorts(d, found) ==
  /\ GoesTo(d, Sorted(d, found))
  /\ session' = [session EXCEPT ![d].approvedMissing = @ \cap found.missing]
Probe(d) ==
  /\ At(d, "probe")
  /\ LET missing == {f \in Files \ (cycle[d].listing \cup Awaiting(d)) : row[d][f].stamp # 0}
         enough == IF Cardinality(missing) < Sample THEN Cardinality(missing) ELSE Sample
     IN \E asked \in {S \in SUBSET missing : Cardinality(S) = enough} :
          LET alive == {f \in asked : remote[f] # 0}
              explained == {f \in missing : /\ ~cycle[d].empty /\ asked # {}
                                            /\ explainsPath(journal[d], f, row[d][f].since)}
              found == [Nothing EXCEPT !.phase = "explain", !.missing = missing, !.empty = cycle[d].empty, !.todo = explained,
                                       !.open = missing \ explained, !.gone = asked]
          IN \/ alive # {} /\ GoesTo(d, [Nothing EXCEPT !.alive = alive]) /\ UNCHANGED session
             \/ alive = {} /\ explained = {} /\ Sorts(d, found)
             \/ alive = {} /\ explained # {} /\ GoesTo(d, found) /\ UNCHANGED session
  /\ UNCHANGED <<clocks, faults, there, here, shown, wanted>>
Sort(d) ==
  /\ At(d, "explain") /\ cycle[d].todo = {}
  /\ Sorts(d, cycle[d])
  /\ UNCHANGED <<clocks, faults, there, here, shown, wanted>>

(* Mutant of Verified: a file is not asked for before it goes. *)
VerifiedNot(d, f) == TRUE

(* Each is asked for before it goes, unless the sample had it; the first   *)
(* that is there ends the mirroring.  A file changed here stays, and so    *)
(* does one whose row is gone or whose own deletion still waits.           *)
Verified(d, f) == f \in cycle[d].gone \/ remote[f] = 0

CheckFile(d, f) ==
  /\ Mirrors(d) /\ f \in cycle[d].todo /\ InHand(d) = {}
  /\ f \in cycle[d].open => cycle[d].todo \subseteq cycle[d].open
  /\ LET mirrored == f \notin Awaiting(d) /\ row[d][f].stamp # 0
     IN \/ /\ ~mirrored
           /\ GoesTo(d, [cycle[d] EXCEPT !.todo = @ \ {f}]) /\ UNCHANGED row
        \/ /\ mirrored
           /\ f \in local[d] => f \in writes[d] /\ Verified(d, f)
           /\ GoesTo(d, [cycle[d] EXCEPT !.todo = @ \ {f}])
           /\ row' = [row EXCEPT ![d][f] = NoRow]
        \/ /\ mirrored /\ f \in local[d] /\ ~Verified(d, f)
           /\ GoesTo(d, [cycle[d] EXCEPT !.todo = {}, !.alive = {f}]) /\ UNCHANGED row
        \/ /\ mirrored /\ f \in local[d] \ writes[d] /\ Verified(d, f)
           /\ GoesTo(d, [cycle[d] EXCEPT !.going = {f}]) /\ UNCHANGED row
  /\ UNCHANGED <<clocks, faults, there, local, deletes, writes, journal, person, wanted>>
RemoveFile(d, f) ==
  /\ Mirrors(d) /\ f \in cycle[d].going
  /\ GoesTo(d, IF f \in local[d] THEN [cycle[d] EXCEPT !.going = {}, !.went = {f}]
               ELSE [cycle[d] EXCEPT !.going = {}, !.todo = @ \ {f}])
  /\ local' = [local EXCEPT ![d] = @ \ {f}]
  /\ UNCHANGED <<clocks, faults, there, row, deletes, writes, journal, person, wanted>>
ForgetRow(d, f) ==
  /\ Mirrors(d) /\ f \in cycle[d].went
  /\ row' = [row EXCEPT ![d][f] = NoRow]
  /\ GoesTo(d, [cycle[d] EXCEPT !.went = {}, !.todo = @ \ {f}, !.removed = @ \cup ({f} \cap cycle[d].approved)])
  /\ UNCHANGED <<clocks, faults, there, local, deletes, writes, journal, person, wanted>>

(* Mutant of isMassDeletion: the share is forgotten, only more than all files are a mass. *)
isMassShare(files) == Cardinality(files) > MassMin /\ Cardinality(files) > Cardinality(Files)
isMassDeletion(files) == Cardinality(files) > MassMin

(* Mutants of Allowed: it lets through what is not journaled; it does not wait for the journal. *)
AllowedUnjournaled(d, r, isMass) == ~r.journaled /\ ~isMass
AllowedAtOnce(d, r, isMass) == Confirmed(d, r) \/ ~isMass
Allowed(d, r, isMass) == IF Confirmed(d, r) THEN r.journaled ELSE ~isMass

(* The journal learns what a person agreed to once it is done, and what    *)
(* was found alive.  When too many are missing that nothing explains, a    *)
(* person is asked, once.  Of the queued deletions those nobody confirmed  *)
(* wait for a person when they are too many, the others for the journal.   *)
Conclude(d) ==
  /\ At(d, "mirror") /\ cycle[d].todo = {}
  /\ journal' = [journal EXCEPT ![d] = retractPaths(recordPathEntries(@, [f \in cycle[d].removed |-> Now]), cycle[d].alive)]
  /\ LET refuted == cycle[d].alive # {}
         unconfirmed == {r \in deletes[d] : ~Confirmed(d, r)}
         isMass == isMassDeletion({r.file : r \in unconfirmed})
         allowed == {r \in deletes[d] : Allowed(d, r, isMass)}
     IN /\ session' = [session EXCEPT
             ![d].approvedMissing = @ \ cycle[d].approved,
             ![d].suspended = IF refuted THEN @ ELSE IF cycle[d].broken THEN cycle[d].open ELSE {},
             ![d].suspendedSignaled = IF refuted THEN @ ELSE cycle[d].broken,
             ![d].approvedIds = {a \in @ : \E r \in deletes[d] : Id(r) = a.id},
             ![d].signaled = isMass,
             ![d].promptIds = IF ~isMass THEN {} ELSE IF session[d].signaled THEN @ ELSE {Id(r) : r \in unconfirmed}]
        /\ shown' = IF cycle[d].broken /\ ~refuted /\ ~session[d].suspendedSignaled
                    THEN [shown EXCEPT ![d] = cycle[d].open] ELSE shown
        /\ GoesTo(d, [phase |-> "push", deletes |-> allowed, sending |-> {}, writes |-> writes[d]])
  /\ UNCHANGED <<clocks, faults, there, local, row, deletes, writes, wanted>>

CheckDelete(d, r) ==
  /\ At(d, "push") /\ r \in cycle[d].deletes /\ cycle[d].sending = {}
  /\ IF r.file \in local[d]
     THEN /\ deletes' = [deletes EXCEPT ![d] = @ \ {r}]
          /\ GoesTo(d, [cycle[d] EXCEPT !.deletes = @ \ {r}])
     ELSE GoesTo(d, [cycle[d] EXCEPT !.sending = {r}]) /\ UNCHANGED deletes
  /\ UNCHANGED <<clocks, faults, there, local, row, writes, journal, person, wanted>>
PushDelete(d, r) ==
  /\ At(d, "push") /\ r \in cycle[d].sending
  /\ GoesTo(d, [cycle[d] EXCEPT !.sending = {}, !.deletes = @ \ {r}])
  /\ remote' = [remote EXCEPT ![r.file] = 0]
  /\ \/ /\ deletes' = [deletes EXCEPT ![d] = @ \ {r}]
        /\ row' = [row EXCEPT ![d][r.file] = NoRow]
        /\ UNCHANGED faults
     \/ Fault("push") /\ UNCHANGED <<deletes, row>>
  /\ UNCHANGED <<clocks, newest, published, local, writes, journal, person, wanted>>
PushWrite(d, f) ==
  /\ At(d, "push") /\ f \in cycle[d].writes /\ cycle[d].sending = {}
  /\ GoesTo(d, [cycle[d] EXCEPT !.writes = @ \ {f}])
  /\ IF f \in local[d] /\ remote[f] = row[d][f].stamp
     THEN /\ newest' = [newest EXCEPT ![f] = @ + 1]
          /\ remote' = [remote EXCEPT ![f] = newest'[f]]
          /\ row' = [row EXCEPT ![d][f] = [stamp |-> newest'[f], since |-> Now]]
     ELSE UNCHANGED <<remote, newest, row>>
  /\ writes' = IF f \in local[d] /\ remote[f] # row[d][f].stamp THEN writes ELSE [writes EXCEPT ![d] = @ \ {f}]
  /\ UNCHANGED <<clocks, faults, published, local, deletes, journal, person, wanted>>
Cycle(d) == \/ Begin(d) \/ markDeletesJournaled(d) \/ ReadJournal(d) \/ Publish(d)
            \/ List(d) \/ Probe(d) \/ Sort(d) \/ Conclude(d)
            \/ \E f \in Files : CheckFile(d, f) \/ RemoveFile(d, f) \/ ForgetRow(d, f) \/ PushWrite(d, f)
            \/ At(d, "push") /\ \E r \in cycle[d].deletes : CheckDelete(d, r) \/ PushDelete(d, r)

Next == \/ \E d \in Devices : Person(d) \/ Cycle(d) \/ Emptied(d) \/ Crash(d)
        \/ \E S \in SUBSET Files : RemoteLoses(S)
        \/ DayPasses

(* Every device goes on with its cycles.  Some step of a cycle can always  *)
(* be taken, so this is what weak fairness of Cycle(d) says.               *)
Spec == Init /\ [][Next]_vars /\ \A d \in Devices : []<><<Cycle(d)>>_vars

-----------------------------------------------------------------------------
Times == 0..(2 * (MaxActs + MaxFaults) + 1)
TypeOK ==
  /\ remote \in [Files -> Nat] /\ newest \in [Files -> Nat] /\ wanted \subseteq Files
  /\ \A j \in {published} \cup Range(journal) : j \in [Files -> [gone : Times, back : Times]]
  /\ \A d \in Devices : /\ session[d].promptIds \subseteq {Id(r) : r \in deletes[d]}
                        /\ local[d] \cup writes[d] \cup shown[d] \subseteq Files
                        /\ \A r \in deletes[d] : r.file \in Files /\ r.at \in 1..clock
                        /\ \A f \in Files : row[d][f].stamp \in 0..newest[f] /\ row[d][f].since \in Times

(* No device forgets a deletion or a retraction it knew, whatever copy of  *)
(* the journal it reads (mergeDeletionEntries, DeletionJournal.sync).      *)
JournalKeeps ==
  [][\A d \in Devices, f \in Files : journal'[d][f].gone >= journal[d][f].gone /\ journal'[d][f].back >= journal[d][f].back]_vars

(* The journals of all devices come to agree, although two devices may     *)
(* publish over one another (DeletionJournal.sync).                        *)
JournalsAgree == <>[](\A d \in Devices : journal[d] = published)

(* A deletion that a person confirmed leaves the queue for the remote only *)
(* after this device's journal knows of one at its time or later, also when*)
(* the confirmation comes in the middle of a cycle, or a second time after *)
(* a restart has lost the first one (recordQueuedDeletionIntents).         *)
IntentFirst ==
  [][\A d \in Devices : \A r \in deletes[d] :
       remote[r.file] # 0 /\ remote'[r.file] = 0 /\ At(d, "push") /\ cycle'[d] # cycle[d] /\ r \in cycle[d].deletes /\ Confirmed(d, r)
         => journal[d][r.file].gone >= 2 * r.at]_vars

(* A file that goes here was asked for earlier, and meanwhile other        *)
(* devices push: still the version this device last had of it is never the *)
(* one at the remote, whatever a listing or a journal said (the check      *)
(* before each local deletion).                                            *)
NothingAliveGoes ==
  [][\A d \in Devices : Mirrors(d) /\ cycle'[d] # cycle[d] => \A f \in local[d] \ local'[d] :
       remote[f] = 0 \/ remote[f] # row[d][f].stamp]_vars

(* Of the files that vanished from a vault at once, too many to be meant,  *)
(* none goes at the remote before a person has said so, over restarts.     *)
EmptiedVaultAsks ==
  [][\A d \in Devices : \A r \in deletes[d] :
       /\ At(d, "push") /\ cycle'[d] # cycle[d] /\ r \in cycle[d].deletes
       /\ remote[r.file] # 0 /\ remote'[r.file] = 0 /\ ~r.confirmed /\ r.of > MassMin
       => Approvals(d, r) # {} \/ r.journaled]_vars

(* A confirmed deletion that nobody takes back ends with the file gone on  *)
(* every device, or with the question whether it shall go.                 *)
DeletionsSpread ==
  <>[](\A f \in wanted : remote[f] = 0 /\ \A d \in Devices : f \notin local[d] \/ f \in session[d].suspended)

(* The answer to a question is about the files the question was about.     *)
AnswerCoversQuestion ==
  [][\A d \in Devices : session'[d].approvedMissing \subseteq session[d].approvedMissing \cup shown[d]]_vars

(* No file goes here for which an upload is queued, also when the answer   *)
(* "keep" queues it after the file was asked for (keepSuspendedDeletions-  *)
(* Local, which does not wait for the path).                               *)
QueuedWritesStay ==
  [][\A d \in Devices : Mirrors(d) /\ cycle'[d] # cycle[d] => writes[d] \cap (local[d] \ local'[d]) = {}]_vars

(* An entry stands as long as the deletion it speaks of waits to go up.    *)
IntentStands == \A d, e \in Devices : \A r \in deletes[d] :
  r.confirmed /\ r.journaled /\ r.file \notin local[d] => journal[e][r.file].back <= 2 * r.at
=============================================================================
