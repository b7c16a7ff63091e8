--------------------------- MODULE DeletionsProofs ---------------------------
(***************************************************************************)
(* For any devices and files, any number of acts and faults: a confirmed   *)
(* deletion is in the journal before it goes up, the files of a vault that *)
(* was emptied go at the remote only after a person has said so, no file   *)
(* goes here while the remote has the version last known of it, and no     *)
(* journal forgets.                                                        *)
(***************************************************************************)
EXTENDS Deletions, FiniteSetTheorems, WellFoundedInduction, TLAPS

(* Types, of what the proofs look at.                                      *)
Entries == [file : Files, at : Nat, confirmed : BOOLEAN, journaled : BOOLEAN, of : Nat]
Journals == [Files -> [gone : Nat, back : Nat]]
Ids == Files \X Nat
Sessions == [approvedIds : SUBSET [id : Ids, time : Nat], promptIds : SUBSET Ids, signaled : BOOLEAN,
             approvedMissing : SUBSET Files, suspended : SUBSET Files, suspendedSignaled : BOOLEAN]
Mirroring == [phase : {"explain", "mirror"}, missing : SUBSET Files, empty : BOOLEAN, todo : SUBSET Files,
              approved : SUBSET Files, open : SUBSET Files, broken : BOOLEAN, gone : SUBSET Files,
              going : SUBSET Files, went : SUBSET Files, removed : SUBSET Files, alive : SUBSET Files]
Pushing == [phase : {"push"}, deletes : SUBSET Entries, sending : SUBSET Entries, writes : SUBSET Files]
Marking == [phase : {"mark"}, pending : SUBSET Entries]
Probing == [phase : {"probe"}, listing : SUBSET Files, empty : BOOLEAN]
Stages == [phase : {"idle", "read", "publish", "list"}] \cup Marking \cup Probing \cup Mirroring \cup Pushing

Types == /\ clock \in Nat
         /\ deletes \in [Devices -> SUBSET Entries]
         /\ journal \in [Devices -> Journals] /\ published \in Journals
         /\ session \in [Devices -> Sessions] /\ shown \in [Devices -> SUBSET Files]
         /\ cycle \in [Devices -> Stages]
         /\ local \in [Devices -> SUBSET Files] /\ writes \in [Devices -> SUBSET Files]

(* Nothing is of a later time than now, and nobody confirms a deletion     *)
(* before it is made.                                                      *)
DatedEntries == \A d \in Devices :
  /\ \A r \in deletes[d] : r.at <= clock
  /\ \A i \in session[d].promptIds : i[2] <= clock
  /\ \A a \in session[d].approvedIds : 2 * a.id[2] <= a.time /\ a.time <= 2 * clock
DatedJournals == \A f \in Files : published[f].back <= Now /\ \A d \in Devices : journal[d][f].back <= Now
Dated == DatedEntries /\ DatedJournals

(* What the queue says is in the journal is in the journal.                *)
JournalKnows == \A d \in Devices : \A r \in deletes[d] : r.journaled => journal[d][r.file].gone >= 2 * r.at

(* Entries of one time come from one act.  While nobody has confirmed a mass *)
(* of them, they are all there, and a person is asked about all or none.     *)
Mates(d, r) == {s \in deletes[d] : s.at = r.at /\ ~s.journaled}
Unanswered(d, r) == r \in deletes[d] /\ ~r.confirmed /\ ~r.journaled /\ r.of > MassMin
Approved(d, r) == Approvals(d, r) # {}
OneAct == \A d \in Devices : \A r, s \in deletes[d] : r.at = s.at => r.of = s.of /\ r.confirmed = s.confirmed
Together == \A d \in Devices : \A r \in deletes[d] : Unanswered(d, r) =>
              /\ Cardinality({s.file : s \in Mates(d, r)}) >= r.of
              /\ \A s \in Mates(d, r) : /\ Approved(d, s) <=> Approved(d, r)
                                        /\ Id(s) \in session[d].promptIds <=> Id(r) \in session[d].promptIds

(* What a cycle has taken to push was confirmed and is in the journal, or  *)
(* it is no mass, nobody confirmed it and nobody is being asked.           *)
Cleared == \A d \in Devices : At(d, "push") => \A r \in cycle[d].deletes :
             r.journaled \/ (~r.confirmed /\ r.of <= MassMin /\ ~Approved(d, r) /\ session[d].promptIds = {})

(* What is about to be marked as journaled is in the journal, and of a mass*)
(* that nobody has answered it is all or nothing.                          *)
Noted == \A d \in Devices : At(d, "mark") => \A r \in cycle[d].pending :
           /\ r.at <= clock /\ journal[d][r.file].gone >= 2 * r.at
           /\ r \in deletes[d] => \A q \in deletes[d] : Unanswered(d, q) /\ q.at = r.at => q \in cycle[d].pending

(* Every version is one the remote has had, and a file that was found gone *)
(* comes back, if at all, in another version than the one known here.      *)
Versions == /\ remote \in [Files -> Nat] /\ newest \in [Files -> Nat]
            /\ row \in [Devices -> [Files -> [stamp : Nat, since : Nat]]]
            /\ \A f \in Files : remote[f] <= newest[f] /\ \A d \in Devices : row[d][f].stamp <= newest[f]
GoneFirst == \A d \in Devices : Mirrors(d) => \A f \in cycle[d].gone \cup cycle[d].going :
               remote[f] = 0 \/ remote[f] # row[d][f].stamp

IInv == Types /\ Dated /\ JournalKnows /\ OneAct /\ Together /\ Cleared /\ Noted /\ Versions /\ GoneFirst

-----------------------------------------------------------------------------
(* The journal.                                                            *)

(* Of some times up to a bound, one is the latest.                         *)
LEMMA LatestOf ==
  ASSUME NEW S, S # {}, NEW b \in Nat, \A t \in S : t \in Nat /\ t <= b
  PROVE  \E t \in S : \A u \in S : u <= t
<1> DEFINE gaps == {b - t : t \in S}
<1>1. gaps \subseteq Nat /\ gaps # {}
  OBVIOUS
<1>2. PICK n \in gaps : \A m \in gaps : ~(<<m, n>> \in OpToRel(<, Nat))
  BY <1>1, NatLessThanWellFounded, WFMin
<1>3. PICK t \in S : n = b - t
  OBVIOUS
<1>4. ASSUME NEW u \in S, t < u
      PROVE  FALSE
  <2> DEFINE m == b - u
  <2>1. m \in gaps /\ m \in Nat /\ n \in Nat /\ m < n
    BY <1>1, <1>3, <1>4
  <2>2. <<m, n>> \in Nat \X Nat /\ <<m, n>>[1] < <<m, n>>[2]
    BY <2>1
  <2>3. <<m, n>> \in {ss \in Nat \X Nat : ss[1] < ss[2]}
    BY <2>2
  <2> QED BY <1>2, <2>1, <2>3 DEF OpToRel
<1> QED BY <1>4

(* The union of two journals knows what each of them knew.                 *)
LEMMA Merged ==
  ASSUME NEW j \in Journals, NEW k \in Journals
  PROVE  /\ mergeDeletionEntries(j, k) \in Journals
         /\ \A f \in Files : /\ mergeDeletionEntries(j, k)[f].gone >= j[f].gone /\ mergeDeletionEntries(j, k)[f].gone >= k[f].gone
                             /\ mergeDeletionEntries(j, k)[f].back >= j[f].back
                             /\ mergeDeletionEntries(j, k)[f].back \in {j[f].back, k[f].back}
  BY DEF mergeDeletionEntries, Newer, Journals

(* To record deletions takes nothing back.                                 *)
LEMMA Recorded ==
  ASSUME NEW j \in Journals, NEW at, \A f \in DOMAIN at : f \in Files => at[f] \in Nat
  PROVE  /\ recordPathEntries(j, at) \in Journals
         /\ \A f \in Files : /\ recordPathEntries(j, at)[f].gone >= j[f].gone
                             /\ recordPathEntries(j, at)[f].back = j[f].back
                             /\ f \in DOMAIN at => recordPathEntries(j, at)[f].gone >= at[f]
<1> DEFINE k == [f \in Files |-> [gone |-> IF f \in DOMAIN at THEN at[f] ELSE 0, back |-> 0]]
<1>1. k \in Journals
  BY DEF Journals
<1>2. \A f \in Files : j[f].back \in Nat /\ k[f].back = 0
  BY DEF Journals
<1>3. recordPathEntries(j, at) = mergeDeletionEntries(j, k)
  BY DEF recordPathEntries
<1>4. \A f \in Files : mergeDeletionEntries(j, k)[f].back = j[f].back
  <2> HIDE DEF k
  <2> QED BY <1>2 DEF mergeDeletionEntries, Newer
<1>5. \A f \in Files : f \in DOMAIN at => k[f].gone = at[f]
  OBVIOUS
<1> HIDE DEF k
<1> QED BY <1>1, <1>3, <1>4, <1>5, Merged

(* A retraction has the time of now and takes no deletion's time away.     *)
LEMMA Retracted ==
  ASSUME NEW j \in Journals, NEW alive, clock \in Nat, \A f \in Files : j[f].back <= Now
  PROVE  /\ retractPaths(j, alive) \in Journals
         /\ \A f \in Files : /\ retractPaths(j, alive)[f].gone = j[f].gone
                             /\ retractPaths(j, alive)[f].back >= j[f].back
                             /\ retractPaths(j, alive)[f].back <= Now
<1>1. Now \in Nat
  BY DEF Now
<1> QED BY <1>1 DEF retractPaths, Journals

-----------------------------------------------------------------------------
(* Types.  What a step of a device does to the others is nothing, so each  *)
(* lemma is about one of its actions.                                      *)

LEMMA ClockType == Types => Now \in Nat /\ clock + 1 \in Nat
  BY DEF Types, Now

LEMMA HowMany ==
  ASSUME NEW S \in SUBSET Files
  PROVE  IsFiniteSet(S) /\ Cardinality(S) \in Nat
  BY DeletionsAssumption, FS_Subset, FS_CardinalityType

LEMMA ActsClock == Types /\ Acts => clock' = clock + 1 /\ clock' \in Nat
  BY DEF Types, Acts

LEMMA Twice == \A n \in Nat : 2 * n \in Nat
  OBVIOUS

LEMMA QueuedType ==
  ASSUME clock' \in Nat, NEW S \in SUBSET Files, NEW sure \in BOOLEAN
  PROVE  Queued(S, sure) \subseteq Entries
<1>1. Cardinality(S) \in Nat
  BY HowMany
<1>2. ASSUME NEW f \in S
      PROVE  [file |-> f, at |-> clock', confirmed |-> sure, journaled |-> FALSE, of |-> Cardinality(S)] \in Entries
  BY <1>1 DEF Entries
<1> QED BY <1>2 DEF Queued

LEMMA PersonTypes ==
  ASSUME Types, NEW d \in Devices, Person(d)
  PROVE  Types'
<1>1. CASE \E S \in SUBSET Files : DeleteFiles(d, S)
  <2>1. PICK S \in SUBSET Files : DeleteFiles(d, S)
    BY <1>1
  <2>2. clock' \in Nat
    BY <2>1, ActsClock DEF DeleteFiles
  <2>3. Queued(S, TRUE) \subseteq Entries
    BY <2>2, QueuedType
  <2>4. deletes' \in [Devices -> SUBSET Entries]
    BY <2>1, <2>3 DEF DeleteFiles, Types
  <2>5. local' \in [Devices -> SUBSET Files]
    BY <2>1 DEF DeleteFiles, Types
  <2> QED BY <2>1, <2>2, <2>4, <2>5 DEF DeleteFiles, Types, there, person
<1>2. CASE \E f \in Files : Recreate(d, f)
  BY <1>2, ActsClock DEF Recreate, Types, there, person
<1>3. CASE approveMassDeletion(d)
  <2>1. clock' \in Nat
    BY <1>3, ActsClock DEF approveMassDeletion
  <2> DEFINE new == {[id |-> i, time |-> 2 * clock'] : i \in session[d].promptIds}
             s == [session[d] EXCEPT !.approvedIds = @ \cup new, !.promptIds = {}, !.signaled = FALSE]
  <2>2. 2 * clock' \in Nat
    BY <2>1, Twice
  <2>3. session[d] \in Sessions
    BY DEF Types
  <2>4. ASSUME NEW i \in session[d].promptIds
        PROVE  [id |-> i, time |-> 2 * clock'] \in [id : Ids, time : Nat]
    BY <2>2, <2>3 DEF Sessions
  <2>5. new \subseteq [id : Ids, time : Nat]
    BY <2>4
  <2>6. s \in Sessions
    <3> HIDE DEF new
    <3> QED BY <2>3, <2>5 DEF Sessions
  <2>7. session' = [session EXCEPT ![d] = s]
    <3> HIDE DEF new
    <3>1. session' = [session EXCEPT ![d].approvedIds = @ \cup new, ![d].promptIds = {}, ![d].signaled = FALSE]
      BY <1>3 DEF approveMassDeletion, new
    <3> QED BY <2>3, <3>1 DEF Types
  <2> HIDE DEF s
  <2>8. session' \in [Devices -> Sessions]
    BY <2>6, <2>7 DEF Types
  <2> QED BY <1>3, <2>1, <2>8 DEF approveMassDeletion, Types, there, here
<1>4. CASE discardMassDeletion(d)
  <2>1. session' \in [Devices -> Sessions]
    <3> DEFINE s == [session[d] EXCEPT !.promptIds = {}, !.signaled = FALSE]
    <3>1. session[d] \in Sessions
      BY DEF Types
    <3>2. s \in Sessions
      BY <3>1 DEF Sessions
    <3>3. session' = [session EXCEPT ![d] = s]
      BY <1>4 DEF discardMassDeletion, Types
    <3> HIDE DEF s
    <3> QED BY <3>2, <3>3 DEF Types
  <2>2. deletes' \in [Devices -> SUBSET Entries]
    BY <1>4 DEF discardMassDeletion, Types
  <2> QED BY <1>4, <2>1, <2>2, ActsClock DEF discardMassDeletion, Types, there
<1>5. CASE approveSuspendedDeletions(d)
  <2>1. session' \in [Devices -> Sessions]
    <3> DEFINE s == [session[d] EXCEPT !.approvedMissing = @ \cup session[d].suspended, !.suspended = {}, !.suspendedSignaled = FALSE]
    <3>1. session[d] \in Sessions
      BY DEF Types
    <3>2. s \in Sessions
      BY <3>1 DEF Sessions
    <3>3. session' = [session EXCEPT ![d] = s]
      BY <1>5 DEF approveSuspendedDeletions, Types
    <3> HIDE DEF s
    <3> QED BY <3>2, <3>3 DEF Types
  <2> QED BY <1>5, <2>1, ActsClock DEF approveSuspendedDeletions, Types, there, here
<1>6. CASE keepSuspendedDeletionsLocal(d)
  <2>1. session' \in [Devices -> Sessions]
    <3> DEFINE s == [session[d] EXCEPT !.approvedMissing = @ \ session[d].suspended, !.suspended = {}]
    <3>1. session[d] \in Sessions
      BY DEF Types
    <3>2. s \in Sessions
      BY <3>1 DEF Sessions
    <3>3. session' = [session EXCEPT ![d] = s]
      BY <1>6 DEF keepSuspendedDeletionsLocal, Types
    <3> HIDE DEF s
    <3> QED BY <3>2, <3>3 DEF Types
  <2> QED BY <1>6, <2>1, ActsClock DEF keepSuspendedDeletionsLocal, Types, there
<1> QED BY <1>1, <1>2, <1>3, <1>4, <1>5, <1>6 DEF Person

LEMMA FaultTypes ==
  ASSUME Types, \/ \E d \in Devices : Emptied(d) \/ Crash(d)
                \/ \E S \in SUBSET Files : RemoteLoses(S)
                \/ DayPasses
  PROVE  Types'
<1> USE DEF Types
<1>1. ASSUME NEW d \in Devices, Emptied(d)
      PROVE  Types'
  <2>1. clock' \in Nat
    BY <1>1 DEF Emptied
  <2>2. Queued(local[d] \ Awaiting(d), FALSE) \subseteq Entries
    BY <2>1, QueuedType
  <2> QED BY <1>1, <2>1, <2>2 DEF Emptied, there, person
<1>2. ASSUME NEW d \in Devices, Crash(d)
      PROVE  Types'
  <2>1. NewSession \in Sessions /\ Idle \in Stages
    BY DEF NewSession, Sessions, Idle, Stages
  <2>2. clock' \in Nat
    BY <1>2, ClockType DEF Crash, clocks
  <2>3. deletes' \in [Devices -> SUBSET Entries]
    <3>1. CASE UNCHANGED deletes
      BY <3>1
    <3>2. CASE Mirrors(d) /\ deletes' = [deletes EXCEPT ![d] = @ \cup Queued(cycle[d].went, FALSE)]
      <4>1. cycle[d].went \in SUBSET Files
        BY <3>2 DEF Mirrors, At, Stages, Mirroring, Marking, Probing, Pushing
      <4> QED BY <2>2, <3>2, <4>1, QueuedType
    <3> QED BY <1>2, <3>1, <3>2 DEF Crash
  <2> QED BY <1>2, <2>1, <2>2, <2>3 DEF Crash, there
<1>3. ASSUME NEW S \in SUBSET Files, RemoteLoses(S)
      PROVE  Types'
  BY <1>3 DEF RemoteLoses, clocks, here, person
<1>4. CASE DayPasses
  BY <1>4 DEF DayPasses, there, here, person
<1> QED BY <1>1, <1>2, <1>3, <1>4

(* The times that recordQueuedDeletionIntents writes down: of each file with *)
(* a confirmed deletion the latest time somebody confirmed one.              *)
Pending(d) == {r \in deletes[d] : ~r.journaled /\ Confirmed(d, r)}
Latest(d) == LET Stamps(f) == {ConfirmedAt(d, r) : r \in {s \in Pending(d) : s.file = f}}
             IN [f \in {r.file : r \in Pending(d)} |-> CHOOSE t \in Stamps(f) : \A u \in Stamps(f) : u <= t]

LEMMA ConfirmedTime ==
  ASSUME Types, Dated, NEW d \in Devices, NEW r \in deletes[d], Confirmed(d, r)
  PROVE  ConfirmedAt(d, r) \in Nat /\ 2 * r.at <= ConfirmedAt(d, r) /\ ConfirmedAt(d, r) <= 2 * clock
<1>1. r \in Entries /\ r.at \in Nat /\ r.confirmed \in BOOLEAN /\ clock \in Nat /\ r.at <= clock
  BY DEF Types, Dated, DatedEntries, Entries
<1>2. CASE r.confirmed
  BY <1>1, <1>2 DEF ConfirmedAt
<1>3. CASE ~r.confirmed
  <2> DEFINE a == CHOOSE a \in Approvals(d, r) : TRUE
  <2>1. a \in Approvals(d, r)
    BY <1>3 DEF Confirmed
  <2>2. a \in session[d].approvedIds /\ a.id = Id(r) /\ a.id[2] = r.at
    BY <2>1 DEF Approvals, Id
  <2>3. a.time \in Nat
    BY <2>2 DEF Types, Sessions
  <2>4. 2 * a.id[2] <= a.time /\ a.time <= 2 * clock
    BY <2>2 DEF Dated, DatedEntries
  <2>5. ConfirmedAt(d, r) = a.time
    BY <1>3 DEF ConfirmedAt
  <2> HIDE DEF a
  <2> QED BY <2>2, <2>3, <2>4, <2>5
<1> QED BY <1>1, <1>2, <1>3

LEMMA LatestTimes ==
  ASSUME Types, Dated, NEW d \in Devices
  PROVE  /\ \A f \in DOMAIN Latest(d) : f \in Files /\ Latest(d)[f] \in Nat
         /\ \A r \in Pending(d) : r.file \in DOMAIN Latest(d) /\ Latest(d)[r.file] >= 2 * r.at
<1> DEFINE Stamps(f) == {ConfirmedAt(d, r) : r \in {s \in Pending(d) : s.file = f}}
<1>1. \A r \in Pending(d) : /\ ConfirmedAt(d, r) \in Nat /\ 2 * r.at <= ConfirmedAt(d, r) /\ ConfirmedAt(d, r) <= 2 * clock
                            /\ r.at \in Nat /\ r.file \in Files
  BY ConfirmedTime DEF Pending, Types, Entries
<1>2. ASSUME NEW q \in Pending(d)
      PROVE  /\ Latest(d)[q.file] \in Stamps(q.file)
             /\ \A u \in Stamps(q.file) : u <= Latest(d)[q.file]
  <2> DEFINE S == Stamps(q.file)
  <2>1. S # {} /\ 2 * clock \in Nat /\ \A t \in S : t \in Nat /\ t <= 2 * clock
    BY <1>1, Twice DEF Types
  <2>2. \E t \in S : \A u \in S : u <= t
    <3> HIDE DEF S
    <3> QED BY <2>1, LatestOf
  <2>3. Latest(d)[q.file] = CHOOSE t \in S : \A u \in S : u <= t
    BY DEF Latest
  <2> QED BY <2>2, <2>3
<1>3. ASSUME NEW q \in Pending(d)
      PROVE  Latest(d)[q.file] \in Nat /\ Latest(d)[q.file] >= 2 * q.at
  <2>1. ConfirmedAt(d, q) \in Stamps(q.file)
    OBVIOUS
  <2>2. Latest(d)[q.file] \in Nat
    BY <1>1, <1>2
  <2>3. ConfirmedAt(d, q) <= Latest(d)[q.file]
    BY <1>2, <2>1
  <2> HIDE DEF Stamps
  <2>4. ConfirmedAt(d, q) \in Nat /\ 2 * q.at <= ConfirmedAt(d, q) /\ 2 * q.at \in Nat
    BY <1>1, Twice
  <2> QED BY <2>2, <2>3, <2>4
<1>4. DOMAIN Latest(d) = {r.file : r \in Pending(d)}
  BY DEF Latest
<1> QED BY <1>1, <1>3, <1>4

(* What the journal of a device holds after the intents are recorded, and  *)
(* after it has read the one at the remote.                                *)
LEMMA IntentsRecorded ==
  ASSUME Types, Dated, NEW d \in Devices, Begin(d)
  PROVE  \E j \in Journals :
           /\ journal' = [journal EXCEPT ![d] = j]
           /\ \A f \in Files : j[f].gone >= journal[d][f].gone /\ j[f].back >= journal[d][f].back /\ j[f].back <= Now
           /\ \A r \in Pending(d) : j[r.file].gone >= 2 * r.at
<1> DEFINE mine == recordPathEntries(journal[d], Latest(d))
<1>1. journal' = [journal EXCEPT ![d] = mine]
  BY DEF Begin, Pending, Latest
<1>2. journal[d] \in Journals
  BY DEF Types
<1>3. /\ mine \in Journals
      /\ \A f \in Files : /\ mine[f].gone >= journal[d][f].gone /\ mine[f].back = journal[d][f].back
                          /\ f \in DOMAIN Latest(d) => mine[f].gone >= Latest(d)[f]
  BY <1>2, LatestTimes, Recorded
<1> HIDE DEF mine
<1>4. \A f \in Files : journal[d][f].back <= Now
  BY DEF Dated, DatedJournals
<1>5. Now \in Nat /\ \A f \in Files : \A j \in {journal[d], mine} : j[f].gone \in Nat /\ j[f].back \in Nat
  BY <1>2, <1>3, ClockType DEF Journals
<1>6. \A r \in Pending(d) : mine[r.file].gone >= 2 * r.at
  <2>1. \A r \in Pending(d) : r.file \in Files /\ r.at \in Nat
    BY DEF Pending, Types, Entries
  <2> QED BY <1>3, <1>5, <2>1, LatestTimes
<1>7. \A f \in Files : mine[f].back >= journal[d][f].back /\ mine[f].back <= Now
  BY <1>3, <1>4, <1>5
<1> QED BY <1>1, <1>3, <1>6, <1>7

LEMMA JournalRead ==
  ASSUME Types, Dated, NEW d \in Devices, ReadJournal(d)
  PROVE  \E j \in Journals :
           /\ journal' = [journal EXCEPT ![d] = j]
           /\ \A f \in Files : j[f].gone >= journal[d][f].gone /\ j[f].back >= journal[d][f].back /\ j[f].back <= Now
<1> DEFINE merged == mergeDeletionEntries(journal[d], published)
<1>1. journal \in [Devices -> Journals] /\ journal[d] \in Journals /\ published \in Journals
  BY DEF Types
<1>2. /\ merged \in Journals
      /\ \A f \in Files : /\ merged[f].gone >= journal[d][f].gone
                          /\ merged[f].back >= journal[d][f].back /\ merged[f].back \in {journal[d][f].back, published[f].back}
  BY <1>1, Merged
<1>3. journal' = [journal EXCEPT ![d] = merged] \/ journal' = [journal EXCEPT ![d] = journal[d]]
  BY <1>1 DEF ReadJournal
<1> HIDE DEF merged
<1>4. \A f \in Files : journal[d][f].back <= Now /\ published[f].back <= Now
  BY DEF Dated, DatedJournals
<1>5. \A f \in Files : journal[d][f].gone \in Nat /\ journal[d][f].back \in Nat
  BY <1>1 DEF Journals
<1>6. \A f \in Files : merged[f].back <= Now
  BY <1>2, <1>4
<1> QED BY <1>1, <1>2, <1>3, <1>4, <1>5, <1>6

(* What the end of a mirroring writes into the journal.                    *)
LEMMA ConcludeJournals ==
  ASSUME Types, Dated, NEW d \in Devices, At(d, "mirror"), Conclude(d)
  PROVE  \E j \in Journals :
           /\ journal' = [journal EXCEPT ![d] = j]
           /\ \A f \in Files : j[f].gone >= journal[d][f].gone /\ j[f].back >= journal[d][f].back /\ j[f].back <= Now
<1> DEFINE at == [f \in cycle[d].removed |-> Now]
           mine == recordPathEntries(journal[d], at)
           j == retractPaths(mine, cycle[d].alive)
<1>1. journal[d] \in Journals /\ clock \in Nat /\ Now \in Nat /\ \A f \in Files : journal[d][f].back <= Now
  BY ClockType DEF Types, Dated, DatedJournals
<1>2. \A f \in DOMAIN at : f \in Files => at[f] \in Nat
  BY <1>1
<1>3. mine \in Journals /\ \A f \in Files : mine[f].gone >= journal[d][f].gone /\ mine[f].back = journal[d][f].back
  <2> HIDE DEF at
  <2> QED BY <1>1, <1>2, Recorded
<1>4. /\ j \in Journals
      /\ \A f \in Files : j[f].gone = mine[f].gone /\ j[f].back >= mine[f].back /\ j[f].back <= Now
  <2> HIDE DEF mine
  <2> QED BY <1>1, <1>3, Retracted
<1>5. journal' = [journal EXCEPT ![d] = j]
  BY DEF Conclude
<1> HIDE DEF mine, j
<1> QED BY <1>3, <1>4, <1>5

(* Where a cycle is says what it remembers.                                *)
LEMMA StageOf ==
  ASSUME Types, NEW d \in Devices
  PROVE  /\ cycle[d] \in Stages
         /\ Mirrors(d) => cycle[d] \in Mirroring
         /\ At(d, "mirror") => cycle[d] \in Mirroring
         /\ At(d, "push") => cycle[d] \in Pushing
         /\ At(d, "mark") => cycle[d] \in Marking
         /\ At(d, "probe") => cycle[d] \in Probing
  BY DEF Types, Stages, Mirroring, Pushing, Marking, Probing, Mirrors, At

(* What it leaves of the answers and the questions, and what it takes up.  *)
Unconfirmed(d) == {r \in deletes[d] : ~Confirmed(d, r)}
IsMass(d) == isMassDeletion({r.file : r \in Unconfirmed(d)})
Taken(d) == {r \in deletes[d] : Allowed(d, r, IsMass(d))}
Kept(d) == {a \in session[d].approvedIds : \E r \in deletes[d] : Id(r) = a.id}
Asked(d) == IF ~IsMass(d) THEN {} ELSE IF session[d].signaled THEN session[d].promptIds ELSE {Id(r) : r \in Unconfirmed(d)}

LEMMA ConcludeSession ==
  ASSUME Types, NEW d \in Devices, Conclude(d)
  PROVE  /\ session' \in [Devices -> Sessions]
         /\ session'[d].approvedIds = Kept(d) /\ session'[d].promptIds = Asked(d)
         /\ \A e \in Devices : e # d => session'[e] = session[e]
         /\ cycle' = [cycle EXCEPT ![d] = [phase |-> "push", deletes |-> Taken(d), sending |-> {}, writes |-> writes[d]]]
<1> DEFINE refuted == cycle[d].alive # {}
           missing == session[d].approvedMissing \ cycle[d].approved
           suspended == IF refuted THEN session[d].suspended ELSE IF cycle[d].broken THEN cycle[d].open ELSE {}
           signaled == IF refuted THEN session[d].suspendedSignaled ELSE cycle[d].broken
           s == [session[d] EXCEPT !.approvedMissing = missing, !.suspended = suspended, !.suspendedSignaled = signaled,
                                   !.approvedIds = Kept(d), !.signaled = IsMass(d), !.promptIds = Asked(d)]
<1>1. cycle[d] \in Mirroring
  BY StageOf DEF Conclude
<1>2. session[d] \in Sessions /\ deletes[d] \subseteq Entries
  BY DEF Types
<1>3. \A r \in deletes[d] : Id(r) \in Ids
  BY <1>2 DEF Id, Ids, Entries
<1>4. Asked(d) \subseteq Ids
  BY <1>2, <1>3 DEF Asked, Unconfirmed, Sessions
<1>5. Kept(d) \subseteq [id : Ids, time : Nat]
  BY <1>2 DEF Kept, Sessions
<1>6. IsMass(d) \in BOOLEAN
  BY DEF IsMass, isMassDeletion
<1>7. missing \subseteq Files /\ suspended \subseteq Files /\ signaled \in BOOLEAN
  BY <1>1, <1>2 DEF Sessions, Mirroring
<1>8. session' = [session EXCEPT ![d].approvedMissing = missing, ![d].suspended = suspended,
                                 ![d].suspendedSignaled = signaled, ![d].approvedIds = Kept(d),
                                 ![d].signaled = IsMass(d), ![d].promptIds = Asked(d)]
  BY DEF Conclude, Kept, IsMass, Asked, Unconfirmed
<1> HIDE DEF missing, suspended, signaled
<1>9. session' = [session EXCEPT ![d] = s]
  BY <1>8 DEF Types
<1>10. s \in Sessions /\ s.approvedIds = Kept(d) /\ s.promptIds = Asked(d)
  BY <1>2, <1>4, <1>5, <1>6, <1>7 DEF Sessions
<1>11. cycle' = [cycle EXCEPT ![d] = [phase |-> "push", deletes |-> Taken(d), sending |-> {}, writes |-> writes[d]]]
  BY DEF Conclude, GoesTo, Taken, IsMass, Unconfirmed
<1> HIDE DEF s
<1> QED BY <1>9, <1>10, <1>11 DEF Types

LEMMA ConcludeTypes ==
  ASSUME Types, Dated, NEW d \in Devices, Conclude(d)
  PROVE  Types'
<1>1. At(d, "mirror")
  BY DEF Conclude
<1>2. journal' \in [Devices -> Journals]
  BY <1>1, ConcludeJournals DEF Types
<1>3. [phase |-> "push", deletes |-> Taken(d), sending |-> {}, writes |-> writes[d]] \in Stages
  <2>1. Taken(d) \subseteq Entries /\ writes[d] \subseteq Files
    BY DEF Taken, Types
  <2> QED BY <2>1 DEF Stages, Pushing
<1>4. cycle' \in [Devices -> Stages]
  BY <1>3, ConcludeSession DEF Types
<1>5. shown' \in [Devices -> SUBSET Files]
  <2>1. cycle[d].open \subseteq Files
    BY <1>1, StageOf DEF Mirroring
  <2> QED BY <2>1 DEF Conclude, Types
<1> QED BY <1>2, <1>4, <1>5, ConcludeSession DEF Conclude, Types, clocks, there

(* What a listing leaves behind, the probe after it, and a mirrored file.  *)
Brings(d, listing, empty, stale) ==
  /\ local' = [local EXCEPT ![d] = @ \cup Pulled(d, listing)]
  /\ journal' = [journal EXCEPT ![d] = retractPaths(@, stale)]
  /\ row' = [row EXCEPT ![d] = [f \in Files |-> IF f \in Pulled(d, listing)
                                                THEN [stamp |-> remote[f], since |-> Now] ELSE @[f]]]
  /\ cycle' = [cycle EXCEPT ![d] = [phase |-> "probe", listing |-> listing, empty |-> empty]]

LEMMA ListBrings ==
  ASSUME NEW d \in Devices, List(d)
  PROVE  \E listing \in SUBSET Files, empty \in BOOLEAN : \E stale : Brings(d, listing, empty, stale)
<1>1. PICK omitted \in SUBSET {f \in Files : remote[f] # 0}, empty \in BOOLEAN :
        LET listing == {f \in Files : remote[f] # 0} \ omitted
            stale == {f \in listing \ Awaiting(d) : explainsPath(journal[d], f, 0) /\ journal[d][f].gone <= cutoff}
        IN Brings(d, listing, empty, stale)
  BY DEF List, GoesTo, Brings
<1> WITNESS {f \in Files : remote[f] # 0} \ omitted \in SUBSET Files, empty \in BOOLEAN
<1> QED BY <1>1

LEMMA SortedStage ==
  ASSUME Types, NEW d \in Devices, NEW found \in Mirroring
  PROVE  /\ Sorted(d, found) \in Mirroring
         /\ Sorted(d, found).gone = found.gone /\ Sorted(d, found).going = found.going
<1> DEFINE approved == IF found.alive # {} THEN {} ELSE found.open \cap session[d].approvedMissing
           open == found.open \ session[d].approvedMissing
           broken == open # {} /\ (found.empty \/ Cardinality(open) > MassMin)
           todo == approved \cup (IF broken \/ found.alive # {} THEN {} ELSE open)
<1>1. approved \in SUBSET Files /\ open \in SUBSET Files /\ broken \in BOOLEAN /\ todo \in SUBSET Files
  BY DEF Mirroring
<1>2. Sorted(d, found) = [found EXCEPT !.phase = "mirror", !.missing = {}, !.approved = approved, !.open = open,
                                       !.broken = broken, !.todo = todo]
  BY DEF Sorted
<1> HIDE DEF approved, open, broken, todo
<1> QED BY <1>1, <1>2 DEF Mirroring

(* The stage after a probe: what the sample found gone the remote has not. *)
LEMMA ProbeFinds ==
  ASSUME Types, NEW d \in Devices, Probe(d)
  PROVE  \E stage \in Mirroring :
           /\ cycle' = [cycle EXCEPT ![d] = stage] /\ stage.going = {} /\ \A f \in stage.gone : remote[f] = 0
           /\ \E missing : session' \in {session, [session EXCEPT ![d].approvedMissing = @ \cap missing]}
<1> DEFINE absent == {f \in Files \ (cycle[d].listing \cup Awaiting(d)) : row[d][f].stamp # 0}
<1>1. PICK asked \in SUBSET absent :
        LET living == {f \in asked : remote[f] # 0}
            known == {f \in absent : /\ ~cycle[d].empty /\ asked # {}
                                     /\ explainsPath(journal[d], f, row[d][f].since)}
            found == [Nothing EXCEPT !.phase = "explain", !.missing = absent, !.empty = cycle[d].empty, !.todo = known,
                                     !.open = absent \ known, !.gone = asked]
        IN \/ cycle' = [cycle EXCEPT ![d] = [Nothing EXCEPT !.alive = living]] /\ UNCHANGED session
           \/ living = {} /\ cycle' = [cycle EXCEPT ![d] = Sorted(d, found)]
              /\ session' = [session EXCEPT ![d].approvedMissing = @ \cap found.missing]
           \/ living = {} /\ cycle' = [cycle EXCEPT ![d] = found] /\ UNCHANGED session
  BY DEF Probe, Sorts, GoesTo
<1> DEFINE living == {f \in asked : remote[f] # 0}
           known == {f \in absent : /\ ~cycle[d].empty /\ asked # {}
                                    /\ explainsPath(journal[d], f, row[d][f].since)}
           rest == absent \ known
           found == [Nothing EXCEPT !.phase = "explain", !.missing = absent, !.empty = cycle[d].empty, !.todo = known,
                                    !.open = rest, !.gone = asked]
           refuted == [Nothing EXCEPT !.alive = living]
<1>2. /\ absent \in SUBSET Files /\ asked \in SUBSET Files /\ living \in SUBSET Files /\ known \in SUBSET Files
      /\ rest \in SUBSET Files /\ cycle[d].empty \in BOOLEAN
  BY StageOf DEF Probe, Probing
<1>3. \/ cycle' = [cycle EXCEPT ![d] = refuted] /\ UNCHANGED session
      \/ living = {} /\ cycle' = [cycle EXCEPT ![d] = Sorted(d, found)]
         /\ session' = [session EXCEPT ![d].approvedMissing = @ \cap found.missing]
      \/ living = {} /\ cycle' = [cycle EXCEPT ![d] = found] /\ UNCHANGED session
  BY <1>1
<1>4. living = {} => \A f \in asked : remote[f] = 0
  OBVIOUS
<1> HIDE DEF absent, living, known, rest
<1>5. refuted \in Mirroring /\ refuted.going = {} /\ refuted.gone = {}
  BY <1>2 DEF Nothing, Mirroring
<1>6. found \in Mirroring /\ found.going = {} /\ found.gone = asked
  BY <1>2 DEF Nothing, Mirroring
<1> HIDE DEF found, refuted
<1>7. CASE cycle' = [cycle EXCEPT ![d] = refuted] /\ UNCHANGED session
  BY <1>5, <1>7
<1>8. CASE living = {} /\ cycle' = [cycle EXCEPT ![d] = Sorted(d, found)]
           /\ session' = [session EXCEPT ![d].approvedMissing = @ \cap found.missing]
  <2>1. /\ Sorted(d, found) \in Mirroring /\ Sorted(d, found).going = {}
        /\ \A f \in Sorted(d, found).gone : remote[f] = 0
    BY <1>4, <1>6, <1>8, SortedStage
  <2> QED BY <1>8, <2>1
<1>9. CASE living = {} /\ cycle' = [cycle EXCEPT ![d] = found] /\ UNCHANGED session
  BY <1>4, <1>6, <1>9
<1> QED BY <1>3, <1>7, <1>8, <1>9

LEMMA SortFinds ==
  ASSUME Types, NEW d \in Devices, Sort(d)
  PROVE  /\ cycle[d] \in Mirroring
         /\ \E stage \in Mirroring : /\ cycle' = [cycle EXCEPT ![d] = stage]
                                     /\ stage.gone = cycle[d].gone /\ stage.going = cycle[d].going
         /\ \E missing : session' \in {session, [session EXCEPT ![d].approvedMissing = @ \cap missing]}
<1>1. cycle[d] \in Mirroring
  BY StageOf DEF Sort, Mirrors
<1>2. /\ cycle' = [cycle EXCEPT ![d] = Sorted(d, cycle[d])]
      /\ session' = [session EXCEPT ![d].approvedMissing = @ \cap cycle[d].missing]
  BY DEF Sort, Sorts, GoesTo
<1> QED BY <1>1, <1>2, SortedStage

LEMMA MirrorUpdates ==
  ASSUME NEW m \in Mirroring, NEW A \in SUBSET Files, NEW B \in SUBSET Files
  PROVE  /\ [m EXCEPT !.todo = A] \in Mirroring /\ [m EXCEPT !.todo = A].gone = m.gone /\ [m EXCEPT !.todo = A].going = m.going
         /\ [m EXCEPT !.todo = {}, !.alive = B] \in Mirroring
         /\ [m EXCEPT !.todo = {}, !.alive = B].gone = m.gone /\ [m EXCEPT !.todo = {}, !.alive = B].going = m.going
         /\ [m EXCEPT !.going = B] \in Mirroring /\ [m EXCEPT !.going = B].gone = m.gone /\ [m EXCEPT !.going = B].going = B
         /\ [m EXCEPT !.going = {}, !.went = B] \in Mirroring
         /\ [m EXCEPT !.going = {}, !.went = B].gone = m.gone /\ [m EXCEPT !.going = {}, !.went = B].going = {}
         /\ [m EXCEPT !.going = {}, !.todo = A] \in Mirroring
         /\ [m EXCEPT !.going = {}, !.todo = A].gone = m.gone /\ [m EXCEPT !.going = {}, !.todo = A].going = {}
  BY DEF Mirroring

(* A file is about to go only when it was asked for.                       *)
LEMMA MirrorStage ==
  ASSUME Types, NEW d \in Devices, NEW f \in Files, CheckFile(d, f) \/ RemoveFile(d, f) \/ ForgetRow(d, f)
  PROVE  \E stage \in Mirroring :
           /\ cycle' = [cycle EXCEPT ![d] = stage] /\ stage.gone = cycle[d].gone
           /\ \A g \in stage.going : g \in cycle[d].going \/ (Verified(d, g) /\ UNCHANGED <<remote, row>>)
<1>1. cycle[d] \in Mirroring
  BY StageOf DEF CheckFile, RemoveFile, ForgetRow
<1> DEFINE left == cycle[d].todo \ {f}
           removed == cycle[d].removed \cup ({f} \cap cycle[d].approved)
<1>2. left \in SUBSET Files /\ removed \in SUBSET Files /\ {f} \in SUBSET Files
  BY <1>1 DEF Mirroring
<1>3. CASE CheckFile(d, f)
  <2>1. \/ cycle' = [cycle EXCEPT ![d] = [cycle[d] EXCEPT !.todo = left]]
        \/ cycle' = [cycle EXCEPT ![d] = [cycle[d] EXCEPT !.todo = {}, !.alive = {f}]]
        \/ /\ cycle' = [cycle EXCEPT ![d] = [cycle[d] EXCEPT !.going = {f}]]
           /\ Verified(d, f) /\ UNCHANGED <<remote, row>>
    BY <1>3 DEF CheckFile, GoesTo, there
  <2> HIDE DEF left
  <2>2. CASE cycle' = [cycle EXCEPT ![d] = [cycle[d] EXCEPT !.todo = left]]
    <3> DEFINE stage == [cycle[d] EXCEPT !.todo = left]
    <3>1. stage \in Mirroring /\ stage.gone = cycle[d].gone /\ stage.going = cycle[d].going
      BY <1>1, <1>2, MirrorUpdates
    <3>2. cycle' = [cycle EXCEPT ![d] = stage]
      BY <2>2
    <3> HIDE DEF stage
    <3> QED BY <3>1, <3>2
  <2>3. CASE cycle' = [cycle EXCEPT ![d] = [cycle[d] EXCEPT !.todo = {}, !.alive = {f}]]
    <3> DEFINE stage == [cycle[d] EXCEPT !.todo = {}, !.alive = {f}]
    <3>1. stage \in Mirroring /\ stage.gone = cycle[d].gone /\ stage.going = cycle[d].going
      BY <1>1, <1>2, MirrorUpdates
    <3>2. cycle' = [cycle EXCEPT ![d] = stage]
      BY <2>3
    <3> HIDE DEF stage
    <3> QED BY <3>1, <3>2
  <2>4. CASE /\ cycle' = [cycle EXCEPT ![d] = [cycle[d] EXCEPT !.going = {f}]]
             /\ Verified(d, f) /\ UNCHANGED <<remote, row>>
    <3> DEFINE stage == [cycle[d] EXCEPT !.going = {f}]
    <3>1. stage \in Mirroring /\ stage.gone = cycle[d].gone /\ stage.going = {f}
      BY <1>1, <1>2, MirrorUpdates
    <3>2. cycle' = [cycle EXCEPT ![d] = stage] /\ Verified(d, f) /\ UNCHANGED <<remote, row>>
      BY <2>4
    <3> HIDE DEF stage
    <3> QED BY <3>1, <3>2
  <2> QED BY <2>1, <2>2, <2>3, <2>4
<1>4. CASE RemoveFile(d, f)
  <2>1. \/ cycle' = [cycle EXCEPT ![d] = [cycle[d] EXCEPT !.going = {}, !.went = {f}]]
        \/ cycle' = [cycle EXCEPT ![d] = [cycle[d] EXCEPT !.going = {}, !.todo = left]]
    BY <1>4 DEF RemoveFile, GoesTo
  <2> HIDE DEF left
  <2>2. CASE cycle' = [cycle EXCEPT ![d] = [cycle[d] EXCEPT !.going = {}, !.went = {f}]]
    <3> DEFINE stage == [cycle[d] EXCEPT !.going = {}, !.went = {f}]
    <3>1. stage \in Mirroring /\ stage.gone = cycle[d].gone /\ stage.going = {}
      BY <1>1, <1>2, MirrorUpdates
    <3>2. cycle' = [cycle EXCEPT ![d] = stage]
      BY <2>2
    <3> HIDE DEF stage
    <3> QED BY <3>1, <3>2
  <2>3. CASE cycle' = [cycle EXCEPT ![d] = [cycle[d] EXCEPT !.going = {}, !.todo = left]]
    <3> DEFINE stage == [cycle[d] EXCEPT !.going = {}, !.todo = left]
    <3>1. stage \in Mirroring /\ stage.gone = cycle[d].gone /\ stage.going = {}
      BY <1>1, <1>2, MirrorUpdates
    <3>2. cycle' = [cycle EXCEPT ![d] = stage]
      BY <2>3
    <3> HIDE DEF stage
    <3> QED BY <3>1, <3>2
  <2> QED BY <2>1, <2>2, <2>3
<1>5. CASE ForgetRow(d, f)
  <2>1. cycle' = [cycle EXCEPT ![d] = [cycle[d] EXCEPT !.went = {}, !.todo = left, !.removed = removed]]
    BY <1>5 DEF ForgetRow, GoesTo
  <2> DEFINE stage == [cycle[d] EXCEPT !.went = {}, !.todo = left, !.removed = removed]
  <2> HIDE DEF left, removed
  <2>2. stage \in Mirroring /\ stage.gone = cycle[d].gone /\ stage.going = cycle[d].going
    BY <1>1, <1>2 DEF Mirroring
  <2>3. cycle' = [cycle EXCEPT ![d] = stage]
    BY <2>1
  <2> HIDE DEF stage
  <2> QED BY <2>2, <2>3
<1> QED BY <1>3, <1>4, <1>5

(* The steps of a cycle before and after the end of its mirroring: only the *)
(* first leads to the marking, and what is taken to push only shrinks.     *)
Onward(d) == \/ Begin(d) \/ markDeletesJournaled(d) \/ ReadJournal(d) \/ Publish(d) \/ List(d) \/ Probe(d) \/ Sort(d)
             \/ \E f \in Files : CheckFile(d, f) \/ RemoveFile(d, f) \/ ForgetRow(d, f) \/ PushWrite(d, f)
             \/ At(d, "push") /\ \E r \in cycle[d].deletes : CheckDelete(d, r) \/ PushDelete(d, r)

LEMMA CycleStages ==
  ASSUME Types, NEW d \in Devices, Onward(d)
  PROVE  \E stage \in Stages :
           /\ cycle' = [cycle EXCEPT ![d] = stage]
           /\ stage.phase = "mark" => Begin(d)
           /\ stage.phase = "push" => At(d, "push") /\ stage.deletes \subseteq cycle[d].deletes
<1>1. CASE Begin(d)
  <2> DEFINE stage == IF Pending(d) = {} THEN [phase |-> "read"] ELSE [phase |-> "mark", pending |-> Pending(d)]
  <2>1. Pending(d) \subseteq Entries
    BY DEF Pending, Types
  <2>2. stage \in Stages /\ stage.phase # "push"
    BY <2>1 DEF Stages, Marking
  <2>3. cycle' = [cycle EXCEPT ![d] = stage]
    BY <1>1 DEF Begin, GoesTo, Pending
  <2> QED BY <1>1, <2>2, <2>3
<1>2. CASE markDeletesJournaled(d) \/ ReadJournal(d) \/ Publish(d)
  <2>1. PICK phase \in {"read", "publish", "list"} : cycle' = [cycle EXCEPT ![d] = [phase |-> phase]]
    BY <1>2 DEF markDeletesJournaled, ReadJournal, Publish, GoesTo
  <2>2. [phase |-> phase] \in Stages /\ [phase |-> phase].phase \notin {"mark", "push"}
    BY DEF Stages
  <2> QED BY <2>1, <2>2
<1>3. CASE List(d)
  <2>1. PICK listing \in SUBSET Files, empty \in BOOLEAN :
          cycle' = [cycle EXCEPT ![d] = [phase |-> "probe", listing |-> listing, empty |-> empty]]
    <3>1. PICK listing \in SUBSET Files, empty \in BOOLEAN : \E stale : Brings(d, listing, empty, stale)
      BY <1>3, ListBrings
    <3> QED BY <3>1 DEF Brings
  <2> DEFINE stage == [phase |-> "probe", listing |-> listing, empty |-> empty]
  <2>2. stage \in Stages /\ stage.phase \notin {"mark", "push"}
    BY DEF Stages, Probing
  <2> HIDE DEF stage
  <2>3. cycle' = [cycle EXCEPT ![d] = stage]
    BY <2>1 DEF stage
  <2> QED BY <2>2, <2>3
<1>4. CASE Probe(d) \/ Sort(d) \/ \E f \in Files : CheckFile(d, f) \/ RemoveFile(d, f) \/ ForgetRow(d, f)
  <2>1. PICK stage \in Mirroring : cycle' = [cycle EXCEPT ![d] = stage]
    BY <1>4, ProbeFinds, SortFinds, MirrorStage
  <2>2. stage \in Stages /\ stage.phase \notin {"mark", "push"}
    BY DEF Stages, Mirroring
  <2> QED BY <2>1, <2>2
<1>5. CASE \/ At(d, "push") /\ \E r \in cycle[d].deletes : CheckDelete(d, r) \/ PushDelete(d, r)
           \/ \E f \in Files : PushWrite(d, f)
  <2>1. At(d, "push") /\ cycle[d] \in Pushing
    BY <1>5, StageOf DEF PushWrite
  <2>2. CASE \E r \in cycle[d].deletes : CheckDelete(d, r) \/ PushDelete(d, r)
    <3>1. PICK r \in cycle[d].deletes : CheckDelete(d, r) \/ PushDelete(d, r)
      BY <2>2
    <3> DEFINE left == cycle[d].deletes \ {r}
    <3>2. left \subseteq Entries /\ left \subseteq cycle[d].deletes /\ {r} \subseteq Entries
      BY <2>1 DEF Pushing
    <3>3. \/ cycle' = [cycle EXCEPT ![d] = [cycle[d] EXCEPT !.deletes = left]]
          \/ cycle' = [cycle EXCEPT ![d] = [cycle[d] EXCEPT !.sending = {r}]]
          \/ cycle' = [cycle EXCEPT ![d] = [cycle[d] EXCEPT !.sending = {}, !.deletes = left]]
      BY <3>1 DEF CheckDelete, PushDelete, GoesTo
    <3> HIDE DEF left
    <3>4. \A stage \in {[cycle[d] EXCEPT !.deletes = left], [cycle[d] EXCEPT !.sending = {r}],
                        [cycle[d] EXCEPT !.sending = {}, !.deletes = left]} :
            stage \in Pushing /\ stage.phase = "push" /\ stage.deletes \subseteq cycle[d].deletes
      BY <2>1, <3>2 DEF Pushing
    <3>5. PICK stage \in Pushing : /\ cycle' = [cycle EXCEPT ![d] = stage]
                                   /\ stage.phase = "push" /\ stage.deletes \subseteq cycle[d].deletes
      BY <3>3, <3>4
    <3>6. stage \in Stages
      BY DEF Stages
    <3> QED BY <2>1, <3>5, <3>6
  <2>3. CASE \E f \in Files : PushWrite(d, f)
    <3>1. PICK f \in Files : cycle' = [cycle EXCEPT ![d] = [cycle[d] EXCEPT !.writes = @ \ {f}]]
      BY <2>3 DEF PushWrite, GoesTo
    <3> DEFINE stage == [cycle[d] EXCEPT !.writes = @ \ {f}]
    <3>2. stage \in Stages /\ stage.phase = "push" /\ stage.deletes = cycle[d].deletes
      BY <2>1 DEF Pushing, Stages
    <3> HIDE DEF stage
    <3>3. cycle' = [cycle EXCEPT ![d] = stage]
      BY <3>1 DEF stage
    <3> QED BY <2>1, <3>2, <3>3
  <2> QED BY <1>5, <2>2, <2>3
<1> QED BY <1>1, <1>2, <1>3, <1>4, <1>5 DEF Onward

LEMMA OneCycle ==
  ASSUME Types, NEW d \in Devices, NEW stage, cycle' = [cycle EXCEPT ![d] = stage]
  PROVE  cycle'[d] = stage /\ \A e \in Devices : e # d => cycle'[e] = cycle[e]
BY DEF Types

LEMMA CycleTypes ==
  ASSUME Types, Dated, NEW d \in Devices, Cycle(d)
  PROVE  Types'
<1> SUFFICES ASSUME Onward(d)
             PROVE  Types'
  BY ConcludeTypes DEF Cycle, Onward
<1> USE DEF clocks, there, here, person
<1>1. cycle' \in [Devices -> Stages]
  BY CycleStages DEF Types
<1>2. CASE Begin(d)
  BY <1>1, <1>2, IntentsRecorded DEF Begin, Types
<1>3. CASE markDeletesJournaled(d)
  <2> DEFINE marked == deletes[d] \cap cycle[d].pending
  <2>1. \A r \in marked : [r EXCEPT !.journaled = TRUE] \in Entries
    <3>1. marked \subseteq Entries
      BY DEF Types
    <3> QED BY <3>1 DEF Entries
  <2>2. deletes' \in [Devices -> SUBSET Entries]
    BY <1>3, <2>1 DEF markDeletesJournaled, Types
  <2> QED BY <1>1, <1>3, <2>2 DEF markDeletesJournaled, Types
<1>4. CASE ReadJournal(d)
  BY <1>1, <1>4, JournalRead DEF ReadJournal, Types
<1>5. CASE Publish(d)
  BY <1>1, <1>5 DEF Publish, Types
<1>6. CASE List(d)
  <2>1. PICK listing \in SUBSET Files, empty \in BOOLEAN : \E stale : Brings(d, listing, empty, stale)
    BY <1>6, ListBrings
  <2> PICK stale : /\ local' = [local EXCEPT ![d] = @ \cup Pulled(d, listing)]
                   /\ journal' = [journal EXCEPT ![d] = retractPaths(@, stale)]
    BY <2>1 DEF Brings
  <2>2. Pulled(d, listing) \subseteq Files
    BY DEF Pulled
  <2>3. retractPaths(journal[d], stale) \in Journals
    BY Retracted DEF Types, Dated, DatedJournals
  <2> QED BY <1>1, <1>6, <2>2, <2>3 DEF List, Types
<1>7. CASE Probe(d) \/ Sort(d)
  <2>1. PICK missing : session' \in {session, [session EXCEPT ![d].approvedMissing = @ \cap missing]}
    BY <1>7, ProbeFinds, SortFinds
  <2>2. session' \in [Devices -> Sessions]
    <3> DEFINE s == [session[d] EXCEPT !.approvedMissing = @ \cap missing]
    <3>1. session[d] \in Sessions
      BY DEF Types
    <3>2. s \in Sessions
      BY <3>1 DEF Sessions
    <3>3. session' = session \/ session' = [session EXCEPT ![d] = s]
      BY <2>1, <3>1 DEF Types
    <3> HIDE DEF s
    <3> QED BY <3>2, <3>3 DEF Types
  <2> QED BY <1>1, <1>7, <2>2 DEF Probe, Sort, Types
<1>8. CASE \E f \in Files : CheckFile(d, f) \/ RemoveFile(d, f) \/ ForgetRow(d, f)
  <2>1. local' \in [Devices -> SUBSET Files]
    BY <1>8 DEF CheckFile, RemoveFile, ForgetRow, Types
  <2> QED BY <1>1, <1>8, <2>1 DEF CheckFile, RemoveFile, ForgetRow, Types
<1>9. CASE At(d, "push") /\ \E r \in cycle[d].deletes : CheckDelete(d, r) \/ PushDelete(d, r)
  <2>1. deletes' \in [Devices -> SUBSET Entries]
    BY <1>9 DEF CheckDelete, PushDelete, Types
  <2> QED BY <1>1, <1>9, <2>1 DEF CheckDelete, PushDelete, Types
<1>10. CASE \E f \in Files : PushWrite(d, f)
  <2>1. writes' \in [Devices -> SUBSET Files]
    BY <1>10 DEF PushWrite, Types
  <2> QED BY <1>1, <1>10, <2>1 DEF PushWrite, Types
<1> QED BY <1>2, <1>3, <1>4, <1>5, <1>6, <1>7, <1>8, <1>9, <1>10 DEF Onward

LEMMA NextTypes == Types /\ Dated /\ [Next]_vars => Types'
<1>1. Types /\ UNCHANGED vars => Types'
  BY DEF Types, vars, clocks, there, here, person
<1> QED BY <1>1, PersonTypes, FaultTypes, CycleTypes DEF Next

-----------------------------------------------------------------------------
(* What a step does to the journals, whatever it does to the rest.         *)

LEMMA ListRetracts ==
  ASSUME Types, Dated, NEW d \in Devices, List(d)
  PROVE  \E j \in Journals :
           /\ journal' = [journal EXCEPT ![d] = j]
           /\ \A f \in Files : j[f].gone >= journal[d][f].gone /\ j[f].back >= journal[d][f].back /\ j[f].back <= Now
<1>1. PICK stale : journal' = [journal EXCEPT ![d] = retractPaths(@, stale)]
  <2>1. PICK listing \in SUBSET Files, empty \in BOOLEAN : \E stale : Brings(d, listing, empty, stale)
    BY ListBrings
  <2> QED BY <2>1 DEF Brings
<1>2. journal[d] \in Journals /\ clock \in Nat /\ \A f \in Files : journal[d][f].back <= Now
  BY DEF Types, Dated, DatedJournals
<1>3. \A f \in Files : journal[d][f].gone \in Nat
  BY <1>2 DEF Journals
<1> DEFINE j == retractPaths(journal[d], stale)
<1>4. j \in Journals /\ \A f \in Files : j[f].gone = journal[d][f].gone /\ j[f].back >= journal[d][f].back /\ j[f].back <= Now
  BY <1>2, Retracted
<1>5. journal' = [journal EXCEPT ![d] = j]
  BY <1>1
<1> HIDE DEF j
<1>6. \A f \in Files : j[f].gone >= journal[d][f].gone
  BY <1>3, <1>4
<1> QED BY <1>4, <1>5, <1>6

Grown == \A d \in Devices, f \in Files :
           journal'[d][f].gone >= journal[d][f].gone /\ journal'[d][f].back >= journal[d][f].back

LEMMA JournalsWritten ==
  ASSUME Types, Dated, NEW d \in Devices, NEW j \in Journals, journal' = [journal EXCEPT ![d] = j],
         \A f \in Files : j[f].gone >= journal[d][f].gone /\ j[f].back >= journal[d][f].back /\ j[f].back <= Now,
         UNCHANGED <<clock, published>>
  PROVE  Grown /\ DatedJournals'
<1>1. journal \in [Devices -> Journals]
  BY DEF Types
<1>2. \A e \in Devices, f \in Files : journal[e][f].gone \in Nat /\ journal[e][f].back \in Nat
  BY <1>1 DEF Journals
<1>3. \A e \in Devices : journal'[e] = IF e = d THEN j ELSE journal[e]
  BY <1>1
<1>4. Now' = Now
  BY DEF Now
<1> QED BY <1>2, <1>3, <1>4 DEF Grown, Dated, DatedJournals

LEMMA JournalsKept ==
  ASSUME Types, Dated, journal' = journal, clock' = clock \/ clock' = clock + 1,
         published' = published \/ \E d \in Devices : published' = journal[d]
  PROVE  Grown /\ DatedJournals'
<1>1. \A e \in Devices, f \in Files : journal[e][f].gone \in Nat /\ journal[e][f].back \in Nat /\ published[f].back \in Nat
  BY DEF Types, Journals
<1>2. Now \in Nat /\ Now' \in Nat /\ Now' >= Now
  BY DEF Now, Types
<1>3. \A e \in Devices, f \in Files : journal[e][f].back <= Now'
  BY <1>1, <1>2 DEF Dated, DatedJournals
<1>4. \A f \in Files : published[f].back <= Now /\ published[f].back \in Nat
  BY DEF Dated, DatedJournals, Types, Journals
<1>5. \A f \in Files : published'[f].back <= Now'
  BY <1>2, <1>3, <1>4
<1> QED BY <1>1, <1>3, <1>5 DEF Grown, DatedJournals

LEMMA JournalsStep ==
  ASSUME Types, Dated, [Next]_vars
  PROVE  Grown /\ DatedJournals'
<1>1. ASSUME NEW d \in Devices, Person(d)
      PROVE  Grown /\ DatedJournals'
  <2>1. UNCHANGED <<journal, published>> /\ clock' = clock + 1
    BY <1>1 DEF Person, DeleteFiles, Recreate, approveMassDeletion, discardMassDeletion, approveSuspendedDeletions,
                keepSuspendedDeletionsLocal, Acts, there, here
  <2> QED BY <2>1, JournalsKept
<1>2. ASSUME NEW d \in Devices, Begin(d) \/ ReadJournal(d) \/ List(d) \/ Conclude(d)
      PROVE  Grown /\ DatedJournals'
  <2>1. UNCHANGED <<clock, published>>
    BY <1>2 DEF Begin, ReadJournal, List, Conclude, clocks, there
  <2>2. \E j \in Journals :
          /\ journal' = [journal EXCEPT ![d] = j]
          /\ \A f \in Files : j[f].gone >= journal[d][f].gone /\ j[f].back >= journal[d][f].back /\ j[f].back <= Now
    <3>1. CASE Begin(d)
      BY <3>1, IntentsRecorded
    <3>2. CASE ReadJournal(d)
      BY <3>2, JournalRead
    <3>3. CASE List(d)
      BY <3>3, ListRetracts
    <3>4. CASE Conclude(d)
      <4>1. At(d, "mirror")
        BY <3>4 DEF Conclude
      <4> QED BY <3>4, <4>1, ConcludeJournals
    <3> QED BY <1>2, <3>1, <3>2, <3>3, <3>4
  <2> QED BY <2>1, <2>2, JournalsWritten
<1>3. ASSUME NEW d \in Devices, Publish(d)
      PROVE  Grown /\ DatedJournals'
  <2>1. UNCHANGED <<journal, clock>> /\ (published' = journal[d] \/ published' = published)
    BY <1>3 DEF Publish, here, clocks
  <2> QED BY <2>1, JournalsKept
<1>4. ASSUME NEW d \in Devices, \/ markDeletesJournaled(d) \/ Probe(d) \/ Sort(d) \/ Emptied(d) \/ Crash(d)
                                \/ \E f \in Files : CheckFile(d, f) \/ RemoveFile(d, f) \/ ForgetRow(d, f) \/ PushWrite(d, f)
                                \/ \E r \in cycle[d].deletes : CheckDelete(d, r) \/ PushDelete(d, r)
      PROVE  Grown /\ DatedJournals'
  <2>1. UNCHANGED <<journal, published>> /\ (clock' = clock \/ clock' = clock + 1)
    BY <1>4 DEF markDeletesJournaled, Probe, Sort, Emptied, Crash, CheckFile, RemoveFile, ForgetRow, PushWrite,
                CheckDelete, PushDelete, here, there, clocks
  <2> QED BY <2>1, JournalsKept
<1>5. CASE (\E S \in SUBSET Files : RemoteLoses(S)) \/ DayPasses \/ UNCHANGED vars
  <2>1. UNCHANGED <<journal, published, clock>>
    BY <1>5 DEF RemoteLoses, DayPasses, vars, here, there, clocks
  <2> QED BY <2>1, JournalsKept
<1> QED BY <1>1, <1>2, <1>3, <1>4, <1>5 DEF Next, Cycle

-----------------------------------------------------------------------------
(* The queue, the answers and what a cycle has taken to push.              *)

Held == JournalKnows /\ OneAct /\ Together /\ Cleared

(* A step that leaves the queue, the questions and the answers alone and   *)
(* takes nothing more to push.                                             *)
LEMMA Steady ==
  ASSUME Types, Dated, Held, Grown, Types', clock' = clock \/ clock' = clock + 1, deletes' = deletes,
         \A d \in Devices : /\ session'[d].promptIds = session[d].promptIds
                            /\ session'[d].approvedIds = session[d].approvedIds,
         \A d \in Devices : cycle'[d].phase = "push" =>
            cycle[d].phase = "push" /\ cycle'[d].deletes \subseteq cycle[d].deletes
  PROVE  DatedEntries' /\ Held'
<1>1. clock \in Nat
  BY DEF Types
<1>2. DatedEntries'
  <2>1. \A d \in Devices : /\ \A r \in deletes[d] : r.at \in Nat
                           /\ \A i \in session[d].promptIds : i[2] \in Nat
                           /\ \A a \in session[d].approvedIds : a.time \in Nat
    BY DEF Types, Entries, Sessions, Ids
  <2> QED BY <1>1, <2>1 DEF Dated, DatedEntries
<1>3. JournalKnows'
  <2>1. ASSUME NEW d \in Devices, NEW r \in deletes[d], r.journaled
        PROVE  journal'[d][r.file].gone >= 2 * r.at
    <3>1. r.file \in Files /\ 2 * r.at \in Nat /\ journal[d][r.file].gone \in Nat /\ journal'[d][r.file].gone \in Nat
      <4>1. r.file \in Files /\ r.at \in Nat
        BY DEF Types, Entries
      <4> QED BY <4>1, Twice DEF Types, Journals
    <3>2. journal[d][r.file].gone >= 2 * r.at
      BY <2>1 DEF Held, JournalKnows
    <3> QED BY <3>1, <3>2 DEF Grown
  <2> QED BY <2>1 DEF JournalKnows
<1>4. \A d \in Devices : \A r : Approved(d, r)' = Approved(d, r)
  BY DEF Approved, Approvals
<1>5. OneAct' /\ Together'
  BY <1>4 DEF Held, OneAct, Together, Mates, Unanswered
<1>6. Cleared'
  BY <1>4 DEF Held, Cleared, At
<1> QED BY <1>2, <1>3, <1>5, <1>6 DEF Held

LEMMA KnownStays ==
  ASSUME Types, Held, Grown, Types', NEW d \in Devices, NEW r \in deletes[d], r.journaled
  PROVE  journal'[d][r.file].gone >= 2 * r.at
<1>1. r.file \in Files /\ r.at \in Nat
  BY DEF Types, Entries
<1>2. 2 * r.at \in Nat /\ journal[d][r.file].gone \in Nat /\ journal'[d][r.file].gone \in Nat
  BY <1>1, Twice DEF Types, Journals
<1> QED BY <1>1, <1>2 DEF Held, JournalKnows, Grown

(* An act that queues deletions of its own time.                           *)
Lasts(e) == session'[e] = session[e] /\ cycle'[e] = cycle[e]
Ends(e) == session'[e].promptIds = {} /\ session'[e].approvedIds = {} /\ cycle'[e].phase # "push"

LEMMA NewEntriesStep ==
  ASSUME Types, Dated, Held, Grown, Types', NEW d \in Devices, NEW new,
         \A r, s \in new : r.confirmed = s.confirmed,
         \A r \in new : r.at = clock + 1 /\ ~r.journaled /\ r.of = Cardinality({s.file : s \in new}),
         Cardinality({s.file : s \in new}) \in Nat,
         clock' = clock + 1, deletes' = [deletes EXCEPT ![d] = @ \cup new], \A e \in Devices : Lasts(e) \/ Ends(e)
  PROVE  DatedEntries' /\ Held'
<1>1. clock \in Nat
  BY DEF Types
<1>2. \A r \in new : r.at = clock + 1 /\ ~r.journaled
  OBVIOUS
<1>4. \A e \in Devices : deletes'[e] = IF e = d THEN deletes[e] \cup new ELSE deletes[e]
  BY DEF Types
<1>5. \A e \in Devices : \A r \in deletes[e] : r.at \in Nat /\ r.at <= clock /\ r.at # clock + 1
  BY <1>1 DEF Types, Dated, DatedEntries, Entries
<1>6. /\ \A e \in Devices : \A i \in session[e].promptIds : i[2] \in Nat /\ i[2] <= clock /\ i[2] # clock + 1
      /\ \A e \in Devices : \A a \in session[e].approvedIds : a.time \in Nat /\ a.id[2] \in Nat /\ a.id[2] # clock + 1
      /\ \A e \in Devices : \A a \in session[e].approvedIds : 2 * a.id[2] <= a.time /\ a.time <= 2 * clock
  <2>1. /\ \A e \in Devices : \A i \in session[e].promptIds : i[2] \in Nat /\ i[2] <= clock
        /\ \A e \in Devices : \A a \in session[e].approvedIds :
             a.time \in Nat /\ a.id[2] \in Nat /\ 2 * a.id[2] <= a.time /\ a.time <= 2 * clock
    BY DEF Types, Sessions, Ids, Dated, DatedEntries
  <2> QED BY <1>1, <2>1
<1>7. DatedEntries'
  <2>1. \A e \in Devices : \A r \in deletes'[e] : r.at <= clock'
    BY <1>1, <1>2, <1>4, <1>5
  <2>2. \A e \in Devices : /\ \A i \in session[e].promptIds : i[2] <= clock'
                           /\ \A a \in session[e].approvedIds : 2 * a.id[2] <= a.time /\ a.time <= 2 * clock'
    BY <1>1, <1>6
  <2> QED BY <2>1, <2>2 DEF DatedEntries, Lasts, Ends
<1>8. JournalKnows'
  BY <1>2, <1>4, KnownStays DEF JournalKnows
<1>9. OneAct'
  BY <1>2, <1>4, <1>5 DEF Held, OneAct
<1>10. \A e \in Devices : \/ /\ \A r : Approved(e, r)' = Approved(e, r)
                             /\ session'[e].promptIds = session[e].promptIds
                          \/ (\A r : ~Approved(e, r)') /\ session'[e].promptIds = {}
  BY DEF Approved, Approvals, Lasts, Ends
<1>11. \A r \in new : ~Approved(d, r) /\ Id(r) \notin session[d].promptIds
  BY <1>2, <1>6 DEF Approved, Approvals, Id
<1>12. Together'
  <2> SUFFICES ASSUME NEW e \in Devices, NEW r \in deletes'[e], Unanswered(e, r)'
               PROVE  /\ Cardinality({s.file : s \in Mates(e, r)'}) >= r.of
                      /\ \A s \in Mates(e, r)' : /\ Approved(e, s)' <=> Approved(e, r)'
                                                 /\ Id(s) \in session'[e].promptIds <=> Id(r) \in session'[e].promptIds
    BY DEF Together
  <2>1. CASE e = d /\ r \in new
    <3>1. Mates(e, r)' = new
      BY <1>2, <1>4, <1>5, <2>1 DEF Mates
    <3>2. \A s \in new : ~Approved(e, s)' /\ Id(s) \notin session'[e].promptIds
      BY <1>10, <1>11, <2>1
    <3> QED BY <2>1, <3>1, <3>2
  <2>2. CASE ~(e = d /\ r \in new)
    <3>1. r \in deletes[e] /\ Unanswered(e, r)
      BY <1>4, <2>2 DEF Unanswered
    <3>2. Mates(e, r)' = Mates(e, r)
      BY <1>2, <1>4, <1>5, <3>1 DEF Mates
    <3>3. /\ Cardinality({s.file : s \in Mates(e, r)}) >= r.of
          /\ \A s \in Mates(e, r) : /\ Approved(e, s) <=> Approved(e, r)
                                    /\ Id(s) \in session[e].promptIds <=> Id(r) \in session[e].promptIds
      BY <3>1 DEF Held, Together
    <3> QED BY <1>10, <3>2, <3>3
  <2> QED BY <2>1, <2>2
<1>13. Cleared'
  <2> SUFFICES ASSUME NEW e \in Devices, At(e, "push")', NEW r \in cycle'[e].deletes
               PROVE  r.journaled \/ (~r.confirmed /\ r.of <= MassMin /\ ~Approved(e, r)' /\ session'[e].promptIds = {})
    BY DEF Cleared
  <2>1. Lasts(e)
    BY DEF At, Ends
  <2>2. \A q : Approved(e, q)' = Approved(e, q)
    BY <2>1 DEF Lasts, Approved, Approvals
  <2> QED BY <2>1, <2>2 DEF Lasts, Held, Cleared, At
<1> QED BY <1>7, <1>8, <1>9, <1>12, <1>13 DEF Held

LEMMA QueuedStep ==
  ASSUME Types, Dated, Held, Grown, Types', NEW d \in Devices, NEW S \in SUBSET Files, NEW sure \in BOOLEAN,
         clock' = clock + 1, deletes' = [deletes EXCEPT ![d] = @ \cup Queued(S, sure)],
         \A e \in Devices : Lasts(e) \/ Ends(e)
  PROVE  DatedEntries' /\ Held'
<1>1. PICK new : new = Queued(S, sure)
  OBVIOUS
<1>2. \A r \in new : /\ r.at = clock + 1 /\ r.confirmed = sure /\ ~r.journaled /\ r.of = Cardinality(S)
                     /\ r.file \in S
  BY <1>1 DEF Queued
<1>3. \A f \in S : \E r \in new : r.file = f
  <2> TAKE f \in S
  <2>1. [file |-> f, at |-> clock', confirmed |-> sure, journaled |-> FALSE, of |-> Cardinality(S)] \in new
    BY <1>1 DEF Queued
  <2> QED BY <2>1
<1>4. {r.file : r \in new} = S
  BY <1>2, <1>3
<1>5. Cardinality(S) \in Nat
  BY HowMany
<1> QED BY <1>1, <1>2, <1>4, <1>5, NewEntriesStep

(* The answers to the question before this device's deletions go up.       *)
LEMMA ApproveStep ==
  ASSUME Types, Dated, Held, Grown, Types', NEW d \in Devices, approveMassDeletion(d)
  PROVE  DatedEntries' /\ Held'
<1> DEFINE new == {[id |-> i, time |-> 2 * clock'] : i \in session[d].promptIds}
<1>1. UNCHANGED <<deletes, cycle>> /\ clock' = clock + 1 /\ session[d].promptIds # {}
  BY DEF approveMassDeletion, Acts, here
<1>2. session[d] \in Sessions /\ clock \in Nat
  BY DEF Types
<1>3. /\ session'[d].promptIds = {}
      /\ session'[d].approvedIds = session[d].approvedIds \cup new
      /\ \A e \in Devices : e # d => session'[e] = session[e]
  <2> HIDE DEF new
  <2>1. session' = [session EXCEPT ![d].approvedIds = @ \cup new, ![d].promptIds = {}, ![d].signaled = FALSE]
    BY DEF approveMassDeletion, new
  <2>2. session' = [session EXCEPT ![d] = [session[d] EXCEPT !.approvedIds = @ \cup new, !.promptIds = {}, !.signaled = FALSE]]
    BY <1>2, <2>1 DEF Types
  <2> QED BY <1>2, <2>2 DEF Types, Sessions
<1>4. \A e \in Devices : /\ \A r \in deletes[e] : r.at \in Nat /\ r.at <= clock
                         /\ \A i \in session[e].promptIds : i[2] \in Nat /\ i[2] <= clock
                         /\ \A a \in session[e].approvedIds :
                              a.time \in Nat /\ a.id[2] \in Nat /\ 2 * a.id[2] <= a.time /\ a.time <= 2 * clock
  BY DEF Types, Entries, Sessions, Ids, Dated, DatedEntries
<1>5. \A a \in new : a.id \in session[d].promptIds /\ a.time = 2 * clock' /\ 2 * a.id[2] <= a.time
  BY <1>1, <1>2, <1>4
<1>6. \A i \in session[d].promptIds : \E a \in new : a.id = i
  <2> TAKE i \in session[d].promptIds
  <2>1. [id |-> i, time |-> 2 * clock'] \in new
    OBVIOUS
  <2> HIDE DEF new
  <2> QED BY <2>1
<1> HIDE DEF new
<1>7. DatedEntries'
  <2>1. \A e \in Devices : /\ \A r \in deletes[e] : r.at <= clock'
                           /\ \A i \in session[e].promptIds : i[2] <= clock'
                           /\ \A a \in session[e].approvedIds : 2 * a.id[2] <= a.time /\ a.time <= 2 * clock'
    BY <1>1, <1>2, <1>4
  <2>2. \A a \in new : 2 * a.id[2] <= a.time /\ a.time <= 2 * clock'
    BY <1>1, <1>2, <1>5
  <2> QED BY <1>1, <1>3, <2>1, <2>2 DEF DatedEntries
<1>8. JournalKnows' /\ OneAct'
  BY <1>1, KnownStays DEF Held, OneAct, JournalKnows
<1>9. /\ \A r : Approved(d, r)' <=> Approved(d, r) \/ Id(r) \in session[d].promptIds
      /\ \A e \in Devices : \A r : e # d => (Approved(e, r)' <=> Approved(e, r))
  BY <1>3, <1>5, <1>6 DEF Approved, Approvals
<1>10. Together'
  <2>1. \A e \in Devices : \A r : Mates(e, r)' = Mates(e, r) /\ (Unanswered(e, r)' <=> Unanswered(e, r))
    BY <1>1 DEF Mates, Unanswered
  <2> QED BY <1>1, <1>3, <1>9, <2>1 DEF Held, Together
<1>11. Cleared'
  BY <1>1, <1>3, <1>9 DEF Held, Cleared, At
<1> QED BY <1>7, <1>8, <1>10, <1>11 DEF Held

LEMMA DiscardStep ==
  ASSUME Types, Dated, Held, Grown, Types', NEW d \in Devices, discardMassDeletion(d)
  PROVE  DatedEntries' /\ Held'
<1> DEFINE held == {r \in deletes[d] : Id(r) \in session[d].promptIds}
<1>1. UNCHANGED cycle /\ clock' = clock + 1 /\ session[d].promptIds # {}
  BY DEF discardMassDeletion, Acts
<1>2. session[d] \in Sessions /\ clock \in Nat
  BY DEF Types
<1>3. /\ session'[d].promptIds = {} /\ session'[d].approvedIds = session[d].approvedIds
      /\ \A e \in Devices : e # d => session'[e] = session[e]
  <2>1. session' = [session EXCEPT ![d].promptIds = {}, ![d].signaled = FALSE]
    BY DEF discardMassDeletion
  <2>2. session' = [session EXCEPT ![d] = [session[d] EXCEPT !.promptIds = {}, !.signaled = FALSE]]
    BY <1>2, <2>1 DEF Types
  <2> QED BY <1>2, <2>2 DEF Types, Sessions
<1>4. \A e \in Devices : deletes'[e] = IF e = d THEN deletes[e] \ held ELSE deletes[e]
  BY DEF discardMassDeletion, Types
<1>5. \A e \in Devices : /\ \A r \in deletes[e] : r.at \in Nat /\ r.at <= clock
                         /\ \A i \in session[e].promptIds : i[2] \in Nat /\ i[2] <= clock
                         /\ \A a \in session[e].approvedIds :
                              a.time \in Nat /\ a.id[2] \in Nat /\ 2 * a.id[2] <= a.time /\ a.time <= 2 * clock
  BY DEF Types, Entries, Sessions, Ids, Dated, DatedEntries
<1>6. DatedEntries'
  <2>1. \A e \in Devices : /\ \A r \in deletes[e] : r.at <= clock'
                           /\ \A i \in session[e].promptIds : i[2] <= clock'
                           /\ \A a \in session[e].approvedIds : 2 * a.id[2] <= a.time /\ a.time <= 2 * clock'
    BY <1>1, <1>2, <1>5
  <2> QED BY <1>1, <1>3, <1>4, <2>1 DEF DatedEntries
<1>7. JournalKnows' /\ OneAct'
  BY <1>4, KnownStays DEF Held, OneAct, JournalKnows
<1>8. \A e \in Devices : \A r : Approved(e, r)' <=> Approved(e, r)
  BY <1>3 DEF Approved, Approvals
<1>9. Together'
  <2> SUFFICES ASSUME NEW e \in Devices, NEW r \in deletes'[e], Unanswered(e, r)'
               PROVE  /\ Cardinality({s.file : s \in Mates(e, r)'}) >= r.of
                      /\ \A s \in Mates(e, r)' : /\ Approved(e, s) <=> Approved(e, r)
                                                 /\ Id(s) \in session'[e].promptIds <=> Id(r) \in session'[e].promptIds
    BY <1>8 DEF Together
  <2>1. r \in deletes[e] /\ Unanswered(e, r)
    BY <1>4 DEF Unanswered
  <2>2. \A s \in Mates(e, r) : Approved(e, s) <=> Approved(e, r)
    BY <2>1 DEF Held, Together
  <2>3. Mates(e, r)' = Mates(e, r)
    <3>1. CASE e = d
      <4>1. Id(r) \notin session[d].promptIds
        BY <1>4, <2>1, <3>1
      <4>2. \A s \in Mates(e, r) : s \in deletes[d] /\ Id(s) \notin session[d].promptIds
        BY <2>1, <3>1, <4>1 DEF Held, Together, Mates
      <4> QED BY <1>4, <3>1, <4>2 DEF Mates
    <3>2. CASE e # d
      BY <1>4, <3>2 DEF Mates
    <3> QED BY <3>1, <3>2
  <2> QED BY <1>3, <2>1, <2>2, <2>3 DEF Held, Together
<1>10. Cleared'
  BY <1>1, <1>3, <1>8 DEF Held, Cleared, At
<1> QED BY <1>6, <1>7, <1>9, <1>10 DEF Held

(* The app ends: the answers are forgotten, the queue is not.              *)
LEMMA CrashStep ==
  ASSUME Types, Dated, Held, Grown, Types', NEW d \in Devices, Crash(d)
  PROVE  DatedEntries' /\ Held'
<1>2. /\ session'[d].promptIds = {} /\ session'[d].approvedIds = {}
      /\ \A e \in Devices : e # d => session'[e] = session[e]
      /\ cycle'[d].phase = "idle" /\ \A e \in Devices : e # d => cycle'[e] = cycle[e]
  BY DEF Crash, Types, NewSession, Idle
<1> SUFFICES ASSUME UNCHANGED <<deletes, clock>>
             PROVE  DatedEntries' /\ Held'
  <2>1. \A e \in Devices : Lasts(e) \/ Ends(e)
    BY <1>2 DEF Lasts, Ends
  <2>2. CASE /\ Mirrors(d) /\ clock' = clock + 1
             /\ deletes' = [deletes EXCEPT ![d] = @ \cup Queued(cycle[d].went, FALSE)]
    <3>1. cycle[d].went \in SUBSET Files
      BY <2>2, StageOf DEF Mirroring
    <3> QED BY <2>1, <2>2, <3>1, QueuedStep
  <2> QED BY <2>2 DEF Crash
<1>1. UNCHANGED <<deletes, clock>>
  OBVIOUS
<1>3. DatedEntries'
  BY <1>1, <1>2 DEF Dated, DatedEntries
<1>4. JournalKnows' /\ OneAct'
  BY <1>1, KnownStays DEF Held, OneAct, JournalKnows
<1>5. /\ \A r : ~Approved(d, r)'
      /\ \A e \in Devices : \A r : e # d => (Approved(e, r)' <=> Approved(e, r))
  BY <1>2 DEF Approved, Approvals
<1>6. Together'
  <2>1. \A e \in Devices : \A r : Mates(e, r)' = Mates(e, r) /\ (Unanswered(e, r)' <=> Unanswered(e, r))
    BY <1>1 DEF Mates, Unanswered
  <2> QED BY <1>1, <1>2, <1>5, <2>1 DEF Held, Together
<1>7. Cleared'
  BY <1>2, <1>5 DEF Held, Cleared, At
<1> QED BY <1>3, <1>4, <1>6, <1>7 DEF Held

(* What the journal holds is marked so: of a mass that nobody has answered *)
(* none is, or all are.                                                    *)
LEMMA MarkStep ==
  ASSUME Types, Dated, Held, Noted, Grown, Types', NEW d \in Devices, markDeletesJournaled(d)
  PROVE  DatedEntries' /\ Held'
<1> DEFINE these == deletes[d] \cap cycle[d].pending
           marked == {[r EXCEPT !.journaled = TRUE] : r \in these}
<1>1. UNCHANGED <<clock, session, journal>> /\ At(d, "mark")
  BY DEF markDeletesJournaled, clocks, person
<1>2. \A e \in Devices : deletes'[e] = IF e = d THEN (deletes[e] \ these) \cup marked ELSE deletes[e]
  BY DEF markDeletesJournaled, Types
<1>3. these \subseteq deletes[d] /\ deletes[d] \subseteq Entries
  BY DEF Types
<1>4. \A q \in marked : \E r \in these : /\ q.file = r.file /\ q.at = r.at /\ q.of = r.of /\ q.confirmed = r.confirmed
                                          /\ q.journaled /\ r \in deletes[d]
  BY <1>3 DEF Entries
<1>12. \A r \in these : /\ journal[d][r.file].gone >= 2 * r.at
                       /\ \A q \in deletes[d] : Unanswered(d, q) /\ q.at = r.at => q \in these
  BY <1>1 DEF Noted
<1> HIDE DEF marked, these
<1>5. \A e \in Devices : \A q \in deletes'[e] : \E r \in deletes[e] :
        q.file = r.file /\ q.at = r.at /\ q.of = r.of /\ q.confirmed = r.confirmed
  BY <1>2, <1>4
<1>6. DatedEntries'
  BY <1>1, <1>5 DEF Dated, DatedEntries
<1>7. OneAct'
  BY <1>5 DEF Held, OneAct
<1>8. JournalKnows'
  <2>1. ASSUME NEW e \in Devices, NEW q \in deletes'[e], q.journaled
        PROVE  journal'[e][q.file].gone >= 2 * q.at
    <3>1. CASE q \in deletes[e]
      BY <2>1, <3>1, KnownStays
    <3>2. CASE q \notin deletes[e]
      <4>1. e = d /\ q \in marked
        BY <1>2, <3>2
      <4>2. PICK r \in these : q.file = r.file /\ q.at = r.at
        BY <1>4, <4>1
      <4> QED BY <1>1, <1>12, <4>1, <4>2
    <3> QED BY <3>1, <3>2
  <2> QED BY <2>1 DEF JournalKnows
<1>9. \A e \in Devices : \A r : Approved(e, r)' <=> Approved(e, r)
  BY <1>1 DEF Approved, Approvals
<1>10. Together'
  <2> SUFFICES ASSUME NEW e \in Devices, NEW r \in deletes'[e], Unanswered(e, r)'
               PROVE  /\ Cardinality({s.file : s \in Mates(e, r)'}) >= r.of
                      /\ \A s \in Mates(e, r)' : /\ Approved(e, s) <=> Approved(e, r)
                                                 /\ Id(s) \in session[e].promptIds <=> Id(r) \in session[e].promptIds
    BY <1>1, <1>9 DEF Together
  <2>1. ~r.journaled /\ ~r.confirmed /\ r.of > MassMin
    BY DEF Unanswered
  <2>2. r \in deletes[e] /\ (e = d => r \notin these)
    BY <1>2, <1>4, <2>1
  <2>3. Unanswered(e, r)
    BY <2>1, <2>2 DEF Unanswered
  <2>4. Mates(e, r)' = Mates(e, r)
    <3>1. CASE e = d
      <4>1. \A s \in Mates(d, r) : s \in deletes[d] /\ s.at = r.at
        BY DEF Mates
      <4>2. \A s \in Mates(d, r) : s \notin these
        BY <1>12, <2>2, <2>3, <3>1, <4>1
      <4> QED BY <1>2, <1>4, <3>1, <4>1, <4>2 DEF Mates
    <3>2. CASE e # d
      BY <1>2, <3>2 DEF Mates
    <3> QED BY <3>1, <3>2
  <2> QED BY <2>2, <2>3, <2>4 DEF Held, Together
<1>11. Cleared'
  <2>1. cycle' = [cycle EXCEPT ![d] = [phase |-> "read"]]
    BY DEF markDeletesJournaled, GoesTo
  <2>2. \A e \in Devices : cycle'[e].phase = "push" => e # d /\ cycle'[e] = cycle[e]
    BY <2>1 DEF Types
  <2> QED BY <1>1, <1>9, <2>2 DEF Held, Cleared, At
<1> QED BY <1>6, <1>7, <1>8, <1>10, <1>11 DEF Held

(* The queued deletions that wait for nothing are taken up: a mass that    *)
(* nobody confirmed is not among them, for its entries are all there.      *)
LEMMA TakenIsCleared ==
  ASSUME Types, Held, NEW d \in Devices, NEW r \in Taken(d)
  PROVE  r.journaled \/ (~r.confirmed /\ r.of <= MassMin /\ ~Approved(d, r) /\ ~IsMass(d))
<1>1. r \in deletes[d] /\ Allowed(d, r, IsMass(d)) /\ r \in Entries
  BY DEF Taken, Types
<1>2. CASE Confirmed(d, r)
  BY <1>1, <1>2 DEF Allowed
<1>3. CASE ~Confirmed(d, r)
  <2>1. ~r.confirmed /\ ~Approved(d, r) /\ ~IsMass(d)
    BY <1>1, <1>3 DEF Allowed, Confirmed, Approved
  <2>2. ASSUME ~r.journaled, r.of > MassMin
        PROVE  FALSE
    <3> DEFINE mates == {s.file : s \in Mates(d, r)}
               waiting == {s.file : s \in Unconfirmed(d)}
    <3>1. Unanswered(d, r)
      BY <1>1, <2>1, <2>2 DEF Unanswered
    <3>2. Cardinality(mates) >= r.of /\ \A s \in Mates(d, r) : ~Approved(d, s) /\ ~s.confirmed /\ s \in deletes[d]
      BY <1>1, <2>1, <3>1 DEF Held, Together, OneAct, Mates
    <3>3. mates \subseteq waiting
      BY <3>2 DEF Unconfirmed, Confirmed, Approved
    <3>4. waiting \in SUBSET Files
      BY DEF Unconfirmed, Types, Entries
    <3> HIDE DEF mates, waiting
    <3>5. IsFiniteSet(waiting) /\ Cardinality(waiting) \in Nat /\ Cardinality(mates) \in Nat
      BY <3>3, <3>4, HowMany
    <3>6. Cardinality(mates) <= Cardinality(waiting)
      BY <3>3, <3>5, FS_Subset
    <3>7. MassMin \in Nat /\ r.of \in Nat
      BY <1>1, DeletionsAssumption DEF Entries
    <3>8. Cardinality(waiting) > MassMin
      BY <2>2, <3>2, <3>5, <3>6, <3>7
    <3> QED BY <2>1, <3>8 DEF IsMass, isMassDeletion, waiting
  <2>3. MassMin \in Nat /\ r.of \in Nat
    BY <1>1, DeletionsAssumption DEF Entries
  <2> QED BY <1>1, <2>1, <2>2, <2>3
<1> QED BY <1>2, <1>3

LEMMA ConcludeStep ==
  ASSUME Types, Dated, Held, Grown, Types', NEW d \in Devices, Conclude(d)
  PROVE  DatedEntries' /\ Held'
<1>1. UNCHANGED <<deletes, clock>>
  BY DEF Conclude, clocks
<1>2. /\ session'[d].approvedIds = Kept(d) /\ session'[d].promptIds = Asked(d)
      /\ \A e \in Devices : e # d => session'[e] = session[e]
      /\ cycle'[d].phase = "push" /\ cycle'[d].deletes = Taken(d)
      /\ \A e \in Devices : e # d => cycle'[e] = cycle[e]
  BY ConcludeSession DEF Types
<1>3. DatedEntries'
  <2>1. \A i \in Asked(d) : i[2] <= clock
    BY DEF Asked, Unconfirmed, Id, Dated, DatedEntries
  <2>2. Kept(d) \subseteq session[d].approvedIds
    BY DEF Kept
  <2> QED BY <1>1, <1>2, <2>1, <2>2 DEF Dated, DatedEntries
<1>4. JournalKnows' /\ OneAct'
  BY <1>1, KnownStays DEF Held, OneAct, JournalKnows
<1>5. \A e \in Devices : \A r \in deletes[e] : Approved(e, r)' <=> Approved(e, r)
  <2>1. \A r \in deletes[d] : {a \in Kept(d) : a.id = Id(r)} = {a \in session[d].approvedIds : a.id = Id(r)}
    BY DEF Kept
  <2> QED BY <1>2, <2>1 DEF Approved, Approvals
<1>6. Together'
  <2> SUFFICES ASSUME NEW e \in Devices, NEW r \in deletes[e], Unanswered(e, r)'
               PROVE  /\ Cardinality({s.file : s \in Mates(e, r)'}) >= r.of
                      /\ \A s \in Mates(e, r)' : /\ Approved(e, s)' <=> Approved(e, r)'
                                                 /\ Id(s) \in session'[e].promptIds <=> Id(r) \in session'[e].promptIds
    BY <1>1 DEF Together
  <2>1. Unanswered(e, r) /\ Mates(e, r)' = Mates(e, r) /\ Mates(e, r) \subseteq deletes[e]
    BY <1>1 DEF Unanswered, Mates
  <2>2. /\ Cardinality({s.file : s \in Mates(e, r)}) >= r.of
        /\ \A s \in Mates(e, r) : /\ Approved(e, s) <=> Approved(e, r)
                                  /\ Id(s) \in session[e].promptIds <=> Id(r) \in session[e].promptIds
    BY <2>1 DEF Held, Together
  <2>3. \A s \in Mates(e, r) : Approved(e, s)' <=> Approved(e, r)'
    BY <1>5, <2>1, <2>2
  <2>4. ASSUME NEW s \in Mates(e, r)
        PROVE  Id(s) \in session'[e].promptIds <=> Id(r) \in session'[e].promptIds
    <3>1. CASE e # d \/ Asked(d) = {} \/ Asked(d) = session[d].promptIds
      BY <1>2, <2>2, <3>1
    <3>2. CASE e = d /\ Asked(d) = {Id(q) : q \in Unconfirmed(d)}
      <4>1. \A q \in deletes[d] : Id(q) \in Asked(d) <=> ~Confirmed(d, q)
        <5>1. ASSUME NEW q \in deletes[d], NEW p \in Unconfirmed(d), Id(p) = Id(q)
              PROVE  ~Confirmed(d, q)
          <6>1. p \in deletes[d] /\ p.at = q.at /\ ~p.confirmed /\ Approvals(d, p) = {} /\ Approvals(d, q) = Approvals(d, p)
            BY <5>1 DEF Unconfirmed, Confirmed, Id, Approvals
          <6> QED BY <6>1 DEF Confirmed, Held, OneAct
        <5> QED BY <3>2, <5>1 DEF Unconfirmed
      <4>2. s \in deletes[d] /\ r \in deletes[d] /\ ~r.confirmed /\ ~s.confirmed
        BY <2>1, <3>2 DEF Held, OneAct, Mates, Unanswered
      <4>3. Confirmed(d, s) <=> Confirmed(d, r)
        BY <2>2, <3>2, <4>2 DEF Confirmed, Approved
      <4> QED BY <1>2, <3>2, <4>1, <4>2, <4>3
    <3> QED BY <3>1, <3>2 DEF Asked
  <2> QED BY <2>1, <2>2, <2>3, <2>4
<1>7. Cleared'
  <2>1. \A r \in Taken(d) : r.journaled \/ (~r.confirmed /\ r.of <= MassMin /\ ~Approved(d, r) /\ Asked(d) = {})
    BY TakenIsCleared DEF Asked
  <2>2. Taken(d) \subseteq deletes[d]
    BY DEF Taken
  <2>3. \A e \in Devices : e # d => \A r : Approved(e, r)' <=> Approved(e, r)
    BY <1>2 DEF Approved, Approvals
  <2> QED BY <1>2, <1>5, <2>1, <2>2, <2>3 DEF Held, Cleared, At
<1> QED BY <1>3, <1>4, <1>6, <1>7 DEF Held

(* What has gone up leaves the queue; of a mass that waits nothing goes up.*)
LEMMA PushDeleteStep ==
  ASSUME Types, Dated, Held, Grown, Types', NEW d \in Devices, NEW r \in cycle[d].deletes,
         CheckDelete(d, r) \/ PushDelete(d, r)
  PROVE  DatedEntries' /\ Held'
<1>1. UNCHANGED <<clock, session>> /\ At(d, "push")
  BY DEF CheckDelete, PushDelete, clocks, person
<1>2. /\ \A e \in Devices : e # d => cycle'[e] = cycle[e] /\ deletes'[e] = deletes[e]
      /\ cycle'[d].phase = "push" => cycle'[d].deletes \subseteq cycle[d].deletes
      /\ deletes'[d] = deletes[d] \/ deletes'[d] = deletes[d] \ {r}
      /\ At(d, "push")
  <2>1. PICK stage \in Stages : /\ cycle' = [cycle EXCEPT ![d] = stage]
                                /\ stage.phase = "push" => stage.deletes \subseteq cycle[d].deletes
    BY <1>1, CycleStages DEF Onward
  <2>2. deletes' = deletes \/ deletes' = [deletes EXCEPT ![d] = @ \ {r}]
    BY DEF CheckDelete, PushDelete
  <2>3. cycle'[d] = stage /\ \A e \in Devices : e # d => cycle'[e] = cycle[e]
    <3>1. cycle' = [cycle EXCEPT ![d] = stage]
      BY <2>1
    <3> QED BY <3>1, OneCycle
  <2>4. \A e \in Devices : e # d => deletes'[e] = deletes[e]
    BY <2>2 DEF Types
  <2>5. deletes'[d] = deletes[d] \/ deletes'[d] = deletes[d] \ {r}
    BY <2>2 DEF Types
  <2> QED BY <1>1, <2>1, <2>3, <2>4, <2>5
<1>3. \A e \in Devices : deletes'[e] \subseteq deletes[e]
  BY <1>2
<1>4. DatedEntries'
  BY <1>1, <1>3 DEF Dated, DatedEntries
<1>5. JournalKnows' /\ OneAct'
  BY <1>3, KnownStays DEF Held, OneAct, JournalKnows
<1>6. \A e \in Devices : \A q : Approved(e, q)' <=> Approved(e, q)
  BY <1>1 DEF Approved, Approvals
<1>7. Together'
  <2> SUFFICES ASSUME NEW e \in Devices, NEW q \in deletes'[e], Unanswered(e, q)'
               PROVE  /\ Cardinality({s.file : s \in Mates(e, q)'}) >= q.of
                      /\ \A s \in Mates(e, q)' : /\ Approved(e, s) <=> Approved(e, q)
                                                 /\ Id(s) \in session[e].promptIds <=> Id(q) \in session[e].promptIds
    BY <1>1, <1>6 DEF Together
  <2>1. q \in deletes[e] /\ Unanswered(e, q)
    BY <1>3 DEF Unanswered
  <2>2. Mates(e, q)' = Mates(e, q)
    <3>1. CASE e = d /\ r \in Mates(d, q)
      <4>1. r \in deletes[d] /\ r.of = q.of /\ ~r.journaled
        BY <2>1, <3>1 DEF Held, OneAct, Mates
      <4>2. r.of <= MassMin
        BY <1>2, <4>1 DEF Held, Cleared
      <4>3. q.of > MassMin /\ q.of \in Nat /\ MassMin \in Nat
        BY <2>1, DeletionsAssumption DEF Unanswered, Types, Entries
      <4> QED BY <4>1, <4>2, <4>3
    <3>2. CASE ~(e = d /\ r \in Mates(d, q))
      BY <1>2, <3>2 DEF Mates
    <3> QED BY <3>1, <3>2
  <2> QED BY <2>1, <2>2 DEF Held, Together
<1>8. Cleared'
  BY <1>1, <1>2, <1>6 DEF Held, Cleared, At
<1> QED BY <1>4, <1>5, <1>7, <1>8 DEF Held

(* The other steps leave the queue, the questions and the answers alone.   *)
LEMMA OtherSteps ==
  ASSUME Types, Dated, Held, Grown, Types',
         \/ \E d \in Devices : \/ Begin(d) \/ ReadJournal(d) \/ Publish(d) \/ List(d) \/ Probe(d) \/ Sort(d)
                               \/ \E f \in Files : \/ Recreate(d, f) \/ CheckFile(d, f) \/ RemoveFile(d, f)
                                                  \/ ForgetRow(d, f) \/ PushWrite(d, f)
                               \/ approveSuspendedDeletions(d) \/ keepSuspendedDeletionsLocal(d)
         \/ \E S \in SUBSET Files : RemoteLoses(S)
         \/ DayPasses \/ UNCHANGED vars
  PROVE  DatedEntries' /\ Held'
<1>1. ASSUME NEW d \in Devices, approveSuspendedDeletions(d) \/ keepSuspendedDeletionsLocal(d)
      PROVE  DatedEntries' /\ Held'
  <2>1. UNCHANGED <<deletes, cycle>> /\ clock' = clock + 1
    BY <1>1 DEF approveSuspendedDeletions, keepSuspendedDeletionsLocal, Acts, here
  <2>2. session[d] \in Sessions
    BY DEF Types
  <2>3. PICK s : /\ s.promptIds = session[d].promptIds /\ s.approvedIds = session[d].approvedIds
                 /\ session' = [session EXCEPT ![d] = s]
    <3> DEFINE yes == [session[d] EXCEPT !.approvedMissing = @ \cup session[d].suspended, !.suspended = {}, !.suspendedSignaled = FALSE]
               no == [session[d] EXCEPT !.approvedMissing = @ \ session[d].suspended, !.suspended = {}]
    <3>1. yes.promptIds = session[d].promptIds /\ yes.approvedIds = session[d].approvedIds
      BY <2>2 DEF Sessions
    <3>2. no.promptIds = session[d].promptIds /\ no.approvedIds = session[d].approvedIds
      BY <2>2 DEF Sessions
    <3>3. session' = [session EXCEPT ![d] = yes] \/ session' = [session EXCEPT ![d] = no]
      BY <1>1, <2>2 DEF approveSuspendedDeletions, keepSuspendedDeletionsLocal, Types
    <3> HIDE DEF yes, no
    <3> QED BY <3>1, <3>2, <3>3
  <2>4. \A e \in Devices : /\ session'[e].promptIds = session[e].promptIds
                           /\ session'[e].approvedIds = session[e].approvedIds
    BY <2>3 DEF Types
  <2> QED BY <2>1, <2>4, Steady
<1>2. ASSUME NEW d \in Devices, NEW f \in Files, Recreate(d, f)
      PROVE  DatedEntries' /\ Held'
  <2>1. UNCHANGED <<deletes, cycle, session>> /\ clock' = clock + 1
    BY <1>2 DEF Recreate, Acts, person
  <2> QED BY <2>1, Steady
<1>3. ASSUME NEW d \in Devices, \/ Begin(d) \/ ReadJournal(d) \/ Publish(d) \/ List(d) \/ Probe(d) \/ Sort(d)
                                \/ \E f \in Files : CheckFile(d, f) \/ RemoveFile(d, f) \/ ForgetRow(d, f) \/ PushWrite(d, f)
      PROVE  DatedEntries' /\ Held'
  <2>1. UNCHANGED <<deletes, clock>>
    BY <1>3 DEF Begin, ReadJournal, Publish, List, Probe, Sort, CheckFile, RemoveFile, ForgetRow, PushWrite, here, clocks
  <2>2. PICK stage \in Stages : /\ cycle' = [cycle EXCEPT ![d] = stage]
                                /\ stage.phase = "push" => At(d, "push") /\ stage.deletes \subseteq cycle[d].deletes
    BY <1>3, CycleStages DEF Onward
  <2>3. \A e \in Devices : cycle'[e].phase = "push" => cycle[e].phase = "push" /\ cycle'[e].deletes \subseteq cycle[e].deletes
    <3>1. cycle' = [cycle EXCEPT ![d] = stage]
      BY <2>2
    <3>2. cycle'[d] = stage /\ \A e \in Devices : e # d => cycle'[e] = cycle[e]
      BY <3>1, OneCycle
    <3> QED BY <2>2, <3>2, Zenon DEF At
  <2>4. \A e \in Devices : /\ session'[e].promptIds = session[e].promptIds
                           /\ session'[e].approvedIds = session[e].approvedIds
    <3>1. CASE Probe(d) \/ Sort(d)
      <4>1. PICK missing : session' \in {session, [session EXCEPT ![d].approvedMissing = @ \cap missing]}
        BY <3>1, ProbeFinds, SortFinds
      <4>2. session[d] \in Sessions
        BY DEF Types
      <4> QED BY <4>1, <4>2 DEF Types, Sessions
    <3>2. CASE ~(Probe(d) \/ Sort(d))
      <4>1. UNCHANGED session
        BY <1>3, <3>2 DEF Begin, ReadJournal, Publish, List, CheckFile, RemoveFile, ForgetRow, PushWrite, person
      <4> QED BY <4>1
    <3> QED BY <3>1, <3>2
  <2> QED BY <2>1, <2>3, <2>4, Steady
<1>4. CASE (\E S \in SUBSET Files : RemoteLoses(S)) \/ DayPasses \/ UNCHANGED vars
  <2>1. UNCHANGED <<deletes, session, cycle, clock>>
    BY <1>4 DEF RemoteLoses, DayPasses, vars, here, person, clocks
  <2> QED BY <2>1, Steady
<1> QED BY <1>1, <1>2, <1>3, <1>4

LEMMA HeldStep ==
  ASSUME Types, Dated, Held, Noted, Grown, Types', [Next]_vars
  PROVE  DatedEntries' /\ Held'
<1>1. ASSUME NEW d \in Devices, NEW S \in SUBSET Files, DeleteFiles(d, S)
      PROVE  DatedEntries' /\ Held'
  <2>1. /\ clock' = clock + 1 /\ deletes' = [deletes EXCEPT ![d] = @ \cup Queued(S, TRUE)]
        /\ \A e \in Devices : Lasts(e)
    BY <1>1 DEF DeleteFiles, Acts, person, Lasts
  <2> QED BY <2>1, QueuedStep
<1>2. ASSUME NEW d \in Devices, Emptied(d)
      PROVE  DatedEntries' /\ Held'
  <2> DEFINE S == local[d] \ Awaiting(d)
  <2>1. S \in SUBSET Files
    BY DEF Types
  <2>2. /\ clock' = clock + 1 /\ deletes' = [deletes EXCEPT ![d] = @ \cup Queued(S, FALSE)]
        /\ \A e \in Devices : Lasts(e)
    BY <1>2 DEF Emptied, person, Lasts
  <2> HIDE DEF S
  <2> QED BY <2>1, <2>2, QueuedStep
<1> QED BY <1>1, <1>2, ApproveStep, DiscardStep, CrashStep, MarkStep, ConcludeStep, PushDeleteStep, OtherSteps
        DEF Next, Person, Cycle

-----------------------------------------------------------------------------
(* What is about to be marked stays in the journal, and the acts that come *)
(* meanwhile have other times.                                             *)

MarksOn(e) == At(e, "mark")' => \/ Begin(e) /\ UNCHANGED <<deletes, clock>>
                                \/ cycle'[e] = cycle[e] /\ \A q \in deletes'[e] : q \in deletes[e] \/ q.at = clock + 1

LEMMA NotedKept ==
  ASSUME Types, Dated, Held, Noted, Grown, Types', clock' = clock \/ clock' = clock + 1,
         \A e \in Devices : MarksOn(e)
  PROVE  Noted'
<1> SUFFICES ASSUME NEW e \in Devices, At(e, "mark")', NEW r \in cycle'[e].pending
             PROVE  /\ r.at <= clock' /\ journal'[e][r.file].gone >= 2 * r.at
                    /\ r \in deletes'[e] => \A q \in deletes'[e] : Unanswered(e, q)' /\ q.at = r.at => q \in cycle'[e].pending
  BY DEF Noted
<1>1. cycle'[e] \in Marking
  BY DEF Types, Stages, Marking, Mirroring, Probing, Pushing, At
<1>2. r.file \in Files /\ r.at \in Nat /\ clock \in Nat
  BY <1>1 DEF Marking, Entries, Types
<1>3. CASE Begin(e) /\ UNCHANGED <<deletes, clock>>
  <2>1. cycle'[e] = IF Pending(e) = {} THEN [phase |-> "read"] ELSE [phase |-> "mark", pending |-> Pending(e)]
    BY <1>3 DEF Begin, GoesTo, Pending, Types
  <2>2. cycle'[e].pending = Pending(e)
    BY <2>1 DEF At
  <2>3. r \in deletes[e] /\ r \in Pending(e) /\ ~r.journaled /\ (r.confirmed \/ Approved(e, r))
    BY <2>2 DEF Pending, Confirmed, Approved
  <2>4. r.at <= clock
    BY <2>3 DEF Dated, DatedEntries
  <2>5. journal'[e][r.file].gone >= 2 * r.at
    <3>1. PICK j \in Journals : journal' = [journal EXCEPT ![e] = j] /\ \A p \in Pending(e) : j[p.file].gone >= 2 * p.at
      BY <1>3, IntentsRecorded
    <3> QED BY <2>3, <3>1 DEF Types
  <2>6. ASSUME NEW q \in deletes[e], Unanswered(e, q), q.at = r.at
        PROVE  q \in Pending(e)
    <3>1. ~q.confirmed /\ ~q.journaled /\ r.confirmed = q.confirmed
      BY <2>3, <2>6 DEF Unanswered, Held, OneAct
    <3>2. r \in Mates(e, q)
      BY <2>3, <2>6 DEF Mates
    <3>3. Approved(e, q)
      BY <2>3, <2>6, <3>1, <3>2 DEF Held, Together
    <3> QED BY <3>1, <3>3 DEF Pending, Confirmed, Approved
  <2> QED BY <1>3, <2>2, <2>4, <2>5, <2>6 DEF Unanswered
<1>4. CASE cycle'[e] = cycle[e] /\ \A q \in deletes'[e] : q \in deletes[e] \/ q.at = clock + 1
  <2>1. At(e, "mark") /\ r \in cycle[e].pending
    BY <1>4 DEF At
  <2>2. /\ r.at <= clock /\ journal[e][r.file].gone >= 2 * r.at
        /\ r \in deletes[e] => \A q \in deletes[e] : Unanswered(e, q) /\ q.at = r.at => q \in cycle[e].pending
    BY <2>1 DEF Noted
  <2>3. 2 * r.at \in Nat /\ journal[e][r.file].gone \in Nat /\ journal'[e][r.file].gone \in Nat
    BY <1>2, Twice DEF Types, Journals
  <2>4. journal'[e][r.file].gone >= 2 * r.at
    BY <1>2, <2>2, <2>3 DEF Grown
  <2>5. \A q \in deletes'[e] : q.at = r.at => q \in deletes[e]
    BY <1>2, <1>4, <2>2
  <2> QED BY <1>2, <1>4, <2>2, <2>4, <2>5 DEF Unanswered
<1> QED BY <1>3, <1>4 DEF MarksOn

LEMMA NotedStep ==
  ASSUME Types, Dated, Held, Noted, Grown, Types', [Next]_vars
  PROVE  Noted'
<1>1. ASSUME NEW d \in Devices, NEW S, NEW sure, clock' = clock + 1, deletes' = [deletes EXCEPT ![d] = @ \cup Queued(S, sure)],
             \A e \in Devices : cycle'[e] = cycle[e] \/ ~At(e, "mark")'
      PROVE  Noted'
  <2>1. \A q \in Queued(S, sure) : q.at = clock + 1
    BY <1>1 DEF Queued
  <2>2. \A e \in Devices : \A q \in deletes'[e] : q \in deletes[e] \/ q.at = clock + 1
    BY <1>1, <2>1 DEF Types
  <2>3. \A e \in Devices : MarksOn(e)
    BY <1>1, <2>2 DEF MarksOn
  <2> QED BY <1>1, <2>3, NotedKept
<1>2. ASSUME NEW d \in Devices, Person(d)
      PROVE  Noted'
  <2>1. UNCHANGED cycle /\ clock' = clock + 1
    BY <1>2 DEF Person, DeleteFiles, Recreate, approveMassDeletion, discardMassDeletion, approveSuspendedDeletions,
                keepSuspendedDeletionsLocal, Acts, here
  <2>2. CASE \E S \in SUBSET Files : DeleteFiles(d, S)
    BY <1>1, <2>1, <2>2 DEF DeleteFiles
  <2>3. CASE ~(\E S \in SUBSET Files : DeleteFiles(d, S))
    <3>1. \A e \in Devices : deletes'[e] \subseteq deletes[e]
      BY <1>2, <2>3 DEF Person, Recreate, approveMassDeletion, discardMassDeletion, approveSuspendedDeletions,
                        keepSuspendedDeletionsLocal, here, Types
    <3>2. \A e \in Devices : MarksOn(e)
      BY <2>1, <3>1 DEF MarksOn
    <3> QED BY <2>1, <3>2, NotedKept
  <2> QED BY <2>2, <2>3
<1>3. ASSUME NEW d \in Devices, Emptied(d)
      PROVE  Noted'
  BY <1>1, <1>3 DEF Emptied
<1>4. ASSUME NEW d \in Devices, Crash(d)
      PROVE  Noted'
  <2>1. \A e \in Devices : cycle'[e] = cycle[e] \/ ~At(e, "mark")'
    <3>1. Idle.phase # "mark"
      BY DEF Idle
    <3> QED BY <1>4, <3>1 DEF Crash, At, Types
  <2>2. CASE UNCHANGED <<clock, deletes>>
    <3>1. \A e \in Devices : MarksOn(e)
      BY <2>1, <2>2 DEF MarksOn
    <3> QED BY <2>2, <3>1, NotedKept
  <2>3. CASE clock' = clock + 1 /\ deletes' = [deletes EXCEPT ![d] = @ \cup Queued(cycle[d].went, FALSE)]
    BY <1>1, <2>1, <2>3
  <2> QED BY <1>4, <2>2, <2>3 DEF Crash
<1>5. ASSUME NEW d \in Devices, Onward(d)
      PROVE  Noted'
  <2>1. UNCHANGED clock
    BY <1>5 DEF Onward, Begin, markDeletesJournaled, ReadJournal, Publish, List, Probe, Sort, CheckFile, RemoveFile,
                ForgetRow, PushWrite, CheckDelete, PushDelete, clocks
  <2>2. PICK stage \in Stages : /\ cycle' = [cycle EXCEPT ![d] = stage]
                                /\ stage.phase = "mark" => Begin(d)
    BY <1>5, CycleStages
  <2>3. cycle'[d] = stage /\ \A e \in Devices : e # d => cycle'[e] = cycle[e]
    <3>1. cycle' = [cycle EXCEPT ![d] = stage]
      BY <2>2
    <3> QED BY <3>1, OneCycle
  <2>4. \A e \in Devices : e # d => deletes'[e] = deletes[e]
    BY <1>5 DEF Onward, Begin, markDeletesJournaled, ReadJournal, Publish, List, Probe, Sort, CheckFile, RemoveFile,
                ForgetRow, PushWrite, CheckDelete, PushDelete, here, Types
  <2>5. Begin(d) => UNCHANGED deletes
    BY DEF Begin
  <2>6. \A e \in Devices : MarksOn(e)
    BY <2>1, <2>2, <2>3, <2>4, <2>5 DEF MarksOn, At
  <2> QED BY <2>1, <2>6, NotedKept
<1>6. ASSUME NEW d \in Devices, Conclude(d)
      PROVE  Noted'
  <2>1. \A e \in Devices : cycle'[e] = cycle[e] \/ cycle'[e].phase = "push"
    BY <1>6, ConcludeSession DEF Types
  <2>2. UNCHANGED <<clock, deletes>>
    BY <1>6 DEF Conclude, clocks
  <2>3. \A e \in Devices : MarksOn(e)
    BY <2>1, <2>2 DEF MarksOn, At
  <2> QED BY <2>2, <2>3, NotedKept
<1>7. CASE (\E S \in SUBSET Files : RemoteLoses(S)) \/ DayPasses \/ UNCHANGED vars
  <2>1. UNCHANGED <<deletes, cycle, clock>>
    BY <1>7 DEF RemoteLoses, DayPasses, vars, here, clocks
  <2>2. \A e \in Devices : MarksOn(e)
    BY <2>1 DEF MarksOn
  <2> QED BY <2>1, <2>2, NotedKept
<1> QED BY <1>2, <1>3, <1>4, <1>5, <1>6, <1>7 DEF Next, Cycle, Onward

-----------------------------------------------------------------------------
(* The versions at the remote and in the rows.                             *)

Rows == [Files -> [stamp : Nat, since : Nat]]
Aged == \A f \in Files : remote'[f] \in {0, remote[f]} \/ remote'[f] > newest[f]

LEMMA VersionsKept ==
  ASSUME Versions, newest' = newest, remote' \in [Files -> Nat], row' \in [Devices -> Rows],
         \A f \in Files : remote'[f] \in {0, remote[f]},
         \A d \in Devices, f \in Files : row'[d][f].stamp \in {0, row[d][f].stamp, remote[f]}
  PROVE  Versions' /\ Aged
<1>1. \A f \in Files : remote[f] \in Nat /\ newest[f] \in Nat /\ 0 <= newest[f] /\ remote[f] <= newest[f]
  BY DEF Versions
<1>2. \A f \in Files : remote'[f] <= newest[f]
  BY <1>1
<1>3. \A f \in Files, d \in Devices : row'[d][f].stamp <= newest[f]
  BY <1>1 DEF Versions
<1> QED BY <1>2, <1>3 DEF Versions, Aged, Rows

(* What becomes of the rows of one device.                                 *)
LEMMA RowsKept ==
  ASSUME Versions, NEW d \in Devices, NEW rows \in Rows, row' = [row EXCEPT ![d] = rows],
         \A f \in Files : rows[f].stamp \in {0, row[d][f].stamp, remote[f]}
  PROVE  /\ row' \in [Devices -> Rows]
         /\ \A e \in Devices, f \in Files : row'[e][f].stamp \in {0, row[e][f].stamp, remote[f]}
         /\ \A e \in Devices : e # d => row'[e] = row[e]
BY DEF Versions, Rows

LEMMA VersionsStep ==
  ASSUME Types, Types', Versions, [Next]_vars
  PROVE  /\ Versions' /\ Aged
         /\ \A e \in Devices : Mirrors(e)' => \A f \in Files : row'[e][f].stamp \in {0, row[e][f].stamp}
<1> DEFINE Goal == /\ Versions' /\ Aged
                   /\ \A e \in Devices : Mirrors(e)' => \A f \in Files : row'[e][f].stamp \in {0, row[e][f].stamp}
<1>1. row \in [Devices -> Rows] /\ remote \in [Files -> Nat] /\ \A f \in Files : remote[f] \in Nat
  BY DEF Versions, Rows
<1>2. NoRow.stamp = 0 /\ NoRow \in [stamp : Nat, since : Nat]
  BY DEF NoRow
<1>3. ASSUME UNCHANGED <<row, newest>>, remote' \in [Files -> Nat], \A f \in Files : remote'[f] \in {0, remote[f]}
      PROVE  Goal
  BY <1>1, <1>3, VersionsKept
<1>4. ASSUME NEW d \in Devices, NEW lost, UNCHANGED newest,
             remote' = remote \/ \E f \in Files : remote' = [remote EXCEPT ![f] = 0],
             row' = [row EXCEPT ![d] = [f \in Files |-> IF f \in lost THEN NoRow ELSE @[f]]]
      PROVE  Goal
  <2> DEFINE rows == [f \in Files |-> IF f \in lost THEN NoRow ELSE row[d][f]]
  <2>1. rows \in Rows /\ \A f \in Files : rows[f].stamp \in {0, row[d][f].stamp}
    BY <1>1, <1>2 DEF Rows
  <2>2. row' = [row EXCEPT ![d] = rows]
    BY <1>1, <1>4
  <2> HIDE DEF rows
  <2>3. /\ row' \in [Devices -> Rows]
        /\ \A e \in Devices, f \in Files : row'[e][f].stamp \in {0, row[e][f].stamp}
    BY <1>1, <2>1, <2>2
  <2>4. remote' \in [Files -> Nat] /\ \A f \in Files : remote'[f] \in {0, remote[f]}
    BY <1>1, <1>4
  <2> QED BY <1>4, <2>3, <2>4, VersionsKept
<1>5. ASSUME NEW d \in Devices, NEW g \in Files, row' = [row EXCEPT ![d][g] = NoRow]
      PROVE  row' = [row EXCEPT ![d] = [f \in Files |-> IF f \in {g} THEN NoRow ELSE @[f]]]
  BY <1>1, <1>5 DEF Rows
<1>6. ASSUME NEW d \in Devices, Person(d) \/ Emptied(d) \/ Crash(d)
      PROVE  Goal
  <2>1. UNCHANGED <<remote, newest>>
    BY <1>6 DEF Person, DeleteFiles, Recreate, approveMassDeletion, discardMassDeletion, approveSuspendedDeletions,
                keepSuspendedDeletionsLocal, Emptied, Crash, there
  <2>2. CASE discardMassDeletion(d) \/ keepSuspendedDeletionsLocal(d)
    <3>1. PICK lost : row' = [row EXCEPT ![d] = [f \in Files |-> IF f \in lost THEN NoRow ELSE @[f]]]
      BY <2>2 DEF discardMassDeletion, keepSuspendedDeletionsLocal
    <3> QED BY <1>4, <2>1, <3>1
  <2>3. CASE ~(discardMassDeletion(d) \/ keepSuspendedDeletionsLocal(d))
    <3>1. UNCHANGED row
      BY <1>6, <2>3 DEF Person, DeleteFiles, Recreate, approveMassDeletion, approveSuspendedDeletions,
                        Emptied, Crash, here
    <3> QED BY <1>1, <1>3, <2>1, <3>1
  <2> QED BY <2>2, <2>3
<1>7. ASSUME NEW d \in Devices, \/ Begin(d) \/ markDeletesJournaled(d) \/ ReadJournal(d) \/ Publish(d) \/ Probe(d) \/ Sort(d)
                                \/ Conclude(d) \/ (\E f \in Files : RemoveFile(d, f))
                                \/ \E r \in cycle[d].deletes : CheckDelete(d, r)
      PROVE  Goal
  <2>1. UNCHANGED <<remote, newest, row>>
    BY <1>7 DEF Begin, markDeletesJournaled, ReadJournal, Publish, Probe, Sort, Conclude, RemoveFile, CheckDelete, there, here
  <2> QED BY <1>1, <1>3, <2>1
<1>8. ASSUME NEW d \in Devices, NEW g \in Files, CheckFile(d, g) \/ ForgetRow(d, g)
      PROVE  Goal
  <2>1. UNCHANGED <<remote, newest>> /\ (UNCHANGED row \/ row' = [row EXCEPT ![d][g] = NoRow])
    BY <1>8 DEF CheckFile, ForgetRow, there
  <2> QED BY <1>1, <1>3, <1>4, <1>5, <2>1
<1>9. ASSUME NEW d \in Devices, At(d, "push"), NEW r \in cycle[d].deletes, PushDelete(d, r)
      PROVE  Goal
  <2>1. r.file \in Files
    BY <1>9, StageOf DEF Pushing, Entries
  <2>2. /\ UNCHANGED newest /\ remote' = [remote EXCEPT ![r.file] = 0]
        /\ UNCHANGED row \/ row' = [row EXCEPT ![d][r.file] = NoRow]
    BY <1>9 DEF PushDelete
  <2>3. remote' \in [Files -> Nat] /\ \A f \in Files : remote'[f] \in {0, remote[f]}
    BY <1>1, <2>2
  <2>4. CASE UNCHANGED row
    BY <1>3, <2>2, <2>3, <2>4
  <2>5. CASE row' = [row EXCEPT ![d][r.file] = NoRow]
    <3>1. row' = [row EXCEPT ![d] = [f \in Files |-> IF f \in {r.file} THEN NoRow ELSE @[f]]]
      BY <1>5, <2>1, <2>5
    <3>2. UNCHANGED newest /\ \E f \in Files : remote' = [remote EXCEPT ![f] = 0]
      BY <2>1, <2>2
    <3> HIDE DEF Goal
    <3> QED BY <1>4, <3>1, <3>2
  <2> QED BY <2>2, <2>4, <2>5
<1>10. ASSUME NEW d \in Devices, List(d)
       PROVE  Goal
  <2>1. PICK listing \in SUBSET Files, empty \in BOOLEAN : \E stale : Brings(d, listing, empty, stale)
    BY <1>10, ListBrings
  <2> DEFINE rows == [f \in Files |-> IF f \in Pulled(d, listing) THEN [stamp |-> remote[f], since |-> Now] ELSE row[d][f]]
             stage == [phase |-> "probe", listing |-> listing, empty |-> empty]
  <2>2. row' = [row EXCEPT ![d] = rows] /\ cycle' = [cycle EXCEPT ![d] = stage]
    BY <1>1, <2>1 DEF Brings
  <2>3. rows \in Rows /\ \A f \in Files : rows[f].stamp \in {0, row[d][f].stamp, remote[f]}
    BY <1>1, ClockType DEF Rows
  <2>4. stage.phase = "probe"
    OBVIOUS
  <2> HIDE DEF rows, stage
  <2>5. /\ row' \in [Devices -> Rows]
        /\ \A e \in Devices, f \in Files : row'[e][f].stamp \in {0, row[e][f].stamp, remote[f]}
        /\ \A e \in Devices : e # d => row'[e] = row[e]
    BY <2>2, <2>3, RowsKept
  <2>6. UNCHANGED <<remote, newest>>
    BY <1>10 DEF List, there
  <2>7. ~Mirrors(d)'
    BY <2>2, <2>4 DEF Mirrors, At, Types
  <2> QED BY <1>1, <2>5, <2>6, <2>7, VersionsKept
<1>11. ASSUME NEW d \in Devices, NEW g \in Files, PushWrite(d, g)
       PROVE  Goal
  <2>1. At(d, "push") /\ cycle[d] \in Pushing /\ cycle' = [cycle EXCEPT ![d] = [cycle[d] EXCEPT !.writes = @ \ {g}]]
    BY <1>11, StageOf DEF PushWrite, GoesTo
  <2>2. ~Mirrors(d)'
    <3> DEFINE stage == [cycle[d] EXCEPT !.writes = @ \ {g}]
    <3>1. stage.phase = "push"
      BY <2>1 DEF Pushing
    <3>2. cycle' = [cycle EXCEPT ![d] = stage]
      BY <2>1
    <3> HIDE DEF stage
    <3> QED BY <3>1, <3>2 DEF Mirrors, At, Types
  <2>3. CASE UNCHANGED <<remote, newest, row>>
    BY <1>1, <1>3, <2>3
  <2>4. CASE /\ newest' = [newest EXCEPT ![g] = @ + 1] /\ remote' = [remote EXCEPT ![g] = newest'[g]]
             /\ row' = [row EXCEPT ![d][g] = [stamp |-> newest'[g], since |-> Now]]
    <3>1. newest \in [Files -> Nat] /\ newest[g] \in Nat /\ newest'[g] = newest[g] + 1 /\ newest'[g] \in Nat
      BY <2>4 DEF Versions
    <3>2. [stamp |-> newest'[g], since |-> Now] \in [stamp : Nat, since : Nat]
      BY <3>1, ClockType
    <3>3. newest' \in [Files -> Nat] /\ remote' \in [Files -> Nat] /\ row' \in [Devices -> Rows]
      BY <1>1, <2>4, <3>1, <3>2 DEF Rows
    <3>4. \A f \in Files : /\ f # g => newest'[f] = newest[f] /\ remote'[f] = remote[f]
                           /\ f = g => remote'[f] = newest'[f]
                           /\ newest[f] \in Nat /\ newest'[f] >= newest[f]
      BY <1>1, <2>4, <3>1
    <3>5. \A e \in Devices, f \in Files : e # d \/ f # g => row'[e][f] = row[e][f]
      BY <1>1, <2>4 DEF Rows
    <3>6. row'[d][g].stamp = newest'[g]
      BY <1>1, <2>4 DEF Rows
    <3>7. Versions'
      <4>1. \A f \in Files : remote'[f] <= newest'[f]
        BY <3>1, <3>4 DEF Versions
      <4>2. \A e \in Devices, f \in Files : row'[e][f].stamp <= newest'[f]
        <5> TAKE e \in Devices, f \in Files
        <5>1. CASE e = d /\ f = g
          BY <3>1, <3>6, <5>1
        <5>2. CASE e # d \/ f # g
          <6>1. row[e][f].stamp <= newest[f] /\ row[e][f].stamp \in Nat
            BY <1>1 DEF Versions, Rows
          <6> QED BY <3>3, <3>4, <3>5, <5>2, <6>1
        <5> QED BY <5>1, <5>2
      <4> QED BY <3>3, <4>1, <4>2 DEF Versions, Rows
    <3>8. Aged
      BY <3>1, <3>4 DEF Aged
    <3>9. \A e \in Devices : e # d => row'[e] = row[e]
      BY <1>1, <2>4
    <3> QED BY <2>2, <3>7, <3>8, <3>9
  <2> QED BY <1>11, <2>3, <2>4 DEF PushWrite
<1>12. ASSUME NEW S \in SUBSET Files, RemoteLoses(S)
       PROVE  Goal
  <2>1. UNCHANGED <<newest, row>> /\ remote' = [f \in Files |-> IF f \in S THEN 0 ELSE remote[f]]
    BY <1>12 DEF RemoteLoses, here
  <2> QED BY <1>1, <1>3, <2>1
<1>13. ASSUME DayPasses \/ UNCHANGED vars
       PROVE  Goal
  <2>1. UNCHANGED <<remote, newest, row>>
    BY <1>13 DEF DayPasses, vars, there, here
  <2> QED BY <1>1, <1>3, <2>1
<1> HIDE DEF Goal
<1>14. Goal
  <2>1. ASSUME NEW d \in Devices, Cycle(d)
        PROVE  Goal
    BY <1>7, <1>8, <1>9, <1>10, <1>11, <2>1, Zenon DEF Cycle
  <2>2. ASSUME NEW d \in Devices, Person(d) \/ Cycle(d) \/ Emptied(d) \/ Crash(d)
        PROVE  Goal
    BY <1>6, <2>1, <2>2
  <2>3. CASE Next
    BY <1>12, <1>13, <2>2, <2>3 DEF Next
  <2> QED BY <1>13, <2>3
<1> QED BY <1>14 DEF Goal

(* What was found gone comes back, if at all, in a version of its own.     *)
LEMMA GoneKept ==
  ASSUME Versions, Aged, NEW d \in Devices, NEW f \in Files, row'[d][f].stamp \in {0, row[d][f].stamp},
         remote[f] = 0 \/ remote[f] # row[d][f].stamp
  PROVE  remote'[f] = 0 \/ remote'[f] # row'[d][f].stamp
<1>1. row[d][f].stamp \in Nat /\ newest[f] \in Nat /\ row[d][f].stamp <= newest[f]
  BY DEF Versions
<1>2. remote'[f] \in {0, remote[f]} \/ remote'[f] > newest[f]
  BY DEF Aged
<1>3. remote'[f] \in {0, remote[f]} => remote'[f] = 0 \/ remote'[f] # row'[d][f].stamp
  OBVIOUS
<1>4. remote'[f] > newest[f] => remote'[f] = 0 \/ remote'[f] # row'[d][f].stamp
  BY <1>1
<1> QED BY <1>2, <1>3, <1>4

LEMMA GoneFirstStep ==
  ASSUME Types, Types', Versions, GoneFirst, [Next]_vars
  PROVE  GoneFirst'
<1> SUFFICES ASSUME NEW d \in Devices, Mirrors(d)', NEW f \in cycle'[d].gone \cup cycle'[d].going
             PROVE  remote'[f] = 0 \/ remote'[f] # row'[d][f].stamp
  BY DEF GoneFirst
<1>1. Versions' /\ Aged /\ \A g \in Files : row'[d][g].stamp \in {0, row[d][g].stamp}
  BY VersionsStep
<1>2. cycle'[d] \in Mirroring /\ f \in Files
  BY DEF Mirrors, At, Types, Stages, Mirroring, Marking, Probing, Pushing
<1>3. ASSUME Mirrors(d), f \in cycle[d].gone \cup cycle[d].going
      PROVE  remote'[f] = 0 \/ remote'[f] # row'[d][f].stamp
  BY <1>1, <1>2, <1>3, GoneKept DEF GoneFirst
<1>4. CASE cycle'[d] = cycle[d]
  BY <1>3, <1>4 DEF Mirrors, At
<1>5. CASE Probe(d)
  <2>1. PICK stage \in Mirroring : cycle' = [cycle EXCEPT ![d] = stage] /\ stage.going = {} /\ \A g \in stage.gone : remote[g] = 0
    BY <1>5, ProbeFinds
  <2>2. cycle'[d] = stage
    BY <2>1 DEF Types
  <2>3. UNCHANGED remote
    BY <1>5 DEF Probe, there
  <2> QED BY <2>1, <2>2, <2>3
<1>6. CASE Sort(d)
  <2>1. PICK stage \in Mirroring : /\ cycle' = [cycle EXCEPT ![d] = stage]
                                   /\ stage.gone = cycle[d].gone /\ stage.going = cycle[d].going
    BY <1>6, SortFinds
  <2>2. cycle'[d] = stage
    BY <2>1 DEF Types
  <2> QED BY <1>3, <1>6, <2>1, <2>2 DEF Sort, Mirrors
<1>7. ASSUME NEW g \in Files, CheckFile(d, g) \/ RemoveFile(d, g) \/ ForgetRow(d, g)
      PROVE  remote'[f] = 0 \/ remote'[f] # row'[d][f].stamp
  <2>1. PICK stage \in Mirroring :
          /\ cycle' = [cycle EXCEPT ![d] = stage] /\ stage.gone = cycle[d].gone
          /\ \A h \in stage.going : h \in cycle[d].going \/ (Verified(d, h) /\ UNCHANGED <<remote, row>>)
    BY <1>7, MirrorStage
  <2>2. cycle'[d] = stage
    BY <2>1 DEF Types
  <2>3. Mirrors(d)
    BY <1>7 DEF CheckFile, RemoveFile, ForgetRow
  <2>4. CASE f \in cycle[d].gone \cup cycle[d].going
    BY <1>3, <2>3, <2>4
  <2>5. CASE f \notin cycle[d].gone \cup cycle[d].going
    BY <2>1, <2>2, <2>5 DEF Verified
  <2> QED BY <2>4, <2>5
<1>8. CASE Begin(d) \/ markDeletesJournaled(d) \/ ReadJournal(d) \/ Publish(d) \/ List(d)
  <2>1. PICK phase \in {"mark", "read", "publish", "list", "probe"} : cycle'[d].phase = phase
    <3>1. PICK stage : /\ cycle' = [cycle EXCEPT ![d] = stage]
                       /\ stage.phase \in {"mark", "read", "publish", "list", "probe"}
      <4>1. ASSUME NEW phase \in {"read", "publish", "list"}
            PROVE  [phase |-> phase].phase \in {"mark", "read", "publish", "list", "probe"}
        OBVIOUS
      <4>2. CASE Begin(d)
        <5> DEFINE stage == IF Pending(d) = {} THEN [phase |-> "read"] ELSE [phase |-> "mark", pending |-> Pending(d)]
        <5>1. cycle' = [cycle EXCEPT ![d] = stage]
          BY <4>2 DEF Begin, GoesTo, Pending
        <5>2. stage.phase \in {"mark", "read"}
          OBVIOUS
        <5> HIDE DEF stage
        <5> QED BY <5>1, <5>2
      <4>3. CASE markDeletesJournaled(d) \/ ReadJournal(d) \/ Publish(d)
        <5>1. PICK phase \in {"read", "publish", "list"} : cycle' = [cycle EXCEPT ![d] = [phase |-> phase]]
          BY <4>3 DEF markDeletesJournaled, ReadJournal, Publish, GoesTo
        <5> QED BY <4>1, <5>1
      <4>4. CASE List(d)
        <5>1. PICK listing \in SUBSET Files, empty \in BOOLEAN : \E stale : Brings(d, listing, empty, stale)
          BY <4>4, ListBrings
        <5> DEFINE stage == [phase |-> "probe", listing |-> listing, empty |-> empty]
        <5>2. cycle' = [cycle EXCEPT ![d] = stage]
          BY <5>1 DEF Brings
        <5>3. stage.phase = "probe"
          OBVIOUS
        <5> HIDE DEF stage
        <5> QED BY <5>2, <5>3
      <4> QED BY <1>8, <4>2, <4>3, <4>4
    <3> QED BY <3>1 DEF Types
  <2> QED BY <2>1 DEF Mirrors, At
<1>9. CASE \/ Conclude(d) \/ (\E g \in Files : PushWrite(d, g))
           \/ At(d, "push") /\ \E r \in cycle[d].deletes : CheckDelete(d, r) \/ PushDelete(d, r)
  <2>1. cycle'[d].phase = "push"
    <3>1. CASE Conclude(d)
      BY <3>1, ConcludeSession DEF Types
    <3>2. CASE \/ (\E g \in Files : PushWrite(d, g))
               \/ At(d, "push") /\ \E r \in cycle[d].deletes : CheckDelete(d, r) \/ PushDelete(d, r)
      <4>1. cycle[d] \in Pushing
        BY <3>2, StageOf DEF PushWrite
      <4>2. \/ \E g : cycle' = [cycle EXCEPT ![d] = [cycle[d] EXCEPT !.writes = @ \ {g}]]
            \/ \E r : \/ cycle' = [cycle EXCEPT ![d] = [cycle[d] EXCEPT !.deletes = @ \ {r}]]
                     \/ cycle' = [cycle EXCEPT ![d] = [cycle[d] EXCEPT !.sending = {r}]]
                     \/ cycle' = [cycle EXCEPT ![d] = [cycle[d] EXCEPT !.sending = {}, !.deletes = @ \ {r}]]
        BY <3>2 DEF PushWrite, CheckDelete, PushDelete, GoesTo
      <4>3. \A x : /\ [cycle[d] EXCEPT !.writes = @ \ {x}].phase = "push"
                  /\ [cycle[d] EXCEPT !.deletes = @ \ {x}].phase = "push"
                  /\ [cycle[d] EXCEPT !.sending = {x}].phase = "push"
                  /\ [cycle[d] EXCEPT !.sending = {}, !.deletes = @ \ {x}].phase = "push"
        BY <4>1 DEF Pushing
      <4>4. PICK stage : cycle' = [cycle EXCEPT ![d] = stage] /\ stage.phase = "push"
        BY <4>2, <4>3
      <4> QED BY <4>4, OneCycle
    <3> QED BY <1>9, <3>1, <3>2
  <2> QED BY <2>1 DEF Mirrors, At
<1>10. ASSUME NEW e \in Devices, e # d, Cycle(e)
       PROVE  cycle'[d] = cycle[d]
  BY <1>10, CycleStages, ConcludeSession DEF Cycle, Onward, Types
<1>11. ASSUME NEW e \in Devices, Person(e) \/ Emptied(e)
       PROVE  cycle'[d] = cycle[d]
  BY <1>11 DEF Person, DeleteFiles, Recreate, approveMassDeletion, discardMassDeletion, approveSuspendedDeletions,
               keepSuspendedDeletionsLocal, Emptied
<1>12. ASSUME NEW e \in Devices, Crash(e)
       PROVE  cycle'[d] = cycle[d]
  <2>1. cycle' = [cycle EXCEPT ![e] = Idle] /\ Idle.phase = "idle"
    BY <1>12 DEF Crash, Idle
  <2> QED BY <2>1 DEF Mirrors, At, Types
<1>13. CASE (\E S \in SUBSET Files : RemoteLoses(S)) \/ DayPasses \/ UNCHANGED vars
  BY <1>4, <1>13 DEF RemoteLoses, DayPasses, vars
<1> QED BY <1>4, <1>5, <1>6, <1>7, <1>8, <1>9, <1>10, <1>11, <1>12, <1>13 DEF Next, Cycle

-----------------------------------------------------------------------------
(* Every state that can be reached is such.                                *)

LEMMA InitInv == Init => IInv
<1> SUFFICES ASSUME Init
             PROVE  IInv
  OBVIOUS
<1>1. Idle \in Stages /\ NewSession \in Sessions /\ Empty \in Journals /\ Now = 1
  BY DEF Init, Idle, Stages, NewSession, Sessions, Empty, Journals, Now
<1>2. Types
  BY <1>1 DEF Init, Types
<1>3. \A d \in Devices : /\ deletes[d] = {} /\ session[d].promptIds = {} /\ session[d].approvedIds = {}
                         /\ ~At(d, "push")
  BY DEF Init, NewSession, At, Idle
<1>4. \A f \in Files : published[f].back = 0 /\ \A d \in Devices : journal[d][f].back = 0
  BY DEF Init, Empty
<1>5. Dated
  BY <1>1, <1>3, <1>4 DEF Dated, DatedEntries, DatedJournals
<1>6. JournalKnows /\ OneAct /\ Together /\ Cleared
  BY <1>3 DEF JournalKnows, OneAct, Together, Cleared
<1>7. Noted /\ GoneFirst
  BY DEF Init, Idle, Noted, GoneFirst, Mirrors, At
<1>8. Versions
  BY <1>1 DEF Init, Versions
<1> QED BY <1>2, <1>5, <1>6, <1>7, <1>8 DEF IInv

LEMMA NextInv == IInv /\ [Next]_vars => IInv'
<1> SUFFICES ASSUME IInv, [Next]_vars
             PROVE  IInv'
  OBVIOUS
<1>1. Types /\ Dated /\ Held /\ Noted /\ Versions /\ GoneFirst
  BY DEF IInv, Held
<1>2. Types' /\ Grown /\ DatedJournals'
  BY <1>1, NextTypes, JournalsStep
<1>3. DatedEntries' /\ Held'
  BY <1>1, <1>2, HeldStep
<1>4. Noted' /\ Versions' /\ GoneFirst'
  BY <1>1, <1>2, NotedStep, VersionsStep, GoneFirstStep
<1> QED BY <1>2, <1>3, <1>4 DEF IInv, Dated, Held

THEOREM Invariance == Spec => []IInv
  BY InitInv, NextInv, PTL DEF Spec

(* For any devices, files, acts and faults, no device forgets a deletion or*)
(* a retraction it knew (mergeDeletionEntries, DeletionJournal.sync).      *)
THEOREM NoJournalForgets == Spec => JournalKeeps
<1>1. IInv /\ [Next]_vars => Grown
  BY JournalsStep DEF IInv
<1>2. Grown => (\A d \in Devices, f \in Files : journal'[d][f].gone >= journal[d][f].gone
                                               /\ journal'[d][f].back >= journal[d][f].back)
  BY DEF Grown
<1> QED BY <1>1, <1>2, Invariance, PTL DEF JournalKeeps, Spec

(* A deletion that is confirmed, be it in the middle of a cycle or a second*)
(* time after a restart, goes up only after the journal of its device knows*)
(* of it (recordQueuedDeletionIntents, the check before the push).         *)
THEOREM IntentIsFirst == Spec => IntentFirst
<1>1. ASSUME IInv, [Next]_vars, NEW d \in Devices, NEW r \in deletes[d],
             At(d, "push"), r \in cycle[d].deletes, Confirmed(d, r)
      PROVE  journal[d][r.file].gone >= 2 * r.at
  <2>1. r.journaled
    BY <1>1 DEF IInv, Cleared, Confirmed, Approved
  <2> QED BY <1>1, <2>1 DEF IInv, JournalKnows
<1>2. IInv /\ [Next]_vars =>
        [\A d \in Devices : \A r \in deletes[d] :
           remote[r.file] # 0 /\ remote'[r.file] = 0 /\ At(d, "push") /\ cycle'[d] # cycle[d] /\ r \in cycle[d].deletes
             /\ Confirmed(d, r)
           => journal[d][r.file].gone >= 2 * r.at]_vars
  BY <1>1
<1> QED BY <1>2, Invariance, PTL DEF IntentFirst, Spec

(* Of a mass of files that vanished at once nothing goes up before a person*)
(* has said so, over any restarts (isMassDeletion, the approved ids): the  *)
(* batch is all there as long as nobody has answered.                      *)
THEOREM MassWaits == Spec => EmptiedVaultAsks
<1>1. ASSUME IInv, NEW d \in Devices, NEW r \in deletes[d],
             At(d, "push"), r \in cycle[d].deletes, ~r.confirmed, r.of > MassMin
      PROVE  Approvals(d, r) # {} \/ r.journaled
  <2>1. r.of \in Nat /\ MassMin \in Nat
    BY <1>1, DeletionsAssumption DEF IInv, Types, Entries
  <2> QED BY <1>1, <2>1 DEF IInv, Cleared
<1>2. IInv /\ [Next]_vars =>
        [\A d \in Devices : \A r \in deletes[d] :
           /\ At(d, "push") /\ cycle'[d] # cycle[d] /\ r \in cycle[d].deletes
           /\ remote[r.file] # 0 /\ remote'[r.file] = 0 /\ ~r.confirmed /\ r.of > MassMin
           => Approvals(d, r) # {} \/ r.journaled]_vars
  BY <1>1
<1> QED BY <1>2, Invariance, PTL DEF EmptiedVaultAsks, Spec

(* A file that goes here was asked for, or its sample was, some steps ago: *)
(* whatever other devices have pushed since, and a person has answered,    *)
(* the remote does not have it in the version last known here.             *)
THEOREM MirrorAsksFirst == Spec => NothingAliveGoes
<1>1. ASSUME IInv, [Next]_vars, NEW d \in Devices, Mirrors(d), cycle'[d] # cycle[d], NEW f \in local[d] \ local'[d]
      PROVE  remote[f] = 0 \/ remote[f] # row[d][f].stamp
  <2>1. local \in [Devices -> SUBSET Files] /\ cycle \in [Devices -> Stages]
    BY <1>1 DEF IInv, Types
  <2>2. ~(UNCHANGED local) /\ ~(UNCHANGED cycle)
    BY <1>1
  <2>3. ASSUME NEW e \in Devices, NEW g \in Files, RemoveFile(e, g)
        PROVE  remote[f] = 0 \/ remote[f] # row[d][f].stamp
    <3>1. e = d
      BY <1>1, <2>1, <2>3 DEF RemoveFile, GoesTo
    <3>2. g = f /\ f \in cycle[d].going
      BY <1>1, <2>1, <2>3, <3>1 DEF RemoveFile
    <3> QED BY <1>1, <3>2 DEF IInv, GoneFirst
  <2>4. ASSUME NEW e \in Devices, List(e)
        PROVE  FALSE
    <3>1. At(e, "list") /\ \A c \in Devices : c # e => cycle'[c] = cycle[c]
      BY <2>1, <2>4 DEF List, GoesTo
    <3> QED BY <1>1, <3>1 DEF At, Mirrors
  <2>5. ASSUME NEW e \in Devices, Person(e) \/ Emptied(e)
        PROVE  UNCHANGED cycle
    BY <2>5 DEF Person, DeleteFiles, Recreate, approveMassDeletion, discardMassDeletion, approveSuspendedDeletions,
                keepSuspendedDeletionsLocal, Emptied
  <2>6. ASSUME NEW e \in Devices,
               \/ Begin(e) \/ markDeletesJournaled(e) \/ ReadJournal(e) \/ Publish(e) \/ Probe(e) \/ Sort(e)
               \/ Conclude(e) \/ Crash(e)
               \/ \E g \in Files : CheckFile(e, g) \/ ForgetRow(e, g) \/ PushWrite(e, g)
               \/ \E q \in cycle[e].deletes : CheckDelete(e, q) \/ PushDelete(e, q)
        PROVE  UNCHANGED local
    BY <2>6 DEF Begin, markDeletesJournaled, ReadJournal, Publish, Probe, Sort, Conclude, Crash, CheckFile, ForgetRow,
                PushWrite, CheckDelete, PushDelete, here
  <2>7. ASSUME (\E S \in SUBSET Files : RemoteLoses(S)) \/ DayPasses \/ UNCHANGED vars
        PROVE  UNCHANGED cycle
    BY <2>7 DEF RemoteLoses, DayPasses, vars
  <2> QED BY <1>1, <2>2, <2>3, <2>4, <2>5, <2>6, <2>7 DEF Next, Cycle
<1>2. IInv /\ [Next]_vars =>
        [\A d \in Devices : Mirrors(d) /\ cycle'[d] # cycle[d] => \A f \in local[d] \ local'[d] :
           remote[f] = 0 \/ remote[f] # row[d][f].stamp]_vars
  BY <1>1
<1> QED BY <1>2, Invariance, PTL DEF NothingAliveGoes, Spec
=============================================================================
