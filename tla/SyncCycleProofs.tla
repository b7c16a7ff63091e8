--------------------------- MODULE SyncCycleProofs ---------------------------
(***************************************************************************)
(* The sync worker's cycles, for any number of abandoned cycles, changes   *)
(* and faults: one cycle at a time owns the worker, a running worker is    *)
(* never without a timer, there is at most one timer too many, stopAndDrain*)
(* awaits the current cycle, and the cursor hides no change.               *)
(***************************************************************************)
EXTENDS SyncCycle, TLAPS

(* The types, but for the bound on orphans. *)
Types ==
  /\ isRunning \in BOOLEAN /\ isSyncing \in BOOLEAN /\ pendingSyncRequest \in BOOLEAN
  /\ starting \in BOOLEAN /\ timer \in BOOLEAN /\ orphans \in Nat
  /\ active \in Cycle \cup {NoCycle} /\ currentCycle \in Cycle \cup {NoCycle}
  /\ run \in [Cycle -> Run]
  /\ cursor \in NoCursor..MaxChanges
  /\ resolver \in {"none", "waiting", "holding"} /\ awaited \in Cycle \cup {NoCycle}
  /\ drain \in {"none", "waiting", "done"}
  /\ head \in 0..MaxChanges /\ applied \subseteq 1..MaxChanges
  /\ asked \in BOOLEAN /\ faults \in 0..MaxFaults

(* Who has taken the worker; the current cycle is the one a drain awaits. *)
Taken ==
  /\ OneAtATime
  /\ active # NoCycle => currentCycle = active

(* What may begin the next cycle: a chain of timers and cycles, and at times a  *)
(* second chain, made when a trigger comes before the cycle start() is to begin. *)
Chains ==
  /\ orphans \in {0, 1}
  /\ orphans = 1 => ~starting
  /\ starting \/ orphans = 1 => ~(timer /\ active # NoCycle)

Drains ==
  /\ drain # "none" => ~isRunning
  /\ DrainAwaitsCycle

(* All changes up to n are applied. *)
Upto(n) == \A k \in 1..n : k \in applied

(* What the cursor of a cycle promises at each of its phases. *)
Promises(r) ==
  /\ r.upTo <= head
  /\ r.phase = "asking" /\ ~r.full => r.upTo # NoCursor /\ Upto(r.upTo)
  /\ r.phase = "pulling" /\ isRunning /\ ~r.failed /\ ~r.unresolved =>
       \A k \in 1..r.upTo : k \in applied \cup r.todo \cup r.doing
  /\ r.phase = "pushing" /\ ~r.failed /\ ~r.unresolved => Upto(r.upTo)

Cursors ==
  /\ cursor <= head /\ CursorHidesNothing
  /\ \A c \in Cycle : Promises(run[c])

Scheduled == Types /\ Taken /\ NeverAsleep /\ Chains /\ Drains
IInv == Scheduled /\ Cursors

-----------------------------------------------------------------------------
(* A new cycle takes an unused name. *)
LEMMA BeginsWith ==
  ASSUME Begins
  PROVE  \E c \in Cycle : /\ run[c].phase = "none"
                          /\ run' = [run EXCEPT ![c].phase = "begun"]
                          /\ active' = c /\ currentCycle' = c /\ isSyncing' = TRUE
<1> DEFINE c == CHOOSE c \in Unused : TRUE
<1>1. c \in Unused
  BY DEF Begins
<1>2. QED
  BY <1>1 DEF Begins, Unused

(* Nothing but a token or an applied change can break what the cursors promise. *)
LEMMA CursorsKept ==
  ASSUME Types, Cursors,
         head' = head, applied' = applied, isRunning' => isRunning,
         cursor' \in {cursor, NoCursor},
         \A c \in Cycle : \/ run'[c] = run[c]
                          \/ /\ run'[c].phase \notin {"asking", "pulling", "pushing"}
                             /\ run'[c].upTo <= head
  PROVE  Cursors'
<1>1. cursor' <= head' /\ CursorHidesNothing'
  BY DEF Types, Cursors, CursorHidesNothing, NoCursor
<1>2. ASSUME NEW c \in Cycle
      PROVE  Promises(run[c])'
  <2>1. CASE run'[c] = run[c]
    BY <2>1 DEF Cursors, Promises, Upto
  <2>2. CASE run'[c].phase \notin {"asking", "pulling", "pushing"} /\ run'[c].upTo <= head
    BY <2>2 DEF Promises
  <2>3. QED
    BY <2>1, <2>2
<1>3. QED
  BY <1>1, <1>2 DEF Cursors

(* The same for the steps that begin a cycle or leave all cycles as they are. *)
LEMMA CursorsKeptByScheduling ==
  ASSUME Types, Cursors, Begins \/ UNCHANGED run,
         head' = head, applied' = applied, isRunning' => isRunning,
         cursor' \in {cursor, NoCursor}
  PROVE  Cursors'
<1>1. CASE Begins
  <2>1. PICK new \in Cycle : run[new].phase = "none" /\ run' = [run EXCEPT ![new].phase = "begun"]
    BY <1>1, BeginsWith
  <2>2. \A c \in Cycle : \/ run'[c] = run[c]
                         \/ run'[c].phase = "begun" /\ run'[c].upTo <= head
    BY <2>1 DEF Types, Cursors, Promises, Run
  <2>3. QED
    BY <2>2, CursorsKept
<1>2. CASE UNCHANGED run
  BY <1>2, CursorsKept
<1>3. QED
  BY <1>1, <1>2

LEMMA NoCursorType == NoCursor \in NoCursor..MaxChanges /\ NoCursor <= 0
<1>1. NoCursor \in Int /\ NoCursor <= 0 /\ MaxChanges \in Nat
  BY SyncCycleAssumption DEF NoCursor
<1>2. QED
  BY <1>1

LEMMA InitIInv == Init => IInv
<1> SUFFICES ASSUME Init PROVE IInv
  OBVIOUS
<1>1. NoRun \in Run
  BY SyncCycleAssumption DEF NoRun, Run, NoCursor
<1>2. Types
  <2>1. head \in 0..MaxChanges /\ faults \in 0..MaxFaults /\ cursor \in NoCursor..MaxChanges
    BY NoCursorType, SyncCycleAssumption DEF Init
  <2>2. run \in [Cycle -> Run]
    BY <1>1 DEF Init
  <2>3. QED
    BY <2>1, <2>2 DEF Init, Types
<1>3. Taken /\ NeverAsleep /\ Chains /\ Drains
  BY DEF Init, Taken, OneAtATime, NeverAsleep, Chains, Drains, DrainAwaitsCycle
<1>4. Cursors
  BY DEF Init, Cursors, CursorHidesNothing, Promises, NoRun, NoCursor
<1>5. QED
  BY <1>2, <1>3, <1>4 DEF IInv, Scheduled

-----------------------------------------------------------------------------
(* executeCycle begins a cycle, or the worker is stopped or taken and nothing changes. *)
LEMMA ExecuteCycleCases ==
  ASSUME executeCycle
  PROVE  \/ isRunning /\ ~isSyncing /\ Begins
         \/ (~isRunning \/ isSyncing) /\ Nothing
BY DEF executeCycle

LEMMA BegunTypes ==
  ASSUME Types, NEW c \in Cycle, run' = [run EXCEPT ![c].phase = "begun"]
  PROVE  run' \in [Cycle -> Run]
BY DEF Types, Run

(* The timers and start(): the three that call executeCycle. *)
LEMMA TimersKeep ==
  ASSUME IInv, StartCycle \/ TimerFires \/ OrphanFires
  PROVE  IInv'
<1> USE DEF IInv, Scheduled
<1>1. /\ executeCycle
      /\ UNCHANGED <<isRunning, pendingSyncRequest, cursor, others, head, applied, asked, faults>>
  BY DEF StartCycle, TimerFires, OrphanFires
<1>2. /\ timer' \in BOOLEAN /\ starting' \in BOOLEAN /\ orphans' \in {0, 1} /\ orphans' \in Nat
      /\ orphans' = 1 => ~starting'
      /\ starting' \/ orphans' = 1 => ~timer'
  <2>1. CASE StartCycle
    <3>1. orphans = 0 /\ UNCHANGED <<orphans, timer>> /\ ~starting' /\ starting' \in BOOLEAN
      BY <2>1 DEF StartCycle, Chains
    <3>2. QED
      BY <3>1 DEF Types
  <2>2. CASE TimerFires
    BY <2>2 DEF TimerFires, Types, Chains
  <2>3. CASE OrphanFires
    <3>1. orphans = 1 /\ orphans' = 0 /\ UNCHANGED <<starting, timer>>
      BY <2>3 DEF OrphanFires, Types, Chains
    <3>2. QED
      BY <3>1 DEF Types, Chains
  <2>4. QED
    BY <2>1, <2>2, <2>3
<1>3. Cursors'
  BY <1>1, ExecuteCycleCases, CursorsKeptByScheduling DEF Nothing
<1>4. CASE isRunning /\ ~isSyncing /\ Begins
  <2>1. PICK c \in Cycle : /\ run[c].phase = "none"
                           /\ run' = [run EXCEPT ![c].phase = "begun"]
                           /\ active' = c /\ currentCycle' = c /\ isSyncing' = TRUE
    BY <1>4, BeginsWith
  <2>2. Types'
    BY <1>1, <1>2, <2>1, BegunTypes DEF Types, others
  <2>3. Taken' /\ NeverAsleep' /\ Drains'
    BY <1>1, <1>4, <2>1, SyncCycleAssumption
    DEF Taken, OneAtATime, NeverAsleep, Drains, DrainAwaitsCycle, others, Types, Run
  <2>4. Chains'
    BY <1>2 DEF Chains
  <2>5. QED
    BY <1>3, <2>2, <2>3, <2>4
<1>5. CASE (~isRunning \/ isSyncing) /\ Nothing
  <2>1. Types' /\ Taken' /\ NeverAsleep' /\ Drains'
    BY <1>1, <1>2, <1>5
    DEF Types, Taken, OneAtATime, NeverAsleep, Drains, DrainAwaitsCycle, others, Nothing
  <2>2. Chains'
    BY <1>2 DEF Chains
  <2>3. QED
    BY <1>3, <2>1, <2>2
<1>6. QED
  BY <1>1, <1>4, <1>5, ExecuteCycleCases

(* A trigger: it is remembered, or takes the place of the timer. *)
LEMMA TriggersKeep ==
  ASSUME IInv, Trigger \/ TriggerFullListing
  PROVE  IInv'
<1> USE DEF IInv, Scheduled
<1>1. /\ isRunning /\ triggerImmediate
      /\ UNCHANGED <<isRunning, starting, orphans, others, head, applied, faults>>
      /\ cursor' \in {cursor, NoCursor} /\ asked' \in BOOLEAN
  BY DEF Trigger, TriggerFullListing, Types
<1>2. Cursors'
  BY <1>1, CursorsKeptByScheduling DEF triggerImmediate, Nothing
<1>3. CASE isSyncing /\ pendingSyncRequest' = TRUE /\ Nothing /\ UNCHANGED timer
  BY <1>1, <1>2, <1>3, SyncCycleAssumption
  DEF Types, Taken, OneAtATime, NeverAsleep, Chains, Drains, DrainAwaitsCycle, others, Nothing, NoCursor
<1>4. CASE ~isSyncing /\ timer' = FALSE /\ Begins /\ UNCHANGED pendingSyncRequest
  <2>1. PICK c \in Cycle : /\ run[c].phase = "none"
                           /\ run' = [run EXCEPT ![c].phase = "begun"]
                           /\ active' = c /\ currentCycle' = c /\ isSyncing' = TRUE
    BY <1>4, BeginsWith
  <2>2. Types'
    BY <1>1, <1>4, <2>1, BegunTypes, NoCursorType DEF Types, others
  <2>3. Taken' /\ NeverAsleep' /\ Drains'
    BY <1>1, <1>4, <2>1, SyncCycleAssumption
    DEF Taken, OneAtATime, NeverAsleep, Drains, DrainAwaitsCycle, others, Types, Run
  <2>4. Chains'
    BY <1>1, <1>4, <2>1 DEF Chains, Types
  <2>5. QED
    BY <1>2, <2>2, <2>3, <2>4
<1>5. QED
  BY <1>1, <1>3, <1>4 DEF triggerImmediate

(* After scheduleNext the worker is free and has its timer. *)
LEMMA ScheduleNextChains ==
  ASSUME Types, Chains, active # NoCycle, scheduleNext, UNCHANGED starting, active' = NoCycle
  PROVE  Chains' /\ timer' /\ timer' \in BOOLEAN /\ orphans' \in Nat
<1>1. CASE timer
  <2>1. orphans = 0 /\ ~starting
    BY <1>1 DEF Chains
  <2>2. QED
    BY <1>1, <2>1 DEF scheduleNext, Chains
<1>2. CASE ~timer
  BY <1>2 DEF scheduleNext, Chains
<1>3. QED
  BY <1>1, <1>2

(* The end of a cycle, of the current one or of a zombie. *)
LEMMA FinishKeeps ==
  ASSUME IInv, NEW c \in Cycle, Finish(c)
  PROVE  IInv'
<1> USE DEF IInv, Scheduled
<1>1. /\ run' = [run EXCEPT ![c] = NoRun] /\ NoRun \in Run /\ NoRun.phase = "none" /\ NoRun.upTo <= head
      /\ run' \in [Cycle -> Run] /\ c # NoCycle
  BY SyncCycleAssumption DEF Finish, Types, NoRun, Run, NoCursor
<1>2. currentCycle' \in Cycle \cup {NoCycle} /\ awaited' \in Cycle \cup {NoCycle}
  BY DEF Finish, Types, Forgotten
<1>3. Cursors'
  <2>1. \A d \in Cycle : \/ run'[d] = run[d]
                         \/ run'[d].phase = "none" /\ run'[d].upTo <= head
    BY <1>1 DEF Types
  <2>2. UNCHANGED <<isRunning, cursor, head, applied>>
    BY DEF Finish
  <2>3. QED
    BY <2>1, <2>2, CursorsKept
<1>4. CASE Owns(c)
  <2>1. active = c /\ active' = NoCycle /\ isSyncing' = FALSE /\ isSyncing /\ resolver # "holding"
    BY <1>1, <1>4 DEF Finish, Owns, Taken, OneAtATime
  <2>2. CASE isRunning
    <3>1. scheduleNext /\ pendingSyncRequest' = FALSE
      BY <1>4, <2>2 DEF Finish
    <3>2. Chains' /\ timer' /\ timer' \in BOOLEAN /\ orphans' \in Nat
      BY <1>1, <2>1, <3>1, ScheduleNextChains DEF Finish
    <3>3. QED
      BY <1>1, <1>2, <1>3, <2>1, <3>1, <3>2
      DEF Finish, Types, Taken, OneAtATime, NeverAsleep, Drains, DrainAwaitsCycle
  <2>3. CASE ~isRunning
    <3>1. UNCHANGED <<timer, orphans, pendingSyncRequest>>
      BY <1>4, <2>3 DEF Finish
    <3>2. QED
      BY <1>1, <1>2, <1>3, <2>1, <2>3, <3>1
      DEF Finish, Types, Taken, OneAtATime, NeverAsleep, Chains, Drains, DrainAwaitsCycle
  <2>4. QED
    BY <2>2, <2>3 DEF Types
<1>5. CASE ~Owns(c)
  <2>1. active # c /\ UNCHANGED <<active, isSyncing, timer, orphans, pendingSyncRequest>>
    BY <1>5 DEF Finish, Owns
  <2>2. Types' /\ NeverAsleep' /\ Chains' /\ Drains'
    BY <1>1, <1>2, <2>1 DEF Finish, Types, NeverAsleep, Chains, Drains, DrainAwaitsCycle
  <2>3. active # NoCycle => currentCycle' = active /\ run'[active] = run[active]
    BY <1>1, <2>1 DEF Finish, Forgotten, Taken, Types
  <2>4. Taken'
    BY <2>1, <2>3 DEF Finish, Taken, OneAtATime
  <2>5. QED
    BY <1>3, <2>2, <2>4
<1>6. QED
  BY <1>4, <1>5

(* The watchdog. *)
LEMMA AbandonKeeps ==
  ASSUME IInv, NEW c \in Cycle, Abandon(c)
  PROVE  IInv'
<1> USE DEF IInv, Scheduled
<1>1. c # NoCycle /\ active = c /\ isRunning /\ isSyncing /\ faults' \in 0..MaxFaults
  BY SyncCycleAssumption DEF Abandon, Types
<1>2. Chains' /\ timer' /\ timer' \in BOOLEAN /\ orphans' \in Nat
  BY <1>1, ScheduleNextChains DEF Abandon
<1>3. Cursors'
  BY CursorsKept DEF Abandon
<1>4. Types'
  BY <1>1, <1>2, NoCursorType DEF Abandon, Types, others
<1>5. Taken' /\ NeverAsleep' /\ Drains'
  BY <1>1, <1>2 DEF Abandon, Taken, OneAtATime, NeverAsleep, Drains, DrainAwaitsCycle, others
<1>6. QED
  BY <1>2, <1>3, <1>4, <1>5

(* stop, and the end of stopAndDrain. *)
LEMMA StopKeeps ==
  ASSUME IInv, Stop \/ Drained
  PROVE  IInv'
<1> USE DEF IInv, Scheduled
<1>1. Cursors'
  BY CursorsKept DEF Stop, Drained, scheduler
<1>2. CASE Stop
  BY <1>1, <1>2
  DEF Stop, Types, Taken, OneAtATime, NeverAsleep, Chains, Drains, DrainAwaitsCycle
<1>3. CASE Drained
  BY <1>1, <1>3, SyncCycleAssumption
  DEF Drained, Types, Taken, OneAtATime, NeverAsleep, Chains, Drains, DrainAwaitsCycle, scheduler
<1>4. QED
  BY <1>2, <1>3

(* The resolution of collisions takes the worker, and gives it to a fresh cycle. *)
LEMMA ResolutionKeeps ==
  ASSUME IInv, Resolve \/ ResolverWakes \/ ResolverEnds
  PROVE  IInv'
<1> USE DEF IInv, Scheduled
<1>1. CASE Resolve \/ ResolverWakes
  <2>1. /\ WaitsOrHolds /\ resolver # "holding"
        /\ UNCHANGED <<isRunning, pendingSyncRequest, starting, timer, orphans, active, currentCycle,
                       run, cursor, drain, head, applied, asked, faults>>
    BY <1>1 DEF Resolve, ResolverWakes
  <2>2. Cursors'
    BY <2>1, CursorsKept
  <2>3. CASE isSyncing
    <3>1. resolver' = "waiting" /\ awaited' = currentCycle /\ UNCHANGED isSyncing
      BY <2>1, <2>3 DEF WaitsOrHolds
    <3>2. QED
      BY <2>1, <2>2, <3>1
      DEF Types, Taken, OneAtATime, NeverAsleep, Chains, Drains, DrainAwaitsCycle
  <2>4. CASE ~isSyncing
    <3>1. /\ resolver' = (IF isRunning THEN "holding" ELSE "none") /\ isSyncing' = isRunning
          /\ UNCHANGED awaited
      BY <2>1, <2>4 DEF WaitsOrHolds
    <3>2. QED
      BY <2>1, <2>2, <2>4, <3>1
      DEF Types, Taken, OneAtATime, NeverAsleep, Chains, Drains, DrainAwaitsCycle
  <2>5. QED
    BY <2>3, <2>4
<1>2. CASE ResolverEnds
  <2>1. resolver = "holding" /\ resolver' = "none" /\ active = NoCycle
    BY <1>2 DEF ResolverEnds, Taken, OneAtATime
  <2>2. Cursors'
    BY <1>2, CursorsKeptByScheduling DEF ResolverEnds
  <2>3. CASE isRunning
    <3>1. Begins /\ timer' = FALSE /\ cursor' = NoCursor /\ asked' = TRUE
      BY <1>2, <2>3 DEF ResolverEnds, TriggersNext
    <3>2. PICK c \in Cycle : /\ run[c].phase = "none"
                             /\ run' = [run EXCEPT ![c].phase = "begun"]
                             /\ active' = c /\ currentCycle' = c /\ isSyncing' = TRUE
      BY <3>1, BeginsWith
    <3>3. Types'
      BY <1>2, <2>1, <3>1, <3>2, BegunTypes, NoCursorType DEF ResolverEnds, Types
    <3>4. Taken' /\ NeverAsleep' /\ Drains'
      BY <1>2, <2>1, <2>3, <3>2, SyncCycleAssumption
      DEF ResolverEnds, Taken, OneAtATime, NeverAsleep, Drains, DrainAwaitsCycle, Types, Run
    <3>5. Chains'
      BY <1>2, <3>1 DEF ResolverEnds, Chains
    <3>6. QED
      BY <2>2, <3>3, <3>4, <3>5
  <2>4. CASE ~isRunning
    <3>1. isSyncing' = FALSE /\ UNCHANGED <<run, active, currentCycle, timer, cursor, asked>>
      BY <1>2, <2>4 DEF ResolverEnds, TriggersNext
    <3>2. QED
      BY <1>2, <2>1, <2>2, <2>4, <3>1
      DEF ResolverEnds, Types, Taken, OneAtATime, NeverAsleep, Chains, Drains, DrainAwaitsCycle
  <2>5. QED
    BY <2>3, <2>4 DEF Types
<1>3. QED
  BY <1>1, <1>2

-----------------------------------------------------------------------------
(* A step of a cycle leaves the scheduling alone, but for a remembered request. *)
LEMMA ScheduledKept ==
  ASSUME Scheduled, NEW c \in Cycle, NEW r \in Run, run' = [run EXCEPT ![c] = r], r.phase # "none",
         UNCHANGED <<isRunning, isSyncing, starting, timer, orphans, active, currentCycle, others>>,
         pendingSyncRequest' \in BOOLEAN, cursor' \in NoCursor..MaxChanges,
         head' \in 0..MaxChanges, applied' \subseteq 1..MaxChanges,
         asked' \in BOOLEAN, faults' \in 0..MaxFaults
  PROVE  Scheduled'
<1> USE DEF Scheduled, others
<1>1. run' \in [Cycle -> Run]
  BY DEF Types
<1>2. Types'
  BY <1>1 DEF Types
<1>3. Taken'
  BY DEF Taken, OneAtATime, Types
<1>4. QED
  BY <1>2, <1>3 DEF NeverAsleep, Chains, Drains, DrainAwaitsCycle

(* The cursors after a step of a cycle: the cursor's own promise and this cycle's. *)
LEMMA CursorsOfStep ==
  ASSUME Types, Cursors, NEW c \in Cycle, NEW r \in Run, run' = [run EXCEPT ![c] = r],
         UNCHANGED <<isRunning, head>>, applied \subseteq applied',
         cursor' <= head, \A k \in 1..cursor' : k \in applied',
         Promises(r)'
  PROVE  Cursors'
<1>1. ASSUME NEW d \in Cycle, d # c
      PROVE  Promises(run[d])'
  <2>1. run'[d] = run[d] /\ Promises(run[d]) /\ isRunning' = isRunning /\ head' = head
    BY <1>1 DEF Types, Cursors
  <2>2. QED
    BY <2>1 DEF Promises, Upto
<1>2. Promises(run[c])'
  <2>1. run'[c] = r
    BY DEF Types
  <2>2. QED
    BY <2>1 DEF Promises, Upto
<1>3. cursor' <= head' /\ CursorHidesNothing'
  BY DEF CursorHidesNothing
<1>4. QED
  BY <1>1, <1>2, <1>3 DEF Cursors

(* A cycle that is over promises nothing. *)
LEMMA OverRun == Over \in Run /\ Over.phase = "over" /\ Over.upTo = NoCursor
<1>1. NoRun \in Run /\ NoRun.upTo = NoCursor
  BY SyncCycleAssumption DEF NoRun, Run, NoCursor
<1>2. ASSUME NEW r \in Run
      PROVE  LET o == [r EXCEPT !.phase = "over"] IN o \in Run /\ o.phase = "over" /\ o.upTo = r.upTo
  BY DEF Run
<1>3. QED
  BY <1>1, <1>2 DEF Over

LEMMA DecideKeeps ==
  ASSUME IInv, NEW c \in Cycle, Decide(c)
  PROVE  IInv'
<1> USE DEF IInv
<1>1. PICK whole \in BOOLEAN, token \in {NoCursor, head} :
        /\ cursor = NoCursor => whole
        /\ run' = [run EXCEPT ![c].phase = "asking", ![c].full = whole,
                              ![c].upTo = IF whole THEN token ELSE cursor]
        /\ asked' = (asked /\ ~whole)
  BY DEF Decide
<1>2. token \in NoCursor..MaxChanges /\ token <= head
  BY NoCursorType, SyncCycleAssumption DEF Scheduled, Types, NoCursor
<1>3. PICK r \in Run : r = [run[c] EXCEPT !.phase = "asking", !.full = whole,
                                          !.upTo = IF whole THEN token ELSE cursor]
  BY <1>2 DEF Scheduled, Types, Run
<1>4. run' = [run EXCEPT ![c] = r] /\ UNCHANGED <<isRunning, cursor, head, applied>>
  BY <1>1, <1>3 DEF Decide, scheduler
<1>5. r.phase = "asking" /\ r.full = whole /\ r.upTo = (IF whole THEN token ELSE cursor)
  BY <1>3 DEF Scheduled, Types, Run
<1>6. Scheduled'
  <2>1. asked' \in BOOLEAN /\ r.phase # "none"
    BY <1>1, <1>5 DEF Scheduled, Types
  <2>2. UNCHANGED <<scheduler, cursor, others, head, applied, faults>>
    BY DEF Decide
  <2>3. QED
    BY <1>4, <2>1, <2>2, ScheduledKept DEF Scheduled, Types, scheduler
<1>7. Promises(r)'
  BY <1>1, <1>2, <1>4, <1>5 DEF Promises, Cursors, CursorHidesNothing, Upto
<1>8. QED
  BY <1>4, <1>6, <1>7, CursorsOfStep DEF Cursors, CursorHidesNothing, Scheduled

(* What the listing found and is not applied is what the pull has to do. *)
LEMMA ListKeeps ==
  ASSUME IInv, NEW c \in Cycle, List(c)
  PROVE  IInv'
<1> USE DEF IInv
<1> DEFINE news == IF run[c].full THEN 1..head ELSE (run[c].upTo + 1)..head
<1>1. PICK missed \in SUBSET news :
        /\ run[c].full => missed = {}
        /\ run' = [run EXCEPT ![c].phase = "pulling",
                              ![c].todo = news \ (missed \cup applied),
                              ![c].upTo = IF run[c].full THEN @ ELSE head,
                              ![c].unresolved = (missed # {})]
  BY DEF List
<1>2. /\ run[c] \in Run /\ run[c].upTo \in Int /\ NoCursor <= run[c].upTo
      /\ head \in 0..MaxChanges /\ head \in Int /\ head <= MaxChanges /\ MaxChanges \in Nat
  BY SyncCycleAssumption DEF Scheduled, Types, Run, NoCursor
<1>3. /\ run[c].phase = "asking" /\ run[c].upTo <= head
      /\ ~run[c].full => run[c].upTo # NoCursor /\ Upto(run[c].upTo)
  BY DEF List, At, Cursors, Promises
<1>4. PICK upTo \in NoCursor..MaxChanges : upTo = (IF run[c].full THEN run[c].upTo ELSE head) /\ upTo <= head
  BY <1>2, <1>3 DEF NoCursor
<1>5. PICK todo \in SUBSET (1..MaxChanges) : todo = news \ (missed \cup applied)
  <2>1. ASSUME NEW k \in news
        PROVE  k \in 1..MaxChanges
    BY <1>2, <1>3, <2>1 DEF NoCursor
  <2>2. QED
    BY <2>1
<1>6. PICK unresolved \in BOOLEAN : unresolved = (missed # {})
  OBVIOUS
<1>7. PICK r \in Run : r = [run[c] EXCEPT !.phase = "pulling", !.todo = todo, !.upTo = upTo,
                                          !.unresolved = unresolved]
  BY <1>2 DEF Run
<1>8. /\ r.phase = "pulling" /\ r.todo = todo /\ r.upTo = upTo /\ r.unresolved = unresolved
      /\ r.doing = run[c].doing
  BY <1>2, <1>7 DEF Run
<1>9. run' = [run EXCEPT ![c] = r]
  BY <1>1, <1>4, <1>5, <1>6, <1>7 DEF Scheduled, Types
<1>10. Scheduled'
  <2>1. UNCHANGED <<scheduler, cursor, others, head, applied, asked, faults>>
    BY DEF List
  <2>2. QED
    BY <1>8, <1>9, <2>1, ScheduledKept DEF Scheduled, Types, scheduler
<1>11. ASSUME ~unresolved, NEW k \in 1..upTo
       PROVE  k \in applied \cup todo
  <2>1. missed = {}
    BY <1>6, <1>11
  <2>2. CASE run[c].full
    BY <1>2, <1>4, <1>5, <2>1, <2>2 DEF NoCursor
  <2>3. CASE ~run[c].full
    <3>1. CASE k <= run[c].upTo
      BY <1>2, <1>3, <2>3, <3>1 DEF Upto
    <3>2. CASE ~(k <= run[c].upTo)
      BY <1>2, <1>4, <1>5, <2>1, <2>3, <3>2
    <3>3. QED
      BY <3>1, <3>2
  <2>4. QED
    BY <2>2, <2>3
<1>12. UNCHANGED <<isRunning, cursor, head, applied>>
  BY DEF List, scheduler
<1>13. Promises(r)'
  BY <1>4, <1>8, <1>11, <1>12 DEF Promises
<1>14. QED
  BY <1>9, <1>10, <1>12, <1>13, CursorsOfStep DEF Cursors, CursorHidesNothing, Scheduled

(* A file of the pull begins: it moves from what is to do to what is being done. *)
LEMMA PullNextKeeps ==
  ASSUME IInv, NEW c \in Cycle, NEW k \in 1..head, PullNext(c, k)
  PROVE  IInv'
<1> USE DEF IInv
<1>1. run[c] \in Run /\ k \in 1..MaxChanges
  BY SyncCycleAssumption DEF Scheduled, Types
<1>2. PICK r \in Run : r = [run[c] EXCEPT !.doing = {k}, !.todo = @ \ {k}]
  BY <1>1 DEF Run
<1>3. /\ run' = [run EXCEPT ![c] = r]
      /\ UNCHANGED <<scheduler, cursor, others, head, applied, asked, faults>>
  BY <1>2 DEF PullNext, Scheduled, Types
<1>4. /\ r.phase = "pulling" /\ r.upTo = run[c].upTo /\ r.failed = run[c].failed
      /\ r.unresolved = run[c].unresolved /\ r.doing = {k} /\ r.todo = run[c].todo \ {k}
  BY <1>1, <1>2 DEF Run, PullNext, At
<1>5. Scheduled'
  BY <1>3, <1>4, ScheduledKept DEF Scheduled, Types, scheduler
<1>6. Promises(run[c]) /\ run[c].doing = {} /\ run[c].phase = "pulling"
  BY DEF Cursors, PullNext, At
<1>7. Promises(r)'
  BY <1>3, <1>4, <1>6 DEF Promises, scheduler
<1>8. QED
  BY <1>3, <1>5, <1>7, CursorsOfStep DEF Cursors, CursorHidesNothing, Scheduled, scheduler

(* A file of the pull is applied, left alone or failed. *)
LEMMA PullDoneKeeps ==
  ASSUME IInv, NEW c \in Cycle, PullDone(c)
  PROVE  IInv'
<1> USE DEF IInv
<1>1. run[c] \in Run /\ run[c].phase = "pulling" /\ Promises(run[c])
  BY DEF Scheduled, Types, Cursors, PullDone, At
<1>2. UNCHANGED <<scheduler, cursor, others, head, asked>>
  BY DEF PullDone
<1>3. CASE /\ run' = [run EXCEPT ![c].doing = {}]
           /\ applied' = applied \cup run[c].doing \/ (~isRunning /\ applied' = applied)
           /\ UNCHANGED faults
  <2>1. PICK r \in Run : r = [run[c] EXCEPT !.doing = {}]
    BY <1>1 DEF Run
  <2>2. run' = [run EXCEPT ![c] = r]
    BY <1>3, <2>1 DEF Scheduled, Types
  <2>3. /\ r.phase = "pulling" /\ r.upTo = run[c].upTo /\ r.failed = run[c].failed
        /\ r.unresolved = run[c].unresolved /\ r.doing = {} /\ r.todo = run[c].todo
    BY <1>1, <2>1 DEF Run
  <2>4. applied \subseteq applied' /\ applied' \subseteq 1..MaxChanges
    BY <1>1, <1>3 DEF Scheduled, Types, Run
  <2>5. Scheduled'
    BY <1>2, <1>3, <2>2, <2>3, <2>4, ScheduledKept DEF Scheduled, Types, scheduler
  <2>6. isRunning => applied' = applied \cup run[c].doing
    BY <1>3
  <2>7. Promises(r)'
    BY <1>1, <1>2, <2>3, <2>6 DEF Promises, scheduler
  <2>8. QED
    BY <1>2, <2>2, <2>4, <2>5, <2>7, CursorsOfStep DEF Cursors, CursorHidesNothing, Scheduled, scheduler
<1>4. CASE /\ faults < MaxFaults /\ faults' = faults + 1
           /\ run' = [run EXCEPT ![c].doing = {}, ![c].failed = TRUE]
           /\ UNCHANGED applied
  <2>1. PICK r \in Run : r = [run[c] EXCEPT !.doing = {}, !.failed = TRUE]
    BY <1>1 DEF Run
  <2>2. run' = [run EXCEPT ![c] = r]
    BY <1>4, <2>1 DEF Scheduled, Types
  <2>3. r.phase = "pulling" /\ r.upTo = run[c].upTo /\ r.failed
    BY <1>1, <2>1 DEF Run
  <2>4. faults' \in 0..MaxFaults
    BY <1>4, SyncCycleAssumption DEF Scheduled, Types
  <2>5. Scheduled'
    BY <1>2, <1>4, <2>2, <2>3, <2>4, ScheduledKept DEF Scheduled, Types, scheduler
  <2>6. Promises(r)'
    BY <1>1, <1>2, <2>3 DEF Promises
  <2>7. QED
    BY <1>2, <1>4, <2>2, <2>5, <2>6, CursorsOfStep DEF Cursors, CursorHidesNothing, Scheduled, scheduler
<1>5. QED
  BY <1>3, <1>4 DEF PullDone

(* The pull is left: with everything applied, or because the cycle is not alive. *)
LEMMA LeavePullKeeps ==
  ASSUME IInv, NEW c \in Cycle, LeavePull(c)
  PROVE  IInv'
<1> USE DEF IInv
<1>1. /\ run[c] \in Run /\ run[c].phase = "pulling" /\ run[c].doing = {} /\ Promises(run[c])
      /\ UNCHANGED <<scheduler, cursor, others, head, applied, asked, faults>>
  BY DEF Scheduled, Types, Cursors, LeavePull, At
<1>2. CASE alive(c)
  <2>1. PICK r \in Run : r = [run[c] EXCEPT !.phase = "pushing"]
    BY <1>1 DEF Run
  <2>2. run' = [run EXCEPT ![c] = r] /\ run[c].todo = {} /\ isRunning
    BY <1>2, <2>1 DEF LeavePull, alive
  <2>3. /\ r.phase = "pushing" /\ r.upTo = run[c].upTo /\ r.failed = run[c].failed
        /\ r.unresolved = run[c].unresolved
    BY <1>1, <2>1 DEF Run
  <2>4. Scheduled'
    BY <1>1, <2>2, <2>3, ScheduledKept DEF Scheduled, Types, scheduler
  <2>5. Promises(r)'
    BY <1>1, <2>2, <2>3 DEF Promises, Upto
  <2>6. QED
    BY <1>1, <2>2, <2>4, <2>5, CursorsOfStep DEF Cursors, CursorHidesNothing, Scheduled, scheduler
<1>3. CASE ~alive(c)
  <2>1. PICK r \in Run : r = Over /\ r.phase = "over" /\ r.upTo = NoCursor
    BY OverRun
  <2>2. run' = [run EXCEPT ![c] = r]
    BY <1>3, <2>1 DEF LeavePull
  <2>3. Scheduled'
    BY <1>1, <2>1, <2>2, ScheduledKept DEF Scheduled, Types, scheduler
  <2>4. Promises(r)'
    BY <1>1, <2>1, NoCursorType DEF Promises, Scheduled, Types, NoCursor
  <2>5. QED
    BY <1>1, <2>2, <2>3, <2>4, CursorsOfStep DEF Cursors, CursorHidesNothing, Scheduled, scheduler
<1>4. QED
  BY <1>2, <1>3

(* The cursor is adopted, or dropped: the cycle's promise becomes the cursor's. *)
LEMMA AdoptKeeps ==
  ASSUME IInv, NEW c \in Cycle, Adopt(c)
  PROVE  IInv'
<1> USE DEF IInv
<1>1. /\ run[c] \in Run /\ run[c].phase = "pushing" /\ Promises(run[c]) /\ cursor' = Adopted(run[c])
      /\ UNCHANGED <<isRunning, isSyncing, starting, timer, orphans, active, currentCycle, others,
                     head, applied, asked, faults>>
  BY DEF Scheduled, Types, Cursors, Adopt, At
<1>2. PICK r \in Run : r = Over /\ r.phase = "over" /\ r.upTo = NoCursor
  BY OverRun
<1>3. run' = [run EXCEPT ![c] = r] /\ pendingSyncRequest' \in BOOLEAN
  BY <1>1, <1>2 DEF Adopt, Scheduled, Types, Run
<1>4. cursor' \in NoCursor..MaxChanges
  BY <1>1, NoCursorType DEF Adopted, Scheduled, Types, Run
<1>5. cursor' <= head /\ Upto(cursor')
  BY <1>1 DEF Adopted, Promises, Cursors, CursorHidesNothing, Upto, NoCursor, Scheduled, Types
<1>6. Scheduled'
  BY <1>1, <1>2, <1>3, <1>4, ScheduledKept DEF Scheduled, Types
<1>7. Promises(r)'
  BY <1>1, <1>2 DEF Promises, Scheduled, Types, NoCursor
<1>8. QED
  BY <1>1, <1>3, <1>5, <1>6, <1>7, CursorsOfStep DEF Upto, Scheduled

(* An error ends a cycle and drops the cursor. *)
LEMMA FailKeeps ==
  ASSUME IInv, NEW c \in Cycle, Fail(c)
  PROVE  IInv'
<1> USE DEF IInv
<1>1. cursor' = NoCursor /\ UNCHANGED <<scheduler, others, head, applied, asked>>
  BY DEF Fail
<1>2. PICK r \in Run : r = Over /\ r.phase = "over" /\ r.upTo = NoCursor
  BY OverRun
<1>3. run' = [run EXCEPT ![c] = r] /\ faults' \in 0..MaxFaults
  BY <1>2, SyncCycleAssumption DEF Fail, Scheduled, Types
<1>4. Scheduled'
  BY <1>1, <1>2, <1>3, NoCursorType, ScheduledKept DEF Scheduled, Types, scheduler
<1>5. Promises(r)' /\ cursor' <= head /\ \A k \in 1..cursor' : k \in applied
  BY <1>1, <1>2 DEF Promises, Scheduled, Types, NoCursor
<1>6. QED
  BY <1>1, <1>3, <1>4, <1>5, CursorsOfStep DEF Scheduled, scheduler

LEMMA RemoteChangesKeeps ==
  ASSUME IInv, RemoteChanges
  PROVE  IInv'
<1> USE DEF IInv
<1>1. /\ head' = head + 1 /\ head' \in 0..MaxChanges /\ head \in Int
      /\ UNCHANGED <<scheduler, run, cursor, others, applied, asked, faults>>
  BY SyncCycleAssumption DEF RemoteChanges, Scheduled, Types
<1>2. Scheduled'
  BY <1>1
  DEF Scheduled, Types, Taken, OneAtATime, NeverAsleep, Chains, Drains, DrainAwaitsCycle, scheduler, others
<1>3. ASSUME NEW c \in Cycle
      PROVE  run[c].upTo \in Int
  BY SyncCycleAssumption DEF Scheduled, Types, Run, NoCursor
<1>4. Cursors'
  BY <1>1, <1>3, SyncCycleAssumption
  DEF Cursors, CursorHidesNothing, Promises, Upto, Scheduled, Types, NoCursor, scheduler
<1>5. QED
  BY <1>2, <1>4

-----------------------------------------------------------------------------
LEMMA NextKeeps ==
  ASSUME IInv, [Next]_vars
  PROVE  IInv'
<1>1. CASE StartCycle \/ TimerFires \/ OrphanFires
  BY <1>1, TimersKeep
<1>2. CASE Trigger \/ TriggerFullListing
  BY <1>2, TriggersKeep
<1>3. CASE Stop \/ Drained
  BY <1>3, StopKeeps
<1>4. CASE Resolve \/ ResolverWakes \/ ResolverEnds
  BY <1>4, ResolutionKeeps
<1>5. CASE RemoteChanges
  BY <1>5, RemoteChangesKeeps
<1>6. ASSUME NEW c \in Cycle, Step(c) \/ Fail(c) \/ Abandon(c)
      PROVE  IInv'
  BY <1>6, DecideKeeps, ListKeeps, PullNextKeeps, PullDoneKeeps, LeavePullKeeps, AdoptKeeps,
     FinishKeeps, FailKeeps, AbandonKeeps
  DEF Step
<1>7. CASE UNCHANGED vars
  <2>1. Cursors'
    BY <1>7, CursorsKept DEF vars, scheduler, IInv, Scheduled
  <2>2. Scheduled'
    BY <1>7
    DEF vars, scheduler, others, IInv, Scheduled, Types, Taken, OneAtATime, NeverAsleep, Chains, Drains,
        DrainAwaitsCycle
  <2>3. QED
    BY <2>1, <2>2 DEF IInv
<1>8. QED
  BY <1>1, <1>2, <1>3, <1>4, <1>5, <1>6, <1>7 DEF Next

(* The invariant the properties below are parts of. *)
THEOREM Invariance == Spec => []IInv
<1>1. Init => IInv
  BY InitIInv
<1>2. IInv /\ [Next]_vars => IInv'
  BY NextKeeps
<1>3. QED
  BY <1>1, <1>2, PTL DEF Spec

(* Type correctness of the scheduler and the cycles; there is at most one timer *)
(* too many, however often triggers and abandoned cycles cross the timers.      *)
THEOREM TypeCorrect == Spec => []TypeOK
<1>1. IInv => TypeOK
  <2>1. ASSUME Chains PROVE orphans \in 0..1
    BY <2>1 DEF Chains
  <2>2. QED
    BY <2>1 DEF IInv, Scheduled, Types, TypeOK
<1>2. QED
  BY <1>1, Invariance, PTL

(* One cycle or one resolution has the worker: executeCycle, its finally, the *)
(* watchdog and resolveNameCollisions never share it between two of them.      *)
THEOREM WorkerTakenOnce == Spec => []OneAtATime
<1>1. IInv => OneAtATime
  BY DEF IInv, Scheduled, Taken
<1>2. QED
  BY <1>1, Invariance, PTL

(* A free, running worker always has a timer, or start() still to come. *)
THEOREM WorkerNeverAsleep == Spec => []NeverAsleep
<1>1. IInv => NeverAsleep
  BY DEF IInv, Scheduled
<1>2. QED
  BY <1>1, Invariance, PTL

(* The adopted cursor never stands beyond a change that is not applied. *)
THEOREM CursorSound == Spec => []CursorHidesNothing
<1>1. IInv => CursorHidesNothing
  BY DEF IInv, Cursors
<1>2. QED
  BY <1>1, Invariance, PTL

(* stopAndDrain returns only when no cycle is the current one. *)
THEOREM DrainSound == Spec => []DrainAwaitsCycle
<1>1. IInv => DrainAwaitsCycle
  BY DEF IInv, Scheduled, Drains
<1>2. QED
  BY <1>1, Invariance, PTL
=============================================================================
