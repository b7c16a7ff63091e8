------------------------------ MODULE SyncCycle ------------------------------
(***************************************************************************)
(* When the sync worker's cycles run (sync/SyncWorker.ts): start, the poll *)
(* timer, triggers, the watchdog that abandons a cycle nothing answers,    *)
(* stop and stopAndDrain, the resolution of name collisions between two    *)
(* cycles; and the cursor with which a cycle asks for what has changed     *)
(* since an earlier one.                                                   *)
(*                                                                         *)
(* An abandoned cycle is not stopped: it goes on, as a zombie, when its    *)
(* request is answered after all. Cycle generations are compared and never *)
(* ordered, so a cycle is known by a name, and active is the one whose     *)
(* generation is activeCycleGen. What happens to a file is in FileSync;    *)
(* here a remote change is applied or its step fails. Time is abstract: an *)
(* armed timer fires some time.                                            *)
(***************************************************************************)
EXTENDS Integers, FiniteSets

CONSTANTS Cycle,        \* names of cycles; bound: so many are under way at once
          NoCycle,
          MaxChanges,   \* bound: changes on the remote
          MaxFaults     \* bound: failed steps, failed and abandoned cycles

ASSUME SyncCycleAssumption ==
  /\ NoCycle \notin Cycle
  /\ MaxChanges \in Nat /\ MaxFaults \in Nat

VARIABLES
  isRunning, isSyncing, pendingSyncRequest,
  starting,      \* start() awaits resetStuckOperations
  timer,         \* the timer of timeoutId is armed
  orphans,       \* armed timers that timeoutId no longer names
  active,        \* the cycle of the current generation
  currentCycle,  \* the promise stopAndDrain would await
  run,           \* run[c]: how far cycle c is
  cursor,        \* the change token, or NoCursor
  resolver,      \* resolveNameCollisions: "none", "waiting" or "holding"
  awaited,       \* the cycle it waits for
  drain          \* stopAndDrain: "none", "waiting" or "done"

\* The remote: how many changes it has had, and which of them are applied here.
VARIABLES head, applied

\* Histories: a full listing was asked for and none has begun since; the faults so far.
VARIABLES asked, faults

scheduler == <<isRunning, isSyncing, pendingSyncRequest, starting, timer, orphans, active, currentCycle>>
others == <<resolver, awaited, drain>>
vars == <<scheduler, run, cursor, others, head, applied, asked, faults>>

NoCursor == -1

\* upTo: the token the cycle adopts if all goes well; doing: the change being applied.
NoRun == [phase |-> "none", full |-> FALSE, upTo |-> NoCursor, todo |-> {}, doing |-> {},
          failed |-> FALSE, unresolved |-> FALSE]
Over == [NoRun EXCEPT !.phase = "over"]

(* start() has been called. *)
Init ==
  /\ isRunning = TRUE /\ starting = TRUE
  /\ isSyncing = FALSE /\ pendingSyncRequest = FALSE
  /\ timer = FALSE /\ orphans = 0
  /\ active = NoCycle /\ currentCycle = NoCycle
  /\ run = [c \in Cycle |-> NoRun]
  /\ cursor = NoCursor
  /\ resolver = "none" /\ awaited = NoCycle /\ drain = "none"
  /\ head = 0 /\ applied = {}
  /\ asked = FALSE /\ faults = 0

-----------------------------------------------------------------------------
(* Scheduling.                                                              *)

(* executeCycle, when nothing runs. *)
Unused == {c \in Cycle : run[c].phase = "none"}
Begins ==
  /\ Unused # {}
  /\ LET c == CHOOSE c \in Unused : TRUE
     IN  /\ run' = [run EXCEPT ![c].phase = "begun"]
         /\ active' = c /\ currentCycle' = c
  /\ isSyncing' = TRUE

Nothing == UNCHANGED <<run, active, currentCycle, isSyncing>>

executeCycle == IF isRunning /\ ~isSyncing THEN Begins ELSE Nothing

(* setTimeout; a timer that timeoutId still named is not cleared. *)
scheduleNext ==
  /\ timer' = TRUE
  /\ orphans' = IF timer THEN orphans + 1 ELSE orphans

StartCycle ==
  /\ starting
  /\ starting' = FALSE
  /\ executeCycle
  /\ UNCHANGED <<isRunning, pendingSyncRequest, timer, orphans, cursor, others, head, applied, asked, faults>>

TimerFires ==
  /\ timer
  /\ timer' = FALSE
  /\ executeCycle
  /\ UNCHANGED <<isRunning, starting, pendingSyncRequest, orphans, cursor, others, head, applied, asked, faults>>

OrphanFires ==
  /\ orphans > 0
  /\ orphans' = orphans - 1
  /\ executeCycle
  /\ UNCHANGED <<isRunning, starting, pendingSyncRequest, timer, cursor, others, head, applied, asked, faults>>

triggerImmediate ==
  \/ /\ isSyncing
     /\ pendingSyncRequest' = TRUE
     /\ Nothing /\ UNCHANGED timer
  \/ /\ ~isSyncing
     /\ timer' = FALSE
     /\ Begins
     /\ UNCHANGED pendingSyncRequest

Trigger ==
  /\ isRunning
  /\ triggerImmediate
  /\ UNCHANGED <<isRunning, starting, orphans, cursor, others, head, applied, asked, faults>>

(* triggerFullListing; approveSuspendedDeletions drops the cursor and triggers as well. *)
TriggerFullListing ==
  /\ isRunning
  /\ cursor' = NoCursor
  /\ asked' = TRUE
  /\ triggerImmediate
  /\ UNCHANGED <<isRunning, starting, orphans, others, head, applied, faults>>

(* Mutant of Owns: a cycle does not ask whether it is still the current one. *)
OwnsAlways(c) == TRUE

(* The generation check in the finally of executeCycle. *)
Owns(c) == active = c

(* Mutant of Forgotten: any cycle that ends clears currentCycle. *)
ForgottenBlindly(c) == NoCycle
Forgotten(c) == IF currentCycle = c THEN NoCycle ELSE currentCycle

(* A cycle is over: the current one frees the worker and sees to the next. *)
Finish(c) ==
  /\ run[c].phase = "over"
  /\ run' = [run EXCEPT ![c] = NoRun]
  /\ currentCycle' = Forgotten(c)
  /\ awaited' = IF awaited = c THEN NoCycle ELSE awaited
  /\ IF Owns(c)
     THEN /\ active' = NoCycle /\ isSyncing' = FALSE
          /\ IF isRunning THEN scheduleNext /\ pendingSyncRequest' = FALSE
             ELSE UNCHANGED <<timer, orphans, pendingSyncRequest>>
     ELSE UNCHANGED <<active, isSyncing, timer, orphans, pendingSyncRequest>>
  /\ UNCHANGED <<isRunning, starting, cursor, resolver, drain, head, applied, asked, faults>>

(* The watchdog: no sign of life for fifteen minutes (bound: while a name is *)
(* left for the next cycle).                                                 *)
Abandon(c) ==
  /\ isRunning /\ isSyncing /\ active = c /\ Unused # {}
  /\ faults < MaxFaults
  /\ faults' = faults + 1
  /\ active' = NoCycle
  /\ isSyncing' = FALSE /\ pendingSyncRequest' = FALSE
  /\ cursor' = NoCursor
  /\ scheduleNext
  /\ UNCHANGED <<isRunning, starting, currentCycle, run, others, head, applied, asked>>

Stop ==
  /\ isRunning
  /\ isRunning' = FALSE
  /\ timer' = FALSE
  /\ drain' = "waiting"
  /\ UNCHANGED <<isSyncing, pendingSyncRequest, starting, orphans, active, currentCycle, run,
                 cursor, resolver, awaited, head, applied, asked, faults>>

(* stopAndDrain goes on: the cycle it awaited has settled. *)
Drained ==
  /\ drain = "waiting" /\ currentCycle = NoCycle
  /\ drain' = "done"
  /\ UNCHANGED <<scheduler, run, cursor, resolver, awaited, head, applied, asked, faults>>

-----------------------------------------------------------------------------
(* resolveNameCollisions: between two cycles, holding the next one back.    *)

(* Its loop: while a cycle runs, await it; then take its place. *)
WaitsOrHolds ==
  IF isSyncing
  THEN resolver' = "waiting" /\ awaited' = currentCycle /\ UNCHANGED isSyncing
  ELSE /\ resolver' = IF isRunning THEN "holding" ELSE "none"
       /\ isSyncing' = isRunning
       /\ UNCHANGED awaited

Resolve ==
  /\ isRunning /\ resolver = "none"
  /\ WaitsOrHolds
  /\ UNCHANGED <<isRunning, pendingSyncRequest, starting, timer, orphans, active, currentCycle,
                 run, cursor, drain, head, applied, asked, faults>>

ResolverWakes ==
  /\ resolver = "waiting" /\ awaited = NoCycle
  /\ WaitsOrHolds
  /\ UNCHANGED <<isRunning, pendingSyncRequest, starting, timer, orphans, active, currentCycle,
                 run, cursor, drain, head, applied, asked, faults>>

(* Mutant of TriggersNext: the resolution ends without a trigger. *)
TriggersNever == FALSE
TriggersNext == isRunning

ResolverEnds ==
  /\ resolver = "holding"
  /\ resolver' = "none"
  /\ IF TriggersNext
     THEN Begins /\ timer' = FALSE /\ cursor' = NoCursor /\ asked' = TRUE
     ELSE isSyncing' = FALSE /\ UNCHANGED <<run, active, currentCycle, timer, cursor, asked>>
  /\ UNCHANGED <<isRunning, pendingSyncRequest, starting, orphans, awaited, drain, head, applied, faults>>

-----------------------------------------------------------------------------
(* One cycle: runCycle.                                                     *)

alive(c) == isRunning /\ active = c

At(c, here) == run[c].phase = here

(* The kind of listing; a full one fetches the token first, if the target has one. *)
(* One may be due for its own sake, by count or by clock.                          *)
Decide(c) ==
  /\ At(c, "begun")
  /\ \E whole \in BOOLEAN, token \in {NoCursor, head} :
       /\ cursor = NoCursor => whole
       /\ run' = [run EXCEPT ![c].phase = "asking", ![c].full = whole,
                             ![c].upTo = IF whole THEN token ELSE cursor]
       /\ asked' = (asked /\ ~whole)
  /\ UNCHANGED <<scheduler, cursor, others, head, applied, faults>>

(* The listing: everything, or what is new since the cursor but for the changes *)
(* a cursor pull cannot resolve (needsFullListing). What is applied is skipped. *)
List(c) ==
  /\ At(c, "asking")
  /\ LET news == IF run[c].full THEN 1..head ELSE (run[c].upTo + 1)..head
     IN  \E missed \in SUBSET news :
           /\ run[c].full => missed = {}
           /\ run' = [run EXCEPT ![c].phase = "pulling",
                                 ![c].todo = news \ (missed \cup applied),
                                 ![c].upTo = IF run[c].full THEN @ ELSE head,
                                 ![c].unresolved = (missed # {})]
  /\ UNCHANGED <<scheduler, cursor, others, head, applied, asked, faults>>

(* The next file of the pull, if the cycle is alive at the boundary. *)
PullNext(c, k) ==
  /\ At(c, "pulling") /\ run[c].doing = {} /\ alive(c)
  /\ k \in run[c].todo
  /\ run' = [run EXCEPT ![c].doing = {k}, ![c].todo = @ \ {k}]
  /\ UNCHANGED <<scheduler, cursor, others, head, applied, asked, faults>>

(* Its step ends: applied (or overruled by what is queued here, or refused for  *)
(* good), left alone by a worker that has stopped, or failed.                   *)
PullDone(c) ==
  /\ At(c, "pulling") /\ run[c].doing # {}
  /\ \/ /\ run' = [run EXCEPT ![c].doing = {}]
        /\ applied' = applied \cup run[c].doing \/ (~isRunning /\ applied' = applied)
        /\ UNCHANGED faults
     \/ /\ faults < MaxFaults /\ faults' = faults + 1
        /\ run' = [run EXCEPT ![c].doing = {}, ![c].failed = TRUE]
        /\ UNCHANGED applied
  /\ UNCHANGED <<scheduler, cursor, others, head, asked>>

(* The push begins; a cycle that is not alive any more ends here. *)
LeavePull(c) ==
  /\ At(c, "pulling") /\ run[c].doing = {}
  /\ run[c].todo = {} \/ ~alive(c)
  /\ run' = [run EXCEPT ![c] = IF alive(c) THEN [@ EXCEPT !.phase = "pushing"] ELSE Over]
  /\ UNCHANGED <<scheduler, cursor, others, head, applied, asked, faults>>

(* Mutants of Adopted: a failed file does not count; what was not resolved does not. *)
AdoptedAnyway(r) == r.upTo
AdoptedUnresolved(r) == IF r.failed THEN cursor ELSE r.upTo

(* The cursor after a cycle that came to its end. *)
Adopted(r) ==
  IF r.unresolved THEN NoCursor
  ELSE IF r.failed THEN cursor ELSE r.upTo

(* The push has ended: the cursor is adopted, alive or not. *)
Adopt(c) ==
  /\ At(c, "pushing")
  /\ cursor' = Adopted(run[c])
  /\ pendingSyncRequest' = (pendingSyncRequest \/ run[c].unresolved)
  /\ run' = [run EXCEPT ![c] = Over]
  /\ UNCHANGED <<isRunning, isSyncing, starting, timer, orphans, active, currentCycle, others,
                 head, applied, asked, faults>>

(* An error ends the cycle, wherever it is. *)
Fail(c) ==
  /\ run[c].phase \notin {"none", "over"}
  /\ faults < MaxFaults /\ faults' = faults + 1
  /\ cursor' = NoCursor
  /\ run' = [run EXCEPT ![c] = Over]
  /\ UNCHANGED <<scheduler, others, head, applied, asked>>

(* Another device changes the remote. *)
RemoteChanges ==
  /\ head < MaxChanges
  /\ head' = head + 1
  /\ UNCHANGED <<scheduler, run, cursor, others, applied, asked, faults>>

-----------------------------------------------------------------------------
Step(c) ==
  \/ Decide(c) \/ List(c) \/ PullDone(c) \/ LeavePull(c) \/ Adopt(c) \/ Finish(c)
  \/ \E k \in 1..head : PullNext(c, k)

Next ==
  \/ StartCycle \/ TimerFires \/ OrphanFires
  \/ Trigger \/ TriggerFullListing
  \/ Stop \/ Drained
  \/ Resolve \/ ResolverWakes \/ ResolverEnds
  \/ RemoteChanges
  \/ \E c \in Cycle : Step(c) \/ Fail(c) \/ Abandon(c)

(* Timers fire, and the current cycle goes on or is abandoned; an abandoned *)
(* one need never be answered.                                              *)
Fairness ==
  /\ WF_vars(StartCycle) /\ WF_vars(TimerFires) /\ WF_vars(ResolverEnds)
  /\ \A c \in Cycle : WF_vars(active = c /\ (Step(c) \/ Abandon(c)))

Spec == Init /\ [][Next]_vars
FairSpec == Spec /\ Fairness

-----------------------------------------------------------------------------
Run == [phase : {"none", "begun", "asking", "pulling", "pushing", "over"}, full : BOOLEAN,
        upTo : NoCursor..MaxChanges, todo : SUBSET (1..MaxChanges), doing : SUBSET (1..MaxChanges),
        failed : BOOLEAN, unresolved : BOOLEAN]

(* The types of the state; there is never more than one timer too many. *)
TypeOK ==
  /\ isRunning \in BOOLEAN /\ isSyncing \in BOOLEAN /\ pendingSyncRequest \in BOOLEAN
  /\ starting \in BOOLEAN /\ timer \in BOOLEAN /\ orphans \in 0..1
  /\ active \in Cycle \cup {NoCycle} /\ currentCycle \in Cycle \cup {NoCycle}
  /\ run \in [Cycle -> Run]
  /\ cursor \in NoCursor..MaxChanges
  /\ resolver \in {"none", "waiting", "holding"} /\ awaited \in Cycle \cup {NoCycle}
  /\ drain \in {"none", "waiting", "done"}
  /\ head \in 0..MaxChanges /\ applied \subseteq 1..MaxChanges
  /\ asked \in BOOLEAN /\ faults \in 0..MaxFaults

(* The worker is taken by its current cycle or by a resolution, never by both, *)
(* and by neither of them only when it is free: a zombie's clean-up does not    *)
(* free it under the fresh cycle, and a resolution never runs beside a cycle    *)
(* that has not been abandoned.                                                 *)
OneAtATime ==
  /\ isSyncing <=> active # NoCycle \/ resolver = "holding"
  /\ ~(active # NoCycle /\ resolver = "holding")
  /\ active # NoCycle => run[active].phase # "none"

(* A running worker that is free has a timer to wake it, whatever came before: *)
(* triggers, abandoned cycles, timers that fired while it was taken.           *)
NeverAsleep == isRunning /\ ~isSyncing => timer \/ starting

(* The cursor never stands beyond a change that is not applied here: not after *)
(* failed files, a token fetched before its listing, changes a cursor pull     *)
(* could not resolve, or the late end of a zombie (SyncWorker.ts:2902-2910).   *)
CursorHidesNothing == \A k \in 1..cursor : k \in applied

(* stopAndDrain returns only after the current cycle has settled. *)
DrainAwaitsCycle == drain = "done" => active = NoCycle

(* Every change on the remote is applied some time, unless the worker is stopped. *)
ChangesArrive == \A k \in 1..MaxChanges : head >= k ~> k \in applied \/ ~isRunning

(* SyncWorker.ts:921: triggerFullListing "forces the NEXT cycle to run a full listing": *)
(* no cycle lists by the cursor between the request and a full listing.                  *)
FullListingFollows ==
  [][\A c \in Cycle : run[c].phase = "begun" /\ run'[c].phase = "asking" /\ asked
       => run'[c].full]_vars

(* SyncWorker.ts:1084: callers of stopAndDrain "must not race a cycle that is still *)
(* downloading or writing".                                                          *)
DrainedIsQuiet == drain = "done" => \A c \in Cycle : run[c].phase = "none"
=============================================================================
