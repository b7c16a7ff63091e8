------------------------------ MODULE OwedQueue ------------------------------
(***************************************************************************)
(* vault/owedQueueEntries.ts: the entries the sync queue is still owed for *)
(* changes that are on disk. QueueingVaultAdapter announces a change once  *)
(* it is on disk; passes write the owed entries in order, a pass stops at  *)
(* an entry that fails in time and arms a timer, an entry that is late is  *)
(* given up, and flush makes the last attempt before the database closes.  *)
(* The pull's question hasPendingStructuralOp (SyncQueue.ts) is asked      *)
(* meanwhile, in its two reads.                                            *)
(*                                                                         *)
(* Time is abstract: late holds the entries older than GIVE_UP_AFTER_MS.   *)
(* A failing attempt may have committed before its answer was lost.        *)
(***************************************************************************)
EXTENDS Naturals, Sequences

CONSTANTS Change,       \* changes through the chain, one entry each
          Structural,   \* those that are deletions or renames
          Path,         \* the paths the pull asks about
          Touches       \* Touches[c]: the paths c concerns, descendants included

ASSUME OwedQueueAssumption ==
  /\ Structural \subseteq Change
  /\ Touches \in [Change -> SUBSET Path]

VARIABLES stage,      \* stage[c]: "none", "owed", "queued" (the call returned) or "lost" (it threw)
          owed,       \* the owed entries, oldest first
          rows,       \* offline_queue by id; an entry whose answer was lost stands in it twice
          pass,       \* "none", "writing", "written", "refused" or "over"
          waiting,    \* who awaits the end of the running pass to begin another
          due,        \* who saw that end and has not run yet
          timer,      \* whether a retry is armed
          failing,    \* an entry was given up and none has been written since
          late,       \* entries past the time they are given up at
          flush,      \* "none", "asked", "joined", "settled" or "expired"
          question    \* the pull's question: [phase, path, known]

\* Histories: the order of the announcements; what was owed when flush was called.
VARIABLES announced, flushed

passVars == <<pass, waiting, due, timer, flush>>
vars == <<stage, owed, rows, pass, waiting, due, timer, failing, late, flush,
          question, announced, flushed>>

Waiter == {"entries", "flush"}
In(s) == {s[i] : i \in 1..Len(s)}
Concerns(c, p) == c \in Structural /\ p \in Touches[c]
closing == flush # "none"

Init ==
  /\ stage = [c \in Change |-> "none"]
  /\ owed = <<>> /\ rows = <<>>
  /\ pass = "none" /\ waiting = {} /\ due = {}
  /\ timer = FALSE /\ failing = FALSE /\ late = {}
  /\ flush = "none"
  /\ question = [phase |-> "none", path |-> {}, known |-> {}]
  /\ announced = <<>> /\ flushed = {}

(* What a pass does when it looks at the entries q: it attempts the first or ends. *)
Look(q) == IF q = <<>> THEN "over" ELSE "writing"

(* writeOwed: w begins a pass over q, or joins the one that runs. *)
writeOwed(q, w) ==
  /\ pass' = IF pass = "none" THEN Look(q) ELSE pass
  /\ flush' = IF w = "flush" /\ flush # "expired" THEN "joined" ELSE flush

(* Mutant of passAfterRunning: it joins the running pass instead of awaiting its end. *)
passJoined(q, w) == writeOwed(q, w) /\ UNCHANGED waiting

passAfterRunning(q, w) ==
  \/ /\ pass = "none"
     /\ writeOwed(q, w)
     /\ UNCHANGED waiting
  \/ /\ pass # "none"
     /\ waiting' = waiting \cup {w}
     /\ flush' = IF w = "flush" THEN "asked" ELSE flush
     /\ UNCHANGED pass

(* enqueue, right after the change is on disk. *)
Announce(c) ==
  /\ stage[c] = "none"
  /\ stage' = [stage EXCEPT ![c] = "owed"]
  /\ owed' = Append(owed, c)
  /\ announced' = Append(announced, c)
  /\ passAfterRunning(owed', "entries")
  /\ UNCHANGED <<rows, due, timer, failing, late, question, flushed>>

(* A waiter of passAfterRunning whose awaited pass has ended goes on. *)
Resume(w) ==
  /\ w \in due
  /\ due' = due \ {w}
  /\ writeOwed(owed, w)
  /\ UNCHANGED <<stage, owed, rows, waiting, timer, failing, late, question, announced, flushed>>

(* Bound: the answer of a committed attempt is lost at most once per entry. *)
MayLoseAnswer == owed[1] \notin In(rows)

(* The database takes the first entry, answering or not, or refuses it. *)
Answer ==
  /\ pass = "writing"
  /\ \/ rows' = Append(rows, owed[1]) /\ pass' = "written"
     \/ MayLoseAnswer /\ rows' = Append(rows, owed[1]) /\ pass' = "refused"
     \/ rows' = rows /\ pass' = "refused"
  /\ UNCHANGED <<stage, owed, waiting, due, timer, failing, late, flush, question, announced, flushed>>

(* The first entry leaves: its call settles, the pass looks at the next one. *)
Leaves(outcome) ==
  /\ stage' = [stage EXCEPT ![owed[1]] = outcome]
  /\ owed' = Tail(owed)
  /\ pass' = Look(owed')
  /\ timer' = FALSE
  /\ failing' = (outcome = "lost")
  /\ UNCHANGED <<rows, waiting, due, late, flush, question, announced, flushed>>

Written == pass = "written" /\ Leaves("queued")

(* Mutant of MayRetry: no entry is ever too late. *)
MayRetryForever == ~closing /\ ~failing

MayRetry == ~closing /\ ~failing /\ owed[1] \notin late

GiveUp == pass = "refused" /\ ~MayRetry /\ Leaves("lost")

(* Mutants of Kept: the entry goes to the end of the line; it is dropped. *)
KeptLast == Append(Tail(owed), owed[1])
KeptNot == Tail(owed)

(* What is owed after an attempt that failed in time. *)
Kept == owed

(* Mutant of ArmsRetry: nothing is armed. *)
ArmsNoRetry == UNCHANGED timer

(* retryAfter arms a timer, unless one is armed or flush was called. *)
ArmsRetry == timer' = (timer \/ ~closing)

Retry ==
  /\ pass = "refused" /\ MayRetry
  /\ owed' = Kept
  /\ ArmsRetry
  /\ pass' = "over"
  /\ UNCHANGED <<stage, rows, waiting, due, failing, late, flush, question, announced, flushed>>

(* The finally of writeOwed: the pass is over for those who await it. *)
Finally ==
  /\ pass = "over"
  /\ pass' = "none"
  /\ due' = due \cup waiting
  /\ waiting' = {}
  /\ flush' = IF flush = "joined" THEN "settled" ELSE flush
  /\ UNCHANGED <<stage, owed, rows, timer, failing, late, question, announced, flushed>>

TimerFires ==
  /\ timer
  /\ timer' = FALSE
  /\ passAfterRunning(owed, "entries")
  /\ UNCHANGED <<stage, owed, rows, due, failing, late, question, announced, flushed>>

(* Time passes: entries become late in the order they were announced. *)
Age(c) ==
  /\ c \in In(owed) \ late
  /\ \A i \in 1..Len(owed) : owed[i] = c => \A j \in 1..(i - 1) : owed[j] \in late
  /\ late' = late \cup {c}
  /\ UNCHANGED <<stage, owed, rows, passVars, failing, question, announced, flushed>>

(* flush, called once, before the shell closes the database. *)
Flush ==
  /\ flush = "none"
  /\ timer' = FALSE
  /\ passAfterRunning(owed, "flush")
  /\ flushed' = In(owed)
  /\ UNCHANGED <<stage, owed, rows, due, failing, late, question, announced>>

(* FLUSH_WAITS_MS are over first. *)
FlushExpires ==
  /\ flush \in {"asked", "joined"}
  /\ flush' = "expired"
  /\ UNCHANGED <<stage, owed, rows, pass, waiting, due, timer, failing, late, question, announced, flushed>>

-----------------------------------------------------------------------------
(* hasPendingStructuralOp(path): the owed entries first, then the queue's rows. *)
hasOwedStructuralOp(p) == \E c \in In(owed) : Concerns(c, p)
hasQueuedStructuralOp(p) == \E c \in In(rows) : Concerns(c, p)

(* Mutant of Reads: the two reads the other way round. *)
ReadsSwapped(first, p) == IF first THEN hasQueuedStructuralOp(p) ELSE hasOwedStructuralOp(p)

(* What the first read, and after its await the second one, says of p. *)
Reads(first, p) == IF first THEN hasOwedStructuralOp(p) ELSE hasQueuedStructuralOp(p)

Ask(p) ==
  /\ question.phase # "reading"
  /\ question' = [phase |-> IF Reads(TRUE, p) THEN "pending" ELSE "reading", path |-> {p},
                  known |-> {c \in In(owed) \cup In(rows) : Concerns(c, p)}]
  /\ UNCHANGED <<stage, owed, rows, passVars, failing, late, announced, flushed>>

Conclude ==
  /\ question.phase = "reading"
  /\ question' = [question EXCEPT !.phase =
       IF \E p \in question.path : Reads(FALSE, p) THEN "pending" ELSE "clear"]
  /\ UNCHANGED <<stage, owed, rows, passVars, failing, late, announced, flushed>>

-----------------------------------------------------------------------------
Next ==
  \/ \E c \in Change : Announce(c) \/ Age(c)
  \/ \E w \in Waiter : Resume(w)
  \/ Answer \/ Written \/ GiveUp \/ Retry \/ Finally \/ TimerFires
  \/ Flush \/ FlushExpires
  \/ \E p \in Path : Ask(p)
  \/ Conclude

(* Promise reactions run, the database answers, timers fire and time passes. *)
Fairness ==
  /\ \A c \in Change : WF_vars(Age(c))
  /\ \A w \in Waiter : WF_vars(Resume(w))
  /\ WF_vars(Answer) /\ WF_vars(Written) /\ WF_vars(GiveUp) /\ WF_vars(Retry)
  /\ WF_vars(Finally) /\ WF_vars(TimerFires)

Spec == Init /\ [][Next]_vars
FairSpec == Spec /\ Fairness

-----------------------------------------------------------------------------
(* The types of the state; a pass attempts an entry only while one is owed. *)
TypeOK ==
  /\ pass \in {"writing", "written", "refused"} => owed # <<>>
  /\ stage \in [Change -> {"none", "owed", "queued", "lost"}]
  /\ owed \in Seq(Change) /\ rows \in Seq(Change) /\ announced \in Seq(Change)
  /\ pass \in {"none", "writing", "written", "refused", "over"}
  /\ waiting \subseteq Waiter /\ due \subseteq Waiter
  /\ timer \in BOOLEAN /\ failing \in BOOLEAN
  /\ late \subseteq Change /\ flushed \subseteq Change
  /\ flush \in {"none", "asked", "joined", "settled", "expired"}
  /\ question \in [phase : {"none", "reading", "pending", "clear"},
                   path : SUBSET Path, known : SUBSET Change]

(* Entries reach the queue in the order their changes were announced, whatever *)
(* fails in between: one that waits holds back the ones after it.              *)
RowsInOrder ==
  \A i, j \in 1..Len(rows) : i < j =>
    \E k, l \in 1..Len(announced) : k <= l /\ announced[k] = rows[i] /\ announced[l] = rows[j]

(* A call that returned has its entry in the queue; one that has not settled is *)
(* still owed, in its place; nothing is queued that was not announced.          *)
CallersAreToldTheTruth ==
  /\ \A c \in Change : stage[c] = "queued" => c \in In(rows)
  /\ \A c \in Change : stage[c] = "owed" <=> c \in In(owed)
  /\ \A c \in In(rows) : stage[c] # "none"

(* While an entry is owed, something is on its way that attempts it: a pass, *)
(* somebody about to begin one, or the timer.                                *)
NoneStranded ==
  owed # <<>> => \/ pass \in {"writing", "written", "refused"}
                 \/ waiting # {} \/ due # {} \/ timer

(* Once flush has returned because its pass ended, the call of every entry *)
(* that was owed when it was called has settled.                           *)
FlushSettlesAll == flush = "settled" => \A c \in flushed : stage[c] # "owed"

(* The pull is never told that no deletion or rename concerns a path when one *)
(* was owed or queued as it began to ask (D4).                                *)
PullOverlooksNothing == question.phase = "clear" => question.known = {}

(* The call of every change settles, even if the database fails every attempt. *)
EveryCallSettles == \A c \in Change : stage[c] = "owed" ~> stage[c] # "owed"
=============================================================================
