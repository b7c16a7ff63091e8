--------------------------- MODULE ConflictSession ---------------------------
(***************************************************************************)
(* The open conflict of one file (vault/conflictSession.ts) and what the   *)
(* write chain (vault/ConflictAwareVaultAdapter.ts) does to a file that may*)
(* have one: saves of editors, changes of a place, writes that name no     *)
(* starting text, the comparison and its answer, and the recovery of each  *)
(* after a step that failed or an app that ended.  Other programs change   *)
(* and delete the files meanwhile.                                         *)
(*                                                                         *)
(* The gate of the path lets one operation at a time in (PathMutation); it *)
(* goes step by step, each step one write to a file or to the stored       *)
(* session.  A text is the set of the edits it contains.  A three-way merge*)
(* is the set merge, or it finds a conflict: whether two changes overlap is*)
(* left open.  The code cannot lock other programs out: none is assumed to *)
(* write a file between the step that reads it and the one that replaces it*)
(* or lets go what it now holds (InHand), and what they write is new.      *)
(***************************************************************************)
EXTENDS Naturals

CONSTANTS Editors,     \* editors that have the file open
          Views,       \* writers that name no starting text
          Missing,     \* no file, no text
          MaxEdits,    \* bound: edits, of users and of other programs
          MaxFaults,   \* bound: steps that fail, deletions by other programs
          Names        \* whether other programs take the name the copy is to be kept under

ASSUME ConflictSessionAssumption ==
  /\ \A T \in SUBSET (1..MaxEdits) : T # Missing
  /\ MaxEdits \in Nat /\ MaxFaults \in Nat /\ Names \in BOOLEAN

VARIABLES file,      \* the file
          copy,      \* the working copy of its conflict
          beside,    \* what stands under the name the copy is to be kept under
          aside,     \* edits in .plainva/conflict-revisions and in snapshots
          session,   \* the stored conflict session
          editor,    \* what each editor holds: the text it started from and its own
          view,      \* the text of each writer that names no starting text
          seen,      \* the comparison a person has before them
          op,        \* the operation in the gate, and its stage
          edits, faults

files == <<file, copy, beside, aside>>
people == <<editor, view, seen>>
vars == <<files, session, people, op, edits, faults>>

In(x) == IF x = Missing THEN {} ELSE x
Idle == [stage |-> "idle"]
Closed == [open |-> FALSE]
Unanswered == [given |-> FALSE]
Unseen == [shown |-> FALSE]

Init ==
  /\ file = {} /\ copy = Missing /\ beside = Missing /\ aside = {}
  /\ session = Closed
  /\ editor = [e \in Editors |-> [base |-> {}, text |-> {}]]
  /\ view = [v \in Views |-> {}]
  /\ seen = Unseen
  /\ op = Idle
  /\ edits = 0 /\ faults = 0

Fresh == edits < MaxEdits /\ edits' = edits + 1
mergeEditorText(base, yours, theirs) == (yours \cup theirs) \ ((base \ yours) \cup (base \ theirs))
MayConflict(base, yours, theirs) == yours # base /\ theirs # base /\ yours # theirs

-----------------------------------------------------------------------------
(* Other programs, and steps that fail.                                    *)

InHand(which) == CASE which = "file" -> op.stage \in {"keep", "place", "drop"} \/ (op # Idle /\ op.for = "change")
                   [] which = "copy" -> op.stage \in {"write", "keep", "place", "drop"}
OutsideFile ==
  /\ ~InHand("file")
  /\ \/ Fresh /\ file' = In(file) \cup {edits'} /\ UNCHANGED faults
     \/ file # Missing /\ file' = Missing /\ faults < MaxFaults /\ faults' = faults + 1 /\ UNCHANGED edits
  /\ UNCHANGED <<copy, beside, aside, session, people, op>>
OutsideCopy ==
  /\ ~InHand("copy") /\ copy # Missing
  /\ \/ Fresh /\ copy' = copy \cup {edits'} /\ UNCHANGED faults
     \/ copy' = Missing /\ faults < MaxFaults /\ faults' = faults + 1 /\ UNCHANGED edits
  /\ UNCHANGED <<file, beside, aside, session, people, op>>
NameTaken ==
  /\ Names /\ beside = Missing
  /\ Fresh /\ beside' = {edits'}
  /\ UNCHANGED <<file, copy, aside, session, people, op, faults>>
Outside == OutsideFile \/ OutsideCopy \/ NameTaken

Fails ==
  /\ op # Idle /\ op' = Idle
  /\ faults < MaxFaults /\ faults' = faults + 1
  /\ UNCHANGED <<files, session, people, edits>>

-----------------------------------------------------------------------------
(* The working copy follows the journal.                                   *)

Free == op = Idle
Step(stage) == op' = [op EXCEPT !.stage = stage]
Begins(for) == [stage |-> "recover", for |-> for, by |-> {}, text |-> {}, answer |-> Unanswered,
                anyway |-> FALSE, had |-> Missing, wrote |-> FALSE]
Ready(for) == op.stage = "ready" /\ op.for = for

Foreign == IF copy \in {Missing, session.working, session.pending} THEN {} ELSE copy

recoverDraft ==
  \/ /\ op.stage = "recover" /\ session.pending = Missing
     /\ IF copy = session.working
        THEN Step("ready") /\ UNCHANGED session
        ELSE session' = [session EXCEPT !.pending = session.draft] /\ UNCHANGED op
     /\ UNCHANGED <<copy, aside>>
  \/ /\ op.stage = "recover" /\ session.pending # Missing
     /\ aside' = aside \cup Foreign
     /\ Step("write")
     /\ UNCHANGED <<copy, session>>
  \/ /\ op.stage = "write"
     /\ copy' = session.pending
     /\ Step("confirm")
     /\ UNCHANGED <<aside, session>>
  \/ /\ op.stage = "confirm"
     /\ IF copy = session.pending
        THEN /\ session' = [session EXCEPT !.working = session.pending, !.pending = Missing]
             /\ Step("ready")
        ELSE op' = Idle /\ UNCHANGED session
     /\ UNCHANGED <<copy, aside>>
Recovery == recoverDraft /\ UNCHANGED <<file, beside, people, edits, faults>>

-----------------------------------------------------------------------------
(* Who writes: editors, with the text they started from.                   *)

Opened(text, plain) == [open |-> TRUE, draft |-> text, pending |-> text, working |-> Missing,
                        plain |-> plain, resolution |-> Unanswered]
Open == session.open /\ ~session.resolution.given
Holds(text) == [base |-> text, text |-> text]
Unsaved(e) == editor[e].text # editor[e].base

Type(e) ==
  /\ Fresh /\ editor' = [editor EXCEPT ![e].text = @ \cup {edits'}]
  /\ UNCHANGED <<files, session, view, seen, op, faults>>
Load(e) ==
  /\ Free /\ ~Unsaved(e)
  /\ \/ Open /\ session.pending = Missing /\ editor' = [editor EXCEPT ![e] = Holds(session.draft)]
     \/ ~session.open /\ file # Missing /\ editor' = [editor EXCEPT ![e] = Holds(file)]
  /\ UNCHANGED <<files, session, view, seen, op, edits, faults>>

(* A save without an open conflict; its answer may be lost.                *)
writeEditorText(e) ==
  /\ Free /\ ~session.open /\ Unsaved(e) /\ file # Missing
  /\ LET base == editor[e].base
         text == editor[e].text
     IN \/ /\ LET candidate == mergeEditorText(base, text, file)
              IN /\ file' = candidate
                 /\ \/ editor' = [editor EXCEPT ![e] = Holds(candidate)] /\ UNCHANGED faults
                    \/ faults < MaxFaults /\ faults' = faults + 1 /\ UNCHANGED editor
           /\ UNCHANGED <<session, op>>
        \/ /\ MayConflict(base, text, file)
           /\ session' = Opened(text, FALSE)
           /\ op' = [Begins("tell") EXCEPT !.by = {e}]
           /\ UNCHANGED <<file, editor, faults>>
  /\ UNCHANGED <<copy, beside, aside, view, seen, edits>>

Tell ==
  /\ Ready("tell")
  /\ editor' = [e \in Editors |-> IF e \in op.by /\ copy # Missing THEN Holds(copy) ELSE editor[e]]
  /\ op' = Idle
  /\ UNCHANGED <<files, session, view, seen, edits, faults>>

(* A save while a conflict is open: the draft takes it.                    *)
SaveDraft(e) ==
  /\ Free /\ Open /\ Unsaved(e)
  /\ op' = [Begins("save") EXCEPT !.by = {e}]
  /\ UNCHANGED <<files, session, people, edits, faults>>
Set(text, plain) == [session EXCEPT !.draft = text, !.pending = text, !.plain = plain]
Own(text) == session.plain /\ text = session.draft
writeLocked ==
  /\ Ready("save")
  /\ \E e \in op.by :
       LET base == editor[e].base
           text == editor[e].text
       IN \/ /\ session' = LET merged == IF base = session.draft THEN text ELSE mergeEditorText(base, text, session.draft)
                           IN Set(merged, Own(merged))
             /\ UNCHANGED aside
          \/ /\ MayConflict(base, text, session.draft)
             /\ aside' = aside \cup session.draft
             /\ session' = Set(text, FALSE)
  /\ op' = [Begins("tell") EXCEPT !.by = op.by]
  /\ UNCHANGED <<file, copy, beside, people, edits, faults>>

(* A change of a place: in the file, and in the working copy where it fits. *)
updateTextFile ==
  /\ Free /\ ~session.open /\ file # Missing
  /\ Fresh /\ file' = file \cup {edits'}
  /\ UNCHANGED <<copy, beside, aside, session, people, op, faults>>
BeginChange ==
  /\ Free /\ Open /\ file # Missing
  /\ op' = Begins("change")
  /\ UNCHANGED <<files, session, people, edits, faults>>
applyLocked ==
  /\ Ready("change")
  /\ Fresh /\ file' = file \cup {edits'}
  /\ \/ op' = Idle /\ UNCHANGED session
     \/ session' = Set(session.draft \cup {edits'}, FALSE) /\ op' = Begins("look")
  /\ UNCHANGED <<copy, beside, aside, people, faults>>

(* A writer that names no starting text.  Its writes over a file without an*)
(* open conflict go by other rules and are left out, but for the conflict  *)
(* they may end in.                                                        *)
BeginPlain(v) ==
  /\ Free /\ Fresh
  /\ LET text == view[v] \cup {edits'}
     IN /\ view' = [view EXCEPT ![v] = text]
        /\ \/ ~session.open /\ file \notin {Missing, view[v]}
              /\ session' = Opened(text, TRUE) /\ op' = Begins("look")
           \/ Open /\ op' = [Begins("plain") EXCEPT !.text = text] /\ UNCHANGED session
  /\ UNCHANGED <<files, editor, seen, faults>>
(* Mutant of MayReplace: any draft is replaced. *)
MayReplaceAny == TRUE
MayReplace == session.plain
writePlainLocked ==
  /\ Ready("plain")
  /\ IF MayReplace
     THEN session' = Set(op.text, TRUE) /\ op' = Begins("look")
     ELSE UNCHANGED session /\ op' = Idle
  /\ UNCHANGED <<files, people, edits, faults>>

-----------------------------------------------------------------------------
(* Looking at the conflict, and the answer to it.                          *)

get ==
  /\ Free /\ session.open
  /\ op' = [Begins("look") EXCEPT !.stage = IF session.resolution.given THEN "finish" ELSE "recover"]
  /\ UNCHANGED <<files, session, people, edits, faults>>
Looked ==
  /\ Ready("look") /\ op' = Idle
  /\ UNCHANGED <<files, session, people, edits, faults>>
Compare ==
  /\ Free /\ Open /\ copy # Missing
  /\ seen' = [shown |-> TRUE, file |-> file, copy |-> copy, refused |-> FALSE]
  /\ UNCHANGED <<files, session, editor, view, op, edits, faults>>

Answers == {a \in [given : {TRUE}, content : {In(seen.file), seen.copy, In(seen.file) \cup seen.copy},
                   file : {seen.file}, copy : {seen.copy}, keep : BOOLEAN] :
              /\ a.content = seen.file \/ ~a.keep
              /\ seen.file = Missing => a.content = seen.copy}
resolveLocked ==
  /\ Free /\ session.open /\ seen.shown
  /\ \E a \in Answers, anyway \in {FALSE, seen.refused} :
       op' = [Begins("answer") EXCEPT !.answer = a, !.anyway = anyway,
                                      !.stage = IF session.resolution.given THEN "finish" ELSE "recover"]
  /\ UNCHANGED <<files, session, people, edits, faults>>

(* Mutant of Changed: the copy is not compared again. *)
ChangedFile == file # op.answer.file
Changed == file # op.answer.file \/ copy # op.answer.copy \/ (op.answer.keep /\ beside # Missing)
Accept ==
  /\ Ready("answer")
  /\ IF Changed
     THEN op' = Idle /\ UNCHANGED session
     ELSE session' = [session EXCEPT !.resolution = op.answer] /\ Step("finish")
  /\ UNCHANGED <<files, people, edits, faults>>

TakenBack == [session EXCEPT !.resolution = Unanswered]
(* Mutant of NewEvidence: a copy that was changed counts as the one answered. *)
NewEvidenceFile(r) == file \notin {r.content, r.file}
NewEvidence(r) == file \notin {r.content, r.file} \/ copy \notin {Missing, r.copy}
finishResolution ==
  LET r == session.resolution IN
  \/ /\ op.stage = "finish"
     /\ IF NewEvidence(r)
        THEN session' = TakenBack /\ op' = Idle
        ELSE op' = [op EXCEPT !.stage = "keep", !.had = copy, !.wrote = file # r.content] /\ UNCHANGED session
     /\ UNCHANGED <<files, seen>>
  \/ /\ op.stage = "keep"
     /\ LET kept == IF r.keep /\ beside = Missing THEN op.had ELSE beside
        IN /\ beside' = kept
           /\ IF r.keep /\ kept # r.copy THEN op' = Idle ELSE Step("place")
     /\ UNCHANGED <<file, copy, aside, session, seen>>
  \/ /\ op.stage = "place"
     /\ file' = r.content
     /\ Step(IF op.had = Missing THEN "close" ELSE "drop")
     /\ UNCHANGED <<copy, beside, aside, session, seen>>
  \/ /\ op.stage = "drop"
     /\ LET kept == r.keep \/ r.content = r.copy
        IN \/ /\ copy' = Missing
              /\ \/ aside' = aside \cup copy
                 \/ (kept \/ op.anyway) /\ UNCHANGED aside
              /\ Step("close")
              /\ UNCHANGED <<session, seen>>
           \/ /\ ~kept /\ ~op.anyway
              /\ session' = IF op.wrote THEN session ELSE TakenBack
              /\ seen' = IF seen.shown THEN [seen EXCEPT !.refused = TRUE] ELSE seen
              /\ op' = Idle
              /\ UNCHANGED <<copy, aside>>
     /\ UNCHANGED <<file, beside>>
  \/ /\ op.stage = "close"
     /\ session' = Closed /\ seen' = Unseen
     /\ op' = Idle
     /\ UNCHANGED files
Finishing == finishResolution /\ UNCHANGED <<editor, view, edits, faults>>

Editor(e) == Type(e) \/ Load(e) \/ writeEditorText(e) \/ SaveDraft(e)
Draft == Recovery \/ Tell \/ writeLocked \/ BeginChange \/ applyLocked \/ writePlainLocked \/ get \/ Looked
Answering == Compare \/ resolveLocked \/ Accept \/ Finishing
Next == \/ \E e \in Editors : Editor(e)
        \/ \E v \in Views : BeginPlain(v)
        \/ updateTextFile \/ Draft \/ Answering \/ Outside \/ Fails
Spec == Init /\ [][Next]_vars

-----------------------------------------------------------------------------
Text == SUBSET (1..MaxEdits)
TypeOK ==
  /\ {file, copy, beside} \subseteq {Missing} \cup Text /\ aside \in Text
  /\ session.open => /\ session.draft \in Text
                     /\ {session.pending, session.working} \subseteq {Missing} \cup Text

(* What has been saved stays somewhere: in the file, in the working copy,  *)
(* under the name a copy is kept under, in a copy set aside, or in the     *)
(* journal of a conflict without an answer; except for what another program takes away itself and what a   *)
(* person who had it before them let go, whatever step fails in between    *)
(* (recoverDraft, writeLocked, finishResolution).                          *)
Stored == In(file) \cup In(copy) \cup In(beside) \cup aside \cup (IF Open THEN session.draft ELSE {})
LetGo == IF op.stage \in {"place", "drop"}
         THEN (In(session.resolution.file) \cup session.resolution.copy) \ session.resolution.content
         ELSE {}
NothingLost == [][Outside \/ Stored \subseteq Stored' \cup LetGo]_vars

(* Nobody replaces a draft they do not know: what an editor or another     *)
(* writer puts in its place contains it, or it was set aside first.  Only a*)
(* writer that names no starting text follows a text of its own            *)
(* (writeLocked, writePlainLocked).                                        *)
DraftsAreKnown ==
  [][session.open /\ session'.open /\ ~session.plain => session.draft \subseteq session'.draft \cup aside']_vars

(* A confirmed answer speaks of the draft as it is, in the journal and in  *)
(* the working copy: no save and no recovery comes between the answer and  *)
(* what it does, however often it is taken up again.                       *)
AnswerHolds == session.open /\ session.resolution.given =>
                 /\ session.pending = Missing /\ session.working = session.draft
                 /\ session.resolution.copy = session.draft

(* New evidence takes an answer back instead of leaving it to fail again.  *)
NeverTrapped == [][op.stage = "keep" /\ op' = Idle /\ faults' = faults => ~session'.resolution.given]_vars

(* An answer that is reported as carried out is the one that was given.    *)
AnswerIsCarriedOut == [][op.stage = "close" /\ session' = Closed /\ op.for = "answer" => session.resolution = op.answer]_vars
=============================================================================
