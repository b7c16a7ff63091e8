------------------------ MODULE ConflictSessionProofs ------------------------
(***************************************************************************)
(* For any number of editors and writers, edits and faults: a confirmed    *)
(* answer speaks of the draft as it is, nobody replaces a draft they do    *)
(* not know, and, with one writer that names no starting text, nothing     *)
(* that was saved is lost.                                                 *)
(***************************************************************************)
EXTENDS ConflictSession, TLAPS

(* Types.  A text consists of edits made so far: that is why what another  *)
(* program writes is new to any comparison.                                *)
Texts == SUBSET (1..edits)
Maybe == Texts \cup {Missing}
Resolutions == {Unanswered} \cup [given : {TRUE}, content : Texts, file : Maybe, copy : Texts, keep : BOOLEAN]
Sessions == [open : {TRUE}, draft : Texts, pending : Maybe, working : Maybe, plain : BOOLEAN, resolution : Resolutions]
Comparisons == [shown : {TRUE}, file : Maybe, copy : Texts, refused : BOOLEAN]
Stages == {"recover", "write", "confirm", "ready", "finish", "keep", "place", "drop", "close"}
Operations == [stage : Stages, for : {"tell", "save", "change", "look", "plain", "answer"}, by : SUBSET Editors,
               text : Texts, answer : Resolutions, anyway : BOOLEAN, had : Maybe, wrote : BOOLEAN]
Buffers == [base : Texts, text : Texts]

Types == /\ edits \in 0..MaxEdits
         /\ file \in Maybe /\ copy \in Maybe
         /\ session \in {Closed} \cup Sessions
         /\ editor \in [Editors -> Buffers]
         /\ view \in [Views -> Texts]
         /\ seen \in {Unseen} \cup Comparisons
         /\ op \in {Idle} \cup Operations

(* What an operation may count on at each of its stages.                   *)
Finishes == op.stage \in {"finish", "keep", "place", "drop", "close"}
Stands == /\ op.stage \in {"recover", "write", "confirm", "ready"} => Open
          /\ op.stage \in {"write", "confirm"} => session.pending # Missing
          /\ op.stage = "ready" => session.pending = Missing
          /\ Finishes => session.open /\ session.resolution.given
          /\ op # Idle /\ op.for = "answer" => op.answer.given
          /\ op # Idle /\ op.for = "change" => file # Missing
          /\ op.stage = "ready" /\ op.for = "answer" => copy = session.draft \/ copy # op.answer.copy

(* The journal and the working copy hold the draft, one ahead of the other. *)
Follows == session.open => session.pending = session.draft \/ (session.pending = Missing /\ session.working = session.draft)

Inv == Types /\ Stands /\ Follows /\ AnswerHolds

USE ConflictSessionAssumption

-----------------------------------------------------------------------------
LEMMA TextIsThere ==
  ASSUME edits \in 0..MaxEdits
  PROVE  Missing \notin Texts
<1>1. Texts \subseteq SUBSET (1..MaxEdits)
  BY DEF Texts
<1> QED BY <1>1

LEMMA OpenSession ==
  ASSUME Types, session.open
  PROVE  session \in Sessions
  BY DEF Types, Closed

LEMMA Shown ==
  ASSUME Types, seen.shown
  PROVE  seen.file \in Maybe /\ seen.copy \in Texts /\ seen.refused \in BOOLEAN
<1>1. Unseen.shown = FALSE
  BY DEF Unseen
<1>2. seen \in Comparisons
  BY <1>1 DEF Types
<1> QED BY <1>2 DEF Comparisons

LEMMA UnderWay ==
  ASSUME Types, op.stage # "idle"
  PROVE  op \in Operations
  BY DEF Types, Idle

LEMMA AnswerGiven ==
  ASSUME NEW r \in Resolutions, r.given
  PROVE  /\ r \in [given : {TRUE}, content : Texts, file : Maybe, copy : Texts, keep : BOOLEAN]
         /\ r.content \in Texts /\ r.file \in Maybe /\ r.copy \in Texts /\ r.keep \in BOOLEAN
<1>1. Unanswered.given = FALSE
  BY DEF Unanswered
<1>2. r \in [given : {TRUE}, content : Texts, file : Maybe, copy : Texts, keep : BOOLEAN]
  BY <1>1 DEF Resolutions
<1> QED BY <1>2

LEMMA InitInv == Init => Inv
<1> SUFFICES ASSUME Init PROVE Inv
  OBVIOUS
<1>1. Types
  BY DEF Init, Types, Texts, Maybe, Buffers, Closed, Unseen, Idle
<1>2. session.open = FALSE /\ op.stage = "idle" /\ op = Idle
  BY DEF Init, Closed, Idle
<1> QED BY <1>1, <1>2 DEF Inv, Stands, Finishes, Follows, AnswerHolds

(* What was a text stays one. *)
LEMMA Grows ==
  ASSUME edits \in 0..MaxEdits, Fresh
  PROVE  /\ edits' \in 0..MaxEdits
         /\ Texts \subseteq Texts' /\ Maybe \subseteq Maybe'
         /\ \A T \in Texts : T \cup {edits'} \in Texts' /\ edits' \notin T
<1>1. edits' \in 0..MaxEdits /\ edits' = edits + 1 /\ edits \in Nat
  BY DEF Fresh
<1>2. 1..edits \subseteq 1..edits' /\ edits' \in 1..edits' /\ edits' \notin 1..edits
  BY <1>1
<1> QED BY <1>1, <1>2 DEF Texts, Maybe

LEMMA RecordsGrow ==
  ASSUME Texts \subseteq Texts', Maybe \subseteq Maybe'
  PROVE  /\ Resolutions \subseteq Resolutions' /\ Sessions \subseteq Sessions'
         /\ Comparisons \subseteq Comparisons' /\ Operations \subseteq Operations'
         /\ Buffers \subseteq Buffers'
<1>1. Resolutions \subseteq Resolutions'
  BY DEF Resolutions
<1>2. Sessions \subseteq Sessions'
  BY <1>1 DEF Sessions
<1>3. Comparisons \subseteq Comparisons'
  BY DEF Comparisons
<1>4. Operations \subseteq Operations'
  BY <1>1 DEF Operations
<1>5. Buffers \subseteq Buffers'
  BY DEF Buffers
<1> QED BY <1>1, <1>2, <1>3, <1>4, <1>5

LEMMA Steady ==
  ASSUME edits' = edits
  PROVE  /\ Texts' = Texts /\ Maybe' = Maybe /\ Resolutions' = Resolutions /\ Sessions' = Sessions
         /\ Comparisons' = Comparisons /\ Operations' = Operations /\ Buffers' = Buffers
<1>1. Texts' = Texts /\ Maybe' = Maybe
  BY DEF Texts, Maybe
<1>2. Resolutions' = Resolutions /\ Comparisons' = Comparisons /\ Buffers' = Buffers
  BY <1>1 DEF Resolutions, Comparisons, Buffers
<1> QED BY <1>1, <1>2 DEF Sessions, Operations

(* An operation that begins is one, and its stage is the first. *)
LEMMA Beginning ==
  ASSUME NEW for \in {"tell", "save", "change", "look", "plain", "answer"}, NEW by \in SUBSET Editors
  PROVE  LET o == [Begins(for) EXCEPT !.by = by]
         IN o \in Operations /\ o.stage = "recover" /\ o.for = for /\ o.by = by
<1>1. {} \in Texts
  BY DEF Texts
<1> QED BY <1>1 DEF Begins, Operations, Stages, Resolutions, Unanswered, Maybe

LEMMA BeginsType ==
  ASSUME NEW for \in {"tell", "save", "change", "look", "plain", "answer"}
  PROVE  /\ Begins(for) \in Operations
         /\ Begins(for).stage = "recover" /\ Begins(for).for = for /\ Begins(for) # Idle
<1>1. {} \in Texts
  BY DEF Texts
<1>2. Begins(for).stage # Idle.stage
  BY DEF Begins, Idle
<1> QED BY <1>1, <1>2 DEF Begins, Operations, Stages, Resolutions, Unanswered, Maybe

(* A step of the operation changes its stage alone. *)
LEMMA Stepping ==
  ASSUME op \in Operations, NEW stage \in Stages, Step(stage)
  PROVE  /\ op' \in Operations /\ op'.stage = stage /\ op'.for = op.for /\ op'.answer = op.answer
         /\ op # Idle
<1>1. "idle" \notin Stages
  BY DEF Stages
<1> QED BY <1>1 DEF Step, Operations, Idle

(* A new draft leaves the rest of the session as it is. *)
LEMMA Setting ==
  ASSUME session \in Sessions, Sessions \subseteq Sessions', NEW text \in Texts', NEW plain \in BOOLEAN,
         Maybe \subseteq Maybe', Resolutions \subseteq Resolutions'
  PROVE  /\ Set(text, plain) \in Sessions'
         /\ Set(text, plain).open /\ Set(text, plain).draft = text /\ Set(text, plain).pending = text
         /\ Set(text, plain).working = session.working /\ Set(text, plain).plain = plain
         /\ Set(text, plain).resolution = session.resolution
  BY DEF Set, Sessions, Maybe

LEMMA Opening ==
  ASSUME NEW text \in Texts, NEW plain \in BOOLEAN
  PROVE  /\ Opened(text, plain) \in Sessions
         /\ Opened(text, plain).open /\ Opened(text, plain).draft = text
         /\ Opened(text, plain).pending = text /\ ~Opened(text, plain).resolution.given
  BY DEF Opened, Sessions, Maybe, Unanswered, Resolutions

-----------------------------------------------------------------------------
(* Steps that leave the session and the operation alone, or end it.        *)

LEMMA SameOperation ==
  ASSUME Inv, UNCHANGED <<session, op>>, copy' = copy \/ op.stage # "ready" \/ op.for # "answer",
         file' \in {file} \cup Texts' \/ op = Idle \/ op.for # "change", Types'
  PROVE  Stands' /\ Follows' /\ AnswerHolds'
<1>1. Open' = Open /\ Finishes' = Finishes
  BY DEF Open, Finishes
<1>2. op' # Idle /\ op'.for = "change" => file' # Missing
  <2>1. Missing \notin Texts'
    BY DEF Texts, Types
  <2> QED BY <2>1 DEF Inv, Stands
<1>3. Stands'
  BY <1>1, <1>2 DEF Inv, Stands
<1> QED BY <1>3 DEF Inv, Follows, AnswerHolds

LEMMA NoOperation ==
  ASSUME op' = Idle
  PROVE  Stands'
  BY DEF Stands, Finishes, Idle

LEMMA SameSession ==
  ASSUME Inv, session' = session
  PROVE  Follows' /\ AnswerHolds'
  BY DEF Inv, Follows, AnswerHolds

(* Whatever is not assigned keeps its type. *)
LEMMA TypesKept ==
  ASSUME Types, UNCHANGED edits
  PROVE  /\ edits' \in 0..MaxEdits
         /\ file' = file => file' \in Maybe'
         /\ copy' = copy => copy' \in Maybe'
         /\ session' = session => session' \in {Closed} \cup Sessions'
         /\ editor' = editor => editor' \in [Editors -> Buffers']
         /\ view' = view => view' \in [Views -> Texts']
         /\ seen' = seen => seen' \in {Unseen} \cup Comparisons'
         /\ op' = op => op' \in {Idle} \cup Operations'
  BY Steady DEF Types

LEMMA TypesGrow ==
  ASSUME Types, Fresh
  PROVE  /\ edits' \in 0..MaxEdits
         /\ file' = file => file' \in Maybe'
         /\ copy' = copy => copy' \in Maybe'
         /\ session' = session => session' \in {Closed} \cup Sessions'
         /\ editor' = editor => editor' \in [Editors -> Buffers']
         /\ view' = view => view' \in [Views -> Texts']
         /\ seen' = seen => seen' \in {Unseen} \cup Comparisons'
         /\ op' = op => op' \in {Idle} \cup Operations'
<1>1. edits \in 0..MaxEdits
  BY DEF Types
<1>2. edits' \in 0..MaxEdits /\ Texts \subseteq Texts' /\ Maybe \subseteq Maybe'
  BY <1>1, Grows
<1>3. /\ Resolutions \subseteq Resolutions' /\ Sessions \subseteq Sessions'
      /\ Comparisons \subseteq Comparisons' /\ Operations \subseteq Operations'
      /\ Buffers \subseteq Buffers'
  BY <1>2, RecordsGrow
<1>4. [Editors -> Buffers] \subseteq [Editors -> Buffers'] /\ [Views -> Texts] \subseteq [Views -> Texts']
  BY <1>2, <1>3
<1> QED BY <1>2, <1>3, <1>4 DEF Types

LEMMA FailsInv ==
  ASSUME Inv, Fails
  PROVE  Inv'
<1>1. Types'
  BY TypesKept DEF Inv, Types, Fails, files, people
<1> QED BY <1>1, NoOperation, SameSession DEF Inv, Fails

LEMMA NameTakenInv ==
  ASSUME Inv, NameTaken
  PROVE  Inv'
<1>1. Types'
  BY TypesGrow DEF Inv, Types, NameTaken, people
<1> QED BY <1>1, SameOperation DEF Inv, NameTaken

LEMMA OutsideFileInv ==
  ASSUME Inv, OutsideFile
  PROVE  Inv'
<1>1. CASE Fresh /\ file' = In(file) \cup {edits'}
  <2>1. In(file) \in Texts
    BY DEF Inv, Types, In, Maybe, Texts
  <2>2. file' \in Texts' /\ file' \in Maybe'
    BY <1>1, <2>1, Grows DEF Inv, Types, Maybe
  <2>3. Types'
    BY <1>1, <2>2, TypesGrow DEF Inv, Types, OutsideFile, people
  <2> QED BY <2>2, <2>3, SameOperation DEF Inv, OutsideFile
<1>2. CASE file' = Missing /\ UNCHANGED edits
  <2>1. Types'
    BY <1>2, TypesKept DEF Inv, Types, OutsideFile, people, Maybe
  <2> QED BY <2>1, SameOperation DEF Inv, OutsideFile, InHand
<1> QED BY <1>1, <1>2 DEF OutsideFile

(* What another program writes over the copy is new to an answer in the gate. *)
LEMMA OutsideCopyInv ==
  ASSUME Inv, OutsideCopy
  PROVE  Inv'
<1>0. UNCHANGED <<session, op>>
  BY DEF OutsideCopy
<1>1. Types'
  <2>1. CASE Fresh /\ copy' = copy \cup {edits'}
    <3>1. copy \in Texts
      BY DEF Inv, Types, Maybe, OutsideCopy
    <3>2. copy' \in Maybe'
      BY <2>1, <3>1, Grows DEF Inv, Types, Maybe
    <3> QED BY <2>1, <3>2, TypesGrow DEF Inv, Types, OutsideCopy, people
  <2>2. CASE copy' = Missing /\ UNCHANGED edits
    BY <2>2, TypesKept DEF Inv, Types, OutsideCopy, people, Maybe
  <2> QED BY <2>1, <2>2 DEF OutsideCopy
<1>2. ASSUME op.stage = "ready", op.for = "answer"
      PROVE  copy' # op.answer.copy
  <2>1. op \in Operations
    BY <1>2, UnderWay DEF Inv
  <2>2. op # Idle
    BY <1>2 DEF Idle
  <2>3. op.answer \in Resolutions /\ op.answer.given
    BY <1>2, <2>1, <2>2 DEF Inv, Stands, Operations
  <2>4. op.answer.copy \in Texts
    BY <2>3, AnswerGiven
  <2>5. CASE Fresh /\ copy' = copy \cup {edits'}
    BY <2>4, <2>5, Grows DEF Inv, Types
  <2>6. CASE copy' = Missing
    BY <2>4, <2>6, TextIsThere DEF Inv, Types
  <2> QED BY <2>5, <2>6 DEF OutsideCopy
<1>3. Open' = Open /\ Finishes' = Finishes
  BY <1>0 DEF Open, Finishes
<1>4. Stands'
  BY <1>0, <1>2, <1>3 DEF Inv, Stands, OutsideCopy
<1> QED BY <1>0, <1>1, <1>4, SameSession DEF Inv

-----------------------------------------------------------------------------
(* Editors, and operations that begin.                                     *)

LEMMA Began ==
  ASSUME op'.stage = "recover", op'.for # "answer", Open', op'.for # "change" \/ file' # Missing
  PROVE  Stands'
  BY DEF Stands, Finishes

LEMMA DraftAhead ==
  ASSUME session'.pending = session'.draft, ~session'.resolution.given
  PROVE  Follows' /\ AnswerHolds'
  BY DEF Follows, AnswerHolds

LEMMA SetText ==
  ASSUME Types, NEW e \in Editors, NEW b \in Buffers', UNCHANGED edits,
         editor' = [editor EXCEPT ![e] = b]
  PROVE  editor' \in [Editors -> Buffers']
  BY Steady DEF Types

LEMMA HoldsType ==
  ASSUME NEW T \in Texts
  PROVE  Holds(T) \in Buffers /\ Holds(T).base = T /\ Holds(T).text = T
  BY DEF Holds, Buffers

LEMMA MergeType ==
  ASSUME NEW b, NEW y \in Texts, NEW t \in Texts
  PROVE  mergeEditorText(b, y, t) \in Texts
  BY DEF mergeEditorText, Texts

LEMMA TypeInv ==
  ASSUME Inv, NEW e \in Editors, Type(e)
  PROVE  Inv'
<1>0. UNCHANGED <<file, copy, session, view, seen, op>> /\ Fresh
  BY DEF Type, files
<1>1. editor' \in [Editors -> Buffers']
  <2>1. /\ Texts \subseteq Texts' /\ \A T \in Texts : T \cup {edits'} \in Texts'
        /\ Maybe \subseteq Maybe'
    BY <1>0, Grows DEF Inv, Types
  <2>2. editor \in [Editors -> Buffers']
    BY <2>1, RecordsGrow DEF Inv, Types
  <2>3. editor[e] \in Buffers /\ editor[e].text \cup {edits'} \in Texts'
    BY <2>1 DEF Inv, Types, Buffers
  <2>4. [editor[e] EXCEPT !.text = @ \cup {edits'}] \in Buffers'
    BY <2>1, <2>3 DEF Buffers
  <2>5. editor' = [editor EXCEPT ![e] = [editor[e] EXCEPT !.text = @ \cup {edits'}]]
    BY DEF Type
  <2> QED BY <2>2, <2>4, <2>5
<1>2. Types'
  BY <1>0, <1>1, TypesGrow DEF Inv, Types
<1> QED BY <1>0, <1>2, SameOperation DEF Inv

LEMMA LoadInv ==
  ASSUME Inv, NEW e \in Editors, Load(e)
  PROVE  Inv'
<1>0. UNCHANGED <<file, copy, session, view, seen, op, edits>>
  BY DEF Load, files
<1>1. PICK T \in Texts : editor' = [editor EXCEPT ![e] = Holds(T)]
  <2>1. CASE Open /\ editor' = [editor EXCEPT ![e] = Holds(session.draft)]
    <3>1. session.draft \in Texts
      BY <2>1, OpenSession DEF Inv, Open, Sessions
    <3> QED BY <2>1, <3>1
  <2>2. CASE file # Missing /\ editor' = [editor EXCEPT ![e] = Holds(file)]
    <3>1. file \in Texts
      BY <2>2 DEF Inv, Types, Maybe
    <3> QED BY <2>2, <3>1
  <2> QED BY <2>1, <2>2 DEF Load
<1>2. editor' \in [Editors -> Buffers']
  <2>1. Holds(T) \in Buffers'
    BY <1>0, HoldsType, Steady
  <2> QED BY <1>0, <1>1, <2>1, SetText DEF Inv
<1>3. Types'
  BY <1>0, <1>2, TypesKept DEF Inv, Types
<1> QED BY <1>0, <1>3, SameOperation DEF Inv

LEMMA writeEditorTextInv ==
  ASSUME Inv, NEW e \in Editors, writeEditorText(e)
  PROVE  Inv'
<1> DEFINE base == editor[e].base
           text == editor[e].text
           candidate == mergeEditorText(base, text, file)
<1>0. UNCHANGED <<copy, view, seen, edits>>
  BY DEF writeEditorText
<1>1. text \in Texts /\ file \in Texts /\ candidate \in Texts
  <2>1. text \in Texts /\ file \in Texts
    BY DEF Inv, Types, Buffers, Maybe, writeEditorText
  <2> QED BY <2>1, MergeType
<1>2. CASE /\ file' = candidate /\ UNCHANGED <<session, op>>
           /\ editor' = [editor EXCEPT ![e] = Holds(candidate)] \/ UNCHANGED editor
  <2>1. file' \in Texts' /\ file' \in Maybe'
    BY <1>0, <1>1, <1>2, Steady DEF Maybe
  <2>2. Holds(candidate) \in Buffers'
    BY <1>0, <1>1, HoldsType, Steady
  <2>3. editor' \in [Editors -> Buffers']
    BY <1>0, <1>2, <2>2, SetText, TypesKept DEF Inv
  <2>4. Types'
    BY <1>0, <1>2, <2>1, <2>3, TypesKept DEF Inv, Types
  <2> QED BY <1>0, <1>2, <2>1, <2>4, SameOperation DEF Inv
<1>3. CASE /\ session' = Opened(text, FALSE) /\ UNCHANGED <<file, editor>>
           /\ op' = [Begins("tell") EXCEPT !.by = {e}]
  <2>1. /\ session' \in Sessions' /\ session'.open /\ session'.pending = session'.draft
        /\ ~session'.resolution.given
    BY <1>0, <1>1, <1>3, Opening, Steady
  <2>2. op' \in Operations' /\ op'.stage = "recover" /\ op'.for = "tell"
    BY <1>0, <1>3, Beginning, Steady
  <2>3. Types'
    BY <1>0, <1>3, <2>1, <2>2, TypesKept DEF Inv, Types
  <2> QED BY <2>1, <2>2, <2>3, Began, DraftAhead DEF Inv, Open
<1> QED BY <1>2, <1>3 DEF writeEditorText

LEMMA SaveDraftInv ==
  ASSUME Inv, NEW e \in Editors, SaveDraft(e)
  PROVE  Inv'
<1>0. UNCHANGED <<file, copy, session, editor, view, seen, edits>>
  BY DEF SaveDraft, files, people
<1>1. op' \in Operations' /\ op'.stage = "recover" /\ op'.for = "save"
  BY <1>0, Beginning, Steady DEF SaveDraft
<1>2. Types'
  BY <1>0, <1>1, TypesKept DEF Inv, Types
<1>3. Open'
  BY <1>0 DEF SaveDraft, Open
<1> QED BY <1>0, <1>1, <1>2, <1>3, Began, SameSession DEF Inv

LEMMA updateTextFileInv ==
  ASSUME Inv, updateTextFile
  PROVE  Inv'
<1>0. UNCHANGED <<copy, session, editor, view, seen, op>> /\ Fresh /\ file' = file \cup {edits'}
  BY DEF updateTextFile, people
<1>1. file' \in Maybe'
  BY <1>0, Grows DEF Inv, Types, Maybe, updateTextFile
<1>2. Types'
  BY <1>0, <1>1, TypesGrow DEF Inv, Types
<1>3. file' \in Texts'
  BY <1>0, Grows DEF Inv, Types, Maybe, updateTextFile
<1> QED BY <1>0, <1>2, <1>3, SameOperation DEF Inv

LEMMA BeginChangeInv ==
  ASSUME Inv, BeginChange
  PROVE  Inv'
<1>0. UNCHANGED <<file, copy, session, editor, view, seen, edits>>
  BY DEF BeginChange, files, people
<1>1. op' \in Operations' /\ op'.stage = "recover" /\ op'.for = "change"
  BY <1>0, BeginsType, Steady DEF BeginChange
<1>2. Types'
  BY <1>0, <1>1, TypesKept DEF Inv, Types
<1>3. Open' /\ file' # Missing
  BY <1>0 DEF BeginChange, Open
<1> QED BY <1>0, <1>1, <1>2, <1>3, Began, SameSession DEF Inv

LEMMA BeginPlainInv ==
  ASSUME Inv, NEW v \in Views, BeginPlain(v)
  PROVE  Inv'
<1> DEFINE text == view[v] \cup {edits'}
<1>0. UNCHANGED <<file, copy, editor, seen>> /\ Fresh /\ view' = [view EXCEPT ![v] = text]
  BY DEF BeginPlain, files
<1>1. Texts \subseteq Texts' /\ Maybe \subseteq Maybe' /\ text \in Texts'
  BY <1>0, Grows DEF Inv, Types
<1>2. view' \in [Views -> Texts']
  BY <1>0, <1>1 DEF Inv, Types
<1>3. Resolutions \subseteq Resolutions' /\ Operations \subseteq Operations'
  BY <1>1, RecordsGrow
<1>4. CASE session' = Opened(text, TRUE) /\ op' = Begins("look")
  <2>1. /\ session' \in Sessions' /\ session'.open /\ session'.pending = session'.draft
        /\ ~session'.resolution.given
    <3>1. Unanswered \in Resolutions' /\ Missing \in Maybe' /\ text \in Maybe'
      BY <1>1 DEF Resolutions, Maybe
    <3> QED BY <1>1, <1>4, <3>1 DEF Opened, Sessions, Unanswered
  <2>2. op' \in Operations' /\ op'.stage = "recover" /\ op'.for = "look"
    BY <1>3, <1>4, BeginsType
  <2>3. Types'
    BY <1>0, <1>2, <2>1, <2>2, TypesGrow DEF Inv, Types
  <2> QED BY <2>1, <2>2, <2>3, Began, DraftAhead DEF Inv, Open
<1>5. CASE Open /\ op' = [Begins("plain") EXCEPT !.text = text] /\ UNCHANGED session
  <2>1. op' \in Operations' /\ op'.stage = "recover" /\ op'.for = "plain"
    <3>1. Begins("plain") \in Operations'
      BY <1>3, BeginsType
    <3>2. Begins("plain").stage = "recover" /\ Begins("plain").for = "plain"
      BY BeginsType
    <3> QED BY <1>1, <1>5, <3>1, <3>2 DEF Operations
  <2>2. Types'
    BY <1>0, <1>2, <1>5, <2>1, TypesGrow DEF Inv, Types
  <2>3. Open'
    BY <1>5 DEF Open
  <2> QED BY <1>5, <2>1, <2>2, <2>3, Began, SameSession DEF Inv
<1> QED BY <1>4, <1>5 DEF BeginPlain

LEMMA LookedInv ==
  ASSUME Inv, Looked
  PROVE  Inv'
<1>1. Types'
  BY TypesKept DEF Inv, Types, Looked, files, people
<1> QED BY <1>1, NoOperation, SameSession DEF Inv, Looked

(* An operation that finds an answer takes it up, any other starts with the draft. *)
LEMMA TakenUp ==
  ASSUME session.open, UNCHANGED session,
         op'.stage = (IF session.resolution.given THEN "finish" ELSE "recover"),
         op'.for \in {"look", "answer"}, op'.for = "answer" => op'.answer.given
  PROVE  Stands'
<1>1. CASE session.resolution.given
  BY <1>1 DEF Stands, Finishes, Open
<1>2. CASE ~session.resolution.given
  BY <1>2 DEF Stands, Finishes, Open
<1> QED BY <1>1, <1>2

LEMMA getInv ==
  ASSUME Inv, get
  PROVE  Inv'
<1> DEFINE stage == IF session.resolution.given THEN "finish" ELSE "recover"
<1>0. UNCHANGED <<file, copy, session, editor, view, seen, edits>> /\ session.open
  BY DEF get, files, people
<1>1. op' \in Operations' /\ op'.stage = stage /\ op'.for = "look"
  <2>1. Begins("look") \in Operations' /\ Begins("look").for = "look"
    BY <1>0, BeginsType, Steady
  <2>2. stage \in Stages
    BY DEF Stages
  <2> QED BY <2>1, <2>2 DEF get, Operations
<1>2. Types'
  BY <1>0, <1>1, TypesKept DEF Inv, Types
<1> QED BY <1>0, <1>1, <1>2, TakenUp, SameSession DEF Inv

LEMMA CompareInv ==
  ASSUME Inv, Compare
  PROVE  Inv'
<1>0. UNCHANGED <<file, copy, session, editor, view, op, edits>>
  BY DEF Compare, files
<1>1. seen' \in Comparisons'
  <2>1. file \in Maybe /\ copy \in Texts
    BY DEF Inv, Types, Maybe, Compare
  <2>2. seen' \in Comparisons
    BY <2>1 DEF Compare, Comparisons
  <2> QED BY <1>0, <2>2, Steady
<1>2. Types'
  BY <1>0, <1>1, TypesKept DEF Inv, Types
<1> QED BY <1>0, <1>2, SameOperation DEF Inv

LEMMA AnswersType ==
  ASSUME Types, seen.shown, NEW a \in Answers
  PROVE  a \in Resolutions /\ a.given
<1>1. seen.file \in Maybe /\ seen.copy \in Texts
  BY Shown
<1>2. In(seen.file) \in Texts
  BY <1>1 DEF In, Maybe, Texts
<1>3. {In(seen.file), seen.copy, In(seen.file) \cup seen.copy} \subseteq Texts
  BY <1>1, <1>2 DEF Texts
<1>4. a \in [given : {TRUE}, content : Texts, file : Maybe, copy : Texts, keep : BOOLEAN]
  BY <1>1, <1>3 DEF Answers
<1> QED BY <1>4 DEF Resolutions

LEMMA resolveLockedInv ==
  ASSUME Inv, resolveLocked
  PROVE  Inv'
<1> DEFINE stage == IF session.resolution.given THEN "finish" ELSE "recover"
<1>0. UNCHANGED <<file, copy, session, editor, view, seen, edits>> /\ session.open /\ seen.shown
  BY DEF resolveLocked, files, people
<1>1. PICK a \in Answers, anyway \in {FALSE, seen.refused} :
        op' = [Begins("answer") EXCEPT !.answer = a, !.anyway = anyway, !.stage = stage]
  BY DEF resolveLocked
<1>2. a \in Resolutions /\ a.given
  BY <1>0, AnswersType DEF Inv
<1>3. anyway \in BOOLEAN
  BY <1>0, Shown DEF Inv
<1>4. op' \in Operations' /\ op'.stage = stage /\ op'.for = "answer" /\ op'.answer = a
  <2>1. Begins("answer") \in Operations /\ Begins("answer").for = "answer"
    BY BeginsType
  <2>2. stage \in Stages
    BY DEF Stages
  <2>3. op' \in Operations
    BY <1>1, <1>2, <1>3, <2>1, <2>2 DEF Operations
  <2> QED BY <1>0, <1>1, <2>1, <2>3, Steady DEF Operations
<1>5. Types'
  BY <1>0, <1>4, TypesKept DEF Inv, Types
<1> QED BY <1>0, <1>2, <1>4, <1>5, TakenUp, SameSession DEF Inv

-----------------------------------------------------------------------------
(* Steps of an operation that has the draft to itself.                     *)

LEMMA ReadyOperation ==
  ASSUME Inv, NEW for \in {"tell", "save", "change", "look", "plain", "answer"}, Ready(for)
  PROVE  /\ op \in Operations /\ op # Idle
         /\ Open /\ session \in Sessions
         /\ session.pending = Missing /\ session.working = session.draft
<1>1. op \in Operations /\ op # Idle
  BY UnderWay DEF Inv, Ready, Idle
<1>2. Open /\ session.pending = Missing
  BY DEF Inv, Stands, Ready
<1>3. session \in Sessions
  BY <1>2, OpenSession DEF Inv, Open
<1>4. session.draft # Missing
  BY <1>3, TextIsThere DEF Sessions, Inv, Types
<1> QED BY <1>1, <1>2, <1>3, <1>4 DEF Inv, Follows, Open

LEMMA TellInv ==
  ASSUME Inv, Tell
  PROVE  Inv'
<1>0. UNCHANGED <<file, copy, session, view, seen, edits>> /\ op' = Idle
  BY DEF Tell, files
<1>1. editor' \in [Editors -> Buffers']
  <2>1. copy # Missing => Holds(copy) \in Buffers
    BY HoldsType DEF Inv, Types, Maybe
  <2>2. editor' \in [Editors -> Buffers]
    BY <2>1 DEF Inv, Types, Tell
  <2> QED BY <1>0, <2>2, Steady
<1>2. Types'
  BY <1>0, <1>1, TypesKept DEF Inv, Types
<1> QED BY <1>0, <1>2, NoOperation, SameSession DEF Inv

(* A new draft: the next step brings the working copy after it. *)
LEMMA NewDraft ==
  ASSUME Inv, NEW for \in {"tell", "save", "change", "look", "plain", "answer"}, Ready(for),
         NEW T \in Texts', NEW plain \in BOOLEAN, session' = Set(T, plain),
         UNCHANGED edits \/ Fresh
  PROVE  session' \in Sessions' /\ Open' /\ Follows' /\ AnswerHolds'
<1>1. session \in Sessions /\ Open
  BY ReadyOperation
<1>2. Maybe \subseteq Maybe' /\ Texts \subseteq Texts'
  BY Steady, Grows DEF Inv, Types
<1>3. Sessions \subseteq Sessions' /\ Resolutions \subseteq Resolutions'
  BY <1>2, RecordsGrow
<1>4. /\ session' \in Sessions'
      /\ session'.open /\ session'.draft = T /\ session'.pending = T
      /\ session'.resolution = session.resolution
  BY <1>1, <1>2, <1>3, Setting
<1> QED BY <1>1, <1>4, DraftAhead DEF Open

LEMMA writeLockedInv ==
  ASSUME Inv, writeLocked
  PROVE  Inv'
<1>0. UNCHANGED <<file, copy, editor, view, seen, edits>> /\ Ready("save")
  BY DEF writeLocked, people
<1>1. session \in Sessions /\ op \in Operations /\ op # Idle
  BY <1>0, ReadyOperation
<1>2. PICK e \in op.by : editor[e].base \in Texts /\ editor[e].text \in Texts /\
        \/ session' = LET merged == IF editor[e].base = session.draft THEN editor[e].text
                                    ELSE mergeEditorText(editor[e].base, editor[e].text, session.draft)
                      IN Set(merged, Own(merged))
        \/ session' = Set(editor[e].text, FALSE)
  BY <1>1 DEF writeLocked, Operations, Inv, Types, Buffers
<1>3. session.draft \in Texts /\ session.plain \in BOOLEAN
  BY <1>1 DEF Sessions
<1>4. PICK T \in Texts, plain \in BOOLEAN : session' = Set(T, plain)
  <2> DEFINE base == editor[e].base
             text == editor[e].text
             merged == IF base = session.draft THEN text ELSE mergeEditorText(base, text, session.draft)
  <2>1. merged \in Texts
    BY <1>2, <1>3, MergeType
  <2>2. Own(merged) \in BOOLEAN
    BY <1>3 DEF Own
  <2> QED BY <1>2, <2>1, <2>2
<1>5. T \in Texts'
  BY <1>0, Steady
<1>6. session' \in Sessions' /\ Open' /\ Follows' /\ AnswerHolds'
  BY <1>0, <1>4, <1>5, NewDraft
<1>7. op' \in Operations' /\ op'.stage = "recover" /\ op'.for = "tell"
  <2>1. op.by \in SUBSET Editors
    BY <1>1 DEF Operations
  <2> QED BY <1>0, <2>1, Beginning, Steady DEF writeLocked
<1>8. Types'
  BY <1>0, <1>6, <1>7, TypesKept DEF Inv, Types
<1> QED BY <1>6, <1>7, <1>8, Began DEF Inv

LEMMA applyLockedInv ==
  ASSUME Inv, applyLocked
  PROVE  Inv'
<1>0. UNCHANGED <<copy, editor, view, seen>> /\ Ready("change") /\ Fresh /\ file' = file \cup {edits'}
  BY DEF applyLocked, people
<1>1. session \in Sessions /\ session.draft \in Texts
  BY <1>0, ReadyOperation DEF Sessions
<1>2. /\ Texts \subseteq Texts' /\ Maybe \subseteq Maybe'
      /\ \A T \in Texts : T \cup {edits'} \in Texts'
  BY <1>0, Grows DEF Inv, Types
<1>3. file' \in Maybe'
  <2>1. file \in Texts
    BY <1>0, ReadyOperation DEF Inv, Types, Maybe, Stands, Ready
  <2> QED BY <1>0, <1>2, <2>1 DEF Maybe
<1>4. CASE op' = Idle /\ UNCHANGED session
  <2>1. Types'
    BY <1>0, <1>3, <1>4, TypesGrow DEF Inv, Types
  <2> QED BY <1>4, <2>1, NoOperation, SameSession DEF Inv
<1>5. CASE session' = Set(session.draft \cup {edits'}, FALSE) /\ op' = Begins("look")
  <2>1. session' \in Sessions' /\ Open' /\ Follows' /\ AnswerHolds'
    BY <1>0, <1>1, <1>2, <1>5, NewDraft
  <2>2. op' \in Operations' /\ op'.stage = "recover" /\ op'.for = "look"
    BY <1>2, <1>5, BeginsType, RecordsGrow
  <2>3. Types'
    BY <1>0, <1>3, <2>1, <2>2, TypesGrow DEF Inv, Types
  <2> QED BY <2>1, <2>2, <2>3, Began DEF Inv
<1> QED BY <1>4, <1>5 DEF applyLocked

LEMMA writePlainLockedInv ==
  ASSUME Inv, writePlainLocked
  PROVE  Inv'
<1>0. UNCHANGED <<file, copy, editor, view, seen, edits>> /\ Ready("plain")
  BY DEF writePlainLocked, files, people
<1>1. CASE session' = Set(op.text, TRUE) /\ op' = Begins("look")
  <2>1. op.text \in Texts'
    BY <1>0, ReadyOperation, Steady DEF Operations
  <2>2. session' \in Sessions' /\ Open' /\ Follows' /\ AnswerHolds'
    BY <1>0, <1>1, <2>1, NewDraft
  <2>3. op' \in Operations' /\ op'.stage = "recover" /\ op'.for = "look"
    BY <1>0, <1>1, BeginsType, Steady
  <2>4. Types'
    BY <1>0, <2>2, <2>3, TypesKept DEF Inv, Types
  <2> QED BY <2>2, <2>3, <2>4, Began DEF Inv
<1>2. CASE op' = Idle /\ UNCHANGED session
  <2>1. Types'
    BY <1>0, <1>2, TypesKept DEF Inv, Types
  <2> QED BY <1>2, <2>1, NoOperation, SameSession DEF Inv
<1> QED BY <1>1, <1>2 DEF writePlainLocked

-----------------------------------------------------------------------------
(* The working copy follows the journal (recoverDraft).                    *)

(* A step on to a stage that lies before the answer. *)
LEMMA SteppedOn ==
  ASSUME Inv, NEW stage \in {"write", "confirm", "ready"}, Step(stage), Open', UNCHANGED <<file, edits>>,
         stage # "ready" => session'.pending # Missing,
         stage = "ready" => session'.pending = Missing /\ copy' = session'.draft,
         op.stage \in Stages
  PROVE  Stands' /\ op' \in Operations'
<1>1. op \in Operations /\ stage \in Stages
  BY UnderWay DEF Inv, Stages
<1>2. /\ op' \in Operations /\ op'.stage = stage /\ op'.for = op.for /\ op'.answer = op.answer
      /\ op # Idle
  BY <1>1, Stepping
<1>3. op' \in Operations'
  BY <1>2, Steady
<1>4. /\ op'.for = "answer" => op'.answer.given
      /\ op'.for = "change" => file' # Missing
  BY <1>2 DEF Inv, Stands
<1> QED BY <1>2, <1>3, <1>4 DEF Stands, Finishes

LEMMA RecoveryInv ==
  ASSUME Inv, Recovery
  PROVE  Inv'
<1>0. UNCHANGED <<file, editor, view, seen, edits>>
  BY DEF Recovery, people
<1>1. op.stage \in {"recover", "write", "confirm"} /\ op.stage \in Stages
  BY DEF Recovery, recoverDraft, Stages
<1>2. Open /\ session \in Sessions /\ op \in Operations
  BY <1>1, OpenSession, UnderWay DEF Inv, Stands, Open
<1>3. session.draft \in Texts /\ session.draft # Missing
  BY <1>2, TextIsThere DEF Sessions, Inv, Types
<1>4. CASE session.pending = Missing /\ copy = session.working /\ Step("ready") /\ UNCHANGED <<session, copy>>
  <2>1. copy' = session'.draft
    BY <1>2, <1>3, <1>4 DEF Inv, Follows, Open
  <2>2. Stands' /\ op' \in Operations'
    BY <1>0, <1>1, <1>2, <1>4, <2>1, SteppedOn DEF Open
  <2>3. Types'
    BY <1>0, <1>4, <2>2, TypesKept DEF Inv, Types
  <2> QED BY <1>4, <2>2, <2>3, SameSession DEF Inv
<1>5. CASE /\ op.stage = "recover" /\ session.pending = Missing
           /\ session' = [session EXCEPT !.pending = session.draft] /\ UNCHANGED <<op, copy>>
  <2>1. /\ session' \in Sessions' /\ session'.open = session.open /\ session'.draft = session.draft
        /\ session'.pending = session.draft /\ session'.resolution = session.resolution
    BY <1>0, <1>2, <1>3, <1>5, Steady DEF Sessions, Maybe
  <2>2. Follows' /\ AnswerHolds' /\ Open'
    BY <1>2, <2>1, DraftAhead DEF Open
  <2>3. Stands'
    BY <1>0, <1>5, <2>2 DEF Inv, Stands, Finishes
  <2>4. Types'
    BY <1>0, <1>5, <2>1, TypesKept DEF Inv, Types
  <2> QED BY <2>2, <2>3, <2>4 DEF Inv
<1>6. CASE session.pending # Missing /\ Step("write") /\ UNCHANGED <<session, copy>>
  <2>1. Stands' /\ op' \in Operations'
    BY <1>0, <1>1, <1>2, <1>6, SteppedOn DEF Open
  <2>2. Types'
    BY <1>0, <1>6, <2>1, TypesKept DEF Inv, Types
  <2> QED BY <1>6, <2>1, <2>2, SameSession DEF Inv
<1>7. CASE op.stage = "write" /\ copy' = session.pending /\ Step("confirm") /\ UNCHANGED session
  <2>1. session.pending # Missing
    BY <1>7 DEF Inv, Stands
  <2>2. Stands' /\ op' \in Operations'
    BY <1>0, <1>1, <1>2, <1>7, <2>1, SteppedOn DEF Open
  <2>3. copy' \in Maybe'
    BY <1>0, <1>2, <1>7, Steady DEF Sessions
  <2>4. Types'
    BY <1>0, <1>7, <2>2, <2>3, TypesKept DEF Inv, Types
  <2> QED BY <1>7, <2>2, <2>4, SameSession DEF Inv
<1>8. CASE /\ op.stage = "confirm" /\ copy = session.pending /\ Step("ready") /\ UNCHANGED copy
           /\ session' = [session EXCEPT !.working = session.pending, !.pending = Missing]
  <2>1. session.pending = session.draft
    BY <1>2, <1>8 DEF Inv, Stands, Follows, Open
  <2>2. /\ session' \in Sessions' /\ session'.open = session.open /\ session'.draft = session.draft
        /\ session'.pending = Missing /\ session'.working = session.draft
        /\ session'.resolution = session.resolution
    BY <1>0, <1>2, <1>3, <1>8, <2>1, Steady DEF Sessions, Maybe
  <2>3. Open' /\ Follows' /\ AnswerHolds'
    BY <1>2, <2>2 DEF Open, Follows, AnswerHolds
  <2>4. Stands' /\ op' \in Operations'
    BY <1>0, <1>1, <1>8, <2>1, <2>2, <2>3, SteppedOn
  <2>5. Types'
    BY <1>0, <1>8, <2>2, <2>4, TypesKept DEF Inv, Types
  <2> QED BY <2>3, <2>4, <2>5 DEF Inv
<1>9. CASE op' = Idle /\ UNCHANGED <<session, copy>>
  <2>1. Types'
    BY <1>0, <1>9, TypesKept DEF Inv, Types
  <2> QED BY <1>9, <2>1, NoOperation, SameSession DEF Inv
<1> QED BY <1>4, <1>5, <1>6, <1>7, <1>8, <1>9 DEF Recovery, recoverDraft

-----------------------------------------------------------------------------
(* The answer (resolveLocked, finishResolution).                           *)

LEMMA AcceptInv ==
  ASSUME Inv, Accept
  PROVE  Inv'
<1>0. UNCHANGED <<file, copy, editor, view, seen, edits>> /\ Ready("answer")
  BY DEF Accept, files, people
<1>1. CASE op' = Idle /\ UNCHANGED session
  <2>1. Types'
    BY <1>0, <1>1, TypesKept DEF Inv, Types
  <2> QED BY <1>1, <2>1, NoOperation, SameSession DEF Inv
<1>2. CASE ~Changed /\ session' = [session EXCEPT !.resolution = op.answer] /\ Step("finish")
  <2>1. /\ op \in Operations /\ op # Idle /\ Open /\ session \in Sessions
        /\ session.pending = Missing /\ session.working = session.draft
    BY <1>0, ReadyOperation
  <2>2. op.answer \in Resolutions /\ op.answer.given
    BY <1>0, <2>1 DEF Inv, Stands, Ready, Operations
  <2>3. op.answer.copy = session.draft
    BY <1>0, <1>2 DEF Inv, Stands, Ready, Changed
  <2>4. /\ session' \in Sessions' /\ session'.open /\ session'.draft = session.draft
        /\ session'.pending = Missing /\ session'.working = session.draft
        /\ session'.resolution = op.answer
    BY <1>0, <1>2, <2>1, <2>2, Steady DEF Sessions
  <2>5. Follows' /\ AnswerHolds'
    BY <2>3, <2>4 DEF Follows, AnswerHolds
  <2>6. op' \in Operations' /\ op'.stage = "finish" /\ op'.for = "answer" /\ op'.answer = op.answer
    BY <1>0, <1>2, <2>1, Stepping, Steady DEF Stages, Ready
  <2>7. Stands'
    BY <2>2, <2>4, <2>6 DEF Stands, Finishes
  <2>8. Types'
    BY <1>0, <2>4, <2>6, TypesKept DEF Inv, Types
  <2> QED BY <2>5, <2>7, <2>8 DEF Inv
<1> QED BY <1>1, <1>2 DEF Accept

(* A step further on the way to the end. *)
LEMMA GoesOn ==
  ASSUME Inv, Finishes, UNCHANGED session, Types', file' = file \/ file' # Missing,
         op'.stage \in {"finish", "keep", "place", "drop", "close"},
         op'.for = op.for, op'.answer = op.answer
  PROVE  Stands'
<1>1. op # Idle
  BY DEF Finishes, Idle
<1>2. Finishes' /\ op'.stage \notin {"recover", "write", "confirm", "ready"}
  BY DEF Finishes
<1> QED BY <1>1, <1>2 DEF Inv, Stands

LEMMA TakingBack ==
  ASSUME Inv, session.open, UNCHANGED edits, session' = TakenBack
  PROVE  session' \in Sessions' /\ Follows' /\ AnswerHolds'
<1>1. session \in Sessions
  BY OpenSession DEF Inv
<1>2. /\ session' \in Sessions /\ session'.draft = session.draft /\ session'.pending = session.pending
      /\ session'.working = session.working /\ session'.resolution = Unanswered
  BY <1>1 DEF TakenBack, Sessions, Resolutions
<1>3. ~session'.resolution.given
  BY <1>2 DEF Unanswered
<1> QED BY <1>2, <1>3, Steady DEF Inv, Follows, AnswerHolds

LEMMA FinishingInv ==
  ASSUME Inv, Finishing
  PROVE  Inv'
<1> DEFINE r == session.resolution
<1>0. UNCHANGED <<editor, view, edits>>
  BY DEF Finishing
<1>1. Finishes /\ op.stage \in Stages
  BY DEF Finishing, finishResolution, Finishes, Stages
<1>2. session.open /\ r.given /\ session \in Sessions /\ op \in Operations
  BY <1>1, OpenSession, UnderWay DEF Inv, Stands, Stages
<1>3. r.content \in Texts /\ r.content # Missing
  <2>1. r \in Resolutions
    BY <1>2 DEF Sessions
  <2> QED BY <1>2, <2>1, AnswerGiven, TextIsThere DEF Inv, Types
<1>4. CASE session' = TakenBack /\ op' = Idle /\ UNCHANGED <<files, seen>>
  <2>1. session' \in Sessions' /\ Follows' /\ AnswerHolds'
    BY <1>0, <1>2, <1>4, TakingBack
  <2>2. Types'
    BY <1>0, <1>4, <2>1, TypesKept DEF Inv, Types, files
  <2> QED BY <1>4, <2>1, <2>2, NoOperation DEF Inv
<1>5. CASE /\ op' = [op EXCEPT !.stage = "keep", !.had = copy, !.wrote = file # r.content]
           /\ UNCHANGED <<files, seen, session>>
  <2>1. copy \in Maybe
    BY DEF Inv, Types
  <2>2. op' \in Operations /\ op'.stage = "keep" /\ op'.for = op.for /\ op'.answer = op.answer
    BY <1>2, <1>5, <2>1 DEF Operations, Stages
  <2>3. Types'
    BY <1>0, <1>5, <2>2, TypesKept, Steady DEF Inv, Types, files
  <2> QED BY <1>1, <1>5, <2>2, <2>3, GoesOn, SameSession DEF Inv, files
<1>6. CASE op' = Idle /\ UNCHANGED <<file, copy, session, seen>>
  <2>1. Types'
    BY <1>0, <1>6, TypesKept DEF Inv, Types
  <2> QED BY <1>6, <2>1, NoOperation, SameSession DEF Inv
<1>7. ASSUME NEW stage \in {"place", "drop", "close"}, Step(stage), UNCHANGED <<session, seen>>,
             file' = file \/ file' = r.content, copy' = copy \/ copy' = Missing
      PROVE  Inv'
  <2>1. /\ op' \in Operations /\ op'.stage = stage /\ op'.for = op.for /\ op'.answer = op.answer
    BY <1>2, <1>7, Stepping DEF Stages
  <2>2. file \in Maybe /\ copy \in Maybe
    BY DEF Inv, Types
  <2>3. file' \in Maybe' /\ copy' \in Maybe' /\ op' \in Operations'
    BY <1>0, <1>3, <1>7, <2>1, <2>2, Steady DEF Maybe
  <2>4. Types'
    BY <1>0, <1>7, <2>3, TypesKept DEF Inv, Types
  <2> QED BY <1>1, <1>3, <1>7, <2>1, <2>4, GoesOn, SameSession DEF Inv
<1>8. CASE /\ session' \in {session, TakenBack} /\ op' = Idle /\ UNCHANGED <<file, copy>>
           /\ seen' = IF seen.shown THEN [seen EXCEPT !.refused = TRUE] ELSE seen
  <2>1. session' \in {Closed} \cup Sessions' /\ Follows' /\ AnswerHolds'
    BY <1>0, <1>2, <1>8, TakingBack, SameSession, TypesKept DEF Inv
  <2>2. seen' \in {Unseen} \cup Comparisons'
    <3>1. CASE seen.shown
      <4>1. seen \in Comparisons
        BY <3>1 DEF Inv, Types, Unseen
      <4>2. seen' \in Comparisons
        BY <1>8, <3>1, <4>1 DEF Comparisons
      <4> QED BY <1>0, <4>2, Steady
    <3>2. CASE ~seen.shown
      BY <1>0, <1>8, <3>2, TypesKept DEF Inv
    <3> QED BY <3>1, <3>2
  <2>3. Types'
    BY <1>0, <1>8, <2>1, <2>2, TypesKept DEF Inv, Types
  <2> QED BY <1>8, <2>1, <2>3, NoOperation DEF Inv
<1>9. CASE session' = Closed /\ seen' = Unseen /\ op' = Idle /\ UNCHANGED files
  <2>1. Types'
    BY <1>0, <1>9, TypesKept DEF Inv, Types, files
  <2>2. ~session'.open
    BY <1>9 DEF Closed
  <2> QED BY <1>9, <2>1, <2>2, NoOperation DEF Inv, Follows, AnswerHolds
<1>10. CASE op.stage = "finish"
  BY <1>4, <1>5, <1>10 DEF Finishing, finishResolution
<1>11. CASE op.stage = "keep"
  BY <1>6, <1>7, <1>11 DEF Finishing, finishResolution
<1>12. CASE op.stage = "place"
  BY <1>7, <1>12 DEF Finishing, finishResolution
<1>13. CASE op.stage = "drop"
  BY <1>7, <1>8, <1>13 DEF Finishing, finishResolution
<1>14. CASE op.stage = "close"
  BY <1>9, <1>14 DEF Finishing, finishResolution
<1> QED BY <1>1, <1>10, <1>11, <1>12, <1>13, <1>14 DEF Finishes

-----------------------------------------------------------------------------
LEMMA NextInv ==
  ASSUME Inv, [Next]_vars
  PROVE  Inv'
<1>1. CASE Next
  <2>1. ASSUME NEW e \in Editors, Editor(e) PROVE Inv'
    BY <2>1, TypeInv, LoadInv, writeEditorTextInv, SaveDraftInv DEF Editor
  <2>2. CASE Draft
    BY <2>2, RecoveryInv, TellInv, writeLockedInv, BeginChangeInv, applyLockedInv, writePlainLockedInv,
       getInv, LookedInv DEF Draft
  <2>3. CASE Answering
    BY <2>3, CompareInv, resolveLockedInv, AcceptInv, FinishingInv DEF Answering
  <2>4. CASE Outside
    BY <2>4, OutsideFileInv, OutsideCopyInv, NameTakenInv DEF Outside
  <2> QED BY <1>1, <2>1, <2>2, <2>3, <2>4, BeginPlainInv, updateTextFileInv, FailsInv DEF Next
<1>2. CASE UNCHANGED vars
  <2>1. UNCHANGED <<file, copy, session, editor, view, seen, op, edits>>
    BY <1>2 DEF vars, files, people
  <2>2. Types'
    BY <2>1, TypesKept DEF Inv, Types
  <2> QED BY <2>1, <2>2, SameOperation DEF Inv
<1> QED BY <1>1, <1>2

LEMMA Invariant == Spec => []Inv
BY InitInv, NextInv, PTL DEF Spec

(* A confirmed answer speaks of the draft as it is, in the journal and in  *)
(* the working copy, for any number of editors, edits, faults and restarts *)
(* (resolveLocked, recoverDraft, finishResolution).                        *)
THEOREM AnswerSpeaksOfDraft == Spec => []AnswerHolds
<1>1. Inv => AnswerHolds
  BY DEF Inv
<1> QED BY <1>1, Invariant, PTL

-----------------------------------------------------------------------------
(* Nothing leaves the text of an editor that it started from: so a merge   *)
(* with the draft takes nothing out of the draft.                          *)
BasesAreKept == \A e \in Editors : editor[e].base \subseteq editor[e].text

LEMMA BasesStep ==
  ASSUME Inv, BasesAreKept, [Next]_vars
  PROVE  BasesAreKept'
<1>1. CASE UNCHANGED editor
  BY <1>1 DEF BasesAreKept
<1>2. ASSUME NEW e \in Editors, Type(e)
      PROVE  BasesAreKept'
  <2>1. /\ editor \in [Editors -> Buffers] /\ editor[e] \in Buffers
        /\ editor' = [editor EXCEPT ![e] = [editor[e] EXCEPT !.text = @ \cup {edits'}]]
    BY <1>2 DEF Inv, Types, Type
  <2>2. /\ [editor[e] EXCEPT !.text = @ \cup {edits'}].base = editor[e].base
        /\ [editor[e] EXCEPT !.text = @ \cup {edits'}].text = editor[e].text \cup {edits'}
    BY <2>1 DEF Buffers
  <2>3. ASSUME NEW d \in Editors PROVE editor'[d].base \subseteq editor'[d].text
    BY <2>1, <2>2 DEF BasesAreKept
  <2> QED BY <2>3 DEF BasesAreKept
<1>3. ASSUME NEW e \in Editors, NEW T, editor' = [editor EXCEPT ![e] = Holds(T)]
      PROVE  BasesAreKept'
  BY <1>3 DEF Inv, Types, Holds, BasesAreKept
<1>4. CASE Tell
  BY <1>4 DEF Tell, Holds, BasesAreKept
<1>5. ASSUME NEW e \in Editors, Editor(e)
      PROVE  BasesAreKept'
  BY <1>1, <1>2, <1>3, <1>5 DEF Editor, Load, writeEditorText, SaveDraft, people
<1>6. ASSUME NEW v \in Views, BeginPlain(v)
      PROVE  UNCHANGED editor
  BY <1>6 DEF BeginPlain
<1>7. CASE Draft
  BY <1>1, <1>4, <1>7 DEF Draft, Recovery, writeLocked, BeginChange, applyLocked, writePlainLocked, get, Looked, people
<1>8. CASE Answering
  BY <1>1, <1>8 DEF Answering, Compare, resolveLocked, Accept, Finishing, people
<1>9. CASE Outside \/ Fails \/ updateTextFile
  BY <1>1, <1>9 DEF Outside, OutsideFile, OutsideCopy, NameTaken, Fails, updateTextFile, people
<1> QED BY <1>1, <1>5, <1>6, <1>7, <1>8, <1>9 DEF Next, vars, people

LEMMA BasesInvariant == Spec => []BasesAreKept
<1>1. ASSUME Init PROVE BasesAreKept
  <2>1. \A e \in Editors : editor[e] = [base |-> {}, text |-> {}]
    BY <1>1 DEF Init
  <2>2. ASSUME NEW e \in Editors PROVE editor[e].base \subseteq editor[e].text
    <3>1. editor[e].base = {}
      BY <2>1
    <3> QED BY <3>1
  <2> QED BY <2>2 DEF BasesAreKept
<1> QED BY <1>1, BasesStep, Invariant, PTL DEF Spec

Known == session.open /\ session'.open /\ ~session.plain => session.draft \subseteq session'.draft \cup aside'

LEMMA SavedDraftIsKnown ==
  ASSUME Inv, BasesAreKept, writeLocked
  PROVE  Known
<1>1. Ready("save")
  BY DEF writeLocked
<1>2. session \in Sessions /\ op \in Operations
  BY <1>1, ReadyOperation
<1>3. PICK e \in op.by :
        \/ session' = LET merged == IF editor[e].base = session.draft THEN editor[e].text
                                    ELSE mergeEditorText(editor[e].base, editor[e].text, session.draft)
                      IN Set(merged, Own(merged))
        \/ aside' = aside \cup session.draft
  BY DEF writeLocked
<1> DEFINE base == editor[e].base
           text == editor[e].text
           merged == IF base = session.draft THEN text ELSE mergeEditorText(base, text, session.draft)
<1>4. base \subseteq text
  BY <1>2 DEF Operations, BasesAreKept
<1>5. session.draft \subseteq merged
  BY <1>4 DEF mergeEditorText
<1>6. CASE session' = Set(merged, Own(merged))
  <2>1. session'.draft = merged
    BY <1>2, <1>6 DEF Set, Sessions
  <2> QED BY <1>5, <2>1 DEF Known
<1>7. CASE aside' = aside \cup session.draft
  BY <1>7 DEF Known
<1> QED BY <1>3, <1>6, <1>7

LEMMA KnownStep ==
  ASSUME Inv, BasesAreKept, Next
  PROVE  Known
<1>1. CASE UNCHANGED session \/ ~session.open \/ session' = Closed
  BY <1>1 DEF Known, Closed
<1>2. CASE applyLocked
  <2>1. session \in Sessions
    BY <1>2, ReadyOperation DEF applyLocked
  <2> QED BY <1>1, <1>2, <2>1 DEF applyLocked, Set, Sessions, Known
<1>3. CASE writePlainLocked
  BY <1>1, <1>3 DEF writePlainLocked, MayReplace, Known
<1>4. ASSUME session.open, \/ session' = [session EXCEPT !.pending = session.draft]
                           \/ session' = [session EXCEPT !.working = session.pending, !.pending = Missing]
                           \/ session' = [session EXCEPT !.resolution = op.answer]
                           \/ session' = TakenBack
      PROVE  Known
  BY <1>4, OpenSession DEF Inv, Sessions, TakenBack, Known
<1>5. CASE Recovery \/ Accept
  BY <1>1, <1>4, <1>5 DEF Recovery, recoverDraft, Accept
<1>6. CASE Finishing
  BY <1>1, <1>4, <1>6 DEF Finishing, finishResolution
<1>7. CASE Draft
  BY <1>1, <1>2, <1>3, <1>5, <1>7, SavedDraftIsKnown
     DEF Draft, Tell, BeginChange, get, Looked
<1>8. CASE Answering
  BY <1>1, <1>5, <1>6, <1>8 DEF Answering, Compare, resolveLocked
<1>9. CASE Outside \/ Fails \/ updateTextFile
  BY <1>1, <1>9 DEF Outside, OutsideFile, OutsideCopy, NameTaken, Fails, updateTextFile
<1>10. ASSUME NEW e \in Editors, Editor(e)
       PROVE  Known
  BY <1>1, <1>10 DEF Editor, Type, Load, writeEditorText, SaveDraft
<1>11. ASSUME NEW v \in Views, BeginPlain(v)
       PROVE  Known
  BY <1>1, <1>11 DEF BeginPlain
<1> QED BY <1>7, <1>8, <1>9, <1>10, <1>11 DEF Next

(* Nobody replaces a draft they do not know: what a save puts in its place *)
(* contains it, or it was set aside first (writeLocked, applyLocked,       *)
(* writePlainLocked).                                                      *)
THEOREM NobodyReplacesUnknownDraft == Spec => DraftsAreKnown
<1>1. ASSUME Inv, BasesAreKept, [Next]_vars
      PROVE  [Known]_vars
  BY <1>1, KnownStep
<1> QED BY <1>1, Invariant, BasesInvariant, PTL DEF Spec, DraftsAreKnown, Known

-----------------------------------------------------------------------------
(* Nothing that was saved is lost.                                          *)

(* Where two writers name no starting text, one replaces the draft of the   *)
(* other.                                                                   *)
OneWriter == \A v, w \in Views : v = w

(* A draft that its writer may replace is contained in what that writer     *)
(* holds, and in what it is about to put in its place.                      *)
PlainIsOwn ==
  /\ session.open /\ session.plain => \A v \in Views : session.draft \subseteq view[v]
  /\ op # Idle /\ op.for = "plain" =>
       /\ \A v \in Views : op.text \subseteq view[v]
       /\ session.open /\ session.plain => session.draft \subseteq op.text

(* The working copy was last confirmed with a text the draft contains or a  *)
(* copy set aside does, and so is what the next write to it replaces.       *)
CopyIsKept ==
  /\ session.open => In(session.working) \subseteq session.draft \cup aside
  /\ op.stage = "write" => In(copy) \subseteq session.draft \cup aside

(* What the last steps of an answer replace is what it spoke of.            *)
AnswerIsOfThese ==
  /\ op.stage \in {"keep", "place"} => file \in {session.resolution.content, session.resolution.file}
  /\ op.stage = "drop" => file = session.resolution.content
  /\ op.stage \in {"keep", "place", "drop"} => copy \in {Missing, session.resolution.copy}

Lossless == PlainIsOwn /\ CopyIsKept /\ AnswerIsOfThese

(* A draft follows one that it contains, or that was set aside.             *)
DraftGrows == session.open /\ session'.open => session.draft \subseteq session'.draft \cup aside'

LEMMA OwnLasts ==
  ASSUME PlainIsOwn, UNCHANGED view,
         session'.open => session.open /\ session'.draft = session.draft /\ (session'.plain => session.plain),
         op' # Idle /\ op'.for = "plain" => op # Idle /\ op.for = "plain" /\ op'.text = op.text
  PROVE  PlainIsOwn' /\ DraftGrows
BY DEF PlainIsOwn, DraftGrows

LEMMA OwnEnds ==
  ASSUME PlainIsOwn, UNCHANGED view, session'.open => ~session'.plain, op' = Idle \/ op'.for # "plain"
  PROVE  PlainIsOwn'
BY DEF PlainIsOwn

(* Which operation a step leaves. *)
LEMMA StepsOn ==
  ASSUME Inv, NEW stage, Step(stage), op.stage # "idle"
  PROVE  op # Idle /\ op'.for = op.for /\ op'.text = op.text /\ op'.stage = stage
<1>1. op \in Operations /\ op # Idle
  BY UnderWay DEF Inv, Idle
<1> QED BY <1>1 DEF Step, Operations

LEMMA OwnSession ==
  ASSUME Inv, session.open,
         \/ session' = [session EXCEPT !.pending = session.draft]
         \/ session' = [session EXCEPT !.working = session.pending, !.pending = Missing]
         \/ session' = [session EXCEPT !.resolution = op.answer]
         \/ session' = TakenBack
         \/ session' = session
  PROVE  session'.open /\ session'.draft = session.draft /\ session'.plain = session.plain
BY OpenSession DEF Inv, Sessions, TakenBack

LEMMA OwnSaves ==
  ASSUME Inv, BasesAreKept, PlainIsOwn, writeLocked
  PROVE  PlainIsOwn' /\ DraftGrows
<1>1. Ready("save") /\ UNCHANGED view /\ op' = [Begins("tell") EXCEPT !.by = op.by]
  BY DEF writeLocked, people
<1>2. session \in Sessions /\ op \in Operations /\ Open
  BY <1>1, ReadyOperation
<1>3. op'.for = "tell"
  BY <1>1, <1>2, Beginning DEF Operations
<1>4. PICK e \in op.by :
        \/ session' = LET merged == IF editor[e].base = session.draft THEN editor[e].text
                                    ELSE mergeEditorText(editor[e].base, editor[e].text, session.draft)
                      IN Set(merged, Own(merged))
        \/ aside' = aside \cup session.draft /\ session' = Set(editor[e].text, FALSE)
  BY DEF writeLocked
<1> DEFINE base == editor[e].base
           text == editor[e].text
           merged == IF base = session.draft THEN text ELSE mergeEditorText(base, text, session.draft)
<1>5. session.draft \subseteq merged
  <2>1. base \subseteq text
    BY <1>2 DEF Operations, BasesAreKept
  <2> QED BY <2>1 DEF mergeEditorText
<1> HIDE DEF merged
<1>6. CASE session' = Set(merged, Own(merged))
  <2>1. session'.open /\ session'.draft = merged /\ session'.plain = Own(merged)
    BY <1>2, <1>6 DEF Set, Sessions, Open
  <2>2. DraftGrows
    BY <1>5, <2>1 DEF DraftGrows
  <2>3. CASE Own(merged)
    <3>1. session.plain /\ merged = session.draft
      BY <2>3 DEF Own
    <3> QED BY <1>1, <1>2, <1>3, <2>1, <3>1, OwnLasts DEF Open
  <2>4. CASE ~Own(merged)
    BY <1>1, <1>3, <2>1, <2>2, <2>4, OwnEnds
  <2> QED BY <2>3, <2>4
<1>7. CASE aside' = aside \cup session.draft /\ session' = Set(text, FALSE)
  <2>1. session'.plain = FALSE
    BY <1>2, <1>7 DEF Set, Sessions
  <2> QED BY <1>1, <1>3, <1>7, <2>1, OwnEnds DEF DraftGrows
<1> QED BY <1>4, <1>6, <1>7 DEF merged

LEMMA OwnChanges ==
  ASSUME Inv, PlainIsOwn, applyLocked
  PROVE  PlainIsOwn' /\ DraftGrows
<1>1. session \in Sessions /\ UNCHANGED view /\ session.open
  BY ReadyOperation DEF applyLocked, people, Open
<1>2. CASE op' = Idle /\ UNCHANGED session
  BY <1>1, <1>2, OwnLasts
<1>3. CASE session' = Set(session.draft \cup {edits'}, FALSE) /\ op' = Begins("look")
  <2>1. session'.plain = FALSE /\ session'.draft = session.draft \cup {edits'} /\ op'.for = "look"
    BY <1>1, <1>3, BeginsType DEF Set, Sessions
  <2> QED BY <1>1, <2>1, OwnEnds DEF DraftGrows
<1> QED BY <1>2, <1>3 DEF applyLocked

LEMMA OwnReplaces ==
  ASSUME Inv, PlainIsOwn, writePlainLocked
  PROVE  PlainIsOwn' /\ DraftGrows
<1>1. session \in Sessions /\ UNCHANGED view /\ session.open /\ op # Idle /\ op.for = "plain"
  BY ReadyOperation DEF writePlainLocked, people, Open, Ready
<1>2. CASE op' = Idle /\ UNCHANGED session
  BY <1>1, <1>2, OwnLasts
<1>3. CASE session.plain /\ session' = Set(op.text, TRUE) /\ op' = Begins("look")
  <2>1. session'.draft = op.text /\ op'.for = "look"
    BY <1>1, <1>3, BeginsType DEF Set, Sessions
  <2> QED BY <1>1, <1>3, <2>1 DEF PlainIsOwn, DraftGrows
<1> QED BY <1>2, <1>3 DEF writePlainLocked, MayReplace

LEMMA OwnBegins ==
  ASSUME OneWriter, Inv, PlainIsOwn, NEW v \in Views, BeginPlain(v)
  PROVE  PlainIsOwn' /\ DraftGrows
<1> DEFINE text == view[v] \cup {edits'}
<1>1. view \in [Views -> Texts] /\ view' = [view EXCEPT ![v] = text]
  BY DEF Inv, Types, BeginPlain
<1>2. \A w \in Views : view'[w] = text /\ view[w] \subseteq text
  BY <1>1 DEF OneWriter
<1>3. CASE ~session.open /\ session' = Opened(text, TRUE) /\ op' = Begins("look")
  <2>1. session'.draft = text /\ op'.for = "look"
    BY <1>3, BeginsType DEF Opened
  <2> QED BY <1>2, <1>3, <2>1 DEF PlainIsOwn, DraftGrows
<1>4. CASE op' = [Begins("plain") EXCEPT !.text = text] /\ UNCHANGED session
  <2>1. op'.text = text
    BY <1>4 DEF Begins
  <2>2. session.open /\ session.plain => session.draft \subseteq text
    BY <1>2 DEF PlainIsOwn
  <2> QED BY <1>2, <1>4, <2>1, <2>2 DEF PlainIsOwn, DraftGrows
<1> QED BY <1>3, <1>4 DEF BeginPlain

(* Every other step keeps the draft, or closes the conflict. *)
LEMMA OwnStep ==
  ASSUME OneWriter, Inv, BasesAreKept, PlainIsOwn, [Next]_vars
  PROVE  PlainIsOwn' /\ DraftGrows
<1>1. ASSUME UNCHANGED <<view, session>>, op' = op \/ op' = Idle
      PROVE  PlainIsOwn' /\ DraftGrows
  BY <1>1, OwnLasts
<1>2. ASSUME NEW for \in {"tell", "save", "change", "look", "plain", "answer"}, for # "plain"
      PROVE  /\ Begins(for).for # "plain"
             /\ \A by : [Begins(for) EXCEPT !.by = by].for # "plain"
             /\ \A stage : [Begins(for) EXCEPT !.stage = stage].for # "plain"
             /\ \A a, anyway, stage : [Begins(for) EXCEPT !.answer = a, !.anyway = anyway, !.stage = stage].for # "plain"
  BY <1>2 DEF Begins
<1>3. ASSUME UNCHANGED <<view, session>>, op'.for # "plain"
      PROVE  PlainIsOwn' /\ DraftGrows
  BY <1>3, OwnLasts
<1>4. CASE Recovery
  <2>1. Open /\ session.open /\ op.stage # "idle" /\ UNCHANGED view
    BY <1>4 DEF Recovery, recoverDraft, Inv, Stands, Open, people
  <2>2. session'.open /\ session'.draft = session.draft /\ session'.plain = session.plain
    BY <1>4, <2>1, OwnSession DEF Recovery, recoverDraft
  <2>3. op' = op \/ op' = Idle \/ \E stage : Step(stage)
    BY <1>4 DEF Recovery, recoverDraft
  <2> QED BY <2>1, <2>2, <2>3, StepsOn, OwnLasts
<1>5. CASE Accept
  <2>1. Open /\ session.open /\ op.stage # "idle" /\ UNCHANGED view
    BY <1>5 DEF Accept, Ready, Inv, Stands, Open, people
  <2>2. session'.open /\ session'.draft = session.draft /\ session'.plain = session.plain
    BY <1>5, <2>1, OwnSession DEF Accept
  <2>3. op' = op \/ op' = Idle \/ \E stage : Step(stage)
    BY <1>5 DEF Accept
  <2> QED BY <2>1, <2>2, <2>3, StepsOn, OwnLasts
<1>6. CASE Finishing
  <2>1. Finishes /\ session.open /\ op.stage # "idle" /\ UNCHANGED view
    BY <1>6 DEF Finishing, finishResolution, Inv, Stands, Finishes
  <2>2. session' = Closed \/ (session'.open /\ session'.draft = session.draft /\ session'.plain = session.plain)
    BY <1>6, <2>1, OwnSession DEF Finishing, finishResolution
  <2>3. op # Idle /\ op \in Operations
    BY <2>1, UnderWay DEF Inv, Idle
  <2>4. \/ op' = Idle \/ (\E stage : Step(stage))
        \/ op' = [op EXCEPT !.stage = "keep", !.had = copy, !.wrote = file # session.resolution.content]
    BY <1>6 DEF Finishing, finishResolution
  <2>5. op' = Idle \/ (op'.for = op.for /\ op'.text = op.text)
    BY <2>1, <2>3, <2>4, StepsOn DEF Operations
  <2> QED BY <2>1, <2>2, <2>3, <2>5, OwnLasts DEF Closed
<1>7. CASE Draft
  <2>1. CASE Tell \/ Looked
    BY <1>1, <2>1 DEF Tell, Looked, people
  <2>2. CASE BeginChange \/ get
    BY <1>2, <1>3, <2>2 DEF BeginChange, get, people
  <2> QED BY <1>4, <1>7, <2>1, <2>2, OwnSaves, OwnChanges, OwnReplaces DEF Draft
<1>8. CASE Answering
  <2>1. CASE Compare
    BY <1>1, <2>1 DEF Compare
  <2>2. CASE resolveLocked
    BY <1>2, <1>3, <2>2 DEF resolveLocked, people
  <2> QED BY <1>5, <1>6, <1>8, <2>1, <2>2 DEF Answering
<1>9. CASE Outside \/ Fails \/ updateTextFile \/ UNCHANGED vars
  BY <1>1, <1>9 DEF Outside, OutsideFile, OutsideCopy, NameTaken, Fails, updateTextFile, people, vars
<1>10. ASSUME NEW e \in Editors, Editor(e)
       PROVE  PlainIsOwn' /\ DraftGrows
  <2>1. CASE Type(e) \/ Load(e)
    BY <1>1, <2>1 DEF Type, Load
  <2>2. CASE SaveDraft(e)
    BY <1>2, <1>3, <2>2 DEF SaveDraft, people
  <2>3. CASE writeEditorText(e)
    <3>1. UNCHANGED view /\ ~session.open
      BY <2>3 DEF writeEditorText
    <3>2. CASE UNCHANGED <<session, op>>
      BY <1>1, <3>1, <3>2
    <3>3. CASE session' = Opened(editor[e].text, FALSE) /\ op' = [Begins("tell") EXCEPT !.by = {e}]
      BY <1>2, <3>1, <3>3, OwnEnds DEF Opened, DraftGrows
    <3> QED BY <2>3, <3>2, <3>3 DEF writeEditorText
  <2> QED BY <1>10, <2>1, <2>2, <2>3 DEF Editor
<1> QED BY <1>7, <1>8, <1>9, <1>10, OwnBegins DEF Next

LEMMA CopyLasts ==
  ASSUME CopyIsKept, DraftGrows, aside \subseteq aside',
         session'.open => session.open /\ session'.working \in {session.working, Missing},
         op'.stage = "write" => op.stage = "write" /\ copy' = copy /\ session.open /\ session'.open
  PROVE  CopyIsKept'
BY DEF CopyIsKept, DraftGrows, In

LEMMA AnswerLasts ==
  ASSUME AnswerIsOfThese,
         op'.stage \in {"keep", "place", "drop"} => op'.stage = op.stage /\ UNCHANGED <<file, copy, session>>
  PROVE  AnswerIsOfThese'
BY DEF AnswerIsOfThese

(* A stored text stays where it is, or is in one that took its place. *)
LEMMA StoredLasts ==
  ASSUME DraftGrows, aside \subseteq aside', Open => Open',
         In(file) \subseteq In(file'), In(copy) \subseteq In(copy'), In(beside) \subseteq In(beside')
  PROVE  Stored \subseteq Stored' \cup LetGo
BY DEF DraftGrows, Stored, Open

(* The working copy is replaced by the draft when what it held is elsewhere. *)
LEMMA RecoveryKeeps ==
  ASSUME Inv, Lossless, DraftGrows, Recovery
  PROVE  CopyIsKept' /\ AnswerIsOfThese' /\ Stored \subseteq Stored' \cup LetGo
<1>1. op.stage \in {"recover", "write", "confirm"} /\ UNCHANGED <<file, beside>>
  BY DEF Recovery, recoverDraft
<1>2. Open /\ session.open /\ session \in Sessions /\ op.stage # "idle"
  BY <1>1, OpenSession DEF Inv, Stands, Open
<1>3. session.draft \in Texts /\ session.draft # Missing
  BY <1>2, TextIsThere DEF Sessions, Inv, Types
<1>4. CASE op.stage = "recover" /\ session.pending = Missing
  <2>1. CASE Step("ready") /\ UNCHANGED <<session, copy, aside>>
    <3>1. op'.stage = "ready"
      BY <1>2, <2>1, StepsOn
    <3> QED BY <1>1, <1>2, <2>1, <3>1, CopyLasts, AnswerLasts, StoredLasts DEF Lossless, Open
  <2>2. CASE session' = [session EXCEPT !.pending = session.draft] /\ UNCHANGED <<op, copy, aside>>
    <3>1. session'.open /\ session'.working = session.working /\ session'.resolution = session.resolution
      BY <1>2, <2>2 DEF Sessions
    <3> QED BY <1>1, <1>2, <1>4, <2>2, <3>1, CopyLasts, AnswerLasts, StoredLasts DEF Lossless, Open
  <2> QED BY <1>4, <2>1, <2>2 DEF Recovery, recoverDraft
<1>5. CASE op.stage = "recover" /\ session.pending # Missing
  <2>1. aside' = aside \cup Foreign /\ Step("write") /\ UNCHANGED <<copy, session>>
    BY <1>1, <1>5 DEF Recovery, recoverDraft
  <2>2. op'.stage = "write"
    BY <1>2, <2>1, StepsOn
  <2>3. session.pending = session.draft /\ In(session.working) \subseteq session.draft \cup aside
    BY <1>2, <1>5 DEF Inv, Follows, Lossless, CopyIsKept
  <2>4. In(copy) \subseteq session.draft \cup aside'
    BY <2>1, <2>3 DEF Foreign, In
  <2>5. CopyIsKept'
    BY <2>1, <2>3, <2>4 DEF CopyIsKept
  <2> QED BY <1>1, <1>2, <2>1, <2>2, <2>5, AnswerLasts, StoredLasts DEF Lossless, Open
<1>6. CASE op.stage = "write"
  <2>1. copy' = session.pending /\ Step("confirm") /\ UNCHANGED <<session, aside>>
    BY <1>6 DEF Recovery, recoverDraft
  <2>2. op'.stage = "confirm"
    BY <1>2, <2>1, StepsOn
  <2>3. In(copy) \subseteq session.draft \cup aside
    BY <1>6 DEF Lossless, CopyIsKept
  <2>4. Stored \subseteq Stored'
    BY <1>1, <1>2, <2>1, <2>3 DEF Stored, Open
  <2> QED BY <1>1, <1>2, <2>1, <2>2, <2>4, CopyLasts, AnswerLasts DEF Lossless
<1>7. CASE op.stage = "confirm"
  <2>1. CASE /\ copy = session.pending /\ Step("ready") /\ UNCHANGED <<copy, aside>>
             /\ session' = [session EXCEPT !.working = session.pending, !.pending = Missing]
    <3>1. session.pending = session.draft
      BY <1>2, <1>7 DEF Inv, Stands, Follows
    <3>2. /\ session'.open /\ session'.working = session.draft /\ session'.draft = session.draft
          /\ session'.resolution = session.resolution
      BY <1>2, <2>1, <3>1 DEF Sessions
    <3>3. op'.stage = "ready"
      BY <1>2, <2>1, StepsOn
    <3>4. CopyIsKept'
      BY <1>3, <3>2, <3>3 DEF CopyIsKept, In
    <3> QED BY <1>1, <1>2, <2>1, <3>2, <3>3, <3>4, AnswerLasts, StoredLasts DEF Lossless, Open
  <2>2. CASE op' = Idle /\ UNCHANGED <<session, copy, aside>>
    BY <1>1, <1>2, <2>2, CopyLasts, AnswerLasts, StoredLasts DEF Lossless, Idle, Open
  <2> QED BY <1>7, <2>1, <2>2 DEF Recovery, recoverDraft
<1> QED BY <1>1, <1>4, <1>5, <1>6, <1>7

(* What a confirmed answer replaces is what it let go, or it is still there. *)
LEMMA FinishingKeeps ==
  ASSUME Inv, Lossless, DraftGrows, Finishing
  PROVE  CopyIsKept' /\ AnswerIsOfThese' /\ Stored \subseteq Stored' \cup LetGo
<1> DEFINE r == session.resolution
<1>1. Finishes /\ op.stage # "idle"
  BY DEF Finishing, finishResolution, Finishes
<1>2. session.open /\ r.given /\ ~Open /\ session \in Sessions /\ op \in Operations
  BY <1>1, OpenSession, UnderWay DEF Inv, Stands, Open
<1>3. r.content \in Texts /\ r.copy \in Texts /\ Missing \notin Texts
  <2>1. r \in Resolutions
    BY <1>2 DEF Sessions
  <2> QED BY <1>2, <2>1, AnswerGiven, TextIsThere DEF Inv, Types
<1>4. session' = TakenBack => session'.open /\ session'.working = session.working
  BY <1>2 DEF TakenBack, Sessions
<1>5. CASE op.stage = "finish"
  <2>1. UNCHANGED files
    BY <1>5 DEF Finishing, finishResolution
  <2>2. CASE session' = TakenBack /\ op' = Idle
    BY <1>2, <1>4, <2>1, <2>2, CopyLasts, AnswerLasts, StoredLasts DEF Lossless, files, Idle
  <2>3. CASE ~NewEvidence(r) /\ UNCHANGED session
             /\ op' = [op EXCEPT !.stage = "keep", !.had = copy, !.wrote = file # r.content]
    <3>1. op'.stage = "keep"
      BY <1>2, <2>3 DEF Operations
    <3>2. AnswerIsOfThese'
      BY <2>1, <2>3, <3>1 DEF AnswerIsOfThese, NewEvidence, files
    <3> QED BY <1>2, <2>1, <2>3, <3>1, <3>2, CopyLasts, StoredLasts DEF Lossless, files, Open
  <2> QED BY <1>5, <2>2, <2>3 DEF Finishing, finishResolution
<1>6. CASE op.stage = "keep"
  <2>1. /\ UNCHANGED <<file, copy, aside, session>>
        /\ op' = Idle \/ Step("place")
        /\ In(beside) \subseteq In(beside')
    BY <1>6 DEF Finishing, finishResolution, In
  <2>2. op'.stage \in {"idle", "place"}
    BY <1>1, <2>1, StepsOn DEF Idle
  <2>3. AnswerIsOfThese'
    BY <1>6, <2>1, <2>2 DEF Lossless, AnswerIsOfThese
  <2> QED BY <1>2, <2>1, <2>2, <2>3, CopyLasts, StoredLasts DEF Lossless, Open
<1>7. CASE op.stage = "place"
  <2>1. file' = r.content /\ UNCHANGED <<copy, beside, aside, session>> /\ (Step("close") \/ Step("drop"))
    BY <1>7 DEF Finishing, finishResolution
  <2>2. op'.stage \in {"close", "drop"}
    BY <1>1, <2>1, StepsOn
  <2>3. AnswerIsOfThese' /\ file \in {r.content, r.file}
    BY <1>7, <2>1, <2>2 DEF Lossless, AnswerIsOfThese
  <2>4. In(file) \subseteq In(file') \cup LetGo
    BY <1>3, <1>7, <2>1, <2>3 DEF LetGo, In
  <2>5. Stored \subseteq Stored' \cup LetGo
    BY <1>2, <2>1, <2>4 DEF Stored
  <2> QED BY <1>2, <2>1, <2>2, <2>3, <2>5, CopyLasts DEF Lossless
<1>8. CASE op.stage = "drop"
  <2>1. file = r.content /\ copy \in {Missing, r.copy}
    BY <1>8 DEF Lossless, AnswerIsOfThese
  <2>2. UNCHANGED <<file, beside>>
    BY <1>8 DEF Finishing, finishResolution
  <2>3. CASE copy' = Missing /\ aside \subseteq aside' /\ Step("close") /\ UNCHANGED session
    <3>1. op'.stage = "close"
      BY <1>1, <2>3, StepsOn
    <3>2. In(copy) \subseteq In(file) \cup LetGo
      BY <1>3, <1>8, <2>1 DEF LetGo, In
    <3>3. Stored \subseteq Stored' \cup LetGo
      BY <1>2, <2>2, <2>3, <3>2 DEF Stored
    <3> QED BY <1>2, <2>3, <3>1, <3>3, CopyLasts, AnswerLasts DEF Lossless
  <2>4. CASE session' \in {session, TakenBack} /\ op' = Idle /\ UNCHANGED <<copy, aside>>
    BY <1>2, <1>4, <2>2, <2>4, CopyLasts, AnswerLasts, StoredLasts DEF Lossless, Idle
  <2> QED BY <1>8, <2>3, <2>4 DEF Finishing, finishResolution
<1>9. CASE op.stage = "close"
  <2>1. session' = Closed /\ op' = Idle /\ UNCHANGED files
    BY <1>9 DEF Finishing, finishResolution
  <2> QED BY <1>2, <2>1, CopyLasts, AnswerLasts, StoredLasts DEF Lossless, Closed, Idle, files
<1> QED BY <1>1, <1>5, <1>6, <1>7, <1>8, <1>9 DEF Finishes

(* A new draft, or an answer: the files stay, but for a change that adds. *)
LEMMA DraftingKeeps ==
  ASSUME Inv, Lossless, DraftGrows, writeLocked \/ applyLocked \/ writePlainLocked \/ Accept
  PROVE  CopyIsKept' /\ AnswerIsOfThese' /\ Stored \subseteq Stored' \cup LetGo
<1>1. PICK for \in {"tell", "save", "change", "look", "plain", "answer"} : Ready(for)
  BY DEF writeLocked, applyLocked, writePlainLocked, Accept
<1>2. session \in Sessions /\ session.open /\ Open /\ op.stage = "ready" /\ op \in Operations /\ op # Idle
  BY <1>1, ReadyOperation DEF Open, Ready
<1>3. ASSUME NEW text, NEW plain, session' = Set(text, plain)
      PROVE  session'.open /\ session'.working = session.working /\ session'.resolution = session.resolution
  BY <1>2, <1>3 DEF Set, Sessions
<1>4. CASE writeLocked
  <2>1. /\ UNCHANGED <<file, copy, beside>> /\ aside \subseteq aside'
        /\ \E text, plain : session' = Set(text, plain)
    BY <1>4 DEF writeLocked
  <2>2. op'.stage = "recover"
    BY <1>2, <1>4, Beginning DEF writeLocked, Operations
  <2> QED BY <1>2, <1>3, <2>1, <2>2, CopyLasts, AnswerLasts, StoredLasts DEF Lossless, Open
<1>5. CASE applyLocked
  <2>1. UNCHANGED <<copy, beside, aside>> /\ file' = file \cup {edits'}
    BY <1>5 DEF applyLocked
  <2>2. file # Missing /\ file' # Missing
    <3>1. file # Missing
      BY <1>2, <1>5 DEF applyLocked, Ready, Inv, Stands
    <3>2. Fresh /\ file \in Texts
      BY <1>5, <3>1 DEF applyLocked, Inv, Types, Maybe
    <3>3. file' \in Texts' /\ edits' \in 0..MaxEdits
      BY <2>1, <3>2, Grows DEF Inv, Types
    <3>4. Missing \notin Texts'
      <4>1. Texts' \subseteq SUBSET (1..MaxEdits)
        BY <3>3 DEF Texts
      <4> QED BY <4>1
    <3> QED BY <3>1, <3>3, <3>4
  <2>3. \/ op'.stage = "idle" /\ session' = session
        \/ op'.stage = "recover" /\ session' = Set(session.draft \cup {edits'}, FALSE)
    <3>1. Begins("look").stage = "recover"
      BY BeginsType
    <3>2. \/ op' = Idle /\ session' = session
          \/ op' = Begins("look") /\ session' = Set(session.draft \cup {edits'}, FALSE)
      BY <1>5 DEF applyLocked
    <3>3. op' = Idle => op'.stage = "idle"
      BY DEF Idle
    <3>4. op' = Begins("look") => op'.stage = "recover"
      BY <3>1
    <3> QED BY <3>2, <3>3, <3>4
  <2> QED BY <1>2, <1>3, <2>1, <2>2, <2>3, CopyLasts, AnswerLasts, StoredLasts DEF Lossless, Open, In
<1>6. CASE writePlainLocked
  <2>1. UNCHANGED files
    BY <1>6 DEF writePlainLocked
  <2>2. \/ op'.stage = "idle" /\ session' = session
        \/ op'.stage = "recover" /\ session' = Set(op.text, TRUE)
    <3>1. Begins("look").stage = "recover"
      BY BeginsType
    <3>2. \/ op' = Idle /\ session' = session
          \/ op' = Begins("look") /\ session' = Set(op.text, TRUE)
      BY <1>6 DEF writePlainLocked
    <3>3. op' = Idle => op'.stage = "idle"
      BY DEF Idle
    <3>4. op' = Begins("look") => op'.stage = "recover"
      BY <3>1
    <3> QED BY <3>2, <3>3, <3>4
  <2> QED BY <1>2, <1>3, <2>1, <2>2, CopyLasts, AnswerLasts, StoredLasts DEF Lossless, Open, files
<1>7. CASE Accept
  <2>1. UNCHANGED files
    BY <1>7 DEF Accept
  <2>2. CASE op' = Idle /\ UNCHANGED session
    BY <1>2, <2>1, <2>2, CopyLasts, AnswerLasts, StoredLasts DEF Lossless, Open, files, Idle
  <2>3. CASE ~Changed /\ session' = [session EXCEPT !.resolution = op.answer] /\ Step("finish")
    <3>1. op'.stage = "finish" /\ session'.open /\ session'.working = session.working
      BY <1>2, <2>3, StepsOn DEF Sessions
    <3>2. copy = session.draft
      BY <1>2, <1>7, <2>3 DEF Accept, Ready, Inv, Stands, Changed
    <3>3. session.draft # Missing
      BY <1>2, TextIsThere DEF Sessions, Inv, Types
    <3>4. Stored \subseteq Stored'
      BY <2>1, <3>2, <3>3 DEF Stored, files, In
    <3> QED BY <1>2, <2>1, <3>1, <3>4, CopyLasts, AnswerLasts DEF Lossless, files
  <2> QED BY <1>7, <2>2, <2>3 DEF Accept
<1> QED BY <1>4, <1>5, <1>6, <1>7

(* A save without a conflict: the file keeps what it has, as the text takes *)
(* nothing out of what it started from.                                     *)
LEMMA SavingKeeps ==
  ASSUME Inv, BasesAreKept, Lossless, DraftGrows, NEW e \in Editors, writeEditorText(e)
  PROVE  CopyIsKept' /\ AnswerIsOfThese' /\ Stored \subseteq Stored' \cup LetGo
<1> DEFINE base == editor[e].base
           text == editor[e].text
<1>1. ~session.open /\ file # Missing /\ op.stage = "idle" /\ UNCHANGED <<copy, beside, aside>>
  BY DEF writeEditorText, Free, Idle
<1>2. CASE file' = mergeEditorText(base, text, file) /\ UNCHANGED <<session, op>>
  <2>1. text \in Texts /\ file \in Texts /\ edits' = edits
    BY <1>1 DEF Inv, Types, Buffers, Maybe, writeEditorText
  <2>2. file' \in Texts /\ Missing \notin Texts
    BY <1>2, <2>1, MergeType, TextIsThere DEF Inv, Types
  <2>3. file \subseteq file'
    BY <1>2 DEF mergeEditorText, BasesAreKept
  <2> QED BY <1>1, <1>2, <2>2, <2>3, CopyLasts, AnswerLasts, StoredLasts DEF Lossless, Open, In
<1>3. CASE session' = Opened(text, FALSE) /\ op' = [Begins("tell") EXCEPT !.by = {e}] /\ UNCHANGED file
  <2>1. op'.stage = "recover" /\ session'.working = Missing
    BY <1>3, Beginning DEF Opened
  <2>2. CopyIsKept'
    BY <2>1 DEF CopyIsKept, In
  <2> QED BY <1>1, <1>3, <2>1, <2>2, AnswerLasts, StoredLasts DEF Lossless, Open
<1> QED BY <1>2, <1>3 DEF writeEditorText

(* What leaves the files and the session, and begins or ends an operation.  *)
LEMMA BeginningKeeps ==
  ASSUME Inv, Lossless, DraftGrows, UNCHANGED <<files, session>>,
         op' = op \/ op'.stage \in {"idle", "recover", "finish"}
  PROVE  CopyIsKept' /\ AnswerIsOfThese' /\ Stored \subseteq Stored' \cup LetGo
<1>1. op.stage = "write" => session.open
  BY DEF Inv, Stands, Open
<1> QED BY <1>1, CopyLasts, AnswerLasts, StoredLasts DEF Lossless, Open, files

LEMMA PlainKeeps ==
  ASSUME Inv, Lossless, DraftGrows, NEW v \in Views, BeginPlain(v)
  PROVE  CopyIsKept' /\ AnswerIsOfThese' /\ Stored \subseteq Stored' \cup LetGo
<1>1. op'.stage = "recover" /\ UNCHANGED files
  <2>1. op' = Begins("look") \/ \E text : op' = [Begins("plain") EXCEPT !.text = text]
    BY DEF BeginPlain
  <2>2. Begins("look").stage = "recover" /\ \A text : [Begins("plain") EXCEPT !.text = text].stage = "recover"
    BY DEF Begins
  <2> QED BY <2>1, <2>2 DEF BeginPlain
<1>2. CASE UNCHANGED session
  BY <1>1, <1>2, BeginningKeeps
<1>3. CASE ~session.open /\ session' = Opened(view[v] \cup {edits'}, TRUE)
  <2>1. session'.working = Missing
    BY <1>3 DEF Opened
  <2>2. CopyIsKept'
    BY <1>1, <2>1 DEF CopyIsKept, In
  <2> QED BY <1>1, <1>3, <2>2, AnswerLasts, StoredLasts DEF Lossless, Open, files
<1> QED BY <1>2, <1>3 DEF BeginPlain

(* A change of a place adds to the file. *)
LEMMA ChangeKeeps ==
  ASSUME Inv, Lossless, DraftGrows, updateTextFile
  PROVE  CopyIsKept' /\ AnswerIsOfThese' /\ Stored \subseteq Stored' \cup LetGo
<1>1. UNCHANGED <<copy, beside, aside, session, op>> /\ file' = file \cup {edits'} /\ op.stage = "idle" /\ Fresh
  BY DEF updateTextFile, Free, Idle
<1>2. file \in Texts /\ edits \in 0..MaxEdits
  BY DEF updateTextFile, Inv, Types, Maybe
<1>3. file' \in Texts' /\ edits' \in 0..MaxEdits
  BY <1>1, <1>2, Grows
<1>4. Missing \notin Texts'
  <2>1. Texts' \subseteq SUBSET (1..MaxEdits)
    BY <1>3 DEF Texts
  <2> QED BY <2>1
<1>5. In(file) \subseteq In(file')
  BY <1>1, <1>3, <1>4 DEF In, updateTextFile
<1> QED BY <1>1, <1>5, CopyLasts, AnswerLasts, StoredLasts DEF Lossless, Open

(* Other programs leave alone what an operation has in hand. *)
LEMMA OutsideKeeps ==
  ASSUME Inv, Lossless, DraftGrows, Outside
  PROVE  CopyIsKept' /\ AnswerIsOfThese'
<1>1. UNCHANGED <<aside, session, op>>
  BY DEF Outside, OutsideFile, OutsideCopy, NameTaken
<1>2. op.stage \in {"write", "keep", "place", "drop"} => copy' = copy
  BY DEF Outside, OutsideFile, OutsideCopy, NameTaken, InHand
<1>3. op.stage \in {"keep", "place", "drop"} => file' = file
  BY DEF Outside, OutsideFile, OutsideCopy, NameTaken, InHand
<1>4. op.stage = "write" => session.open
  BY DEF Inv, Stands, Open
<1>5. CopyIsKept'
  BY <1>1, <1>2, <1>4, CopyLasts DEF Lossless
<1>6. AnswerIsOfThese'
  BY <1>1, <1>2, <1>3, AnswerLasts DEF Lossless
<1> QED BY <1>5, <1>6

Kept == Outside \/ Stored \subseteq Stored' \cup LetGo

LEMMA LosslessStep ==
  ASSUME OneWriter, Inv, BasesAreKept, Lossless, [Next]_vars
  PROVE  Lossless' /\ [Kept]_vars
<1>1. PlainIsOwn' /\ DraftGrows
  BY OwnStep DEF Lossless
<1> SUFFICES CopyIsKept' /\ AnswerIsOfThese' /\ Kept
  BY <1>1 DEF Lossless
<1>2. CASE Draft
  <2>1. CASE Recovery
    BY <1>1, <2>1, RecoveryKeeps DEF Kept
  <2>2. CASE writeLocked \/ applyLocked \/ writePlainLocked
    BY <1>1, <2>2, DraftingKeeps DEF Kept
  <2>3. CASE Tell \/ BeginChange \/ get \/ Looked
    <3>1. UNCHANGED <<files, session>> /\ op'.stage \in {"idle", "recover", "finish"}
      BY <2>3 DEF Tell, BeginChange, get, Looked, Begins, Idle
    <3> QED BY <1>1, <3>1, BeginningKeeps DEF Kept
  <2> QED BY <1>2, <2>1, <2>2, <2>3 DEF Draft
<1>3. CASE Answering
  <2>1. CASE Compare \/ resolveLocked
    <3>1. UNCHANGED <<files, session>> /\ (op' = op \/ op'.stage \in {"idle", "recover", "finish"})
      BY <2>1 DEF Compare, resolveLocked, Begins
    <3> QED BY <1>1, <3>1, BeginningKeeps DEF Kept
  <2>2. CASE Accept
    BY <1>1, <2>2, DraftingKeeps DEF Kept
  <2>3. CASE Finishing
    BY <1>1, <2>3, FinishingKeeps DEF Kept
  <2> QED BY <1>3, <2>1, <2>2, <2>3 DEF Answering
<1>4. ASSUME NEW e \in Editors, Editor(e)
      PROVE  CopyIsKept' /\ AnswerIsOfThese' /\ Kept
  <2>1. CASE writeEditorText(e)
    BY <1>1, <2>1, SavingKeeps DEF Kept
  <2>2. CASE Type(e) \/ Load(e) \/ SaveDraft(e)
    <3>1. UNCHANGED <<files, session>> /\ (op' = op \/ op'.stage \in {"idle", "recover", "finish"})
      BY <2>2 DEF Type, Load, SaveDraft, Begins
    <3> QED BY <1>1, <3>1, BeginningKeeps DEF Kept
  <2> QED BY <1>4, <2>1, <2>2 DEF Editor
<1>5. CASE Fails \/ UNCHANGED vars
  <2>1. UNCHANGED <<files, session>> /\ (op' = op \/ op'.stage \in {"idle", "recover", "finish"})
    BY <1>5 DEF Fails, vars, Idle
  <2> QED BY <1>1, <2>1, BeginningKeeps DEF Kept
<1>6. CASE Outside
  BY <1>1, <1>6, OutsideKeeps DEF Kept
<1>7. CASE updateTextFile
  BY <1>1, <1>7, ChangeKeeps DEF Kept
<1>8. ASSUME NEW v \in Views, BeginPlain(v)
      PROVE  CopyIsKept' /\ AnswerIsOfThese' /\ Kept
  BY <1>1, <1>8, PlainKeeps DEF Kept
<1> QED BY <1>2, <1>3, <1>4, <1>5, <1>6, <1>7, <1>8 DEF Next

LEMMA InitLossless == Init => Lossless
BY DEF Init, Lossless, PlainIsOwn, CopyIsKept, AnswerIsOfThese, Closed, Idle

(* Whatever fails, whatever other programs write, and however often an      *)
(* operation is taken up again: what was saved is still in the file, in the *)
(* working copy, in a copy set aside or in the journal, but for what a      *)
(* person let go.  It needs that at most one writer names no starting text: *)
(* two replace each other's draft (recoverDraft, writeLocked,               *)
(* finishResolution).                                                       *)
THEOREM NothingSavedIsLost ==
  ASSUME OneWriter
  PROVE  Spec => NothingLost
<1>1. ASSUME Inv, BasesAreKept, Lossless, [Next]_vars
      PROVE  Lossless' /\ [Kept]_vars
  BY <1>1, LosslessStep
<1> QED BY <1>1, InitLossless, Invariant, BasesInvariant, PTL DEF Spec, NothingLost, Kept
=============================================================================
