----------------------------- MODULE BoardTools -----------------------------
(***************************************************************************)
(* The drawing tools of one browser tab: what they keep between pointer    *)
(* and keyboard events, what they draw on the screen at once, and what     *)
(* they send.  A tool draws more often than it sends, shows a stroke apart *)
(* from the board until it is finished, and can be interrupted by a second *)
(* finger, by another tool, by an answer of the server and by other users. *)
(* How edits wait in the tab, and are sent again, is ClientWrites: here    *)
(* every edit is under way as soon as it is sent, and the server answers   *)
(* one after the other.  All rectangles, ellipses and straight lines are   *)
(* made by one tool here, which the code shares among them, too.           *)
(***************************************************************************)
EXTENDS Integers, Sequences, SequencesExt, FiniteSets

CONSTANTS
  Shapes, Texts, Lines,  \* the identifiers of items, by the tool that names them
  Furnished,             \* the items that are on the board to begin with
  Toolbars,              \* sets of tools a tab may offer
  MaxPoints,             \* MAX_CHILDREN, the points a line may have
  MaxInputs,             \* bound: buttons, fingers, keys and tools pressed
  MaxMoves,              \* bound: moves of the pointer, and fingers lifted
  MaxMishaps             \* bound: refusals, edits of others, lost connections, undos

Items == Shapes \cup Texts \cup Lines
Tools == {"rectangle", "pencil", "text", "hand", "eraser", "clear"}
ASSUME ToolsAssumption ==
  /\ Items \subseteq Nat \ {0} /\ Furnished \subseteq Items
  /\ \A T \in Toolbars : T \subseteq Tools /\ T # {}
  /\ MaxPoints \in Nat \ {0} /\ MaxInputs \in Nat /\ MaxMoves \in Nat /\ MaxMishaps \in Nat

VARIABLES
  touch,    \* whether the tab is used with fingers, or with a mouse
  offered,  \* the tools of the toolbar
  fingers,  \* how many fingers touch the board
  board,    \* the items of the board, as the server has them
  tab,      \* everything the page keeps, and its edits on their way
  strayed,  \* items whose look on the screen is known to differ (README, section 12)
  inputs, moves, mishaps   \* counters for the bounds
vars == <<touch, offered, fingers, board, tab, strayed, inputs, moves, mishaps>>

----------------------------------------------------------------------------
(* Items.  `body' is the far corner of a shape, the content of a text (1 is *)
(* the empty one) or one more than the points of a line; `place' is where  *)
(* the hand has put it.                                                    *)

None == 0
Spots == {1, 2}
Contents == {1, 2, 3}
Absent == [body |-> 0, place |-> 0]
Fresh(b) == [body |-> b, place |-> 1]
Shown(s) == {i \in Items : s[i] # Absent}

\* An edit [n, kind, on, tracked]: `on' gives each item it names its new body or
\* place, or the name of its copy.  "erase" is the eraser's removal of one item,
\* "remove" the hand's removal of several.
Edit(n, kind, on, tracked) == [n |-> n, kind |-> kind, on |-> on, tracked |-> tracked]
One(i, x) == [j \in {i} |-> x]
Every(S, x) == [j \in S |-> x]

Touched(e) ==
  CASE e.kind = "clear" -> Items
    [] e.kind = "copy"  -> Range(e.on)
    [] OTHER            -> DOMAIN e.on

\* draw() of the tools: a shape or a line that is not there is made up, a text is not.
After(s, e, i) ==
  LET is == s[i] IN
  CASE e.kind = "create" -> Fresh(e.on[i])
    [] e.kind = "update" -> IF is # Absent THEN [is EXCEPT !.body = e.on[i]]
                            ELSE IF i \in Shapes THEN Fresh(e.on[i]) ELSE Absent
    [] e.kind = "append" -> IF is # Absent THEN [is EXCEPT !.body = @ + 1] ELSE Fresh(2)
    [] e.kind = "move"   -> IF is # Absent THEN [is EXCEPT !.place = e.on[i]] ELSE Absent
    [] e.kind = "copy"   -> s[CHOOSE j \in DOMAIN e.on : e.on[j] = i]
    [] OTHER             -> Absent
Draw(s, e) == [i \in Items |-> IF i \in Touched(e) THEN After(s, e, i) ELSE s[i]]

\* The server refuses to change what is not there, and points beyond the limit.
Accepts(b, e) ==
  /\ e.kind \in {"update", "append", "move", "copy"} => DOMAIN e.on \subseteq Shown(b)
  /\ e.kind = "append" => \A i \in DOMAIN e.on : b[i].body <= MaxPoints
Decide(b, e) == IF Accepts(b, e) THEN Draw(b, e) ELSE b

----------------------------------------------------------------------------
(* The rollback journal, of the edits on their way (ClientWrites has it in *)
(* full).  An entry of `wire' is [edit, back, deps]; `journal' names those *)
(* the tab would still roll back.                                          *)

Affected(e) == IF e.kind = "clear" THEN {} ELSE Touched(e)
Dependencies(e) == IF e.kind \in {"create", "clear"} THEN {} ELSE DOMAIN e.on
CaptureRollback(s, e) == [i \in Touched(e) |-> s[i]]
InJournal(t) == SelectSeq(t.wire, LAMBDA w : w.edit.n \in t.journal)
DependsOn(t, e) ==
  LET j == InJournal(t)
  IN  {j[k].edit.n : k \in {k \in DOMAIN j :
         \E i \in Dependencies(e) \cap Affected(j[k].edit) :
           \A l \in k+1..Len(j) : i \notin Affected(j[l].edit)}}
WithDependents(t, names) ==
  FoldLeft(LAMBDA S, w : IF w.deps \cap S # {} THEN S \cup {w.edit.n} ELSE S, names, InJournal(t))
RollBack(t, names) ==
  [t EXCEPT !.journal = @ \ names,
            !.screen = FoldRight(LAMBDA w, s : [i \in Items |-> IF i \in DOMAIN w.back THEN w.back[i] ELSE s[i]],
                                 SelectSeq(InJournal(t), LAMBDA w : w.edit.n \in names), @)]

----------------------------------------------------------------------------
(* What the tools do when an edit goes through the page's message hooks:   *)
(* those of others, and those the tab sends.                               *)

NoStroke == [id |-> None, live |-> FALSE, count |-> 0, points |-> 0]
NoText == [active |-> FALSE, id |-> None, sent |-> 1, input |-> 1, timer |-> FALSE]

\* clearActiveStrokeState.
ClearActiveStroke(t) == [t EXCEPT !.stroke = NoStroke]
PencilHears(t, e) ==
  IF e.kind = "clear" \/ (e.kind \in {"erase", "remove"} /\ t.stroke.id \in DOMAIN e.on)
  THEN ClearActiveStroke(t) ELSE t

StopEdit(t) == [t EXCEPT !.text = NoText, !.excused = @ \cup {t.text.id}]
StartEdit(t) == [t EXCEPT !.text.active = TRUE]
TextHears(t, e) ==
  IF ~t.text.active THEN t
  ELSE IF e.kind = "clear" \/ (e.kind \in {"erase", "remove"} /\ t.text.id \in DOMAIN e.on)
  THEN StopEdit(t)
  ELSE IF e.kind = "update" /\ t.text.id \in DOMAIN e.on
  THEN [t EXCEPT !.text.input = e.on[t.text.id], !.text.sent = e.on[t.text.id]]
  ELSE t
Hear(t, e) == TextHears(PencilHears(t, e), e)

----------------------------------------------------------------------------
(* Drawing and sending. *)

\* Nothing is sent without a connection, or while an undo waits.
CanWrite(t) == t.joined /\ ~t.undo

\* draw(message, true): the stroke that is being drawn is shown by the overlay.
DrawLocal(t, e) ==
  IF e.kind = "create" /\ t.stroke.id \in DOMAIN e.on THEN [t EXCEPT !.stroke.live = TRUE]
  ELSE IF e.kind = "append" /\ t.stroke.id \in DOMAIN e.on /\ t.stroke.live
  THEN [t EXCEPT !.stroke.points = @ + 1]
  ELSE [t EXCEPT !.screen = Draw(@, e)]

Queue(t, e, back) ==
  [t EXCEPT !.sent = e.n,
            !.journal = IF e.tracked THEN @ \cup {e.n} ELSE @,
            !.wire = Append(@, [edit |-> e, back |-> back,
                                deps |-> IF e.tracked THEN DependsOn(t, e) ELSE {}])]

DrawAndSend(t, kind, on) ==
  LET e == Edit(t.sent + 1, kind, on, TRUE)
  IN  IF CanWrite(t) THEN Queue(Hear(DrawLocal(t, e), e), e, CaptureRollback(t.screen, e)) ELSE t

\* The last edit of a gesture: if it cannot be sent, nothing will correct the screen.
SendLast(t, kind, on) ==
  DrawAndSend(IF CanWrite(t) THEN t ELSE [t EXCEPT !.excused = @ \cup DOMAIN on], kind, on)

\* send() of a removal that was already drawn, and that has no rollback.
SendRemoval(t, i) ==
  LET e == Edit(t.sent + 1, "erase", One(i, None), FALSE)
      heard == Hear(t, e)
  IN  IF CanWrite(t) THEN Queue(heard, e, <<>>) ELSE [heard EXCEPT !.excused = @ \cup {i}]

\* Mutant: a cancelled gesture is forgotten, and not removed.
ForgetRemoval(t, i) == [t EXCEPT !.cancelled = @ \cup {i}]

\* The removal of a gesture that is cancelled.
SendCancel(t, i) ==
  LET sent == SendRemoval(t, i)
  IN  IF CanWrite(t) THEN [sent EXCEPT !.cancelled = @ \cup {i}] ELSE sent

\* generateUID.
Unused(S, t) == S \ t.named
NewName(S, t) == CHOOSE i \in Unused(S, t) : \A j \in Unused(S, t) : i <= j
Named(t, i) == [t EXCEPT !.named = @ \cup {i}]

----------------------------------------------------------------------------
(* Rectangles.  `due' is whether the throttle lets an edit through. *)

ShapePress(t, p) ==
  LET i == NewName(Shapes, t)
  IN  DrawAndSend([Named(t, i) EXCEPT !.shape = i, !.excused = @ \cup {t.shape}], "create", One(i, p))

\* Mutant: the last position of a gesture is throttled like the others.
SendsWhenDue(due, force) == due

SendsNow(due, force) == due \/ force

ShapeMove(t, p, due, force) ==
  LET on == One(t.shape, p) IN
  IF t.shape = None THEN t
  ELSE IF ~SendsNow(due, force) THEN [t EXCEPT !.screen = Draw(@, Edit(0, "update", on, FALSE))]
  ELSE IF force THEN SendLast(t, "update", on)
  ELSE DrawAndSend(t, "update", on)
ShapeRelease(t, p) == [ShapeMove(t, p, FALSE, TRUE) EXCEPT !.shape = None]
ShapeCancel(t) ==
  IF t.shape = None THEN t
  ELSE SendCancel([t EXCEPT !.shape = None, !.screen[t.shape] = Absent], t.shape)

----------------------------------------------------------------------------
(* The pencil. *)

\* A stroke without points is not put on the board's screen.
CommitStroke(t) ==
  LET i == t.stroke.id
      is == IF t.screen[i] = Absent THEN Fresh(0) ELSE t.screen[i]
  IN  IF t.stroke.points = 0 THEN t
      ELSE [t EXCEPT !.screen[i] = [is EXCEPT !.body = t.stroke.points + 1]]
FinishStroke(t) == IF t.stroke.id = None THEN t ELSE ClearActiveStroke(CommitStroke(t))

\* createPencilMoveEffect: the first point is never throttled, the last one ends the stroke.
PencilMove(t, due) ==
  LET s == t.stroke
      drawn == DrawAndSend(t, "append", One(s.id, 0))
      counted == [drawn EXCEPT !.stroke.count = s.count + 1]
  IN  IF s.id = None THEN t
      ELSE IF s.count >= MaxPoints THEN FinishStroke(t)
      ELSE IF s.count > 0 /\ ~due THEN t
      ELSE IF s.count + 1 >= MaxPoints THEN FinishStroke(counted) ELSE counted
PencilPress(t, due) ==
  LET i == NewName(Lines, t)
      begun == [Named(t, i) EXCEPT !.stroke = [NoStroke EXCEPT !.id = i], !.excused = @ \cup {t.stroke.id}]
  IN  PencilMove(DrawAndSend(begun, "create", One(i, 1)), due)
PencilRelease(t, due) == FinishStroke(PencilMove(t, due))
PencilCancel(t) ==
  IF t.stroke.id = None THEN t ELSE SendCancel(ClearActiveStroke(t), t.stroke.id)

\* onMutationRejected: the whole line goes, and a refused point may have left a
\* line on the board.
PencilRejected(t, e) ==
  LET i == CHOOSE i \in DOMAIN e.on : TRUE
      gone == IF i = t.stroke.id THEN ClearActiveStroke(t) ELSE [t EXCEPT !.screen[i] = Absent]
  IN  IF e.kind = "append" /\ i \notin t.scrapped
      THEN SendRemoval([gone EXCEPT !.scrapped = @ \cup {i}], i) ELSE gone

----------------------------------------------------------------------------
(* The text tool. *)

\* textChangeHandler.  A text that was lost with a connection is drawn again, and
\* taken for sent.
TextChange(t, due) ==
  LET next == t.text.input
      i == NewName(Texts, t)
      named == IF t.text.id # None \/ next = 1 THEN t
               ELSE DrawAndSend([Named(t, i) EXCEPT !.text.id = i], "create", One(i, 1))
      id == named.text.id
      drawn == IF id = None \/ named.screen[id] = Absent THEN named
               ELSE [named EXCEPT !.screen[id].body = next,
                                  !.excused = IF named.text.sent = next THEN @ \cup {id} ELSE @]
  IN  IF ~due THEN [drawn EXCEPT !.text.timer = TRUE]
      ELSE IF id = None \/ drawn.text.sent = next THEN drawn
      ELSE LET sent == SendLast(drawn, "update", One(id, next))
           IN  IF sent.text.id = id THEN [sent EXCEPT !.text.sent = next] ELSE sent

\* Any press takes the focus from the text field first.
Blur(t, due) == IF t.text.active THEN TextChange(t, due) ELSE t
EditOldText(t, i) ==
  StartEdit([t EXCEPT !.text = [@ EXCEPT !.id = i, !.sent = t.screen[i].body, !.input = t.screen[i].body],
                      !.excused = @ \cup {t.text.id}])
TextPress(t, target) ==
  IF target \in Texts THEN EditOldText(t, target) ELSE StartEdit(StopEdit(t))
TextRejected(t, e) == IF t.text.id \in DOMAIN e.on THEN StopEdit(t) ELSE t

----------------------------------------------------------------------------
(* The hand.  `from' is whose transforms were read when the drag began,    *)
(* `run' counts selections, and `looking' are those that are not found yet. *)

Selector(t) == "hand" \in t.secondary
OnScreen(t, S) == S \cap Shown(t.screen)
\* A second press in the middle of a drag leaves what it moved where it is.
Dragged(t) == IF t.hand.mode = "transform" THEN t.hand.els ELSE {}
StartTransform(t, els) ==
  [t EXCEPT !.excused = @ \cup Dragged(t),
            !.hand = [@ EXCEPT !.run = @ + 1, !.mode = "transform", !.held = TRUE,
                               !.els = els, !.from = els, !.buttons = FALSE]]
StartMoving(t, els) == StartTransform(t, OnScreen(t, els))
StartScaling(t) == StartTransform(t, t.hand.els)
StartSelector(t) ==
  [t EXCEPT !.excused = @ \cup Dragged(t),
            !.hand = [@ EXCEPT !.run = @ + 1, !.mode = "selecting", !.held = TRUE,
                               !.els = {}, !.boxed = TRUE, !.buttons = FALSE]]

Box == -1
ClickSelector(t, target) ==
  IF target = Box THEN StartMoving(t, t.hand.els)
  ELSE IF target \in Items THEN StartMoving([t EXCEPT !.hand.boxed = FALSE], {target})
  ELSE StartSelector(t)

\* dispatchTransform: nothing moves when one of the items is not there.
MoveSelection(t, p, due, force) ==
  LET els == t.hand.els
      on == Every(els, p)
      idle == t.hand.mode # "transform" \/ ~t.hand.held \/ els = {}
  IN  IF idle THEN t
      ELSE IF ~(els \subseteq Shown(t.screen))
      THEN IF force THEN [t EXCEPT !.excused = @ \cup els] ELSE t
      ELSE IF ~SendsNow(due, force) THEN [t EXCEPT !.screen = Draw(@, Edit(0, "move", on, FALSE))]
      ELSE IF force THEN SendLast(t, "move", on)
      ELSE DrawAndSend(t, "move", on)

\* What an IntersectionObserver will find of the items that are shown now.
ReleaseSelector(t, found) ==
  LET h == t.hand
      rest == [h EXCEPT !.mode = "pointing", !.from = {}]
  IN  IF h.mode = "selecting"
      THEN [t EXCEPT !.hand = rest, !.looking = @ \cup {[run |-> h.run, found |-> OnScreen(t, found)]}]
      ELSE [t EXCEPT !.hand = [rest EXCEPT !.buttons = @ \/ h.els # {}]]
HandRelease(t, p, found) ==
  IF ~Selector(t) THEN [t EXCEPT !.hand.held = FALSE]
  ELSE [ReleaseSelector(MoveSelection(t, p, FALSE, TRUE), found) EXCEPT !.hand.held = FALSE]

\* Mutant: a selection that is found late replaces the one being dragged.
IsAnyRun(t, run) == TRUE

IsThisRun(t, run) == run = t.hand.run
FinishSelection(t, l) ==
  LET rest == [t EXCEPT !.looking = @ \ {l}]
  IN  IF IsThisRun(t, l.run)
      THEN [rest EXCEPT !.hand = [@ EXCEPT !.els = l.found, !.buttons = l.found # {},
                                           !.boxed = @ /\ l.found # {}]]
      ELSE rest

DeleteSelection(t) ==
  LET els == t.hand.els
      sent == IF els = {} THEN t ELSE DrawAndSend(t, "remove", Every(els, None))
  IN  [sent EXCEPT !.hand = [@ EXCEPT !.els = {}, !.boxed = FALSE, !.buttons = FALSE],
                   !.excused = @ \cup Dragged(t)]

CopyNames(t, els) ==
  CHOOSE f \in [els -> Unused(Items, t)] :
    /\ \A i \in els : {i, f[i]} \subseteq Shapes \/ {i, f[i]} \subseteq Texts \/ {i, f[i]} \subseteq Lines
    /\ \A i, j \in els : i # j => f[i] # f[j]
CanName(t, els) ==
  \A S \in {Shapes, Texts, Lines} : Cardinality(els \cap S) <= Cardinality(Unused(S, t))

\* A copy of what is not there throws: what was copied before it stays, unsent.
DuplicateSelection(t) ==
  LET els == t.hand.els
      names == CopyNames(t, els)
      copied == {i \in els : \A j \in els : j <= i => j \in Shown(t.screen)}
      on == [i \in copied |-> names[i]]
      named == [t EXCEPT !.named = @ \cup Range(names)]
  IN  IF copied = els THEN DrawAndSend(named, "copy", names)
      ELSE IF ~CanWrite(t) THEN named
      ELSE [named EXCEPT !.screen = Draw(@, Edit(0, "copy", on, FALSE)),
                         !.excused = @ \cup Range(on)]

ResetHandUi(t) ==
  [t EXCEPT !.hand = [@ EXCEPT !.run = @ + 1, !.held = FALSE, !.boxed = FALSE,
                               !.buttons = FALSE, !.keys = FALSE]]
SwitchHand(t) == [ResetHandUi(t) EXCEPT !.hand.keys = Selector(t)]

----------------------------------------------------------------------------
(* The eraser, and the removal of everything. *)

Erase(t, target) ==
  IF t.erasing /\ target \in OnScreen(t, Items) THEN DrawAndSend(t, "erase", One(target, None)) ELSE t
EraserPress(t, target) == Erase([t EXCEPT !.erasing = TRUE], target)

----------------------------------------------------------------------------
(* The tool registry: which tool gets an event, and what is done on top.   *)

Owns(t, tool) == t.current = tool
\* A tool that needs a name for what it makes: only as many as there are names.
CanName1(t) ==
  /\ Owns(t, "rectangle") => Unused(Shapes, t) # {}
  /\ Owns(t, "pencil") => Unused(Lines, t) # {}

\* The wrapper of press: an undo will release this tool where it is last seen.
Press(t, p, target, due) ==
  LET begun == [t EXCEPT !.finish = t.current, !.last = p]
  IN  CASE t.current = "rectangle" -> ShapePress(begun, p)
        [] t.current = "pencil" -> PencilPress(begun, due)
        [] t.current = "text"   -> TextPress(begun, target)
        [] t.current = "eraser" -> EraserPress(begun, target)
        [] t.current = "hand"   -> IF Selector(t) THEN ClickSelector(begun, target) ELSE begun
Move(t, p, target, due) ==
  LET moved == [t EXCEPT !.last = IF Owns(t, t.finish) THEN p ELSE @]
  IN  CASE t.current = "rectangle" -> ShapeMove(moved, p, due, FALSE)
        [] t.current = "pencil" -> PencilMove(moved, due)
        [] t.current = "eraser" -> Erase(moved, target)
        [] t.current = "hand" /\ Selector(t) -> MoveSelection(moved, p, due, FALSE)
        [] OTHER -> moved
ReleaseOf(tool, t, p, due, found) ==
  CASE tool = "rectangle" -> ShapeRelease(t, p)
    [] tool = "pencil" -> PencilRelease(t, due)
    [] tool = "eraser" -> [t EXCEPT !.erasing = FALSE]
    [] tool = "hand"   -> HandRelease(t, p, found)
    [] OTHER -> t
EndEdit(t) == [t EXCEPT !.finish = "none"]
Release(t, p, due, found) ==
  LET released == ReleaseOf(t.current, t, p, due, found)
  IN  IF t.current = "text" THEN released ELSE EndEdit(released)

\* toolCanReceiveBrowserOwnedTouch, of the tools that are not always on.
BrowserMayScroll(t) == Owns(t, "hand") /\ ~Selector(t)
\* cancelToolTouchGesture: once for the touches that are not this tool's any more.
CancelTouch(t) ==
  IF BrowserMayScroll(t) \/ t.current \in t.swallowing THEN t
  ELSE LET owned == [t EXCEPT !.swallowing = @ \cup {t.current}]
       IN  CASE t.current = "rectangle" -> ShapeCancel(owned)
             [] t.current = "pencil" -> PencilCancel(owned)
             [] OTHER -> [owned EXCEPT !.excused = @ \cup Dragged(t)]

\* onquit and onstart; shapes and eraser have neither.
Quit(t) ==
  CASE t.current = "pencil" -> FinishStroke(t)
    [] t.current = "text" -> StopEdit(t)
    [] t.current = "hand" -> [ResetHandUi(t) EXCEPT !.excused = @ \cup Dragged(t)]
    [] OTHER -> [t EXCEPT !.excused = @ \cup {t.shape}]
Change(t, tool) == [Quit(t) EXCEPT !.current = tool]
ToggleSecondary(t) ==
  LET on == IF t.current \in t.secondary THEN t.secondary \ {t.current} ELSE t.secondary \cup {t.current}
      toggled == [t EXCEPT !.secondary = on]
  IN  CASE t.current = "hand" -> SwitchHand([toggled EXCEPT !.excused = @ \cup Dragged(t)])
        [] t.current = "pencil" -> FinishStroke(toggled)
        [] OTHER -> t

----------------------------------------------------------------------------
(* What the user sees: the board's screen, with the overlay of the stroke. *)

Seen(t) ==
  [i \in Items |-> IF i = t.stroke.id /\ t.stroke.points > 0
                   THEN [body |-> t.stroke.points + 1, place |-> 1] ELSE t.screen[i]]
\* What the user will see when all that is under way is answered, and accepted.
Expected(t, b) == FoldLeft(LAMBDA s, w : Decide(s, w.edit), b, t.wire)
Ahead(t, b) == {i \in t.excused \ {None} : Seen(t)[i] # Expected(t, b)[i]}

\* The copy of an item that strayed has strayed, too.
CopiesOf(t, S) ==
  UNION {{w.edit.on[i] : i \in DOMAIN w.edit.on \cap S} : w \in {w \in Range(t.wire) : w.edit.kind = "copy"}}
Becomes(t, b) ==
  LET out == strayed \cup Ahead(t, b)
  IN  /\ tab' = [t EXCEPT !.excused = {}]
      /\ board' = b
      /\ strayed' = out \cup CopiesOf(t, out)
Input == inputs < MaxInputs /\ inputs' = inputs + 1 /\ UNCHANGED <<touch, offered, moves, mishaps>>
Motion == moves < MaxMoves /\ moves' = moves + 1 /\ UNCHANGED <<touch, offered, inputs, mishaps>>
Mishap == mishaps < MaxMishaps /\ mishaps' = mishaps + 1 /\ UNCHANGED <<touch, offered, inputs, moves>>
Page == UNCHANGED <<touch, offered, inputs, moves, mishaps>>
NoTouch == UNCHANGED fingers

Targets(t) == {None} \cup OnScreen(t, Items) \cup (IF t.hand.boxed THEN {Box} ELSE {})
Finds(t) == IF t.hand.mode = "selecting" THEN SUBSET OnScreen(t, Items) ELSE {{}}

----------------------------------------------------------------------------
(* Mouse and fingers. *)

\* A second button presses again.
MouseDown ==
  /\ ~touch /\ CanName1(tab) /\ Input /\ NoTouch
  /\ \E p \in Spots, target \in Targets(tab), due \in BOOLEAN :
       Becomes(Press(Blur(tab, due), p, target, due), board)
MouseMove ==
  /\ ~touch /\ Motion /\ NoTouch
  /\ \E p \in Spots, target \in Targets(tab), due \in BOOLEAN : Becomes(Move(tab, p, target, due), board)
\* The button, or the mouse leaves the board.
MouseUp ==
  /\ ~touch /\ Page /\ NoTouch
  /\ \E p \in Spots, due \in BOOLEAN, found \in Finds(tab) : Becomes(Release(tab, p, due, found), board)

Swallowed(t) == t.current \in t.swallowing
FingerDown ==
  /\ touch /\ fingers = 0 /\ fingers' = 1 /\ CanName1(tab) /\ Input
  /\ \E p \in Spots, target \in Targets(tab), due \in BOOLEAN :
       LET t == Blur(tab, due)
       IN  Becomes(IF Swallowed(t) THEN t ELSE Press(t, p, target, due), board)
FingerMove ==
  /\ touch /\ fingers = 1 /\ Motion /\ NoTouch
  /\ \E p \in Spots, target \in Targets(tab), due \in BOOLEAN :
       Becomes(IF Swallowed(tab) THEN tab ELSE Move(tab, p, target, due), board)
SecondFinger ==
  /\ touch /\ fingers = 1 /\ fingers' = 2 /\ Input
  /\ \E due \in BOOLEAN : Becomes(CancelTouch(Blur(tab, due)), board)
BothFingersMove ==
  /\ touch /\ fingers = 2 /\ Page /\ NoTouch
  /\ Becomes(CancelTouch(tab), board)
\* The browser scrolls with this finger: the event cannot be cancelled.
BrowserTakesTouch ==
  /\ touch /\ fingers = 1 /\ Motion /\ NoTouch
  /\ Becomes(CancelTouch(tab), board)
FingerUp ==
  /\ touch /\ fingers > 0 /\ Motion /\ fingers' = fingers - 1
  /\ \E p \in Spots, due \in BOOLEAN, found \in Finds(tab) :
       Becomes(IF fingers = 2 THEN tab
               ELSE IF Swallowed(tab) THEN [tab EXCEPT !.swallowing = @ \ {tab.current}]
               ELSE Release(tab, p, due, found), board)

----------------------------------------------------------------------------
(* Buttons and keys. *)

SelectTool ==
  /\ Input /\ NoTouch
  /\ \E tool \in offered \ {tab.current, "clear"}, due \in BOOLEAN :
       Becomes(Change(Blur(tab, due), tool), board)
\* The button of the current tool, or Shift going down or up.
Toggle ==
  /\ tab.current \in {"hand", "pencil"} /\ Input /\ NoTouch
  /\ Becomes(ToggleSecondary(tab), board)
\* The answer to the question that the clear button asks.
ConfirmClear ==
  /\ "clear" \in offered /\ Input /\ NoTouch
  /\ \E due \in BOOLEAN : Becomes(DrawAndSend(Blur(tab, due), "clear", <<>>), board)

Type ==
  /\ tab.text.active /\ Input /\ NoTouch
  /\ tab.text.id # None \/ Unused(Texts, tab) # {}
  /\ \E c \in Contents \ {tab.text.input}, due \in BOOLEAN :
       Becomes(TextChange([tab EXCEPT !.text.input = c], due), board)
TextTimer ==
  /\ tab.text.timer /\ Page /\ NoTouch
  /\ \E due \in BOOLEAN : Becomes(TextChange([tab EXCEPT !.text.timer = FALSE], due), board)
EnterOrEscape ==
  /\ tab.text.active /\ Input /\ NoTouch
  /\ \E again \in BOOLEAN : Becomes(IF again THEN StartEdit(StopEdit(tab)) ELSE StopEdit(tab), board)

ScaleHandle ==
  /\ tab.hand.buttons /\ Input /\ NoTouch
  /\ Becomes(StartScaling(tab), board)
\* Delete and d, or the buttons of the selection.
DeleteKey ==
  /\ tab.hand.keys \/ tab.hand.buttons
  /\ Input /\ NoTouch
  /\ Becomes(DeleteSelection(tab), board)
DuplicateKey ==
  /\ tab.hand.keys \/ tab.hand.buttons
  /\ tab.hand.mode = "pointing" /\ tab.hand.els # {} /\ CanName(tab, tab.hand.els)
  /\ Input /\ NoTouch
  /\ Becomes(DuplicateSelection(tab), board)
SelectionFound ==
  /\ Page /\ NoTouch
  /\ \E l \in tab.looking : Becomes(FinishSelection(tab, l), board)

\* Ctrl+Z finishes the gesture, of the tool that began it, and waits for answers.
PressUndo ==
  /\ CanWrite(tab) /\ ~tab.text.active /\ Mishap /\ NoTouch
  /\ \E due \in BOOLEAN, found \in Finds(tab) :
       Becomes([EndEdit(ReleaseOf(tab.finish, tab, tab.last, due, found)) EXCEPT !.undo = TRUE], board)

----------------------------------------------------------------------------
(* The server, and other users. *)

\* The answer to the first edit on its way; a refused one is rolled back, and the
\* tools are told.
Reject(t, w) ==
  LET names == IF w.edit.n \in t.journal THEN WithDependents(t, {w.edit.n}) ELSE {}
      out == SelectSeq(InJournal(t), LAMBDA x : x.edit.n \in names)
      back == [RollBack(t, names) EXCEPT !.wire = Tail(@),
                 !.excused = @ \cup UNION {Touched(x.edit) : x \in Range(out) \cup {w}},
                 !.cancelled = @ \ (IF w.edit.tracked THEN {} ELSE DOMAIN w.edit.on)]
      Tell(u, x) ==
        CASE x.edit.kind = "append" -> PencilRejected(u, x.edit)
          [] x.edit.kind = "create" /\ DOMAIN x.edit.on \subseteq Lines -> PencilRejected(u, x.edit)
          [] x.edit.kind \in {"create", "update"} /\ DOMAIN x.edit.on \subseteq Texts -> TextRejected(u, x.edit)
          [] OTHER -> u
  IN  FoldLeft(Tell, back, out)
Accept(t, w) == [t EXCEPT !.wire = Tail(@), !.journal = @ \ {w.edit.n}]
Answered == tab.joined /\ tab.wire # <<>> /\ NoTouch
ServerAccepts ==
  /\ Answered /\ Accepts(board, Head(tab.wire).edit) /\ Page
  /\ Becomes(Accept(tab, Head(tab.wire)), Draw(board, Head(tab.wire).edit))
\* For what it is about, or because of a limit, a ban or a size.
ServerRefuses ==
  /\ Answered
  /\ IF Accepts(board, Head(tab.wire).edit) THEN Mishap ELSE Page
  /\ Becomes(Reject(tab, Head(tab.wire)), board)

\* An edit that is not this tab's: pruneForAuthoritativeMessage, then handleMessage.
Invalidated(e) == IF e.kind = "erase" THEN DOMAIN e.on ELSE {}
PrunedBy(t, e) ==
  LET j == InJournal(t)
      hit == {j[k].edit.n : k \in {k \in DOMAIN j :
                (Affected(j[k].edit) \cup Dependencies(j[k].edit)) \cap Invalidated(e) # {}}}
  IN  IF e.kind = "clear" THEN t.journal ELSE WithDependents(t, hit)
Receive(t, e) ==
  LET heard == Hear(RollBack(t, PrunedBy(t, e)), e)
  IN  [heard EXCEPT !.screen = Draw(@, e)]
\* Items with an edit under way, or with one that is not sent yet.
Unsent(t) ==
  {t.shape, t.stroke.id, t.text.id} \cup Dragged(t)
Unanswered(t) == Unsent(t) \cup UNION {Touched(t.wire[k].edit) : k \in DOMAIN t.wire}
Crossed(t, e) ==
  LET out == UNION {Touched(w.edit) : w \in {w \in Range(t.wire) : w.edit.n \in PrunedBy(t, e)}}
  IN  (IF e.kind = "erase" THEN {} ELSE (Touched(e) \cap Unanswered(t)) \cup CopiesOf(t, Touched(e)))
      \cup (out \ Invalidated(e))
OthersEdit ==
  /\ tab.joined /\ Mishap /\ NoTouch
  /\ \E i \in Items, kind \in {"update", "move", "erase", "clear"}, x \in Spots :
       LET e == Edit(0, kind, IF kind = "clear" THEN <<>> ELSE One(i, x), FALSE)
       IN  /\ i \in Shown(board)
           /\ kind = "update" => i \notin Lines
           /\ Becomes([Receive(tab, e) EXCEPT !.excused = @ \cup Crossed(tab, e)], Draw(board, e))

\* reverseEdit, and the edit_history answer; it removes an item or puts one back.
UndoAnswered ==
  /\ tab.undo /\ tab.wire = <<>> /\ Page /\ NoTouch
  /\ LET done == [tab EXCEPT !.undo = FALSE]
     IN  \/ Becomes(done, board)
         \/ \E i \in tab.named, x \in {Absent, Fresh(1), Fresh(2)} :
              LET removed == Hear(done, Edit(0, "erase", One(i, None), FALSE))
              IN  /\ board[i] = Absent <=> x # Absent
                  /\ Becomes([removed EXCEPT !.screen[i] = x, !.cancelled = @ \ {i}],
                             [board EXCEPT ![i] = x])

\* The server may have accepted some of what is under way.  beginAuthoritativeResync.
Cut ==
  /\ tab.joined /\ Mishap /\ NoTouch
  /\ \E k \in 0..Len(tab.wire) :
       LET b == FoldLeft(LAMBDA s, w : Decide(s, w.edit), board, SubSeq(tab.wire, 1, k))
           quit == ClearActiveStroke(ResetHandUi(EndEdit(tab)))
       IN  Becomes([quit EXCEPT !.joined = FALSE, !.wire = <<>>, !.journal = {}, !.undo = FALSE,
                                !.cancelled = @ \ Shown(b)], b)
\* What is on the board replaces the screen.
Reconnect ==
  /\ ~tab.joined /\ Page /\ NoTouch
  /\ tab' = [tab EXCEPT !.joined = TRUE, !.screen = board]
  /\ strayed' = {}
  /\ UNCHANGED board

----------------------------------------------------------------------------
Init ==
  /\ touch \in BOOLEAN /\ offered \in Toolbars /\ fingers = 0
  /\ board = [i \in Items |-> IF i \in Furnished THEN Fresh(2) ELSE Absent]
  /\ \E tool \in offered \ {"clear"} :
       tab = [current |-> tool, secondary |-> {}, joined |-> TRUE, screen |-> board,
              wire |-> <<>>, journal |-> {}, sent |-> 0, named |-> Furnished, undo |-> FALSE,
              finish |-> "none", last |-> 1, swallowing |-> {},
              shape |-> None, stroke |-> NoStroke, scrapped |-> {}, text |-> NoText, erasing |-> FALSE,
              hand |-> [mode |-> "pointing", held |-> FALSE, els |-> {}, from |-> {}, run |-> 0,
                        keys |-> FALSE, boxed |-> FALSE, buttons |-> FALSE],
              looking |-> {}, cancelled |-> {}, excused |-> {}]
  /\ strayed = {} /\ inputs = 0 /\ moves = 0 /\ mishaps = 0

Mouse == MouseDown \/ MouseMove \/ MouseUp
Fingers ==
  FingerDown \/ FingerMove \/ SecondFinger \/ BothFingersMove \/ BrowserTakesTouch \/ FingerUp
Keys ==
  \/ SelectTool \/ Toggle \/ ConfirmClear \/ Type \/ TextTimer \/ EnterOrEscape
  \/ ScaleHandle \/ DeleteKey \/ DuplicateKey \/ SelectionFound \/ PressUndo
Server == ServerAccepts \/ ServerRefuses \/ OthersEdit \/ UndoAnswered \/ Cut \/ Reconnect
Next == Mouse \/ Fingers \/ Keys \/ Server
Spec == Init /\ [][Next]_vars

----------------------------------------------------------------------------
(* Properties. *)

Looks == [body : 0..MaxPoints+3, place : 0..2]
Kinds == {"create", "update", "append", "move", "copy", "erase", "remove", "clear"}
Modes == {"pointing", "transform", "selecting"}
\* Every variable keeps its shape; edits are on their way in the order they were
\* drawn, and only those in the journal can be rolled back.
TypeOK ==
  /\ touch \in BOOLEAN /\ offered \in Toolbars /\ fingers \in 0..2 /\ strayed \subseteq Items
  /\ inputs \in 0..MaxInputs /\ moves \in 0..MaxMoves /\ mishaps \in 0..MaxMishaps
  /\ board \in [Items -> Looks] /\ tab.screen \in [Items -> Looks]
  /\ tab.current \in offered /\ tab.finish \in offered \cup {"none"} /\ tab.secondary \subseteq {"hand", "pencil"}
  /\ tab.named \subseteq Items /\ tab.cancelled \subseteq tab.named /\ tab.hand.els \subseteq tab.named
  /\ tab.shape \in Shapes \cup {None} /\ tab.stroke.id \in Lines \cup {None} /\ tab.text.id \in Texts \cup {None}
  /\ tab.stroke.points <= MaxPoints /\ tab.hand.mode \in Modes
  /\ tab.journal \subseteq {w.edit.n : w \in Range(tab.wire)}
  /\ \A k \in DOMAIN tab.wire :
       /\ tab.wire[k].edit.kind \in Kinds /\ Touched(tab.wire[k].edit) \subseteq Items
       /\ \A l \in 1..k-1 : tab.wire[l].edit.n < tab.wire[k].edit.n

\* No gesture holds back a position or a text, and everything is answered.
Settled ==
  /\ tab.joined /\ tab.wire = <<>> /\ ~tab.undo
  /\ tab.shape = None /\ ~tab.text.timer
  /\ ~(tab.hand.mode = "transform" /\ tab.hand.held)

\* The tools draw more than they send, but once their gestures are over the tab
\* shows every item as the board has it, except where `strayed' says why not.
ScreensAgreeWhenSettled ==
  Settled => \A i \in Items \ strayed : Seen(tab)[i] = board[i]

\* A selection that is found late does not change what is being dragged.
DragsWhatWasSelected ==
  tab.hand.mode = "transform" /\ tab.hand.held => tab.hand.els \in {{}, tab.hand.from}

\* A gesture that a second finger or the browser takes away leaves nothing on the
\* board, and nothing on the screen.
PinchesLeaveNothing ==
  Settled => \A i \in tab.cancelled \ strayed : board[i] = Absent /\ Seen(tab)[i] = Absent
=============================================================================
