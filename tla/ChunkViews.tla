----------------------------- MODULE ChunkViews -----------------------------
(***************************************************************************)
(* View modes: a moderator sets the size of the chunks of a board and how  *)
(* others look at it (board_chunks.mjs), the server keeps the settings and *)
(* the place of the latest edit with the board, and every tab keeps its    *)
(* camera on a chunk (board_chunks_module.js, board_viewport.js) without   *)
(* moving the board under a pencil stroke.                                 *)
(*                                                                         *)
(* Places are numbers: the board is a line of them, and a chunk is the     *)
(* Size places from a multiple of Size on.  A "free" camera is anywhere.   *)
(* A tab is one browser: what it remembers survives a reload.              *)
(***************************************************************************)
EXTENDS Integers, Sequences, FiniteSets

CONSTANTS
  Tab,
  Moderator,    \* tabs whose user may be a moderator, for a time or always
  MaxPlace,     \* bound: places are 0..MaxPlace
  Size,         \* chunk sizes a moderator may choose
  DefaultSize,  \* DEFAULT_CHUNKS
  MaxSettings,  \* bound: changes of settings
  MaxEdits,     \* bound: accepted edits
  MaxEvents,    \* bound: choices of users, reloads, lost connections, crashes
  Allowed       \* situations that are let happen; see Situation

Mode == {"free", "chunk", "latest"}
Situation == {"middle_press"}
ASSUME ViewAssumption ==
  /\ Moderator \subseteq Tab /\ MaxPlace \in Nat
  /\ Size \subseteq Nat \ {0} /\ DefaultSize \in Nat \ {0}
  /\ MaxSettings \in Nat /\ MaxEdits \in Nat /\ MaxEvents \in Nat
  /\ Allowed \subseteq Situation

VARIABLES
  chunks,   \* board.metadata.chunks without its point; revision 0 is the default
  made,     \* how many revisions were made
  point,    \* board.activityPoint
  seq,      \* board.getSeq()
  fresh,    \* board.metadata === board.persistedMetadata
  stored,   \* what the SVG has
  journal,  \* what the journal has
  change,   \* the change of settings in hand, in the session queue
  saving,   \* the save in hand
  untold,   \* the settings in force are some that no tab was told of
  online,   \* a tab has joined the board
  down,     \* messages to the tab, some received but waiting in its queue
  view,     \* the tab's ChunksModule and viewport
  saved,    \* what the tab's browser remembers
  events

server == <<chunks, made, point, seq, fresh, stored, journal, change, saving, untold>>
tabs == <<online, down, view, saved>>
vars == <<server, tabs, events>>

Place == 0..MaxPlace
None == [none |-> TRUE]
Free == <<>>
Default == [revision |-> 0, viewMode |-> "free", size |-> DefaultSize]
Settings(revision) ==
  [revision : {revision}, viewMode : Mode, size : Size]

\* chunkRect, with the chunk's first place and its size.
ChunkRect(settings, p) == <<(p \div settings.size) * settings.size, settings.size>>

----------------------------------------------------------------------------
(* The camera of a tab. *)

\* Mutant: the camera moves while a stroke is drawn.
ApplyOverStroke(v, interrupt) ==
  [v EXCEPT !.pending = FALSE, !.camera = v.frame, !.moving = v.frame # Free /\ v.camera # Free]

\* applyFollowFrame: the first frame is jumped to, others are eased into.  A
\* held stroke is finished first, or the frame waits for its end.
ApplyFollowFrame(v, interrupt) ==
  IF v.holding /\ ~interrupt THEN [v EXCEPT !.pending = TRUE]
  ELSE [v EXCEPT !.holding = FALSE, !.pending = FALSE, !.camera = v.frame,
                 !.moving = v.frame # Free /\ v.camera # Free]

SetFollowFrame(v, frame, defer) ==
  IF frame = v.frame /\ ~v.pending THEN v
  ELSE ApplyFollowFrame([v EXCEPT !.frame = frame], ~defer)

\* release of the lease on the camera that a stroke holds.
ReleaseHold(v) ==
  IF v.pending THEN ApplyFollowFrame([v EXCEPT !.holding = FALSE], FALSE)
  ELSE [v EXCEPT !.holding = FALSE]

Frame(v) ==
  CASE v.mode = "free" -> Free
    [] v.mode = "latest" -> ChunkRect(v.settings, v.point)
    [] v.mode = "chunk" -> ChunkRect(v.settings, v.focus)
SyncFrame(v, defer) ==
  IF ~v.received \/ v.awaiting \/ (Frame(v) = v.frame /\ ~(v.deferred /\ ~defer)) THEN v
  ELSE SetFollowFrame([v EXCEPT !.deferred = defer], Frame(v), defer)

----------------------------------------------------------------------------
(* ChunksModule. *)

\* sync: what it remembers, and what it shows.
Remembered(v, old) ==
  IF v.received THEN [revision |-> v.settings.revision, mode |-> v.mode, focus |-> v.focus]
  ELSE old
ShowsView(t, v) ==
  /\ saved' = [saved EXCEPT ![t] = Remembered(v, saved[t])]
  /\ view' = [view EXCEPT ![t] = SyncFrame(v, FALSE)]

Changed(v, s) == v.settings.revision # s.revision

\* Mutant: what the browser remembers is not asked for.
ReceiveAnew(t, v, s, p) ==
  LET next == [v EXCEPT !.settings = s, !.point = p, !.received = TRUE]
  IN  IF ~v.received \/ (Changed(v, s) /\ ~v.canBan)
      THEN [next EXCEPT !.mode = s.viewMode, !.focus = p] ELSE next

\* receive: the settings' mode at first, unless another is remembered for this
\* revision; afterwards the mode of new settings, but not for moderators.
Receive(t, v, s, p) ==
  LET next == [v EXCEPT !.settings = s, !.point = p, !.received = TRUE]
      adopted == [next EXCEPT !.mode = s.viewMode, !.focus = p, !.chosen = None]
  IN  IF ~v.received
      THEN IF saved[t] # None /\ saved[t].revision = s.revision
           THEN [next EXCEPT !.mode = saved[t].mode, !.focus = saved[t].focus]
           ELSE adopted
      ELSE IF Changed(v, s) /\ ~v.canBan THEN adopted ELSE next

\* activity: a broadcast that has been drawn.
Activity(v, p, own) ==
  LET next == [v EXCEPT !.point = p]
  IN  IF v.mode = "latest" THEN SyncFrame(next, own) ELSE next

\* setMode; the place that is at the centre of a free camera is any.
SetMode(v, mode, centre) ==
  LET focus == IF mode # "chunk" \/ v.mode = "chunk" THEN v.focus
               ELSE IF v.mode = "latest" THEN v.point ELSE centre
  IN  [v EXCEPT !.mode = mode, !.focus = focus]
\* A choice counts once the tab has the settings: an earlier one is overwritten.
Chose(v) ==
  IF v.received THEN [v EXCEPT !.chosen = [mode |-> v.mode, focus |-> v.focus]] ELSE v

\* Mutant: the camera is not brought to the latest chunk.
CompleteUnsynced(v) == [v EXCEPT !.awaiting = FALSE]

\* completeAuthoritativeReplay.
CompleteReplay(v) == SyncFrame([v EXCEPT !.awaiting = FALSE], FALSE)

\* beginAuthoritativeResync: every tool lets go of the camera.
BeginResync(v) == ReleaseHold([v EXCEPT !.awaiting = TRUE])

NewView ==
  [settings |-> Default, point |-> 0, mode |-> "free", focus |-> 0, received |-> FALSE,
   canBan |-> FALSE,
   awaiting |-> TRUE, frame |-> Free, deferred |-> FALSE, pending |-> FALSE,
   holding |-> FALSE, camera |-> Free, moving |-> FALSE, chosen |-> None]

----------------------------------------------------------------------------
(* What a load finds. *)

Last0(S) == CHOOSE k \in S : \A l \in S : l <= k
LaterEdits == {k \in DOMAIN journal : journal[k].kind = "edit" /\ journal[k].seq > stored.seq}

\* Mutant: a record of the number of the snapshot is not recovered.
LaterOnly ==
  {k \in DOMAIN journal : journal[k].kind = "settings" /\ journal[k].seq > stored.seq}

LaterSettings ==
  {k \in DOMAIN journal : journal[k].kind = "settings" /\ journal[k].seq >= stored.seq}
\* loadBoardData, loadHistory: the records that the snapshot does not have.  The
\* place of the latest edit is the snapshot's, if it has settings, or that of a
\* later edit; the one the recovered settings have is not used.
Loaded ==
  [chunks |-> IF LaterSettings = {} THEN stored.chunks ELSE journal[Last0(LaterSettings)].chunks,
   point |-> IF LaterEdits # {} THEN journal[Last0(LaterEdits)].point
             ELSE IF stored.chunks = Default THEN 0 ELSE stored.point,
   seq |-> seq]

----------------------------------------------------------------------------
Init ==
  /\ chunks = Default /\ made = 0 /\ point = 0 /\ seq = 0 /\ fresh = TRUE
  /\ stored = [chunks |-> Default, point |-> 0, seq |-> 0] /\ journal = <<>>
  /\ change = None /\ saving = None /\ untold = FALSE
  /\ online = [t \in Tab |-> FALSE] /\ down = [t \in Tab |-> <<>>]
  /\ view = [t \in Tab |-> NewView] /\ saved = [t \in Tab |-> None]
  /\ events = 0

Event == events < MaxEvents /\ events' = events + 1

\* The metadata become another object, also for a save that is running.
Touch ==
  /\ fresh' = FALSE
  /\ saving' = IF saving # None /\ saving.captured # None
               THEN [saving EXCEPT !.fresh = FALSE] ELSE saving

Tell(m) == down' = [t \in Tab |-> IF online[t] THEN Append(down[t], m) ELSE down[t]]
ChunkState == [type |-> "chunks", settings |-> chunks, point |-> point]

\* The change in hand is being appended to the journal.
Journalling == IF change = None THEN FALSE ELSE ~change.journalled

\* An edit is accepted, journalled and broadcast: of the tab in `by', if any.
AcceptEdit(by, p) ==
  /\ change = None /\ seq < MaxEdits
  /\ point' = p /\ seq' = seq + 1
  /\ IF chunks # Default THEN Touch ELSE UNCHANGED <<fresh, saving>>
  /\ journal' = Append(journal, [kind |-> "edit", seq |-> seq + 1, point |-> p])
  /\ down' = [t \in Tab |-> IF online[t]
                            THEN Append(down[t], [type |-> "edit", point |-> p, own |-> t \in by])
                            ELSE down[t]]
  /\ UNCHANGED <<chunks, made, stored, change, untold, online, view, saved, events>>

\* POST /chunks, and the import of an archive that has settings.
BeginChange(kind) ==
  /\ change = None /\ made < MaxSettings /\ made' = made + 1
  /\ \E s \in Settings(made + 1) : chunks' = s
  /\ change' = [kind |-> kind, journalled |-> FALSE] /\ Touch
  /\ UNCHANGED <<point, seq, stored, journal, untold, tabs, events>>

JournalChange ==
  /\ Journalling
  /\ journal' = Append(journal, [kind |-> "settings", seq |-> seq, chunks |-> chunks])
  /\ IF change.kind = "import"
     THEN change' = None /\ untold' = FALSE /\ Tell(ChunkState)
     ELSE change' = [change EXCEPT !.journalled = TRUE] /\ UNCHANGED <<untold, down>>
  /\ UNCHANGED <<chunks, made, point, seq, fresh, stored, saving, online, view, saved, events>>

\* board.save(), by a timer or by the change of settings: one at a time.
RequestSave(own) ==
  /\ saving = None
  /\ own = (change # None /\ ~Journalling)
  /\ saving' = [own |-> own, captured |-> None, fresh |-> FALSE]
  /\ UNCHANGED <<chunks, made, point, seq, fresh, stored, journal, change, untold, tabs, events>>

\* Mutant: the answer is not broadcast.
AnswerSilently(own, ok) ==
  IF own THEN change' = None /\ untold' = ~ok /\ UNCHANGED down
  ELSE UNCHANGED <<change, untold, down>>

\* The answer to the change: 200 and a broadcast, or 503.
Answer(own, ok) ==
  IF own THEN change' = None /\ untold' = ~ok /\ (IF ok THEN Tell(ChunkState) ELSE UNCHANGED down)
  ELSE UNCHANGED <<change, untold, down>>

\* unsafeSaveBoard waits for the journal, and skips a save that has nothing new.
CaptureSave ==
  /\ saving # None /\ saving.captured = None /\ ~Journalling
  /\ IF fresh /\ seq = stored.seq
     THEN saving' = None /\ Answer(saving.own, FALSE)
     ELSE /\ saving' = [saving EXCEPT !.fresh = TRUE,
                          !.captured = [chunks |-> chunks, point |-> point, seq |-> seq]]
          /\ UNCHANGED <<change, untold, down>>
  /\ UNCHANGED <<chunks, made, point, seq, fresh, stored, journal, online, view, saved, events>>

EndSave ==
  /\ saving # None /\ saving.captured # None /\ saving' = None
  /\ stored' = saving.captured /\ fresh' = saving.fresh /\ Answer(saving.own, TRUE)
  /\ UNCHANGED <<chunks, made, point, seq, journal, online, view, saved, events>>

FailSave ==
  /\ saving # None /\ saving.captured # None /\ Event /\ saving' = None
  /\ Answer(saving.own, FALSE)
  /\ UNCHANGED <<chunks, made, point, seq, fresh, stored, journal, online, view, saved>>

\* The process ends and starts again; the tabs notice.
Restart ==
  /\ Event
  /\ chunks' = Loaded.chunks /\ point' = Loaded.point
  /\ fresh' = (LaterSettings \cup LaterEdits = {} \/ Loaded.chunks = Default)
  /\ change' = None /\ saving' = None /\ untold' = FALSE
  /\ online' = [t \in Tab |-> FALSE] /\ down' = [t \in Tab |-> <<>>]
  /\ view' = [t \in Tab |-> IF online[t] THEN BeginResync(view[t]) ELSE view[t]]
  /\ UNCHANGED <<made, seq, stored, journal, saved>>

----------------------------------------------------------------------------
\* The tab joins: its access, the edits it lacks, the settings.
Join(t) ==
  /\ ~online[t] /\ online' = [online EXCEPT ![t] = TRUE]
  /\ down' = [down EXCEPT ![t] = <<[type |-> "batch"], ChunkState>>]
  /\ \E canBan \in BOOLEAN : /\ canBan => t \in Moderator
                             /\ ShowsView(t, [view[t] EXCEPT !.canBan = canBan])
  /\ UNCHANGED <<server, events>>

Drop(t) ==
  /\ online[t] /\ Event /\ online' = [online EXCEPT ![t] = FALSE]
  /\ down' = [down EXCEPT ![t] = <<>>]
  /\ view' = [view EXCEPT ![t] = BeginResync(view[t])]
  /\ UNCHANGED <<server, saved>>

Reload(t) ==
  /\ Event /\ online' = [online EXCEPT ![t] = FALSE]
  /\ down' = [down EXCEPT ![t] = <<>>]
  /\ view' = [view EXCEPT ![t] = [NewView EXCEPT !.chosen = view[t].chosen]]
  /\ UNCHANGED <<server, saved>>

\* Broadcasts wait for the tools that draw them; settings do not wait for them.
WithoutItem(s, k) == SubSeq(s, 1, k - 1) \o SubSeq(s, k + 1, Len(s))
ReceiveSettings(t) ==
  \E k \in DOMAIN down[t] :
    /\ down[t][k].type = "chunks" /\ \A l \in 1..k-1 : down[t][l].type # "chunks"
    /\ down' = [down EXCEPT ![t] = WithoutItem(down[t], k)]
    /\ ShowsView(t, Receive(t, view[t], down[t][k].settings, down[t][k].point))
    /\ UNCHANGED <<server, online, events>>

ReceiveBroadcast(t) ==
  /\ down[t] # <<>> /\ Head(down[t]).type # "chunks"
  /\ down' = [down EXCEPT ![t] = Tail(@)]
  /\ LET m == Head(down[t])
     IN  view' = [view EXCEPT ![t] = IF m.type = "batch" THEN CompleteReplay(view[t])
                                     ELSE Activity(view[t], m.point, m.own)]
  /\ UNCHANGED <<server, online, saved, events>>

\* The camera has arrived.
EndMove(t) ==
  /\ view[t].moving /\ view' = [view EXCEPT ![t].moving = FALSE]
  /\ UNCHANGED <<server, online, down, saved, events>>

\* press of the pencil, release, and a stroke that is given up.
Press(t) ==
  /\ ~view[t].moving /\ ~view[t].holding
  /\ view' = [view EXCEPT ![t].holding = TRUE]
  /\ UNCHANGED <<server, online, down, saved, events>>
Lift(t) ==
  /\ view[t].holding /\ view' = [view EXCEPT ![t] = ReleaseHold(view[t])]
  /\ UNCHANGED <<server, online, down, saved, events>>

\* The menu of view modes; also the second press that leaves the latest edit.
ChooseMode(t) ==
  /\ Event /\ \E mode \in Mode, centre \in Place :
       ShowsView(t, Chose(SetMode(view[t], mode, centre)))
  /\ UNCHANGED <<server, online, down>>

\* navigateByArrow; in latest-edit focus, confirmed by a second press.
Navigate(t) ==
  /\ Event /\ view[t].received /\ ~view[t].awaiting
  /\ IF view[t].mode = "free"
     THEN /\ view' = [view EXCEPT ![t].holding = FALSE, ![t].moving = TRUE]
          /\ UNCHANGED saved
     ELSE \E p \in Place :
            ShowsView(t, Chose([SetMode(view[t], "chunk", p) EXCEPT !.focus = p]))
  /\ UNCHANGED <<server, online, down>>

\* handleMiddlePan: the first press, or the second one.  A frame that waited for
\* the stroke is not shown when the press ends it.
MiddlePress(t) ==
  /\ Event /\ ("middle_press" \in Allowed \/ ~view[t].pending)
  /\ LET v == [view[t] EXCEPT !.holding = FALSE]
     IN  IF v.mode = "free"
         THEN view' = [view EXCEPT ![t] = [v EXCEPT !.moving = FALSE]] /\ UNCHANGED saved
         ELSE \/ view' = [view EXCEPT ![t] = v] /\ UNCHANGED saved
              \/ ShowsView(t, Chose(SetMode(v, "free", 0)))
  /\ UNCHANGED <<server, online, down>>

\* A resize fits the frame again.
Resize(t) ==
  /\ Event /\ {view[t].frame, view[t].camera} # {Free}
  /\ view' = [view EXCEPT ![t] = ApplyFollowFrame(view[t], TRUE)]
  /\ UNCHANGED <<server, online, down, saved>>

TabStep(t) == Join(t) \/ ReceiveSettings(t) \/ ReceiveBroadcast(t) \/ EndMove(t) \/ Lift(t)
UserStep(t) ==
  Press(t) \/ ChooseMode(t) \/ Navigate(t) \/ MiddlePress(t) \/ Resize(t) \/ Drop(t) \/ Reload(t)
Next ==
  \/ \E p \in Place, by \in {{}} \cup {{t} : t \in {t \in Tab : online[t]}} : AcceptEdit(by, p)
  \/ \E kind \in {"post", "import"} : BeginChange(kind)
  \/ JournalChange \/ \E own \in BOOLEAN : RequestSave(own)
  \/ CaptureSave \/ EndSave \/ FailSave \/ Restart
  \/ \E t \in Tab : TabStep(t) \/ UserStep(t)

Spec == Init /\ [][Next]_vars

----------------------------------------------------------------------------
(* Properties. *)

ViewType ==
  [settings : {Default} \cup [revision : 1..MaxSettings, viewMode : Mode, size : Size],
   point : Place,
   mode : Mode, focus : Place, received : BOOLEAN, canBan : BOOLEAN, awaiting : BOOLEAN,
   frame : {Free} \cup (Int \X Int), deferred : BOOLEAN, pending : BOOLEAN,
   holding : BOOLEAN, camera : {Free} \cup (Int \X Int), moving : BOOLEAN,
   chosen : {None} \cup [mode : Mode, focus : Place]]
\* A tab has the state the code gives it; a frame that waits has a stroke to
\* wait for, and no stroke is drawn while the camera moves (README.md:451-453).
TypeOK ==
  \A t \in Tab :
    /\ view[t] \in ViewType
    /\ view[t].pending => view[t].holding
    /\ view[t].moving => ~view[t].holding

\* The camera never moves under a stroke: what moves it has ended the stroke
\* (README.md:449-451, applyFollowFrame).
CameraWaitsForStrokes ==
  [][\A t \in Tab : view'[t].camera # view[t].camera => ~view'[t].holding]_vars

\* Once a tab is idle and has read everything, and no change is in hand, it has
\* the settings in force and the place of the latest edit, unless those settings
\* were answered with an error and it was not told (emitChunkState).
Rest(t) ==
  /\ online[t] /\ down[t] = <<>> /\ change = None
  /\ ~view[t].holding /\ ~view[t].moving
SettingsReachEveryone ==
  \A t \in Tab : Rest(t) =>
    /\ view[t].settings = chunks \/ untold
    /\ view[t].point = point

\* An idle tab looks at the chunk of the latest edit, or at the one its user
\* selected, however edits, strokes and settings came in between.
ScreensShowTheView ==
  \A t \in Tab : Rest(t) => view[t].camera = Frame(view[t])

\* The mode a user chose, and the chunk, survive reloads, lost connections and
\* restarts of the server until a moderator's new settings, and those too if the
\* user is a moderator (README.md:459-465).
ChoicesAreKept ==
  \A t \in Tab : LET v == view[t] IN
    v.received /\ v.chosen # None =>
      v.mode = v.chosen.mode /\ (v.mode # "chunk" \/ v.focus = v.chosen.focus)

\* Whenever the server ends, a restart finds the settings that were answered or
\* told, and the place of the latest edit, if the stored board has settings
\* (README.md:468-470).
SettingsSurvive ==
  ~Journalling =>
    /\ Loaded.chunks = chunks
    /\ (stored.chunks = Default \/ Loaded.point = point)
=============================================================================
