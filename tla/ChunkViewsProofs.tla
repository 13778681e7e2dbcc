-------------------------- MODULE ChunkViewsProofs --------------------------
(***************************************************************************)
(* The view modes for any number of tabs, places, settings and events: the *)
(* camera never moves under a stroke, what a tab is told and what it shows *)
(* agree with the board, a user's choice and a moderator's settings stay.  *)
(***************************************************************************)
EXTENDS ChunkViews, SequenceLemmas, WellFoundedInduction

-----------------------------------------------------------------------------
(* Types *)

AnySettings == {Default} \cup [revision : 1..MaxSettings, viewMode : Mode, size : Size]
Snapshots == [chunks : AnySettings, point : Place, seq : Nat]
Records ==
  [kind : {"edit"}, seq : Nat, point : Place]
    \cup [kind : {"settings"}, seq : Nat, chunks : AnySettings]
Messages ==
  [type : {"batch"}] \cup [type : {"edit"}, point : Place, own : BOOLEAN]
    \cup [type : {"chunks"}, settings : AnySettings, point : Place]
Changes == [kind : {"post", "import"}, journalled : BOOLEAN]
Saves == [own : BOOLEAN, captured : {None} \cup Snapshots, fresh : BOOLEAN]
Memories == [revision : Nat, mode : Mode, focus : Place]

ServerTypeOK ==
  /\ chunks \in AnySettings /\ made \in 0..MaxSettings /\ point \in Place /\ seq \in Nat
  /\ fresh \in BOOLEAN /\ stored \in Snapshots /\ journal \in Seq(Records)
  /\ change \in {None} \cup Changes /\ saving \in {None} \cup Saves /\ untold \in BOOLEAN
TabTypeOK ==
  /\ online \in [Tab -> BOOLEAN] /\ down \in [Tab -> Seq(Messages)]
  /\ view \in [Tab -> ViewType] /\ saved \in [Tab -> {None} \cup Memories]


-----------------------------------------------------------------------------
(* The camera *)

\* What the camera's operations leave alone.
SameView(v, w) ==
  /\ w.settings = v.settings /\ w.point = v.point /\ w.mode = v.mode /\ w.focus = v.focus
  /\ w.received = v.received /\ w.canBan = v.canBan /\ w.awaiting = v.awaiting
  /\ w.chosen = v.chosen
CameraWaits(v, w) == w.camera # v.camera => ~w.holding

LEMMA SettingsType ==
  ASSUME NEW s \in AnySettings
  PROVE  s.revision \in Nat /\ s.viewMode \in Mode /\ s.size \in Nat \ {0}
<1>1. CASE s = Default BY <1>1, ViewAssumption DEF Default, Mode
<1>2. CASE s \in [revision : 1..MaxSettings, viewMode : Mode, size : Size]
  <2>1. s.revision \in 1..MaxSettings /\ s.viewMode \in Mode /\ s.size \in Size BY <1>2
  <2>2. MaxSettings \in Nat /\ Size \subseteq Nat \ {0} BY ViewAssumption
  <2>3. s.revision \in Nat BY <2>1, <2>2
  <2>4. s.size \in Nat \ {0} BY <2>1, <2>2, Zenon
  <2> QED BY <2>1, <2>3, <2>4
<1> QED BY <1>1, <1>2 DEF AnySettings

LEMMA FrameType ==
  ASSUME NEW v \in ViewType
  PROVE  Frame(v) \in {Free} \cup (Int \X Int)
<1>1. v.point \in Int /\ v.focus \in Int /\ v.mode \in Mode BY DEF ViewType, Place
<1>2. v.settings.size \in Nat \ {0} BY SettingsType DEF ViewType, AnySettings
<1>3. \A p \in Int : ChunkRect(v.settings, p) \in Int \X Int
  <2> TAKE p \in Int
  <2> DEFINE n == v.settings.size
  <2>1. n \in Nat \ {0} BY <1>2
  <2> HIDE DEF n
  <2>2. p \div n \in Int BY <2>1
  <2>3. (p \div n) * n \in Int BY <2>1, <2>2
  <2>4. <<(p \div n) * n, n>> \in Int \X Int BY <2>1, <2>3
  <2> QED BY <2>4 DEF ChunkRect, n
<1> QED BY <1>1, <1>3 DEF Frame, Mode

LEMMA ApplyView ==
  ASSUME NEW v \in ViewType, NEW interrupt \in BOOLEAN
  PROVE  LET w == ApplyFollowFrame(v, interrupt) IN
         /\ w \in ViewType /\ SameView(v, w) /\ CameraWaits(v, w)
         /\ w.frame = v.frame /\ w.deferred = v.deferred
         /\ IF v.holding /\ ~interrupt
            THEN w.pending /\ w.holding /\ w.camera = v.camera /\ w.moving = v.moving
            ELSE ~w.pending /\ ~w.holding /\ w.camera = v.frame
<1> DEFINE w == ApplyFollowFrame(v, interrupt)
<1>1. CASE v.holding /\ ~interrupt
  <2>1. w = [v EXCEPT !.pending = TRUE] BY <1>1 DEF ApplyFollowFrame
  <2> HIDE DEF w
  <2>2. w \in ViewType BY <2>1 DEF ViewType
  <2>3. /\ w.frame = v.frame /\ w.deferred = v.deferred /\ w.pending = TRUE
        /\ w.holding = v.holding /\ w.camera = v.camera /\ w.moving = v.moving
        /\ SameView(v, w)
    BY <2>1 DEF ViewType, SameView
  <2> QED BY <1>1, <2>2, <2>3 DEF CameraWaits, w
<1>2. CASE ~ (v.holding /\ ~interrupt)
  <2> DEFINE b == v.frame # Free /\ v.camera # Free
  <2>1. w = [v EXCEPT !.holding = FALSE, !.pending = FALSE, !.camera = v.frame, !.moving = b]
    BY <1>2 DEF ApplyFollowFrame
  <2>2. b \in BOOLEAN OBVIOUS
  <2> HIDE DEF w, b
  <2>3. w \in ViewType BY <2>1, <2>2 DEF ViewType
  <2>4. /\ w.frame = v.frame /\ w.deferred = v.deferred /\ w.pending = FALSE
        /\ w.holding = FALSE /\ w.camera = v.frame /\ SameView(v, w)
    BY <2>1 DEF ViewType, SameView
  <2> QED BY <1>2, <2>3, <2>4 DEF CameraWaits, w
<1> QED BY <1>1, <1>2

\* A view that is to be brought up to date.
Settled(v) ==
  /\ IF v.pending THEN v.holding /\ v.received /\ ~v.awaiting /\ v.deferred
     ELSE v.camera = v.frame
  /\ v.moving => ~v.holding

\* A view that is up to date.
Shows(v) ==
  /\ IF v.pending
     THEN v.holding /\ v.received /\ ~v.awaiting /\ v.mode = "latest" /\ v.deferred
     ELSE v.camera = v.frame
  /\ v.moving => ~v.holding
  /\ v.received /\ ~v.awaiting => v.frame = Frame(v)

LEMMA SameFrame ==
  ASSUME NEW v, NEW w, SameView(v, w)
  PROVE  Frame(w) = Frame(v)
BY DEF SameView, Frame

LEMMA SyncView ==
  ASSUME NEW v \in ViewType, NEW defer \in BOOLEAN
  PROVE  LET w == SyncFrame(v, defer) IN
         /\ w \in ViewType /\ SameView(v, w) /\ CameraWaits(v, w)
         /\ Settled(v) /\ (defer => v.mode = "latest") => Shows(w)
<1> DEFINE w == SyncFrame(v, defer)
           f == Frame(v)
           x == [v EXCEPT !.deferred = defer]
           y == [x EXCEPT !.frame = f]
<1>0. f \in {Free} \cup (Int \X Int) BY FrameType
<1>v. /\ v.pending \in BOOLEAN /\ v.holding \in BOOLEAN /\ v.received \in BOOLEAN
      /\ v.awaiting \in BOOLEAN /\ v.deferred \in BOOLEAN /\ v.moving \in BOOLEAN
  BY DEF ViewType
<1>1. CASE ~v.received \/ v.awaiting
  <2>1. w = v BY <1>1 DEF SyncFrame
  <2> HIDE DEF w
  <2> QED BY <1>1, <2>1 DEF SameView, CameraWaits, Settled, Shows, w
<1>2. CASE v.received /\ ~v.awaiting /\ f = v.frame /\ ~(v.deferred /\ ~defer)
  <2>1. w = v BY <1>2 DEF SyncFrame
  <2> HIDE DEF w
  <2>2. Settled(v) /\ (defer => v.mode = "latest") => Shows(v)
    BY <1>2 DEF Settled, Shows
  <2> QED BY <2>1, <2>2 DEF SameView, CameraWaits, w
<1>3. CASE v.received /\ ~v.awaiting /\ ~ (f = v.frame /\ ~(v.deferred /\ ~defer))
  <2>1. w = SetFollowFrame(x, f, defer) BY <1>3 DEF SyncFrame
  <2>2. /\ x \in ViewType /\ SameView(v, x) /\ x.deferred = defer
        /\ x.frame = v.frame /\ x.pending = v.pending /\ x.camera = v.camera
        /\ x.moving = v.moving /\ x.holding = v.holding
    BY DEF ViewType, SameView
  <2> HIDE DEF x, f
  <2>3. CASE f = x.frame /\ ~x.pending
    <3>1. w = x BY <2>1, <2>3 DEF SetFollowFrame
    <3>2. CameraWaits(v, x) BY <2>2 DEF CameraWaits
    <3>3. Frame(x) = f BY <2>2, SameFrame DEF f
    <3>4. Settled(v) => Shows(x) BY <2>2, <2>3, <3>3 DEF Settled, Shows
    <3> HIDE DEF w
    <3> QED BY <2>2, <3>1, <3>2, <3>4 DEF w
  <2>4. CASE ~ (f = x.frame /\ ~x.pending)
    <3>1. w = ApplyFollowFrame(y, ~defer) BY <2>1, <2>4 DEF SetFollowFrame
    <3>2. /\ y \in ViewType /\ SameView(x, y) /\ y.deferred = defer /\ y.frame = f
          /\ y.pending = x.pending /\ y.camera = x.camera /\ y.moving = x.moving
          /\ y.holding = x.holding
      BY <1>0, <2>2 DEF ViewType, SameView
    <3> HIDE DEF w, y
    <3>3. (~defer) \in BOOLEAN OBVIOUS
    <3>4. /\ w \in ViewType /\ SameView(y, w) /\ CameraWaits(y, w)
          /\ w.frame = y.frame /\ w.deferred = y.deferred
          /\ IF y.holding /\ defer
             THEN w.pending /\ w.holding /\ w.camera = y.camera /\ w.moving = y.moving
             ELSE ~w.pending /\ ~w.holding /\ w.camera = y.frame
      BY <3>1, <3>2, <3>3, ApplyView
    <3>5. SameView(v, w) /\ CameraWaits(v, w)
      BY <2>2, <3>2, <3>4 DEF SameView, CameraWaits
    <3>6. Frame(w) = f BY <3>5, SameFrame DEF f
    <3>7. Settled(v) /\ (defer => v.mode = "latest") => Shows(w)
      <4> SUFFICES ASSUME Settled(v), defer => v.mode = "latest" PROVE Shows(w) OBVIOUS
      <4>1. w.received = v.received /\ w.awaiting = v.awaiting /\ w.mode = v.mode
        BY <3>5 DEF SameView
      <4>2. CASE y.holding /\ defer
        <5>1. w.moving => ~w.holding BY <2>2, <3>2, <3>4, <4>2 DEF Settled
        <5> QED BY <1>3, <3>2, <3>4, <3>6, <4>1, <4>2, <5>1 DEF Shows
      <4>3. CASE ~ (y.holding /\ defer)
        BY <1>3, <3>2, <3>4, <3>6, <4>1, <4>3 DEF Shows
      <4> QED BY <4>2, <4>3
    <3> QED BY <3>4, <3>5, <3>7 DEF w
  <2> QED BY <2>3, <2>4
<1> QED BY <1>1, <1>2, <1>3

LEMMA ReleaseView ==
  ASSUME NEW v \in ViewType
  PROVE  LET w == ReleaseHold(v) IN
         /\ w \in ViewType /\ SameView(v, w) /\ CameraWaits(v, w)
         /\ w.frame = v.frame /\ ~w.holding /\ ~w.pending
         /\ v.pending \/ v.camera = v.frame => w.camera = w.frame
<1> DEFINE w == ReleaseHold(v)
           x == [v EXCEPT !.holding = FALSE]
<1>1. /\ x \in ViewType /\ SameView(v, x) /\ x.frame = v.frame /\ x.camera = v.camera
      /\ x.pending = v.pending /\ x.holding = FALSE
  BY DEF ViewType, SameView
<1>2. CASE v.pending
  <2>1. w = ApplyFollowFrame(x, FALSE) BY <1>2 DEF ReleaseHold
  <2> HIDE DEF w, x
  <2>2. /\ w \in ViewType /\ SameView(x, w) /\ w.frame = x.frame
        /\ ~w.pending /\ ~w.holding /\ w.camera = x.frame
    BY <1>1, <2>1, ApplyView
  <2>3. SameView(v, w) BY <1>1, <2>2 DEF SameView
  <2> QED BY <1>1, <2>2, <2>3 DEF CameraWaits, w
<1>3. CASE ~v.pending
  <2>1. w = x BY <1>3 DEF ReleaseHold
  <2> HIDE DEF w, x
  <2> QED BY <1>1, <1>3, <2>1 DEF CameraWaits, w
<1> QED BY <1>2, <1>3

-----------------------------------------------------------------------------
(* What a step does to the view of a tab *)

\* The choice a tab shows is the one that its browser remembers.
KeepsChoice(v, old) ==
  v.chosen # None =>
    /\ old.mode = v.chosen.mode /\ (old.mode = "chunk" => old.focus = v.chosen.focus)
    /\ v.received => /\ v.mode = v.chosen.mode
                     /\ v.mode = "chunk" => v.focus = v.chosen.focus

\* What every step does to a view v and a memory old, which become w and new.
Follows(v, old, w, new) ==
  /\ w \in ViewType /\ new \in {None} \cup Memories /\ CameraWaits(v, w)
  /\ "middle_press" \notin Allowed /\ Shows(v) => Shows(w)
  /\ KeepsChoice(v, old) => KeepsChoice(w, new)

LEMMA FollowsItself ==
  ASSUME NEW v \in ViewType, NEW old \in {None} \cup Memories
  PROVE  Follows(v, old, v, old)
BY DEF Follows, CameraWaits

\* A step that does not touch what the browser remembers.
LEMMA FollowsView ==
  ASSUME NEW v \in ViewType, NEW old \in {None} \cup Memories, NEW w \in ViewType,
         w.mode = v.mode, w.focus = v.focus, w.received = v.received, w.chosen = v.chosen,
         CameraWaits(v, w), "middle_press" \notin Allowed /\ Shows(v) => Shows(w)
  PROVE  Follows(v, old, w, old)
<1>1. KeepsChoice(v, old) => KeepsChoice(w, old) BY DEF KeepsChoice
<1> QED BY <1>1 DEF Follows

LEMMA RememberedType ==
  ASSUME NEW v \in ViewType, NEW old \in {None} \cup Memories
  PROVE  Remembered(v, old) \in {None} \cup Memories
<1>1. v.settings.revision \in Nat BY SettingsType DEF ViewType, AnySettings
<1>2. v.mode \in Mode /\ v.focus \in Place BY DEF ViewType
<1>3. [revision |-> v.settings.revision, mode |-> v.mode, focus |-> v.focus] \in Memories
  BY <1>1, <1>2 DEF Memories
<1> QED BY <1>3 DEF Remembered

\* ShowsView of a changed view x.
LEMMA FollowsShown ==
  ASSUME NEW v \in ViewType, NEW old \in {None} \cup Memories, NEW x \in ViewType,
         x.camera = v.camera,
         "middle_press" \notin Allowed /\ Shows(v) => Settled(x),
         KeepsChoice(v, old) => KeepsChoice(x, Remembered(x, old))
  PROVE  Follows(v, old, SyncFrame(x, FALSE), Remembered(x, old))
<1> DEFINE w == SyncFrame(x, FALSE)
           new == Remembered(x, old)
<1>1. /\ w \in ViewType /\ SameView(x, w) /\ CameraWaits(x, w)
      /\ Settled(x) => Shows(w)
  BY SyncView
<1>2. new \in {None} \cup Memories BY RememberedType
<1> HIDE DEF w, new
<1>3. CameraWaits(v, w) BY <1>1 DEF CameraWaits
<1>4. KeepsChoice(x, new) => KeepsChoice(w, new) BY <1>1 DEF KeepsChoice, SameView
<1>5. KeepsChoice(v, old) => KeepsChoice(x, new) BY DEF new
<1>6. Follows(v, old, w, new) BY <1>1, <1>2, <1>3, <1>4, <1>5 DEF Follows
<1> QED BY <1>6 DEF w, new

LEMMA ShowsIsSettled ==
  ASSUME NEW v \in ViewType, Shows(v)
  PROVE  Settled(v)
BY DEF Shows, Settled

LEMMA FollowsJoin ==
  ASSUME NEW v \in ViewType, NEW old \in {None} \cup Memories, NEW canBan \in BOOLEAN
  PROVE  LET x == [v EXCEPT !.canBan = canBan] IN
         Follows(v, old, SyncFrame(x, FALSE), Remembered(x, old))
<1> DEFINE x == [v EXCEPT !.canBan = canBan]
<1>1. /\ x \in ViewType /\ x.camera = v.camera /\ x.pending = v.pending
      /\ x.holding = v.holding /\ x.received = v.received /\ x.awaiting = v.awaiting
      /\ x.deferred = v.deferred /\ x.frame = v.frame /\ x.moving = v.moving
      /\ x.chosen = v.chosen /\ x.mode = v.mode /\ x.focus = v.focus
  BY DEF ViewType
<1> HIDE DEF x
<1>2. Shows(v) => Settled(x) BY <1>1 DEF Shows, Settled
<1>3. KeepsChoice(v, old) => KeepsChoice(x, Remembered(x, old))
  BY <1>1 DEF KeepsChoice, Remembered
<1>4. Follows(v, old, SyncFrame(x, FALSE), Remembered(x, old)) BY <1>1, <1>2, <1>3, FollowsShown
<1> QED BY <1>4 DEF x

LEMMA FollowsReceive ==
  ASSUME TabTypeOK, NEW t \in Tab, NEW s \in AnySettings, NEW p \in Place
  PROVE  LET x == Receive(t, view[t], s, p) IN
         Follows(view[t], saved[t], SyncFrame(x, FALSE), Remembered(x, saved[t]))
<1> DEFINE v == view[t]
           old == saved[t]
           next == [v EXCEPT !.settings = s, !.point = p, !.received = TRUE]
           adopted == [next EXCEPT !.mode = s.viewMode, !.focus = p, !.chosen = None]
           found == [next EXCEPT !.mode = old.mode, !.focus = old.focus]
           Result(x) == Follows(v, old, SyncFrame(x, FALSE), Remembered(x, old))
           Like(x) == /\ x \in ViewType /\ x.received = TRUE /\ x.camera = v.camera
                      /\ x.pending = v.pending /\ x.holding = v.holding
                      /\ x.awaiting = v.awaiting /\ x.deferred = v.deferred
                      /\ x.frame = v.frame /\ x.moving = v.moving
<1>1. v \in ViewType /\ old \in {None} \cup Memories BY DEF TabTypeOK
<1>2. s.viewMode \in Mode BY SettingsType
<1> HIDE DEF v, old
<1>3. Like(next) /\ next.chosen = v.chosen /\ next.mode = v.mode /\ next.focus = v.focus
  BY <1>1 DEF ViewType, AnySettings
<1> HIDE DEF next
<1>4. Like(adopted) /\ adopted.chosen = None BY <1>2, <1>3 DEF ViewType
<1>5. ASSUME old \in Memories
      PROVE  /\ Like(found) /\ found.chosen = v.chosen
             /\ found.mode = old.mode /\ found.focus = old.focus
  BY <1>3, <1>5 DEF ViewType, Memories
<1> HIDE DEF adopted, found
<1>6. ASSUME NEW x, Like(x), KeepsChoice(v, old) => KeepsChoice(x, Remembered(x, old))
      PROVE  Result(x)
  <2>1. Shows(v) => Settled(x) BY <1>6 DEF Shows, Settled
  <2> QED BY <1>1, <1>6, <2>1, FollowsShown
<1>7. Result(adopted)
  <2>1. KeepsChoice(adopted, Remembered(adopted, old)) BY <1>4 DEF KeepsChoice
  <2> QED BY <1>4, <1>6, <2>1
<1>8. CASE ~v.received /\ old # None /\ old.revision = s.revision
  <2>1. Receive(t, v, s, p) = found BY <1>8 DEF Receive, found, next, old
  <2>2. Like(found) /\ found.chosen = v.chosen /\ found.mode = old.mode /\ found.focus = old.focus
    BY <1>1, <1>5, <1>8
  <2>3. KeepsChoice(v, old) => KeepsChoice(found, Remembered(found, old))
    BY <2>2 DEF KeepsChoice, Remembered
  <2>4. Result(found) BY <1>6, <2>2, <2>3
  <2> QED BY <2>1, <2>4 DEF v, old
<1>9. CASE ~v.received /\ ~ (old # None /\ old.revision = s.revision)
  <2>1. Receive(t, v, s, p) = adopted BY <1>9 DEF Receive, adopted, next, old
  <2> QED BY <1>7, <2>1 DEF v, old
<1>10. CASE v.received /\ Changed(v, s) /\ ~v.canBan
  <2>1. Receive(t, v, s, p) = adopted BY <1>10 DEF Receive, adopted, next
  <2> QED BY <1>7, <2>1 DEF v, old
<1>11. CASE v.received /\ ~ (Changed(v, s) /\ ~v.canBan)
  <2>1. Receive(t, v, s, p) = next BY <1>11 DEF Receive, next
  <2>2. KeepsChoice(v, old) => KeepsChoice(next, Remembered(next, old))
    BY <1>3, <1>11 DEF KeepsChoice, Remembered
  <2>3. Result(next) BY <1>3, <1>6, <2>2
  <2> QED BY <2>1, <2>3 DEF v, old
<1>12. v.received \in BOOLEAN BY <1>1 DEF ViewType
<1> QED BY <1>8, <1>9, <1>10, <1>11, <1>12

\* Chose and ShowsView of a view y that the user changed.
LEMMA FollowsChoice ==
  ASSUME NEW v \in ViewType, NEW old \in {None} \cup Memories, NEW y \in ViewType,
         y.camera = v.camera, y.received = v.received, y.chosen = v.chosen,
         "middle_press" \notin Allowed /\ Shows(v) => Settled(y)
  PROVE  LET x == Chose(y) IN Follows(v, old, SyncFrame(x, FALSE), Remembered(x, old))
<1> DEFINE x == Chose(y)
           c == [mode |-> y.mode, focus |-> y.focus]
           z == [y EXCEPT !.chosen = c]
<1>1. CASE ~y.received
  <2>1. x = y BY <1>1 DEF Chose
  <2> HIDE DEF x
  <2>2. KeepsChoice(v, old) => KeepsChoice(x, Remembered(x, old))
    BY <1>1, <2>1 DEF KeepsChoice, Remembered
  <2>3. Follows(v, old, SyncFrame(x, FALSE), Remembered(x, old)) BY <2>1, <2>2, FollowsShown
  <2> QED BY <2>3 DEF x
<1>2. CASE y.received
  <2>1. x = z BY <1>2 DEF Chose
  <2>2. c \in [mode : Mode, focus : Place] BY DEF ViewType
  <2>3. c.mode = y.mode /\ c.focus = y.focus OBVIOUS
  <2> HIDE DEF x, c
  <2>4. /\ x \in ViewType /\ x.camera = y.camera /\ x.received = y.received /\ x.mode = y.mode
        /\ x.focus = y.focus /\ x.pending = y.pending /\ x.holding = y.holding
        /\ x.awaiting = y.awaiting /\ x.deferred = y.deferred /\ x.frame = y.frame
        /\ x.moving = y.moving /\ x.chosen = c
    BY <2>1, <2>2 DEF ViewType
  <2>5. "middle_press" \notin Allowed /\ Shows(v) => Settled(x) BY <2>4 DEF Settled
  <2>6. KeepsChoice(x, Remembered(x, old)) BY <1>2, <2>3, <2>4 DEF KeepsChoice, Remembered
  <2>7. Follows(v, old, SyncFrame(x, FALSE), Remembered(x, old))
    BY <2>4, <2>5, <2>6, FollowsShown
  <2> QED BY <2>7 DEF x
<1>3. y.received \in BOOLEAN BY DEF ViewType
<1> QED BY <1>1, <1>2, <1>3

LEMMA SetModeView ==
  ASSUME NEW v \in ViewType, NEW mode \in Mode, NEW centre \in Place
  PROVE  LET y == SetMode(v, mode, centre) IN
         /\ y \in ViewType /\ y.camera = v.camera /\ y.received = v.received
         /\ y.chosen = v.chosen /\ y.pending = v.pending /\ y.holding = v.holding
         /\ y.awaiting = v.awaiting /\ y.deferred = v.deferred /\ y.frame = v.frame
         /\ y.moving = v.moving /\ y.mode = mode
         /\ y.point = v.point /\ y.settings = v.settings
<1> DEFINE focus == IF mode # "chunk" \/ v.mode = "chunk" THEN v.focus
                    ELSE IF v.mode = "latest" THEN v.point ELSE centre
           y == SetMode(v, mode, centre)
<1>1. focus \in Place BY DEF ViewType
<1>2. y = [v EXCEPT !.mode = mode, !.focus = focus] BY DEF SetMode
<1> HIDE DEF focus, y
<1>3. y \in ViewType BY <1>1, <1>2 DEF ViewType
<1>4. /\ y.camera = v.camera /\ y.received = v.received
      /\ y.chosen = v.chosen /\ y.pending = v.pending /\ y.holding = v.holding
      /\ y.awaiting = v.awaiting /\ y.deferred = v.deferred /\ y.frame = v.frame
      /\ y.moving = v.moving /\ y.mode = mode /\ y.point = v.point /\ y.settings = v.settings
  BY <1>2 DEF ViewType
<1> QED BY <1>3, <1>4 DEF y

LEMMA ResyncView ==
  ASSUME NEW v \in ViewType, NEW old \in {None} \cup Memories
  PROVE  Follows(v, old, BeginResync(v), old)
<1> DEFINE x == [v EXCEPT !.awaiting = TRUE]
           w == BeginResync(v)
<1>1. /\ x \in ViewType /\ x.awaiting = TRUE /\ x.camera = v.camera /\ x.frame = v.frame
      /\ x.pending = v.pending /\ x.mode = v.mode /\ x.focus = v.focus
      /\ x.received = v.received /\ x.chosen = v.chosen
  BY DEF ViewType
<1>2. w = ReleaseHold(x) BY DEF BeginResync
<1> HIDE DEF x, w
<1>3. /\ w \in ViewType /\ SameView(x, w) /\ CameraWaits(x, w)
      /\ w.frame = x.frame /\ ~w.holding /\ ~w.pending
      /\ x.pending \/ x.camera = x.frame => w.camera = w.frame
  BY <1>1, <1>2, ReleaseView
<1>4. CameraWaits(v, w) BY <1>3 DEF CameraWaits
<1>5. Shows(v) => Shows(w)
  <2> SUFFICES ASSUME Shows(v) PROVE Shows(w) OBVIOUS
  <2>1. w.camera = w.frame BY <1>1, <1>3 DEF Shows
  <2>2. w.awaiting = TRUE BY <1>1, <1>3 DEF SameView
  <2> QED BY <1>3, <2>1, <2>2 DEF Shows
<1>6. w.mode = v.mode /\ w.focus = v.focus /\ w.received = v.received /\ w.chosen = v.chosen
  BY <1>1, <1>3 DEF SameView
<1>7. Follows(v, old, w, old) BY <1>3, <1>4, <1>5, <1>6, FollowsView
<1> QED BY <1>7 DEF w

LEMMA LiftedView ==
  ASSUME NEW v \in ViewType, NEW old \in {None} \cup Memories
  PROVE  Follows(v, old, ReleaseHold(v), old)
<1> DEFINE w == ReleaseHold(v)
<1>1. /\ w \in ViewType /\ SameView(v, w) /\ CameraWaits(v, w)
      /\ w.frame = v.frame /\ ~w.holding /\ ~w.pending
      /\ v.pending \/ v.camera = v.frame => w.camera = w.frame
  BY ReleaseView
<1> HIDE DEF w
<1>2. Shows(v) => Shows(w)
  <2> SUFFICES ASSUME Shows(v) PROVE Shows(w) OBVIOUS
  <2>1. w.camera = w.frame BY <1>1 DEF Shows
  <2>2. Frame(w) = Frame(v) BY <1>1, SameFrame
  <2>3. w.received /\ ~w.awaiting => w.frame = Frame(w) BY <1>1, <2>2 DEF Shows, SameView
  <2> QED BY <1>1, <2>1, <2>3 DEF Shows
<1>3. w.mode = v.mode /\ w.focus = v.focus /\ w.received = v.received /\ w.chosen = v.chosen
  BY <1>1 DEF SameView
<1>4. Follows(v, old, w, old) BY <1>1, <1>2, <1>3, FollowsView
<1> QED BY <1>4 DEF w

LEMMA ReplayedView ==
  ASSUME NEW v \in ViewType, NEW old \in {None} \cup Memories
  PROVE  Follows(v, old, CompleteReplay(v), old)
<1> DEFINE x == [v EXCEPT !.awaiting = FALSE]
           w == CompleteReplay(v)
<1>1. /\ x \in ViewType /\ x.awaiting = FALSE /\ x.camera = v.camera /\ x.frame = v.frame
      /\ x.pending = v.pending /\ x.holding = v.holding /\ x.deferred = v.deferred
      /\ x.moving = v.moving
      /\ x.mode = v.mode /\ x.focus = v.focus /\ x.received = v.received /\ x.chosen = v.chosen
  BY DEF ViewType
<1>2. w = SyncFrame(x, FALSE) BY DEF CompleteReplay
<1> HIDE DEF x, w
<1>3. w \in ViewType /\ SameView(x, w) /\ CameraWaits(x, w) /\ (Settled(x) => Shows(w))
  BY <1>1, <1>2, SyncView
<1>4. CameraWaits(v, w) BY <1>1, <1>3 DEF CameraWaits
<1>5. Shows(v) => Shows(w) BY <1>1, <1>3 DEF Shows, Settled
<1>6. w.mode = v.mode /\ w.focus = v.focus /\ w.received = v.received /\ w.chosen = v.chosen
  BY <1>1, <1>3 DEF SameView
<1>7. Follows(v, old, w, old) BY <1>3, <1>4, <1>5, <1>6, FollowsView
<1> QED BY <1>7 DEF w

LEMMA ActiveView ==
  ASSUME NEW v \in ViewType, NEW old \in {None} \cup Memories,
         NEW p \in Place, NEW own \in BOOLEAN
  PROVE  Follows(v, old, Activity(v, p, own), old)
<1> DEFINE x == [v EXCEPT !.point = p]
           w == Activity(v, p, own)
<1>1. /\ x \in ViewType /\ x.awaiting = v.awaiting /\ x.camera = v.camera /\ x.frame = v.frame
      /\ x.pending = v.pending /\ x.holding = v.holding /\ x.deferred = v.deferred
      /\ x.moving = v.moving /\ x.settings = v.settings
      /\ x.mode = v.mode /\ x.focus = v.focus /\ x.received = v.received /\ x.chosen = v.chosen
  BY DEF ViewType
<1> HIDE DEF x
<1>2. CASE v.mode = "latest"
  <2>1. w = SyncFrame(x, own) BY <1>2 DEF Activity, x
  <2> HIDE DEF w
  <2>2. /\ w \in ViewType /\ SameView(x, w) /\ CameraWaits(x, w)
        /\ Settled(x) /\ (own => x.mode = "latest") => Shows(w)
    BY <1>1, <2>1, SyncView
  <2>3. CameraWaits(v, w) BY <1>1, <2>2 DEF CameraWaits
  <2>4. Shows(v) => Settled(x) BY <1>1 DEF Shows, Settled
  <2>5. Shows(v) => Shows(w) BY <1>1, <1>2, <2>2, <2>4
  <2>6. w.mode = v.mode /\ w.focus = v.focus /\ w.received = v.received /\ w.chosen = v.chosen
    BY <1>1, <2>2 DEF SameView
  <2>7. Follows(v, old, w, old) BY <2>2, <2>3, <2>5, <2>6, FollowsView
  <2> QED BY <2>7 DEF w
<1>3. CASE v.mode # "latest"
  <2>1. w = x BY <1>3 DEF Activity, x
  <2> HIDE DEF w
  <2>2. CameraWaits(v, w) BY <1>1, <2>1 DEF CameraWaits
  <2>3. Frame(x) = Frame(v) BY <1>1, <1>3 DEF Frame
  <2>4. Shows(v) => Shows(w) BY <1>1, <2>1, <2>3 DEF Shows
  <2>5. Follows(v, old, w, old) BY <1>1, <2>1, <2>2, <2>4, FollowsView
  <2> QED BY <2>5 DEF w
<1> QED BY <1>2, <1>3

\* A change of the stroke in hand or of the motion of the camera.
LEMMA HandView ==
  ASSUME NEW v \in ViewType, NEW old \in {None} \cup Memories,
         NEW holding \in BOOLEAN, NEW moving \in BOOLEAN,
         moving => ~holding, "middle_press" \notin Allowed /\ v.pending /\ Shows(v) => holding
  PROVE  Follows(v, old, [v EXCEPT !.holding = holding, !.moving = moving], old)
<1> DEFINE w == [v EXCEPT !.holding = holding, !.moving = moving]
<1>a. w \in ViewType BY ZenonT(30) DEF ViewType
<1>b. /\ w.holding = holding /\ w.moving = moving /\ w.camera = v.camera
      /\ w.frame = v.frame /\ w.pending = v.pending /\ w.deferred = v.deferred
  BY DEF ViewType
<1>c. SameView(v, w) BY DEF ViewType, SameView
<1> HIDE DEF w
<1>1. /\ w \in ViewType /\ w.holding = holding /\ w.moving = moving /\ w.camera = v.camera
      /\ w.frame = v.frame /\ w.pending = v.pending /\ w.deferred = v.deferred
      /\ SameView(v, w)
  BY <1>a, <1>b, <1>c
<1>2. Frame(w) = Frame(v) BY <1>1, SameFrame
<1>3. "middle_press" \notin Allowed /\ Shows(v) => Shows(w)
  <2> SUFFICES ASSUME "middle_press" \notin Allowed, Shows(v) PROVE Shows(w) OBVIOUS
  <2>1. w.mode = v.mode /\ w.received = v.received /\ w.awaiting = v.awaiting
    BY <1>1 DEF SameView
  <2>2. w.received /\ ~w.awaiting => w.frame = Frame(w) BY <1>1, <1>2, <2>1 DEF Shows
  <2>3. w.moving => ~w.holding BY <1>1
  <2>4. CASE w.pending
    <3>1. w.holding BY <1>1, <2>4
    <3> QED BY <1>1, <2>1, <2>2, <2>3, <2>4, <3>1 DEF Shows
  <2>5. CASE ~w.pending
    <3>1. w.camera = w.frame BY <1>1, <2>5 DEF Shows
    <3> QED BY <2>2, <2>3, <2>5, <3>1 DEF Shows
  <2> QED BY <2>4, <2>5
<1>4. w.mode = v.mode /\ w.focus = v.focus /\ w.received = v.received /\ w.chosen = v.chosen
  BY <1>1 DEF SameView
<1>5. CameraWaits(v, w) BY <1>1 DEF CameraWaits
<1>6. Follows(v, old, w, old) BY <1>1, <1>3, <1>4, <1>5, FollowsView
<1> QED BY <1>6 DEF w

-----------------------------------------------------------------------------
(* What a step does to the tabs *)

TabsFollow ==
  /\ view' \in [Tab -> ViewType] /\ saved' \in [Tab -> {None} \cup Memories]
  /\ \A t \in Tab : Follows(view[t], saved[t], view'[t], saved'[t])

LEMMA OtherTabs ==
  ASSUME TabTypeOK, UNCHANGED <<view, saved>>
  PROVE  TabsFollow
<1>1. \A t \in Tab : Follows(view[t], saved[t], view[t], saved[t])
  BY FollowsItself DEF TabTypeOK
<1> QED BY <1>1 DEF TabsFollow, TabTypeOK

LEMMA OneTab ==
  ASSUME TabTypeOK, NEW t \in Tab, NEW w, NEW new,
         Follows(view[t], saved[t], w, new),
         view' = [view EXCEPT ![t] = w], saved' = [saved EXCEPT ![t] = new]
  PROVE  TabsFollow
<1>1. view \in [Tab -> ViewType] /\ saved \in [Tab -> {None} \cup Memories] BY DEF TabTypeOK
<1>2. w \in ViewType /\ new \in {None} \cup Memories BY DEF Follows
<1>3. view' \in [Tab -> ViewType] /\ saved' \in [Tab -> {None} \cup Memories] BY <1>1, <1>2
<1>4. ASSUME NEW u \in Tab PROVE Follows(view[u], saved[u], view'[u], saved'[u])
  <2>1. CASE u = t
    <3>1. view'[u] = w /\ saved'[u] = new BY <1>1, <2>1
    <3> QED BY <2>1, <3>1
  <2>2. CASE u # t
    <3>1. view'[u] = view[u] /\ saved'[u] = saved[u] BY <1>1, <2>2
    <3>2. view[u] \in ViewType /\ saved[u] \in {None} \cup Memories BY <1>1
    <3>3. Follows(view[u], saved[u], view[u], saved[u]) BY <3>2, FollowsItself
    <3> QED BY <3>1, <3>3
  <2> QED BY <2>1, <2>2
<1> QED BY <1>3, <1>4 DEF TabsFollow

LEMMA OneView ==
  ASSUME TabTypeOK, NEW t \in Tab, NEW w, Follows(view[t], saved[t], w, saved[t]),
         view' = [view EXCEPT ![t] = w], saved' = saved
  PROVE  TabsFollow
<1>1. saved \in [Tab -> {None} \cup Memories] BY DEF TabTypeOK
<1>2. saved' = [saved EXCEPT ![t] = saved[t]] BY <1>1
<1> QED BY <1>2, OneTab

LEMMA OneShown ==
  ASSUME TabTypeOK, NEW t \in Tab, NEW x,
         Follows(view[t], saved[t], SyncFrame(x, FALSE), Remembered(x, saved[t])),
         ShowsView(t, x)
  PROVE  TabsFollow
BY OneTab DEF ShowsView

LEMMA OneHand ==
  ASSUME TabTypeOK, NEW t \in Tab, NEW holding \in BOOLEAN, NEW moving \in BOOLEAN,
         moving => ~holding,
         "middle_press" \notin Allowed /\ view[t].pending /\ Shows(view[t]) => holding,
         view' = [view EXCEPT ![t] = [view[t] EXCEPT !.holding = holding, !.moving = moving]],
         saved' = saved
  PROVE  TabsFollow
<1> DEFINE w == [view[t] EXCEPT !.holding = holding, !.moving = moving]
<1>1. view[t] \in ViewType /\ saved[t] \in {None} \cup Memories BY DEF TabTypeOK
<1>2. Follows(view[t], saved[t], w, saved[t]) BY <1>1, HandView
<1> HIDE DEF w
<1>3. view' = [view EXCEPT ![t] = w] BY DEF w
<1> QED BY <1>2, <1>3, OneView

LEMMA TabStepFollows ==
  ASSUME ServerTypeOK, TabTypeOK, NEW t \in Tab, TabStep(t)
  PROVE  TabsFollow
<1>t. /\ view[t] \in ViewType /\ saved[t] \in {None} \cup Memories
      /\ down[t] \in Seq(Messages) /\ view \in [Tab -> ViewType]
  BY DEF TabTypeOK
<1>1. CASE Join(t)
  <2>1. PICK canBan \in BOOLEAN : ShowsView(t, [view[t] EXCEPT !.canBan = canBan])
    BY <1>1 DEF Join
  <2> QED BY <1>t, <2>1, FollowsJoin, OneShown
<1>2. CASE ReceiveSettings(t)
  <2>1. PICK k \in DOMAIN down[t] :
          /\ down[t][k].type = "chunks"
          /\ ShowsView(t, Receive(t, view[t], down[t][k].settings, down[t][k].point))
    BY <1>2 DEF ReceiveSettings
  <2>2. down[t][k] \in Messages BY <1>t, <2>1
  <2>3. down[t][k].settings \in AnySettings /\ down[t][k].point \in Place
    BY <2>1, <2>2 DEF Messages
  <2> DEFINE x == Receive(t, view[t], down[t][k].settings, down[t][k].point)
  <2>4. Follows(view[t], saved[t], SyncFrame(x, FALSE), Remembered(x, saved[t]))
    BY <2>3, FollowsReceive
  <2> QED BY <2>1, <2>4, OneShown
<1>3. CASE ReceiveBroadcast(t)
  <2> DEFINE m == Head(down[t])
             w == IF m.type = "batch" THEN CompleteReplay(view[t])
                  ELSE Activity(view[t], m.point, m.own)
  <2>1. view' = [view EXCEPT ![t] = w] /\ saved' = saved /\ down[t] # <<>> /\ m.type # "chunks"
    BY <1>3 DEF ReceiveBroadcast
  <2>2. m \in Messages BY <1>t, <2>1
  <2> HIDE DEF m
  <2>3. CASE m.type = "batch"
    <3>1. Follows(view[t], saved[t], w, saved[t]) BY <1>t, <2>3, ReplayedView
    <3> QED BY <2>1, <3>1, OneView
  <2>4. CASE m.type # "batch"
    <3>1. m.point \in Place /\ m.own \in BOOLEAN BY <2>1, <2>2, <2>4 DEF Messages
    <3>2. Follows(view[t], saved[t], w, saved[t]) BY <1>t, <2>4, <3>1, ActiveView
    <3> QED BY <2>1, <3>2, OneView
  <2> QED BY <2>3, <2>4
<1>4. CASE EndMove(t)
  <2>1. view' = [view EXCEPT ![t] = [view[t] EXCEPT !.holding = view[t].holding, !.moving = FALSE]]
    BY <1>4, <1>t DEF EndMove, ViewType
  <2>2. view[t].pending /\ Shows(view[t]) => view[t].holding BY DEF Shows
  <2>3. view[t].holding \in BOOLEAN /\ saved' = saved BY <1>4, <1>t DEF EndMove, ViewType
  <2> QED BY <2>1, <2>2, <2>3, OneHand
<1>5. CASE Lift(t)
  <2>1. Follows(view[t], saved[t], ReleaseHold(view[t]), saved[t]) BY <1>t, LiftedView
  <2> QED BY <1>5, <2>1, OneView DEF Lift
<1> QED BY <1>1, <1>2, <1>3, <1>4, <1>5 DEF TabStep

LEMMA UserStepFollows ==
  ASSUME ServerTypeOK, TabTypeOK, NEW t \in Tab, UserStep(t)
  PROVE  TabsFollow
<1> DEFINE v == view[t]
<1>t. /\ v \in ViewType /\ saved[t] \in {None} \cup Memories /\ view \in [Tab -> ViewType]
      /\ v.holding \in BOOLEAN /\ v.moving \in BOOLEAN /\ v.pending \in BOOLEAN
      /\ v.mode \in Mode
  BY DEF TabTypeOK, ViewType
<1>0. 0 \in Place BY ViewAssumption DEF Place
<1>1. CASE Press(t)
  <2>1. view' = [view EXCEPT ![t] = [view[t] EXCEPT !.holding = TRUE, !.moving = v.moving]]
    BY <1>1, <1>t DEF Press, ViewType
  <2>2. ~v.moving /\ saved' = saved BY <1>1 DEF Press
  <2> QED BY <1>t, <2>1, <2>2, OneHand
<1>2. CASE ChooseMode(t)
  <2>1. PICK mode \in Mode, centre \in Place : ShowsView(t, Chose(SetMode(v, mode, centre)))
    BY <1>2 DEF ChooseMode
  <2> DEFINE y == SetMode(v, mode, centre)
             x == Chose(y)
  <2>2. /\ y \in ViewType /\ y.camera = v.camera /\ y.received = v.received
        /\ y.chosen = v.chosen /\ y.pending = v.pending /\ y.holding = v.holding
        /\ y.awaiting = v.awaiting /\ y.deferred = v.deferred /\ y.frame = v.frame
        /\ y.moving = v.moving
    BY <1>t, SetModeView
  <2> HIDE DEF y
  <2>3. Shows(v) => Settled(y) BY <2>2 DEF Shows, Settled
  <2>4. Follows(v, saved[t], SyncFrame(x, FALSE), Remembered(x, saved[t]))
    BY <1>t, <2>2, <2>3, FollowsChoice
  <2> HIDE DEF x
  <2>5. ShowsView(t, x) BY <2>1 DEF x, y
  <2> QED BY <2>4, <2>5, OneShown
<1>3. CASE Navigate(t)
  <2>1. CASE v.mode = "free"
    <3>1. view' = [view EXCEPT ![t] = [view[t] EXCEPT !.holding = FALSE, !.moving = TRUE]]
      BY <1>3, <1>t, <2>1 DEF Navigate, ViewType
    <3>2. saved' = saved BY <1>3, <2>1 DEF Navigate
    <3>3. Shows(v) => ~v.pending BY <2>1 DEF Shows
    <3> QED BY <3>1, <3>2, <3>3, OneHand
  <2>2. CASE v.mode # "free"
    <3>1. PICK p \in Place :
            ShowsView(t, Chose([SetMode(v, "chunk", p) EXCEPT !.focus = p]))
      BY <1>3, <2>2 DEF Navigate
    <3> DEFINE z == SetMode(v, "chunk", p)
               y == [z EXCEPT !.focus = p]
               x == Chose(y)
    <3>2. /\ z \in ViewType /\ z.camera = v.camera /\ z.received = v.received
          /\ z.chosen = v.chosen /\ z.pending = v.pending /\ z.holding = v.holding
          /\ z.awaiting = v.awaiting /\ z.deferred = v.deferred /\ z.frame = v.frame
          /\ z.moving = v.moving
      BY <1>t, SetModeView DEF Mode
    <3> HIDE DEF z
    <3>3. /\ y \in ViewType /\ y.camera = v.camera /\ y.received = v.received
          /\ y.chosen = v.chosen /\ y.pending = v.pending /\ y.holding = v.holding
          /\ y.awaiting = v.awaiting /\ y.deferred = v.deferred /\ y.frame = v.frame
          /\ y.moving = v.moving
      BY <3>2 DEF ViewType
    <3> HIDE DEF y
    <3>4. Shows(v) => Settled(y) BY <3>3 DEF Shows, Settled
    <3>5. Follows(v, saved[t], SyncFrame(x, FALSE), Remembered(x, saved[t]))
      BY <1>t, <3>3, <3>4, FollowsChoice
    <3> HIDE DEF x
    <3>6. ShowsView(t, x) BY <3>1 DEF x, y, z
    <3> QED BY <3>5, <3>6, OneShown
  <2> QED BY <2>1, <2>2
<1>4. CASE MiddlePress(t)
  <2> DEFINE u == [v EXCEPT !.holding = FALSE]
  <2>1. "middle_press" \notin Allowed => ~v.pending BY <1>4 DEF MiddlePress
  <2>2. u \in ViewType /\ u.mode = v.mode /\ u = [v EXCEPT !.holding = FALSE, !.moving = v.moving]
    BY <1>t DEF ViewType
  <2>3. CASE v.mode = "free"
    <3>1. view' = [view EXCEPT ![t] = [view[t] EXCEPT !.holding = FALSE, !.moving = FALSE]]
      BY <1>4, <1>t, <2>2, <2>3 DEF MiddlePress, ViewType
    <3>2. saved' = saved BY <1>4, <2>2, <2>3 DEF MiddlePress
    <3> QED BY <2>1, <3>1, <3>2, OneHand
  <2>4. CASE v.mode # "free" /\ view' = [view EXCEPT ![t] = u] /\ saved' = saved
    BY <1>t, <2>1, <2>2, <2>4, OneHand
  <2>5. CASE v.mode # "free" /\ ShowsView(t, Chose(SetMode(u, "free", 0)))
    <3> DEFINE y == SetMode(u, "free", 0)
               x == Chose(y)
    <3>1. /\ u.camera = v.camera /\ u.received = v.received /\ u.holding = FALSE
          /\ u.chosen = v.chosen /\ u.pending = v.pending
          /\ u.awaiting = v.awaiting /\ u.deferred = v.deferred /\ u.frame = v.frame
          /\ u.moving = v.moving
      BY <1>t DEF ViewType
    <3> HIDE DEF u
    <3>m. u \in ViewType /\ "free" \in Mode BY <2>2 DEF Mode
    <3>2. /\ y \in ViewType /\ y.camera = u.camera /\ y.received = u.received
          /\ y.chosen = u.chosen /\ y.pending = u.pending /\ y.holding = u.holding
          /\ y.awaiting = u.awaiting /\ y.deferred = u.deferred /\ y.frame = u.frame
          /\ y.moving = u.moving
      BY <1>0, <3>m, SetModeView
    <3> HIDE DEF y, v
    <3>3. "middle_press" \notin Allowed /\ Shows(v) => Settled(y)
      BY <2>1, <3>1, <3>2 DEF Shows, Settled
    <3>4. Follows(v, saved[t], SyncFrame(x, FALSE), Remembered(x, saved[t]))
      BY <1>t, <3>1, <3>2, <3>3, FollowsChoice
    <3> HIDE DEF x
    <3>5. ShowsView(t, x) BY <2>5 DEF x, y
    <3> QED BY <3>4, <3>5, OneShown DEF v
  <2> QED BY <1>4, <2>2, <2>3, <2>4, <2>5 DEF MiddlePress
<1>5. CASE Resize(t)
  <2> DEFINE w == ApplyFollowFrame(v, TRUE)
  <2>1. view' = [view EXCEPT ![t] = w] /\ saved' = saved BY <1>5 DEF Resize
  <2>2. /\ w \in ViewType /\ SameView(v, w) /\ CameraWaits(v, w)
        /\ w.frame = v.frame /\ ~w.pending /\ ~w.holding /\ w.camera = v.frame
    BY <1>t, ApplyView
  <2> HIDE DEF w, v
  <2>3. Frame(w) = Frame(v) BY <2>2, SameFrame
  <2>4. Shows(v) => Shows(w) BY <2>2, <2>3 DEF Shows, SameView
  <2>5. w.mode = v.mode /\ w.focus = v.focus /\ w.received = v.received /\ w.chosen = v.chosen
    BY <2>2 DEF SameView
  <2>6. Follows(v, saved[t], w, saved[t]) BY <1>t, <2>2, <2>4, <2>5, FollowsView
  <2> QED BY <2>1, <2>6, OneView DEF v
<1>6. CASE Drop(t)
  <2>1. Follows(v, saved[t], BeginResync(v), saved[t]) BY <1>t, ResyncView
  <2> QED BY <1>6, <2>1, OneView DEF Drop
<1>7. CASE Reload(t)
  <2> DEFINE w == [NewView EXCEPT !.chosen = v.chosen]
  <2>1. view' = [view EXCEPT ![t] = w] /\ saved' = saved BY <1>7 DEF Reload
  <2>2. v.chosen \in {None} \cup [mode : Mode, focus : Place] BY <1>t DEF ViewType
  <2>3. /\ w.received = FALSE /\ w.pending = FALSE /\ w.holding = FALSE
        /\ w.camera = Free /\ w.frame = Free /\ w.moving = FALSE /\ w.chosen = v.chosen
    BY DEF NewView
  <2>4. w \in ViewType BY <1>0, <2>2 DEF NewView, ViewType, Mode
  <2> HIDE DEF w, v
  <2>5. Shows(w) BY <2>3 DEF Shows
  <2>6. CameraWaits(v, w) BY <2>3 DEF CameraWaits
  <2>7. KeepsChoice(v, saved[t]) => KeepsChoice(w, saved[t]) BY <2>3 DEF KeepsChoice
  <2>8. Follows(v, saved[t], w, saved[t]) BY <1>t, <2>4, <2>5, <2>6, <2>7 DEF Follows
  <2> QED BY <2>1, <2>8, OneView DEF v
<1> QED BY <1>1, <1>2, <1>3, <1>4, <1>5, <1>6, <1>7 DEF UserStep

LEMMA StepFollows ==
  ASSUME ServerTypeOK, TabTypeOK, [Next]_vars
  PROVE  TabsFollow
<1>1. CASE UNCHANGED vars BY <1>1, OtherTabs DEF vars, tabs
<1>2. CASE Next
  <2>1. CASE \E t \in Tab : TabStep(t) \/ UserStep(t) BY <2>1, TabStepFollows, UserStepFollows
  <2>2. CASE Restart
    <3>1. saved' = saved
          /\ view' = [t \in Tab |-> IF online[t] THEN BeginResync(view[t]) ELSE view[t]]
      BY <2>2 DEF Restart
    <3>2. saved \in [Tab -> {None} \cup Memories] BY DEF TabTypeOK
    <3>3. ASSUME NEW t \in Tab
          PROVE  view'[t] \in ViewType /\ Follows(view[t], saved[t], view'[t], saved'[t])
      <4>1. view[t] \in ViewType /\ saved[t] \in {None} \cup Memories BY DEF TabTypeOK
      <4>2. /\ Follows(view[t], saved[t], BeginResync(view[t]), saved[t])
            /\ Follows(view[t], saved[t], view[t], saved[t])
        BY <4>1, ResyncView, FollowsItself
      <4>3. view'[t] = BeginResync(view[t]) \/ view'[t] = view[t] BY <3>1
      <4>4. Follows(view[t], saved[t], view'[t], saved'[t]) BY <3>1, <4>2, <4>3
      <4> QED BY <4>4 DEF Follows
    <3>4. view' \in [Tab -> ViewType]
      <4> DEFINE g == [t \in Tab |-> IF online[t] THEN BeginResync(view[t]) ELSE view[t]]
      <4>1. \A t \in Tab : g[t] \in ViewType BY <3>1, <3>3
      <4> QED BY <3>1, <4>1
    <3> QED BY <3>1, <3>2, <3>3, <3>4 DEF TabsFollow
  <2>3. ASSUME NEW p \in Place, NEW by, AcceptEdit(by, p) PROVE TabsFollow
    BY <2>3, OtherTabs DEF AcceptEdit
  <2>4. ASSUME NEW kind \in {"post", "import"}, BeginChange(kind) PROVE TabsFollow
    BY <2>4, OtherTabs DEF BeginChange, tabs
  <2>5. CASE JournalChange BY <2>5, OtherTabs DEF JournalChange
  <2>6. ASSUME NEW own \in BOOLEAN, RequestSave(own) PROVE TabsFollow
    BY <2>6, OtherTabs DEF RequestSave, tabs
  <2>7. CASE CaptureSave BY <2>7, OtherTabs DEF CaptureSave
  <2>8. CASE EndSave BY <2>8, OtherTabs DEF EndSave
  <2>9. CASE FailSave BY <2>9, OtherTabs DEF FailSave
  <2> QED BY <1>2, <2>1, <2>2, <2>3, <2>4, <2>5, <2>6, <2>7, <2>8, <2>9 DEF Next
<1> QED BY <1>1, <1>2

-----------------------------------------------------------------------------
(* Type correctness *)

\* A set of positions that is not empty has a last one, and Last0 is it.
LEMMA LastIsGreatest ==
  ASSUME NEW n \in Nat, NEW S \in SUBSET (1..n), S # {}
  PROVE  Last0(S) \in S /\ \A l \in S : l <= Last0(S)
<1> DEFINE Less == OpToRel(<, Nat)
           T == {n - k : k \in S}
<1>1. \A i, j \in Nat : i < j => <<i, j>> \in Less BY DEF OpToRel
<1>2. IsWellFoundedOn(Less, Nat) BY NatLessThanWellFounded
<1> HIDE DEF Less
<1>3. T \in SUBSET Nat /\ T # {}
  <2>1. \A k \in S : n - k \in Nat OBVIOUS
  <2> QED BY <2>1
<1> HIDE DEF T
<1>4. PICK m \in T : \A j \in T : ~ (<<j, m>> \in Less) BY <1>2, <1>3, WFMin
<1>5. PICK k \in S : m = n - k BY <1>4 DEF T
<1>6. ASSUME NEW l \in S PROVE l <= k
  <2>1. n - l \in T BY DEF T
  <2>2. m \in Nat /\ n - l \in Nat BY <1>3, <1>4, <2>1
  <2>3. ~ (n - l < m) BY <1>1, <1>4, <2>1, <2>2
  <2>4. k \in Nat /\ l \in Nat OBVIOUS
  <2> QED BY <1>5, <2>3, <2>4
<1> QED BY <1>6 DEF Last0

LEMMA LastRecord ==
  ASSUME journal \in Seq(Records), NEW S, S \subseteq DOMAIN journal, S # {}
  PROVE  /\ Last0(S) \in S /\ \A l \in S : l <= Last0(S)
         /\ journal[Last0(S)] \in Records
<1>1. Len(journal) \in Nat /\ DOMAIN journal = 1..Len(journal) BY LenProperties
<1>2. S \in SUBSET (1..Len(journal)) BY <1>1
<1>3. Last0(S) \in S /\ \A l \in S : l <= Last0(S) BY <1>1, <1>2, LastIsGreatest
<1>4. Last0(S) \in 1..Len(journal) BY <1>2, <1>3
<1>5. journal[Last0(S)] \in Records BY <1>4, ElementOfSeq
<1> QED BY <1>3, <1>5

LEMMA LoadedType ==
  ASSUME ServerTypeOK
  PROVE  Loaded.chunks \in AnySettings /\ Loaded.point \in Place
<1>1. journal \in Seq(Records) /\ stored \in Snapshots /\ 0 \in Place
  BY ViewAssumption DEF ServerTypeOK, Place
<1>2. stored.chunks \in AnySettings /\ stored.point \in Place BY <1>1 DEF Snapshots
<1>3. ASSUME LaterSettings = {} PROVE Loaded.chunks \in AnySettings BY <1>2, <1>3 DEF Loaded
<1>4. ASSUME LaterSettings # {} PROVE Loaded.chunks \in AnySettings
  <2>1. LaterSettings \subseteq DOMAIN journal BY DEF LaterSettings
  <2>2. /\ Last0(LaterSettings) \in LaterSettings
        /\ journal[Last0(LaterSettings)] \in Records
    BY <1>1, <1>4, <2>1, LastRecord
  <2>3. journal[Last0(LaterSettings)].kind = "settings" BY <2>2 DEF LaterSettings
  <2>4. journal[Last0(LaterSettings)].chunks \in AnySettings BY <2>2, <2>3 DEF Records
  <2> QED BY <1>4, <2>4 DEF Loaded
<1>5. Loaded.point \in Place
  <2>1. CASE LaterEdits = {} BY <1>1, <1>2, <2>1 DEF Loaded
  <2>2. CASE LaterEdits # {}
    <3>1. LaterEdits \subseteq DOMAIN journal BY DEF LaterEdits
    <3>2. Last0(LaterEdits) \in LaterEdits /\ journal[Last0(LaterEdits)] \in Records
      BY <1>1, <2>2, <3>1, LastRecord
    <3>3. journal[Last0(LaterEdits)].kind = "edit" BY <3>2 DEF LaterEdits
    <3>4. journal[Last0(LaterEdits)].point \in Place BY <3>2, <3>3 DEF Records
    <3> QED BY <2>2, <3>4 DEF Loaded
  <2> QED BY <2>1, <2>2
<1> QED BY <1>3, <1>4, <1>5

\* None is no record of the fields that changes, saves and snapshots have.
LEMMA NoneIsNoRecord ==
  /\ None \notin Changes /\ None \notin Saves /\ None \notin Snapshots
  /\ \A c \in Changes : c # None
<1>1. ASSUME None \in Changes PROVE FALSE
  <2>1. DOMAIN None = {"none"} BY DEF None
  <2>2. DOMAIN None = {"kind", "journalled"} BY <1>1 DEF Changes
  <2> QED BY <2>1, <2>2
<1>2. ASSUME None \in Saves PROVE FALSE
  <2>1. DOMAIN None = {"none"} BY DEF None
  <2>2. DOMAIN None = {"own", "captured", "fresh"} BY <1>2 DEF Saves
  <2> QED BY <2>1, <2>2
<1>3. ASSUME None \in Snapshots PROVE FALSE
  <2>1. DOMAIN None = {"none"} BY DEF None
  <2>2. DOMAIN None = {"chunks", "point", "seq"} BY <1>3 DEF Snapshots
  <2> QED BY <2>1, <2>2
<1> QED BY <1>1, <1>2, <1>3

LEMMA TouchType ==
  ASSUME saving \in {None} \cup Saves, Touch
  PROVE  /\ fresh' = FALSE /\ saving' \in {None} \cup Saves
         /\ (saving' # None) <=> (saving # None)
         /\ saving # None => saving'.captured = saving.captured /\ saving'.own = saving.own
<1>1. CASE saving # None /\ saving.captured # None
  <2>1. saving \in Saves BY <1>1
  <2>2. saving' = [saving EXCEPT !.fresh = FALSE] BY <1>1 DEF Touch
  <2>3. saving' \in Saves /\ saving'.captured = saving.captured /\ saving'.own = saving.own
    BY <2>1, <2>2 DEF Saves
  <2>4. saving' # None BY <2>3, NoneIsNoRecord
  <2> QED BY <1>1, <2>3, <2>4 DEF Touch
<1>2. CASE ~ (saving # None /\ saving.captured # None) BY <1>2 DEF Touch
<1> QED BY <1>1, <1>2

LEMMA TellType ==
  ASSUME ServerTypeOK, down \in [Tab -> Seq(Messages)], Tell(ChunkState)
  PROVE  down' \in [Tab -> Seq(Messages)]
<1>1. ChunkState \in Messages BY DEF ChunkState, ServerTypeOK, Messages
<1>2. \A t \in Tab : Append(down[t], ChunkState) \in Seq(Messages) BY <1>1, AppendProperties
<1> QED BY <1>2 DEF Tell

LEMMA AnswerType ==
  ASSUME ServerTypeOK, down \in [Tab -> Seq(Messages)], NEW own \in BOOLEAN, NEW ok \in BOOLEAN,
         Answer(own, ok)
  PROVE  /\ change' \in {None} \cup Changes /\ untold' \in BOOLEAN
         /\ down' \in [Tab -> Seq(Messages)]
<1>1. CASE own /\ ok BY <1>1, TellType DEF Answer
<1>2. CASE own /\ ~ok BY <1>2 DEF Answer
<1>3. CASE ~own BY <1>3 DEF Answer, ServerTypeOK
<1> QED BY <1>1, <1>2, <1>3

\* The types of the server's steps, and of the messages they send.
DownTypeOK == down \in [Tab -> Seq(Messages)]

LEMMA ServerTypes ==
  ASSUME ServerTypeOK, DownTypeOK, Next
  PROVE  ServerTypeOK' /\ (DownTypeOK' \/ \E t \in Tab : TabStep(t) \/ UserStep(t))
<1>s. /\ chunks \in AnySettings /\ made \in 0..MaxSettings /\ point \in Place /\ seq \in Nat
      /\ fresh \in BOOLEAN /\ stored \in Snapshots /\ journal \in Seq(Records)
      /\ change \in {None} \cup Changes /\ saving \in {None} \cup Saves /\ untold \in BOOLEAN
  BY DEF ServerTypeOK
<1>0. MaxSettings \in Nat BY ViewAssumption
<1>1. ASSUME NEW t \in Tab, TabStep(t) PROVE ServerTypeOK'
  BY <1>1 DEF ServerTypeOK, TabStep, Join, ReceiveSettings, ReceiveBroadcast, EndMove, Lift, server
<1>2. ASSUME NEW t \in Tab, UserStep(t) PROVE ServerTypeOK'
  BY <1>2 DEF ServerTypeOK, UserStep, Press, ChooseMode, Navigate, MiddlePress, Resize, Drop,
              Reload, server
<1>3. ASSUME NEW p \in Place, NEW by, AcceptEdit(by, p) PROVE ServerTypeOK' /\ DownTypeOK'
  <2>1. [kind |-> "edit", seq |-> seq + 1, point |-> p] \in Records BY <1>s DEF Records
  <2>2. journal' \in Seq(Records) BY <1>3, <1>s, <2>1, AppendProperties DEF AcceptEdit
  <2>3. fresh' \in BOOLEAN /\ saving' \in {None} \cup Saves
    <3>1. CASE chunks # Default
      <4>1. Touch BY <1>3, <3>1 DEF AcceptEdit
      <4> QED BY <1>s, <4>1, TouchType
    <3>2. CASE chunks = Default BY <1>3, <1>s, <3>2 DEF AcceptEdit
    <3> QED BY <3>1, <3>2
  <2>4. DownTypeOK'
    <3>1. \A t \in Tab : [type |-> "edit", point |-> p, own |-> t \in by] \in Messages
      BY DEF Messages
    <3>2. \A t \in Tab :
            Append(down[t], [type |-> "edit", point |-> p, own |-> t \in by]) \in Seq(Messages)
      BY <3>1, AppendProperties DEF DownTypeOK
    <3> QED BY <1>3, <3>2 DEF AcceptEdit, DownTypeOK
  <2> QED BY <1>3, <1>s, <2>2, <2>3, <2>4 DEF AcceptEdit, ServerTypeOK
<1>4. ASSUME NEW kind \in {"post", "import"}, BeginChange(kind)
      PROVE  ServerTypeOK' /\ DownTypeOK'
  <2>1. made' = made + 1 /\ made + 1 \in 1..MaxSettings BY <1>4, <1>s, <1>0 DEF BeginChange
  <2>2. chunks' \in AnySettings BY <1>4, <2>1 DEF BeginChange, Settings, AnySettings
  <2>3. change' \in Changes BY <1>4 DEF BeginChange, Changes
  <2>4. fresh' \in BOOLEAN /\ saving' \in {None} \cup Saves
    BY <1>4, <1>s, TouchType DEF BeginChange
  <2>5. made' \in 0..MaxSettings BY <2>1, <1>0
  <2> QED BY <1>4, <1>s, <2>2, <2>3, <2>4, <2>5 DEF BeginChange, ServerTypeOK, DownTypeOK, tabs
<1>5. CASE JournalChange
  <2>1. [kind |-> "settings", seq |-> seq, chunks |-> chunks] \in Records BY <1>s DEF Records
  <2>2. journal' \in Seq(Records) BY <1>5, <1>s, <2>1, AppendProperties DEF JournalChange
  <2>3. change' \in {None} \cup Changes /\ untold' \in BOOLEAN /\ DownTypeOK'
    <3>1. CASE change.kind = "import"
      BY <1>5, <1>s, <3>1, TellType DEF JournalChange, DownTypeOK
    <3>2. CASE change.kind # "import"
      <4>1. change \in Changes BY <1>5, <1>s DEF JournalChange, Journalling
      <4>2. change' = [change EXCEPT !.journalled = TRUE] BY <1>5, <3>2 DEF JournalChange
      <4>3. change' \in Changes BY <4>1, <4>2 DEF Changes
      <4> QED BY <1>5, <1>s, <3>2, <4>3 DEF JournalChange, DownTypeOK
    <3> QED BY <3>1, <3>2
  <2> QED BY <1>5, <1>s, <2>2, <2>3 DEF JournalChange, ServerTypeOK
<1>6. ASSUME NEW own \in BOOLEAN, RequestSave(own) PROVE ServerTypeOK' /\ DownTypeOK'
  <2>1. saving' \in Saves BY <1>6 DEF RequestSave, Saves
  <2> QED BY <1>6, <1>s, <2>1 DEF RequestSave, ServerTypeOK, DownTypeOK, tabs
<1>7. CASE CaptureSave
  <2>1. saving \in Saves /\ saving.own \in BOOLEAN BY <1>7, <1>s DEF CaptureSave, Saves
  <2>2. CASE fresh /\ seq = stored.seq
    <3>1. saving' = None /\ Answer(saving.own, FALSE) BY <1>7, <2>2 DEF CaptureSave
    <3>2. change' \in {None} \cup Changes /\ untold' \in BOOLEAN /\ DownTypeOK'
      BY <2>1, <3>1, AnswerType DEF DownTypeOK
    <3> QED BY <1>7, <1>s, <3>1, <3>2 DEF CaptureSave, ServerTypeOK
  <2>3. CASE ~ (fresh /\ seq = stored.seq)
    <3> DEFINE snap == [chunks |-> chunks, point |-> point, seq |-> seq]
    <3>1. snap \in Snapshots BY <1>s DEF Snapshots
    <3>2. /\ saving' = [saving EXCEPT !.fresh = TRUE, !.captured = snap]
          /\ UNCHANGED <<change, untold, down>>
      BY <1>7, <2>3 DEF CaptureSave
    <3> HIDE DEF snap
    <3>3. saving' \in Saves BY <2>1, <3>1, <3>2 DEF Saves
    <3> QED BY <1>7, <1>s, <3>2, <3>3 DEF CaptureSave, ServerTypeOK, DownTypeOK
  <2> QED BY <2>2, <2>3
<1>8. CASE EndSave
  <2>1. saving \in Saves /\ saving.own \in BOOLEAN /\ saving.captured \in Snapshots
        /\ saving.fresh \in BOOLEAN
    BY <1>8, <1>s DEF EndSave, Saves
  <2>2. /\ saving' = None /\ stored' = saving.captured /\ fresh' = saving.fresh
        /\ Answer(saving.own, TRUE)
    BY <1>8 DEF EndSave
  <2>3. change' \in {None} \cup Changes /\ untold' \in BOOLEAN /\ DownTypeOK'
    BY <2>1, <2>2, AnswerType DEF DownTypeOK
  <2> QED BY <1>8, <1>s, <2>1, <2>2, <2>3 DEF EndSave, ServerTypeOK
<1>9. CASE FailSave
  <2>1. saving.own \in BOOLEAN BY <1>9, <1>s DEF FailSave, Saves
  <2>2. saving' = None /\ Answer(saving.own, FALSE) BY <1>9 DEF FailSave
  <2>3. change' \in {None} \cup Changes /\ untold' \in BOOLEAN /\ DownTypeOK'
    BY <2>1, <2>2, AnswerType DEF DownTypeOK
  <2> QED BY <1>9, <1>s, <2>2, <2>3 DEF FailSave, ServerTypeOK
<1>10. CASE Restart
  <2>1. chunks' \in AnySettings /\ point' \in Place BY <1>10, LoadedType DEF Restart
  <2>2. fresh' \in BOOLEAN BY <1>10 DEF Restart
  <2>3. DownTypeOK' BY <1>10, EmptySeq DEF Restart, DownTypeOK
  <2> QED BY <1>10, <1>s, <2>1, <2>2, <2>3 DEF Restart, ServerTypeOK
<1> QED BY <1>1, <1>2, <1>3, <1>4, <1>5, <1>6, <1>7, <1>8, <1>9, <1>10 DEF Next

\* q without its item k is r.
Removed(q, k, r) ==
  /\ Len(r) = Len(q) - 1
  /\ \A j \in 1..k-1 : r[j] = q[j]
  /\ \A j \in k..Len(q)-1 : r[j] = q[j+1]

LEMMA WithoutItemRemoves ==
  ASSUME NEW q \in Seq(Messages), NEW k \in DOMAIN q
  PROVE  WithoutItem(q, k) \in Seq(Messages) /\ Removed(q, k, WithoutItem(q, k))
<1>1. Len(q) \in Nat /\ DOMAIN q = 1..Len(q) BY LenProperties
<1>2. k \in 1..Len(q) BY <1>1
<1>3. k - 1 \in 0..Len(q) /\ k + 1 \in Nat \ {0} /\ Len(q) \in 0..Len(q) BY <1>1, <1>2
<1> DEFINE a == SubSeq(q, 1, k - 1)
           b == SubSeq(q, k + 1, Len(q))
<1>4. a \in Seq(Messages) /\ Len(a) = k - 1 /\ \A j \in 1..k-1 : a[j] = q[j]
  BY <1>3, InitialPart
<1>5. /\ b \in Seq(Messages) /\ Len(b) = (IF k + 1 <= Len(q) THEN Len(q) - (k + 1) + 1 ELSE 0)
      /\ \A j \in 1..Len(q) - (k + 1) + 1 : b[j] = q[(k + 1) + j - 1]
  BY <1>3, SubSeqType
<1>6. Len(b) = Len(q) - k /\ \A j \in 1..Len(q) - k : b[j] = q[k + j] BY <1>1, <1>2, <1>5
<1>7. WithoutItem(q, k) = a \o b BY DEF WithoutItem
<1> HIDE DEF a, b
<1>8. /\ a \o b \in Seq(Messages) /\ Len(a \o b) = Len(a) + Len(b)
      /\ \A j \in 1..Len(a) + Len(b) : (a \o b)[j] = IF j <= Len(a) THEN a[j] ELSE b[j - Len(a)]
  BY <1>4, <1>5, ConcatProperties
<1> DEFINE r == a \o b
<1> HIDE DEF r
<1>n. Len(a) = k - 1 /\ Len(b) = Len(q) - k /\ Len(a) + Len(b) = Len(q) - 1
  BY <1>1, <1>2, <1>4, <1>6
<1>9. /\ r \in Seq(Messages) /\ Len(r) = Len(q) - 1
      /\ \A j \in 1..Len(q) - 1 : r[j] = IF j <= k - 1 THEN a[j] ELSE b[j - (k - 1)]
  BY <1>8, <1>n DEF r
<1>10. ASSUME NEW j \in 1..k-1 PROVE r[j] = q[j]
  <2>1. j \in 1..Len(q) - 1 /\ j <= k - 1 BY <1>1, <1>2
  <2>2. r[j] = a[j] BY <1>9, <2>1
  <2> QED BY <1>4, <2>2
<1>11. ASSUME NEW j \in k..Len(q)-1 PROVE r[j] = q[j+1]
  <2>1. j \in 1..Len(q) - 1 /\ ~ (j <= k - 1) /\ j - (k - 1) \in 1..Len(q) - k
        /\ k + (j - (k - 1)) = j + 1
    BY <1>1, <1>2
  <2>2. r[j] = b[j - (k - 1)] BY <1>9, <2>1
  <2>3. b[j - (k - 1)] = q[k + (j - (k - 1))] BY <1>6, <2>1
  <2> QED BY <2>1, <2>2, <2>3
<1>12. r \in Seq(Messages) /\ Removed(q, k, r) BY <1>9, <1>10, <1>11 DEF Removed
<1> QED BY <1>7, <1>12 DEF r

LEMMA DownTypes ==
  ASSUME ServerTypeOK, DownTypeOK, online \in [Tab -> BOOLEAN], NEW t \in Tab,
         TabStep(t) \/ UserStep(t)
  PROVE  DownTypeOK'
<1> DEFINE Sets(q) == down' = [down EXCEPT ![t] = q]
<1>1. ASSUME NEW q \in Seq(Messages), Sets(q) PROVE DownTypeOK' BY <1>1 DEF DownTypeOK
<1>2. <<>> \in Seq(Messages) BY EmptySeq
<1>3. CASE Join(t)
  <2>1. ChunkState \in Messages /\ [type |-> "batch"] \in Messages
    BY DEF ChunkState, ServerTypeOK, Messages
  <2>2. <<[type |-> "batch"], ChunkState>> \in Seq(Messages) BY <2>1
  <2>3. Sets(<<[type |-> "batch"], ChunkState>>) BY <1>3 DEF Join
  <2> HIDE DEF Sets
  <2> QED BY <1>1, <2>2, <2>3
<1>4. CASE ReceiveSettings(t)
  <2>1. PICK k \in DOMAIN down[t] : Sets(WithoutItem(down[t], k)) BY <1>4 DEF ReceiveSettings
  <2>2. WithoutItem(down[t], k) \in Seq(Messages) BY WithoutItemRemoves DEF DownTypeOK
  <2> HIDE DEF Sets
  <2> QED BY <1>1, <2>1, <2>2
<1>5. CASE ReceiveBroadcast(t)
  <2>1. down[t] # <<>> /\ Sets(Tail(down[t])) BY <1>5 DEF ReceiveBroadcast
  <2>2. Tail(down[t]) \in Seq(Messages) BY <2>1, HeadTailProperties DEF DownTypeOK
  <2> HIDE DEF Sets
  <2> QED BY <1>1, <2>1, <2>2
<1>6. CASE Drop(t) \/ Reload(t)
  <2>1. Sets(<<>>) BY <1>6 DEF Drop, Reload
  <2> HIDE DEF Sets
  <2> QED BY <1>1, <1>2, <2>1
<1>7. CASE EndMove(t) \/ Lift(t) \/ Press(t) \/ ChooseMode(t) \/ Navigate(t) \/ MiddlePress(t)
             \/ Resize(t)
  BY <1>7 DEF EndMove, Lift, Press, ChooseMode, Navigate, MiddlePress, Resize, DownTypeOK
<1> QED BY <1>3, <1>4, <1>5, <1>6, <1>7 DEF TabStep, UserStep

LEMMA OnlineTypes ==
  ASSUME online \in [Tab -> BOOLEAN], Next
  PROVE  online' \in [Tab -> BOOLEAN]
<1>1. ASSUME NEW t \in Tab, TabStep(t) \/ UserStep(t) PROVE online' \in [Tab -> BOOLEAN]
  BY <1>1 DEF TabStep, UserStep, Join, ReceiveSettings, ReceiveBroadcast, EndMove, Lift,
              Press, ChooseMode, Navigate, MiddlePress, Resize, Drop, Reload
<1> QED BY <1>1 DEF Next, AcceptEdit, BeginChange, JournalChange, RequestSave, CaptureSave,
                    EndSave, FailSave, Restart, tabs

TypeInv == ServerTypeOK /\ TabTypeOK

LEMMA InitTypes == Init => TypeInv
<1> SUFFICES ASSUME Init PROVE TypeInv OBVIOUS
<1>1. 0 \in Place /\ MaxSettings \in Nat BY ViewAssumption DEF Place
<1>2. Default \in AnySettings BY DEF AnySettings
<1>s. <<>> \in Seq(Records) BY EmptySeq
<1>n. [chunks |-> Default, point |-> 0, seq |-> 0] \in Snapshots BY <1>1, <1>2 DEF Snapshots
<1>m. 0 \in 0..MaxSettings /\ 0 \in Nat BY <1>1
<1>3. ServerTypeOK BY <1>1, <1>2, <1>s, <1>n, <1>m DEF Init, ServerTypeOK
<1>4. NewView \in ViewType BY <1>1 DEF NewView, ViewType, Mode
<1>5. TabTypeOK BY <1>4, EmptySeq DEF Init, TabTypeOK
<1> QED BY <1>3, <1>5 DEF TypeInv

LEMMA NextTypes == TypeInv /\ [Next]_vars => TypeInv'
<1> SUFFICES ASSUME TypeInv, [Next]_vars PROVE TypeInv' OBVIOUS
<1>1. ServerTypeOK /\ TabTypeOK /\ DownTypeOK BY DEF TypeInv, TabTypeOK, DownTypeOK
<1>2. TabsFollow BY <1>1, StepFollows
<1>3. CASE UNCHANGED vars
  BY <1>1, <1>3 DEF TypeInv, ServerTypeOK, TabTypeOK, vars, server, tabs
<1>4. CASE Next
  <2>1. ServerTypeOK' /\ (DownTypeOK' \/ \E t \in Tab : TabStep(t) \/ UserStep(t))
    BY <1>1, <1>4, ServerTypes
  <2>2. online' \in [Tab -> BOOLEAN] BY <1>1, <1>4, OnlineTypes DEF TabTypeOK
  <2>3. DownTypeOK' BY <1>1, <2>1, DownTypes DEF TabTypeOK
  <2> QED BY <1>2, <2>1, <2>2, <2>3 DEF TypeInv, TabTypeOK, TabsFollow, DownTypeOK
<1> QED BY <1>3, <1>4

THEOREM TypesHold == Spec => []TypeInv
BY InitTypes, NextTypes, PTL DEF Spec

-----------------------------------------------------------------------------
(* The camera, the view and the choice *)

ShownInv ==
  /\ TypeInv
  /\ \A t \in Tab : KeepsChoice(view[t], saved[t])
  /\ "middle_press" \notin Allowed => \A t \in Tab : Shows(view[t])

LEMMA InitShown == Init => ShownInv
<1> SUFFICES ASSUME Init PROVE ShownInv OBVIOUS
<1>1. TypeInv BY InitTypes
<1>2. \A t \in Tab : view[t] = NewView BY DEF Init
<1>3. KeepsChoice(NewView, None) /\ Shows(NewView) BY DEF NewView, KeepsChoice, Shows
<1>4. \A t \in Tab : saved[t] = None BY DEF Init
<1> QED BY <1>1, <1>2, <1>3, <1>4 DEF ShownInv

LEMMA NextShown == ShownInv /\ [Next]_vars => ShownInv'
<1> SUFFICES ASSUME ShownInv, [Next]_vars PROVE ShownInv' OBVIOUS
<1>1. TypeInv' /\ TabsFollow BY NextTypes, StepFollows DEF ShownInv, TypeInv
<1>2. \A t \in Tab : KeepsChoice(view'[t], saved'[t]) BY <1>1 DEF ShownInv, TabsFollow, Follows
<1>3. "middle_press" \notin Allowed => \A t \in Tab : Shows(view'[t])
  BY <1>1 DEF ShownInv, TabsFollow, Follows
<1> QED BY <1>1, <1>2, <1>3 DEF ShownInv

\* In every behaviour the camera never moves under a stroke, whatever is
\* received, chosen, lost or restarted while it is drawn (README.md:449-451).
THEOREM CameraNeverMovesUnderAStroke == Spec => CameraWaitsForStrokes
<1>1. TypeInv /\ [Next]_vars =>
        [\A t \in Tab : view'[t].camera # view[t].camera => ~view'[t].holding]_vars
  <2> SUFFICES ASSUME TypeInv, [Next]_vars
               PROVE  \A t \in Tab : view'[t].camera # view[t].camera => ~view'[t].holding
    OBVIOUS
  <2>1. TabsFollow BY StepFollows DEF TypeInv
  <2> QED BY <2>1 DEF TabsFollow, Follows, CameraWaits
<1> QED BY <1>1, TypesHold, PTL DEF Spec, CameraWaitsForStrokes

THEOREM ShownInvHolds == Spec => []ShownInv
BY InitShown, NextShown, PTL DEF Spec

\* The mode and the chunk that a user chose stay, on every tab, through reloads,
\* lost connections and restarts of the server (README.md:459-465).
THEOREM UserChoicesAreKept == Spec => []ChoicesAreKept
<1>1. ShownInv => ChoicesAreKept
  BY DEF ShownInv, KeepsChoice, ChoicesAreKept
<1> QED BY <1>1, ShownInvHolds, PTL

\* The frame that waits for a stroke has one to wait for, and the camera does
\* not move while a stroke is drawn, unless a middle press ends a stroke that a
\* frame waits for (README.md:451-453).
THEOREM FramesWaitForAStroke == "middle_press" \notin Allowed => (Spec => []TypeOK)
<1>1. "middle_press" \notin Allowed /\ ShownInv => TypeOK
  BY DEF ShownInv, TypeInv, TabTypeOK, Shows, TypeOK
<1> SUFFICES ASSUME "middle_press" \notin Allowed PROVE Spec => []TypeOK OBVIOUS
<1>2. ShownInv => TypeOK BY <1>1
<1> QED BY <1>2, ShownInvHolds, PTL

-----------------------------------------------------------------------------
(* What is on its way to a tab *)

Has(q, type) == \E k \in DOMAIN q : q[k].type = type
IsLast(q, k, type) == \A l \in DOMAIN q : l > k => q[l].type # type

\* What is on its way to a tab that has joined leads to the place p of the latest
\* edit and to the settings s in force, unless these are still open: a change is
\* in hand or was answered with an error.  The first settings and the replay,
\* which the tab needs to show anything, have come or are on their way.
Told(q, v, p, s, open) ==
  /\ \A k \in DOMAIN q : q[k].type # "batch" /\ IsLast(q, k, "edit") => q[k].point = p
  /\ ~Has(q, "edit") /\ ~Has(q, "chunks") => v.point = p
  /\ \A k \in DOMAIN q : q[k].type = "chunks" /\ IsLast(q, k, "chunks") =>
       q[k].settings = s \/ open
  /\ ~Has(q, "chunks") => v.settings = s \/ open
  /\ v.received \/ Has(q, "chunks")
  /\ ~v.awaiting \/ Has(q, "batch")
Open == untold \/ change # None
TellInv == \A t \in Tab : online[t] => Told(down[t], view[t], point, chunks, Open)

LEMMA TailRemoves ==
  ASSUME NEW q \in Seq(Messages), q # <<>>
  PROVE  1 \in DOMAIN q /\ Tail(q) \in Seq(Messages) /\ Removed(q, 1, Tail(q)) /\ Head(q) = q[1]
<1>1. Len(q) \in Nat /\ DOMAIN q = 1..Len(q) BY LenProperties
<1>2. /\ Head(q) \in Messages /\ Tail(q) \in Seq(Messages) /\ Len(Tail(q)) = Len(q) - 1
      /\ \A i \in 1..Len(Tail(q)) : Tail(q)[i] = q[i + 1]
  BY HeadTailProperties
<1>3. Len(q) # 0 BY EmptySeq
<1>4. Head(q) = q[1] OBVIOUS
<1> DEFINE r == Tail(q)
<1>5. Len(r) = Len(q) - 1 /\ \A i \in 1..Len(r) : r[i] = q[i + 1] BY <1>2
<1> HIDE DEF r
<1>6. Removed(q, 1, r) BY <1>1, <1>5 DEF Removed
<1> QED BY <1>1, <1>2, <1>3, <1>4, <1>6 DEF r

\* What is left was there before, and is last of its type if it was.
LEMMA RemovedItems ==
  ASSUME NEW q \in Seq(Messages), NEW k \in DOMAIN q, NEW r \in Seq(Messages), Removed(q, k, r)
  PROVE  /\ \A j \in DOMAIN r : \E i \in DOMAIN q :
              /\ i # k /\ r[j] = q[i]
              /\ \A type : (q[k].type # type \/ k < i) /\ IsLast(r, j, type)
                             => IsLast(q, i, type)
         /\ \A i \in DOMAIN q : i # k => \E j \in DOMAIN r : r[j] = q[i]
<1>1. Len(q) \in Nat /\ DOMAIN q = 1..Len(q) /\ Len(r) \in Nat /\ DOMAIN r = 1..Len(r)
  BY LenProperties
<1>2. k \in 1..Len(q) /\ Len(r) = Len(q) - 1 BY <1>1 DEF Removed
<1> DEFINE Old(j) == IF j < k THEN j ELSE j + 1
<1>3. ASSUME NEW j \in DOMAIN r
      PROVE  Old(j) \in DOMAIN q /\ Old(j) # k /\ r[j] = q[Old(j)]
  <2>1. CASE j < k
    <3>1. j \in 1..k-1 BY <1>1, <1>2, <2>1
    <3> QED BY <1>1, <1>2, <2>1, <3>1 DEF Removed
  <2>2. CASE ~ (j < k)
    <3>1. j \in k..Len(q)-1 BY <1>1, <1>2, <2>2
    <3> QED BY <1>1, <1>2, <2>2, <3>1 DEF Removed
  <2> QED BY <2>1, <2>2
<1>4. ASSUME NEW i \in DOMAIN q, i # k
      PROVE  \E j \in DOMAIN r : Old(j) = i
  <2>1. CASE i < k
    <3>1. i \in DOMAIN r /\ Old(i) = i BY <1>1, <1>2, <2>1
    <3> QED BY <3>1
  <2>2. CASE i > k
    <3>1. i - 1 \in DOMAIN r /\ Old(i - 1) = i BY <1>1, <1>2, <2>2
    <3> QED BY <3>1
  <2> QED BY <1>1, <1>4, <2>1, <2>2
<1>5. \A i, j \in DOMAIN r : Old(i) > Old(j) => i > j BY <1>1, <1>2
<1> HIDE DEF Old
<1>6. ASSUME NEW j \in DOMAIN r, NEW type, q[k].type # type \/ k < Old(j), IsLast(r, j, type)
      PROVE  IsLast(q, Old(j), type)
  <2> SUFFICES ASSUME NEW l \in DOMAIN q, l > Old(j) PROVE q[l].type # type BY DEF IsLast
  <2>1. CASE l = k
    <3>1. ~ (k < Old(j)) BY <1>1, <1>3, <2>1
    <3> QED BY <1>6, <2>1, <3>1
  <2>2. CASE l # k
    <3>1. PICK m \in DOMAIN r : Old(m) = l BY <1>4, <2>2
    <3>2. m > j BY <1>5, <3>1
    <3>3. r[m].type # type BY <1>6, <3>2 DEF IsLast
    <3> QED BY <1>3, <3>1, <3>3
  <2> QED BY <2>1, <2>2
<1>7. ASSUME NEW j \in DOMAIN r
      PROVE  \E i \in DOMAIN q :
               /\ i # k /\ r[j] = q[i]
               /\ \A type : (q[k].type # type \/ k < i) /\ IsLast(r, j, type)
                              => IsLast(q, i, type)
  <2>1. Old(j) \in DOMAIN q /\ Old(j) # k /\ r[j] = q[Old(j)] BY <1>3
  <2>2. \A type : (q[k].type # type \/ k < Old(j)) /\ IsLast(r, j, type)
                    => IsLast(q, Old(j), type)
    BY <1>6
  <2> QED BY <2>1, <2>2
<1>8. ASSUME NEW i \in DOMAIN q, i # k PROVE \E j \in DOMAIN r : r[j] = q[i]
  BY <1>3, <1>4, <1>8
<1> QED BY <1>7, <1>8

LEMMA AppendedItems ==
  ASSUME NEW q \in Seq(Messages), NEW m \in Messages
  PROVE  LET r == Append(q, m) IN
         /\ \A type : Has(r, type) <=> (Has(q, type) \/ m.type = type)
         /\ \A k \in DOMAIN r :
              \/ r[k] = m
              \/ /\ k \in DOMAIN q /\ r[k] = q[k]
                 /\ \A type : IsLast(r, k, type) => IsLast(q, k, type) /\ m.type # type
<1> DEFINE r == Append(q, m)
           n == Len(q) + 1
<1>1. Len(q) \in Nat /\ DOMAIN q = 1..Len(q) BY LenProperties
<1>2. /\ r \in Seq(Messages) /\ Len(r) = n /\ r[n] = m
      /\ \A i \in 1..Len(q) : r[i] = q[i]
  BY AppendProperties
<1>3. DOMAIN r = 1..n BY <1>2, LenProperties
<1> HIDE DEF r
<1>4. ASSUME NEW k \in DOMAIN r, k # n
      PROVE  /\ k \in DOMAIN q /\ r[k] = q[k]
             /\ \A type : IsLast(r, k, type) => IsLast(q, k, type) /\ m.type # type
  <2>1. k \in DOMAIN q /\ r[k] = q[k] /\ k < n BY <1>1, <1>2, <1>3, <1>4
  <2>2. \A l \in DOMAIN q : l \in DOMAIN r /\ r[l] = q[l] BY <1>1, <1>2, <1>3
  <2>3. n \in DOMAIN r /\ n > k BY <1>1, <1>3, <2>1
  <2> QED BY <1>2, <2>1, <2>2, <2>3 DEF IsLast
<1>5. ASSUME NEW type PROVE Has(r, type) <=> (Has(q, type) \/ m.type = type)
  <2>1. \A l \in DOMAIN q : l \in DOMAIN r /\ r[l] = q[l] BY <1>1, <1>2, <1>3
  <2>2. n \in DOMAIN r BY <1>1, <1>3
  <2>3. \A k \in DOMAIN r : k = n \/ k \in DOMAIN q BY <1>1, <1>3
  <2> QED BY <1>2, <2>1, <2>2, <2>3 DEF Has
<1>6. \A k \in DOMAIN r :
        \/ r[k] = m
        \/ /\ k \in DOMAIN q /\ r[k] = q[k]
           /\ \A type : IsLast(r, k, type) => IsLast(q, k, type) /\ m.type # type
  BY <1>2, <1>4
<1> QED BY <1>5, <1>6 DEF r

LEMMA ToldEdit ==
  ASSUME NEW q \in Seq(Messages), NEW v, NEW p \in Place, NEW s, NEW open, NEW place \in Place,
         NEW own \in BOOLEAN, Told(q, v, p, s, open)
  PROVE  Told(Append(q, [type |-> "edit", point |-> place, own |-> own]), v, place, s, open)
<1> DEFINE m == [type |-> "edit", point |-> place, own |-> own]
           r == Append(q, m)
<1>1. m \in Messages /\ m.type = "edit" /\ m.point = place BY DEF Messages
<1> HIDE DEF m
<1>2. /\ \A type : Has(r, type) <=> (Has(q, type) \/ m.type = type)
      /\ \A k \in DOMAIN r :
           \/ r[k] = m
           \/ /\ k \in DOMAIN q /\ r[k] = q[k]
              /\ \A type : IsLast(r, k, type) => IsLast(q, k, type) /\ m.type # type
  BY <1>1, AppendedItems
<1> HIDE DEF r
<1>3. Told(r, v, place, s, open) BY <1>1, <1>2 DEF Told
<1> QED BY <1>3 DEF r, m

LEMMA ToldSettings ==
  ASSUME NEW q \in Seq(Messages), NEW v, NEW p \in Place, NEW s, NEW open,
         NEW set \in AnySettings, NEW settled, Told(q, v, p, s, open)
  PROVE  Told(Append(q, [type |-> "chunks", settings |-> set, point |-> p]), v, p, set, settled)
<1> DEFINE m == [type |-> "chunks", settings |-> set, point |-> p]
           r == Append(q, m)
<1>1. m \in Messages /\ m.type = "chunks" /\ m.point = p /\ m.settings = set BY DEF Messages
<1> HIDE DEF m
<1>2. /\ \A type : Has(r, type) <=> (Has(q, type) \/ m.type = type)
      /\ \A k \in DOMAIN r :
           \/ r[k] = m
           \/ /\ k \in DOMAIN q /\ r[k] = q[k]
              /\ \A type : IsLast(r, k, type) => IsLast(q, k, type) /\ m.type # type
  BY <1>1, AppendedItems
<1> HIDE DEF r
<1>3. Told(r, v, p, set, settled) BY <1>1, <1>2 DEF Told
<1> QED BY <1>3 DEF r, m

LEMMA ToldOpen ==
  ASSUME NEW q, NEW v, NEW p, NEW s, NEW open, NEW set, NEW now, now, Told(q, v, p, s, open)
  PROVE  Told(q, v, p, set, now)
BY DEF Told

\* What a step that receives nothing leaves alone in a view.
SameNews(v, w) ==
  /\ w.settings = v.settings /\ w.point = v.point
  /\ w.received = v.received /\ w.awaiting = v.awaiting

LEMMA ToldSame ==
  ASSUME NEW q, NEW v, NEW w, NEW p, NEW s, NEW open, SameNews(v, w), Told(q, v, p, s, open)
  PROVE  Told(q, w, p, s, open)
BY DEF Told, SameNews

\* The tab receives the first settings on their way.
LEMMA ToldReceived ==
  ASSUME NEW q \in Seq(Messages), NEW k \in DOMAIN q, NEW v, NEW w, NEW p, NEW s, NEW open,
         NEW r \in Seq(Messages), Removed(q, k, r), Told(q, v, p, s, open),
         q[k].type = "chunks", \A l \in 1..k-1 : q[l].type # "chunks",
         w.settings = q[k].settings, w.point = q[k].point, w.received, w.awaiting = v.awaiting
  PROVE  Told(r, w, p, s, open)
<1>1. Len(q) \in Nat /\ DOMAIN q = 1..Len(q) BY LenProperties
<1>2. /\ \A j \in DOMAIN r : \E i \in DOMAIN q :
           /\ i # k /\ r[j] = q[i]
           /\ \A type : (q[k].type # type \/ k < i) /\ IsLast(r, j, type)
                          => IsLast(q, i, type)
      /\ \A i \in DOMAIN q : i # k => \E j \in DOMAIN r : r[j] = q[i]
  BY RemovedItems
<1>3. \A i \in DOMAIN q : i # k /\ q[i].type = "chunks" => k < i BY <1>1
<1>4. ~Has(r, "edit") => IsLast(q, k, "edit") BY <1>2 DEF Has, IsLast
<1>5. ~Has(r, "chunks") => IsLast(q, k, "chunks") BY <1>1, <1>2, <1>3 DEF Has, IsLast
<1>6. ASSUME NEW j \in DOMAIN r, r[j].type # "batch", IsLast(r, j, "edit")
      PROVE  r[j].point = p
  BY <1>2, <1>6 DEF Told
<1>7. ASSUME NEW j \in DOMAIN r, r[j].type = "chunks", IsLast(r, j, "chunks")
      PROVE  r[j].settings = s \/ open
  <2>1. PICK i \in DOMAIN q :
          /\ i # k /\ r[j] = q[i]
          /\ (q[k].type # "chunks" \/ k < i) /\ IsLast(r, j, "chunks") => IsLast(q, i, "chunks")
    BY <1>2
  <2>2. k < i BY <1>3, <1>7, <2>1
  <2> QED BY <1>7, <2>1, <2>2 DEF Told
<1>8. w.point = p \/ Has(r, "edit") BY <1>4 DEF Told
<1>9. w.settings = s \/ open \/ Has(r, "chunks") BY <1>5 DEF Told
<1>10. Has(q, "batch") => Has(r, "batch") BY <1>2 DEF Has
<1>11. ~w.awaiting \/ Has(r, "batch") BY <1>10 DEF Told
<1> QED BY <1>6, <1>7, <1>8, <1>9, <1>11 DEF Told

\* The tab receives the broadcast that is next.
LEMMA ToldBroadcast ==
  ASSUME NEW q \in Seq(Messages), q # <<>>, NEW v, NEW w, NEW p, NEW s, NEW open,
         Told(q, v, p, s, open), Head(q).type # "chunks",
         w.settings = v.settings, w.received = v.received,
         IF Head(q).type = "batch" THEN w.point = v.point /\ ~w.awaiting
         ELSE w.point = Head(q).point /\ w.awaiting = v.awaiting
  PROVE  Told(Tail(q), w, p, s, open)
<1> DEFINE r == Tail(q)
<1>1. 1 \in DOMAIN q /\ r \in Seq(Messages) /\ Removed(q, 1, r) /\ Head(q) = q[1]
  BY TailRemoves
<1>2. Len(q) \in Nat /\ DOMAIN q = 1..Len(q) BY LenProperties
<1> HIDE DEF r
<1>3. /\ \A j \in DOMAIN r : \E i \in DOMAIN q :
           /\ i # 1 /\ r[j] = q[i]
           /\ \A type : (q[1].type # type \/ 1 < i) /\ IsLast(r, j, type)
                          => IsLast(q, i, type)
      /\ \A i \in DOMAIN q : i # 1 => \E j \in DOMAIN r : r[j] = q[i]
  BY <1>1, RemovedItems
<1>4. \A i \in DOMAIN q : i # 1 => 1 < i BY <1>2
<1>5. \A type : q[1].type # type => (Has(r, type) <=> Has(q, type)) BY <1>1, <1>3 DEF Has
<1>6. ~Has(r, "edit") => IsLast(q, 1, "edit") BY <1>3, <1>4 DEF Has, IsLast
<1>7. ASSUME NEW j \in DOMAIN r, r[j].type # "batch", IsLast(r, j, "edit")
      PROVE  r[j].point = p
  BY <1>3, <1>4, <1>7 DEF Told
<1>8. ASSUME NEW j \in DOMAIN r, r[j].type = "chunks", IsLast(r, j, "chunks")
      PROVE  r[j].settings = s \/ open
  BY <1>3, <1>4, <1>8 DEF Told
<1>9. Has(r, "chunks") <=> Has(q, "chunks") BY <1>1, <1>5
<1>10. w.point = p \/ Has(r, "edit") \/ Has(r, "chunks")
  <2>1. CASE Head(q).type = "batch"
    <3>1. Has(r, "edit") <=> Has(q, "edit") BY <1>1, <1>5, <2>1
    <3> QED BY <1>9, <2>1, <3>1 DEF Told
  <2>2. CASE Head(q).type # "batch" BY <1>1, <1>6, <2>2 DEF Told
  <2> QED BY <2>1, <2>2
<1>11. ~w.awaiting \/ Has(r, "batch")
  <2>1. CASE Head(q).type = "batch" BY <2>1
  <2>2. CASE Head(q).type # "batch"
    <3>1. Has(r, "batch") <=> Has(q, "batch") BY <1>1, <1>5, <2>2
    <3> QED BY <2>2, <3>1 DEF Told
  <2> QED BY <2>1, <2>2
<1>12. Told(r, w, p, s, open) BY <1>7, <1>8, <1>9, <1>10, <1>11 DEF Told
<1> QED BY <1>12 DEF r

-----------------------------------------------------------------------------
(* Every step tells the tabs *)

LEMMA ShownNews ==
  ASSUME NEW x \in ViewType
  PROVE  LET w == SyncFrame(x, FALSE) IN SameNews(x, w) /\ w.holding \in BOOLEAN
<1> DEFINE w == SyncFrame(x, FALSE)
<1>1. w \in ViewType /\ SameView(x, w) BY SyncView
<1> HIDE DEF w
<1>2. SameNews(x, w) /\ w.holding \in BOOLEAN BY <1>1 DEF SameView, SameNews, ViewType
<1> QED BY <1>2 DEF w

LEMMA ChoseNews ==
  ASSUME NEW y \in ViewType
  PROVE  Chose(y) \in ViewType /\ SameNews(y, Chose(y))
<1> DEFINE c == [mode |-> y.mode, focus |-> y.focus]
<1>1. c \in [mode : Mode, focus : Place] BY DEF ViewType
<1>2. Chose(y) = y \/ Chose(y) = [y EXCEPT !.chosen = c] BY DEF Chose
<1> HIDE DEF c
<1> QED BY <1>1, <1>2 DEF ViewType, SameNews

LEMMA ReceivedView ==
  ASSUME TabTypeOK, NEW t \in Tab, NEW s \in AnySettings, NEW p \in Place
  PROVE  LET x == Receive(t, view[t], s, p) IN
         /\ x \in ViewType /\ x.settings = s /\ x.point = p /\ x.received = TRUE
         /\ x.awaiting = view[t].awaiting
<1> DEFINE v == view[t]
           old == saved[t]
           next == [v EXCEPT !.settings = s, !.point = p, !.received = TRUE]
           adopted == [next EXCEPT !.mode = s.viewMode, !.focus = p, !.chosen = None]
           found == [next EXCEPT !.mode = old.mode, !.focus = old.focus]
           Like(x) == /\ x \in ViewType /\ x.settings = s /\ x.point = p /\ x.received = TRUE
                      /\ x.awaiting = v.awaiting
<1>1. v \in ViewType /\ old \in {None} \cup Memories BY DEF TabTypeOK
<1>2. s.viewMode \in Mode BY SettingsType
<1>0. \/ Receive(t, v, s, p) = next \/ Receive(t, v, s, p) = adopted
      \/ old # None /\ Receive(t, v, s, p) = found
  BY DEF Receive
<1>v. Receive(t, v, s, p) = Receive(t, view[t], s, p) OBVIOUS
<1> HIDE DEF v, old
<1>3. Like(next) BY <1>1 DEF ViewType, AnySettings
<1> HIDE DEF next
<1>a. adopted \in ViewType BY <1>2, <1>3, ZenonT(30) DEF ViewType
<1>b. /\ adopted.settings = s /\ adopted.point = p /\ adopted.received = TRUE
      /\ adopted.awaiting = v.awaiting
  BY <1>3 DEF ViewType
<1>4. Like(adopted) BY <1>a, <1>b
<1>5. old # None => Like(found) BY <1>1, <1>3 DEF ViewType, Memories
<1> HIDE DEF adopted, found
<1>6. Like(Receive(t, v, s, p)) BY <1>0, <1>3, <1>4, <1>5
<1> QED BY <1>6 DEF v

\* A user's step, and what the camera and the tools do, receives nothing.
LEMMA QuietSteps ==
  ASSUME TabTypeOK, NEW t \in Tab,
         EndMove(t) \/ Lift(t) \/ Press(t) \/ ChooseMode(t) \/ Navigate(t) \/ MiddlePress(t)
           \/ Resize(t)
  PROVE  /\ UNCHANGED <<server, online, down>>
         /\ \A u \in Tab : SameNews(view[u], view'[u])
<1> DEFINE v == view[t]
<1>t. v \in ViewType /\ view \in [Tab -> ViewType] /\ v.mode \in Mode
  BY DEF TabTypeOK, ViewType
<1>0. 0 \in Place /\ "free" \in Mode /\ "chunk" \in Mode BY ViewAssumption DEF Place, Mode
<1>1. UNCHANGED <<server, online, down>>
  BY DEF EndMove, Lift, Press, ChooseMode, Navigate, MiddlePress, Resize
<1>2. ASSUME NEW w, view' = [view EXCEPT ![t] = w], SameNews(v, w)
      PROVE  \A u \in Tab : SameNews(view[u], view'[u])
  BY <1>2, <1>t DEF SameNews
<1>3. ASSUME NEW x \in ViewType, ShowsView(t, x), SameNews(v, x)
      PROVE  \A u \in Tab : SameNews(view[u], view'[u])
  <2>1. SameNews(x, SyncFrame(x, FALSE)) BY <1>3, ShownNews
  <2>2. SameNews(v, SyncFrame(x, FALSE)) BY <1>3, <2>1 DEF SameNews
  <2>3. view' = [view EXCEPT ![t] = SyncFrame(x, FALSE)] BY <1>3 DEF ShowsView
  <2> QED BY <1>2, <2>2, <2>3
<1>4. ASSUME NEW y \in ViewType, ShowsView(t, Chose(y)), SameNews(v, y)
      PROVE  \A u \in Tab : SameNews(view[u], view'[u])
  <2>1. Chose(y) \in ViewType /\ SameNews(y, Chose(y)) BY <1>4, ChoseNews
  <2>2. SameNews(v, Chose(y)) BY <1>4, <2>1 DEF SameNews
  <2> QED BY <1>3, <1>4, <2>1, <2>2
<1>5. ASSUME NEW x \in ViewType, NEW mode \in Mode, NEW centre \in Place
      PROVE  SetMode(x, mode, centre) \in ViewType /\ SameNews(x, SetMode(x, mode, centre))
  BY <1>5, SetModeView DEF SameNews
<1>6. CASE EndMove(t)
  <2>1. view' = [view EXCEPT ![t] = [v EXCEPT !.moving = FALSE]] BY <1>6, <1>t DEF EndMove
  <2>2. SameNews(v, [v EXCEPT !.moving = FALSE]) BY <1>t DEF SameNews, ViewType
  <2> QED BY <1>1, <1>2, <2>1, <2>2
<1>7. CASE Lift(t)
  <2>1. SameView(v, ReleaseHold(v)) BY <1>t, ReleaseView
  <2>2. SameNews(v, ReleaseHold(v)) BY <2>1 DEF SameView, SameNews
  <2> QED BY <1>1, <1>2, <1>7, <2>2 DEF Lift
<1>8. CASE Press(t)
  <2>1. view' = [view EXCEPT ![t] = [v EXCEPT !.holding = TRUE]] BY <1>8, <1>t DEF Press
  <2>2. SameNews(v, [v EXCEPT !.holding = TRUE]) BY <1>t DEF SameNews, ViewType
  <2> QED BY <1>1, <1>2, <2>1, <2>2
<1>9. CASE ChooseMode(t)
  <2>1. PICK mode \in Mode, centre \in Place : ShowsView(t, Chose(SetMode(v, mode, centre)))
    BY <1>9 DEF ChooseMode
  <2>2. SetMode(v, mode, centre) \in ViewType /\ SameNews(v, SetMode(v, mode, centre))
    BY <1>t, <1>5
  <2> QED BY <1>1, <1>4, <2>1, <2>2
<1>10. CASE Navigate(t)
  <2>1. CASE v.mode = "free"
    <3> DEFINE w == [v EXCEPT !.holding = FALSE, !.moving = TRUE]
    <3>1. view' = [view EXCEPT ![t] = w] BY <1>10, <1>t, <2>1 DEF Navigate
    <3>2. SameNews(v, w) BY <1>t DEF SameNews, ViewType
    <3> HIDE DEF w
    <3> QED BY <1>1, <1>2, <3>1, <3>2
  <2>2. CASE v.mode # "free"
    <3>1. PICK p \in Place : ShowsView(t, Chose([SetMode(v, "chunk", p) EXCEPT !.focus = p]))
      BY <1>10, <2>2 DEF Navigate
    <3> DEFINE z == SetMode(v, "chunk", p)
               y == [z EXCEPT !.focus = p]
    <3>2. z \in ViewType /\ SameNews(v, z) BY <1>0, <1>t, <1>5
    <3>3. ShowsView(t, Chose(y)) BY <3>1
    <3> HIDE DEF z
    <3>4. y \in ViewType /\ SameNews(z, y) BY <3>2 DEF ViewType, SameNews
    <3> HIDE DEF y
    <3>5. SameNews(v, y) BY <3>2, <3>4 DEF SameNews
    <3> QED BY <1>1, <1>4, <3>3, <3>4, <3>5
  <2> QED BY <2>1, <2>2
<1>11. CASE MiddlePress(t)
  <2> DEFINE u == [v EXCEPT !.holding = FALSE]
  <2>1. u \in ViewType /\ SameNews(v, u) /\ u.mode = v.mode BY <1>t DEF ViewType, SameNews
  <2>2. CASE view' = [view EXCEPT ![t] = [u EXCEPT !.moving = FALSE]]
    <3> HIDE DEF u
    <3>1. SameNews(v, [u EXCEPT !.moving = FALSE]) BY <2>1 DEF SameNews, ViewType
    <3> QED BY <1>1, <1>2, <2>2, <3>1
  <2>3. CASE view' = [view EXCEPT ![t] = u] BY <1>1, <1>2, <2>1, <2>3
  <2>4. CASE ShowsView(t, Chose(SetMode(u, "free", 0)))
    <3> HIDE DEF u
    <3> DEFINE y == SetMode(u, "free", 0)
    <3>1. y \in ViewType /\ SameNews(u, y) BY <1>0, <2>1, <1>5
    <3>2. ShowsView(t, Chose(y)) BY <2>4
    <3> HIDE DEF y
    <3>3. SameNews(v, y) BY <2>1, <3>1 DEF SameNews
    <3> QED BY <1>1, <1>4, <3>1, <3>2, <3>3
  <2> QED BY <1>11, <2>1, <2>2, <2>3, <2>4 DEF MiddlePress
<1>12. CASE Resize(t)
  <2>1. SameView(v, ApplyFollowFrame(v, TRUE)) BY <1>t, ApplyView
  <2>2. SameNews(v, ApplyFollowFrame(v, TRUE)) BY <2>1 DEF SameView, SameNews
  <2> QED BY <1>1, <1>2, <1>12, <2>2 DEF Resize
<1> QED BY <1>6, <1>7, <1>8, <1>9, <1>10, <1>11, <1>12

\* One tab's step that leaves the server alone; the others are told as before.
LEMMA OneTold ==
  ASSUME TabTypeOK, TellInv, UNCHANGED server, NEW t \in Tab, NEW on \in BOOLEAN, NEW q, NEW w,
         online' = [online EXCEPT ![t] = on], down' = [down EXCEPT ![t] = q],
         view' = [view EXCEPT ![t] = w], on => Told(q, w, point, chunks, Open)
  PROVE  TellInv'
<1>1. Open' = Open /\ point' = point /\ chunks' = chunks BY DEF server, Open
<1>2. ASSUME NEW u \in Tab, online'[u]
      PROVE  Told(down'[u], view'[u], point, chunks, Open)
  <2>1. CASE u = t BY <1>2, <2>1 DEF TabTypeOK
  <2>2. CASE u # t
    <3>1. online'[u] = online[u] /\ down'[u] = down[u] /\ view'[u] = view[u]
      BY <2>2 DEF TabTypeOK
    <3> QED BY <1>2, <3>1 DEF TellInv
  <2> QED BY <2>1, <2>2
<1> QED BY <1>1, <1>2 DEF TellInv

LEMMA TabStepTells ==
  ASSUME TypeInv, TellInv, NEW t \in Tab, TabStep(t) \/ UserStep(t)
  PROVE  TellInv'
<1>0. ServerTypeOK /\ TabTypeOK BY DEF TypeInv
<1> DEFINE v == view[t]
           q == down[t]
<1>t. /\ v \in ViewType /\ q \in Seq(Messages) /\ online \in [Tab -> BOOLEAN]
      /\ chunks \in AnySettings /\ point \in Place
  BY <1>0 DEF TabTypeOK, ServerTypeOK
<1>1. CASE EndMove(t) \/ Lift(t) \/ Press(t) \/ ChooseMode(t) \/ Navigate(t) \/ MiddlePress(t)
             \/ Resize(t)
  <2>1. /\ UNCHANGED <<server, online, down>>
        /\ \A u \in Tab : SameNews(view[u], view'[u])
    BY <1>0, <1>1, QuietSteps
  <2>2. Open' = Open /\ point' = point /\ chunks' = chunks BY <2>1 DEF server, Open
  <2>3. ASSUME NEW u \in Tab, online[u]
        PROVE  Told(down[u], view'[u], point, chunks, Open)
    BY <2>1, <2>3, ToldSame DEF TellInv
  <2> QED BY <2>1, <2>2, <2>3 DEF TellInv
<1>2. CASE Drop(t) \/ Reload(t)
  <2>1. /\ online' = [online EXCEPT ![t] = FALSE] /\ down' = [down EXCEPT ![t] = <<>>]
        /\ UNCHANGED server /\ \E w : view' = [view EXCEPT ![t] = w]
    BY <1>2 DEF Drop, Reload
  <2> QED BY <1>0, <2>1, OneTold
<1>3. CASE Join(t)
  <2>1. PICK canBan \in BOOLEAN : ShowsView(t, [v EXCEPT !.canBan = canBan])
    BY <1>3 DEF Join
  <2> DEFINE x == [v EXCEPT !.canBan = canBan]
             w == SyncFrame(x, FALSE)
             r == <<[type |-> "batch"], ChunkState>>
  <2>2. /\ view' = [view EXCEPT ![t] = w] /\ online' = [online EXCEPT ![t] = TRUE]
        /\ down' = [down EXCEPT ![t] = r] /\ UNCHANGED server
    BY <1>3, <2>1 DEF Join, ShowsView
  <2> HIDE DEF w
  <2>3. DOMAIN r = {1, 2} /\ r[1].type = "batch" /\ r[2] = ChunkState OBVIOUS
  <2>4. ChunkState.type = "chunks" /\ ChunkState.settings = chunks /\ ChunkState.point = point
    BY DEF ChunkState
  <2> HIDE DEF r
  <2>5. Told(r, w, point, chunks, Open) BY <2>3, <2>4 DEF Told, Has
  <2> QED BY <1>0, <2>2, <2>5, OneTold
<1>4. CASE ReceiveSettings(t)
  <2>1. PICK k \in DOMAIN q :
          /\ q[k].type = "chunks" /\ \A l \in 1..k-1 : q[l].type # "chunks"
          /\ down' = [down EXCEPT ![t] = WithoutItem(q, k)]
          /\ ShowsView(t, Receive(t, v, q[k].settings, q[k].point))
          /\ UNCHANGED <<server, online, events>>
    BY <1>4 DEF ReceiveSettings
  <2> DEFINE s == q[k].settings
             p == q[k].point
             x == Receive(t, v, s, p)
             w == SyncFrame(x, FALSE)
             r == WithoutItem(q, k)
  <2>2. r \in Seq(Messages) /\ Removed(q, k, r) BY <1>t, <2>1, WithoutItemRemoves
  <2>3. q[k] \in Messages BY <1>t, <2>1
  <2>4. s \in AnySettings /\ p \in Place BY <2>1, <2>3 DEF Messages
  <2>5. view' = [view EXCEPT ![t] = w] /\ down' = [down EXCEPT ![t] = r] /\ online' = online
        /\ UNCHANGED server
    BY <2>1 DEF ShowsView
  <2> HIDE DEF r, s, p
  <2>6. /\ x \in ViewType /\ x.settings = s /\ x.point = p /\ x.received = TRUE
        /\ x.awaiting = v.awaiting
    <3>1. TabTypeOK BY <1>0
    <3> QED BY <2>4, <3>1, ReceivedView, ZenonT(30)
  <2> HIDE DEF x
  <2>7. SameNews(x, w) BY <2>6, ShownNews
  <2> HIDE DEF w
  <2>8. /\ w.settings = q[k].settings /\ w.point = q[k].point /\ w.received
        /\ w.awaiting = v.awaiting
    BY <2>6, <2>7 DEF SameNews, s, p
  <2>9. ASSUME online[t] PROVE Told(r, w, point, chunks, Open)
    <3>1. Told(q, v, point, chunks, Open) BY <2>9 DEF TellInv
    <3> HIDE DEF q, v
    <3> QED BY <1>t, <2>1, <2>2, <2>8, <3>1, ToldReceived
  <2>10. online[t] \in BOOLEAN /\ online' = [online EXCEPT ![t] = online[t]] BY <1>t, <2>5
  <2> QED BY <1>0, <2>5, <2>9, <2>10, OneTold
<1>5. CASE ReceiveBroadcast(t)
  <2> DEFINE m == Head(q)
             w == IF m.type = "batch" THEN CompleteReplay(v) ELSE Activity(v, m.point, m.own)
             r == Tail(q)
  <2>1. /\ q # <<>> /\ m.type # "chunks" /\ down' = [down EXCEPT ![t] = r]
        /\ view' = [view EXCEPT ![t] = w] /\ online' = online /\ UNCHANGED server
    BY <1>5 DEF ReceiveBroadcast
  <2>2. m \in Messages BY <1>t, <2>1
  <2>3. /\ w.settings = v.settings /\ w.received = v.received
        /\ IF m.type = "batch" THEN w.point = v.point /\ ~w.awaiting
           ELSE w.point = m.point /\ w.awaiting = v.awaiting
    <3>1. CASE m.type = "batch"
      <4> DEFINE x == [v EXCEPT !.awaiting = FALSE]
      <4>1. x \in ViewType /\ x.settings = v.settings /\ x.received = v.received
            /\ x.point = v.point /\ x.awaiting = FALSE
        BY <1>t DEF ViewType
      <4>2. w = SyncFrame(x, FALSE) BY <3>1 DEF CompleteReplay
      <4> HIDE DEF x, w
      <4>3. SameNews(x, w) BY <4>1, <4>2, ShownNews
      <4> QED BY <3>1, <4>1, <4>3 DEF SameNews
    <3>2. CASE m.type # "batch"
      <4>1. m.point \in Place /\ m.own \in BOOLEAN BY <2>1, <2>2, <3>2 DEF Messages
      <4> DEFINE x == [v EXCEPT !.point = m.point]
      <4>2. x \in ViewType /\ x.settings = v.settings /\ x.received = v.received
            /\ x.point = m.point /\ x.awaiting = v.awaiting
        BY <1>t, <4>1 DEF ViewType
      <4>3. w = x \/ w = SyncFrame(x, m.own) BY <3>2 DEF Activity
      <4> HIDE DEF x, w, m
      <4>4. SameView(x, x) /\ SameView(x, SyncFrame(x, m.own)) BY <4>1, <4>2, SyncView DEF SameView
      <4>5. SameView(x, w) BY <4>3, <4>4
      <4> QED BY <3>2, <4>2, <4>5 DEF SameView
    <3> QED BY <3>1, <3>2
  <2> HIDE DEF w
  <2>4. ASSUME online[t] PROVE Told(r, w, point, chunks, Open)
    <3>1. Told(q, v, point, chunks, Open) BY <2>4 DEF TellInv
    <3> HIDE DEF q, v
    <3> QED BY <1>t, <2>1, <2>3, <3>1, ToldBroadcast
  <2>5. online[t] \in BOOLEAN /\ online' = [online EXCEPT ![t] = online[t]] BY <1>t, <2>1
  <2> QED BY <1>0, <2>1, <2>4, <2>5, OneTold
<1> QED BY <1>1, <1>2, <1>3, <1>4, <1>5 DEF TabStep, UserStep

\* The settings in force are told, and the change is answered.
LEMMA TellTells ==
  ASSUME TypeInv, TellInv, Tell(ChunkState), UNCHANGED <<online, view, point, chunks>>
  PROVE  TellInv'
<1>1. /\ down \in [Tab -> Seq(Messages)] /\ chunks \in AnySettings /\ point \in Place
  BY DEF TypeInv, TabTypeOK, ServerTypeOK
<1>2. ASSUME NEW t \in Tab, online[t]
      PROVE  Told(down'[t], view[t], point, chunks, Open')
  <2>1. Told(down[t], view[t], point, chunks, Open) BY <1>2 DEF TellInv
  <2>2. down[t] \in Seq(Messages) BY <1>1
  <2>3. Told(Append(down[t], ChunkState), view[t], point, chunks, Open')
    BY <1>1, <2>1, <2>2, ToldSettings DEF ChunkState
  <2>4. down'[t] = Append(down[t], ChunkState) BY <1>2 DEF Tell
  <2> QED BY <2>3, <2>4
<1> QED BY <1>2 DEF TellInv

\* What is on its way stays as it is, and the settings are open if they were.
LEMMA StaysTold ==
  ASSUME TellInv, UNCHANGED <<online, view, down, point>>,
         Open' \/ (chunks' = chunks /\ ~Open /\ ~Open')
  PROVE  TellInv'
<1>1. CASE Open' BY <1>1, ToldOpen DEF TellInv
<1>2. CASE ~Open' /\ ~Open /\ chunks' = chunks
  <2>1. \A t \in Tab : online[t] => Told(down[t], view[t], point, chunks, Open')
    BY <1>2 DEF TellInv, Told
  <2> QED BY <1>2, <2>1 DEF TellInv
<1> QED BY <1>1, <1>2

LEMMA AnswerTells ==
  ASSUME TypeInv, TellInv, NEW own \in BOOLEAN, NEW ok \in BOOLEAN, Answer(own, ok),
         UNCHANGED <<online, view, point, chunks>>
  PROVE  TellInv'
<1>1. CASE own /\ ok BY <1>1, TellTells DEF Answer
<1>2. CASE own /\ ~ok
  <2>1. Open' /\ UNCHANGED down BY <1>2 DEF Answer, Open
  <2> QED BY <2>1, StaysTold
<1>3. CASE ~own
  <2>1. (Open' <=> Open) /\ UNCHANGED down BY <1>3 DEF Answer, Open
  <2> QED BY <2>1, StaysTold
<1> QED BY <1>1, <1>2, <1>3

LEMMA NextTells == TypeInv /\ TellInv /\ [Next]_vars => TellInv'
<1> SUFFICES ASSUME TypeInv, TellInv, [Next]_vars PROVE TellInv' OBVIOUS
<1>0. ServerTypeOK /\ TabTypeOK BY DEF TypeInv
<1>t. down \in [Tab -> Seq(Messages)] /\ point \in Place BY <1>0 DEF TabTypeOK, ServerTypeOK
<1>1. CASE UNCHANGED vars
  <2>1. UNCHANGED <<online, view, down, point, chunks>> /\ Open' = Open
    BY <1>1 DEF vars, server, tabs, Open
  <2> QED BY <2>1, StaysTold
<1>2. ASSUME NEW t \in Tab, TabStep(t) \/ UserStep(t) PROVE TellInv' BY <1>2, TabStepTells
<1>3. ASSUME NEW p \in Place, NEW by, AcceptEdit(by, p) PROVE TellInv'
  <2>1. point' = p /\ UNCHANGED <<online, view, chunks>> /\ Open' = Open
    BY <1>3 DEF AcceptEdit, Open
  <2>2. ASSUME NEW t \in Tab, online[t] PROVE Told(down'[t], view[t], p, chunks, Open)
    <3> DEFINE own == t \in by
               m == [type |-> "edit", point |-> p, own |-> own]
    <3>1. down'[t] = Append(down[t], m) BY <1>3, <2>2 DEF AcceptEdit
    <3>2. own \in BOOLEAN OBVIOUS
    <3>3. Told(down[t], view[t], point, chunks, Open) BY <2>2 DEF TellInv
    <3>4. down[t] \in Seq(Messages) BY <1>t
    <3> HIDE DEF own
    <3>5. Told(Append(down[t], m), view[t], p, chunks, Open)
      BY <1>t, <3>2, <3>3, <3>4, ToldEdit
    <3> QED BY <3>1, <3>5
  <2> QED BY <2>1, <2>2 DEF TellInv
<1>4. ASSUME NEW kind \in {"post", "import"}, BeginChange(kind) PROVE TellInv'
  <2>1. change' \in Changes BY <1>4 DEF BeginChange, Changes
  <2>2. Open' BY <2>1, NoneIsNoRecord DEF Open
  <2>3. UNCHANGED <<online, view, down, point>> BY <1>4 DEF BeginChange, tabs
  <2> QED BY <2>2, <2>3, StaysTold
<1>5. CASE JournalChange
  <2>1. CASE change.kind = "import" BY <1>5, <2>1, TellTells DEF JournalChange
  <2>2. CASE change.kind # "import"
    <3>1. change \in Changes BY <1>0, <1>5 DEF JournalChange, Journalling, ServerTypeOK
    <3>2. change' = [change EXCEPT !.journalled = TRUE] /\ UNCHANGED <<online, view, down, point>>
      BY <1>5, <2>2 DEF JournalChange
    <3>3. change' \in Changes BY <3>1, <3>2 DEF Changes
    <3>4. Open' BY <3>3, NoneIsNoRecord DEF Open
    <3> QED BY <3>2, <3>4, StaysTold
  <2> QED BY <2>1, <2>2
<1>6. ASSUME NEW own \in BOOLEAN, RequestSave(own) PROVE TellInv'
  <2>1. UNCHANGED <<online, view, down, point, chunks>> /\ Open' = Open
    BY <1>6 DEF RequestSave, tabs, Open
  <2> QED BY <2>1, StaysTold
<1>7. CASE CaptureSave
  <2>1. saving.own \in BOOLEAN BY <1>0, <1>7 DEF CaptureSave, ServerTypeOK, Saves
  <2>2. UNCHANGED <<online, view, point, chunks>> BY <1>7 DEF CaptureSave
  <2>3. Answer(saving.own, FALSE) \/ (Open' = Open /\ UNCHANGED down)
    BY <1>7 DEF CaptureSave, Open
  <2>4. CASE Answer(saving.own, FALSE) BY <2>1, <2>2, <2>4, AnswerTells
  <2>5. CASE Open' = Open /\ UNCHANGED down BY <2>2, <2>5, StaysTold
  <2> QED BY <2>3, <2>4, <2>5
<1>8. CASE EndSave
  <2>1. saving.own \in BOOLEAN BY <1>0, <1>8 DEF EndSave, ServerTypeOK, Saves
  <2>2. Answer(saving.own, TRUE) /\ UNCHANGED <<online, view, point, chunks>> BY <1>8 DEF EndSave
  <2> QED BY <2>1, <2>2, AnswerTells
<1>9. CASE FailSave
  <2>1. saving.own \in BOOLEAN BY <1>0, <1>9 DEF FailSave, ServerTypeOK, Saves
  <2>2. Answer(saving.own, FALSE) /\ UNCHANGED <<online, view, point, chunks>>
    BY <1>9 DEF FailSave
  <2> QED BY <2>1, <2>2, AnswerTells
<1>10. CASE Restart BY <1>10 DEF Restart, TellInv
<1> QED BY <1>1, <1>2, <1>3, <1>4, <1>5, <1>6, <1>7, <1>8, <1>9, <1>10 DEF Next

LEMMA InitTells == Init => TellInv
BY DEF Init, TellInv

THEOREM TellInvHolds == Spec => []TellInv
BY InitTells, NextTells, TypesHold, PTL DEF Spec

LEMMA NothingOnItsWay ==
  ASSUME TypeInv, TellInv, NEW t \in Tab, Rest(t)
  PROVE  /\ view[t].point = point /\ view[t].received /\ ~view[t].awaiting
         /\ view[t].settings = chunks \/ untold
<1>1. Told(<<>>, view[t], point, chunks, Open) BY DEF Rest, TellInv
<1>2. \A type : ~Has(<<>>, type) BY DEF Has
<1>3. Open => untold BY DEF Rest, Open
<1> QED BY <1>1, <1>2, <1>3 DEF Told

\* Every idle tab that has read everything has the settings in force and the
\* place of the latest edit, unless the moderator got an error (emitChunkState).
THEOREM EveryTabIsTold == Spec => []SettingsReachEveryone
<1>1. TypeInv /\ TellInv => SettingsReachEveryone
  BY NothingOnItsWay DEF SettingsReachEveryone
<1> QED BY <1>1, TypesHold, TellInvHolds, PTL

\* Every idle tab looks at the chunk of its view, unless a middle press ended a
\* stroke that a frame waited for (README, section 12).
THEOREM IdleTabsShowTheView == "middle_press" \notin Allowed => (Spec => []ScreensShowTheView)
<1> SUFFICES ASSUME "middle_press" \notin Allowed PROVE Spec => []ScreensShowTheView OBVIOUS
<1>1. ShownInv /\ TellInv => ScreensShowTheView
  <2> SUFFICES ASSUME ShownInv, TellInv, NEW t \in Tab, Rest(t)
               PROVE  view[t].camera = Frame(view[t])
    BY DEF ScreensShowTheView
  <2>1. view[t].received /\ ~view[t].awaiting BY NothingOnItsWay DEF ShownInv
  <2>2. Shows(view[t]) /\ ~view[t].holding BY DEF ShownInv, Rest
  <2> QED BY <2>1, <2>2 DEF Shows
<1> QED BY <1>1, ShownInvHolds, TellInvHolds, PTL

-----------------------------------------------------------------------------
(* What a load finds *)

\* The settings of the journal, which a load finds unless a save has them.
SettingsOf(log) == {k \in DOMAIN log : log[k].kind = "settings"}
Journalled(log) == IF SettingsOf(log) = {} THEN Default ELSE log[Last0(SettingsOf(log))].chunks
EditsSince(log, snap) == {k \in DOMAIN log : log[k].kind = "edit" /\ log[k].seq > snap.seq}

\* The journal's records are in the order of their numbers.
Ordered(log, latest) ==
  /\ \A k \in DOMAIN log : log[k].seq <= latest
  /\ \A k, l \in DOMAIN log : k <= l => log[k].seq <= log[l].seq

\* Snapshot snap is of the past, and has the settings that were journalled
\* before it, unless later ones follow it.
HasSettings(snap, log, latest) ==
  /\ snap.seq <= latest
  /\ (\A k \in SettingsOf(log) : log[k].seq < snap.seq) => snap.chunks = Journalled(log)

\* The place of the latest edit is in the journal behind snapshot snap, if there
\* is an edit, and in the snapshot, if its place is known, otherwise.
HasPoint(snap, log, place, known) ==
  IF EditsSince(log, snap) # {} THEN place = log[Last0(EditsSince(log, snap))].point
  ELSE known => snap.point = place

\* A save that answers a change of settings has that change, in the journal.
LogInv ==
  /\ Ordered(journal, seq)
  /\ ~Journalling => chunks = Journalled(journal)
  /\ HasSettings(stored, journal, seq) /\ HasPoint(stored, journal, point, stored.chunks # Default)
  /\ saving # None => /\ saving.own => change # None /\ ~Journalling
                      /\ saving.captured # None =>
                           /\ HasSettings(saving.captured, journal, seq)
                           /\ HasPoint(saving.captured, journal, point, TRUE)

LEMMA LastIs ==
  ASSUME NEW n \in Nat, NEW S \in SUBSET (1..n), NEW k \in S, \A l \in S : l <= k
  PROVE  Last0(S) = k
<1>1. Last0(S) \in S /\ \A l \in S : l <= Last0(S) BY LastIsGreatest
<1>2. k <= Last0(S) /\ Last0(S) <= k BY <1>1
<1>3. Last0(S) \in 1..n /\ k \in 1..n BY <1>1
<1> HIDE DEF Last0
<1> QED BY <1>2, <1>3

LEMMA AppendedRecord ==
  ASSUME NEW log \in Seq(Records), NEW m \in Records
  PROVE  /\ Append(log, m) \in Seq(Records) /\ Len(log) \in Nat
         /\ DOMAIN log = 1..Len(log) /\ DOMAIN Append(log, m) = 1..Len(log)+1
         /\ Append(log, m)[Len(log)+1] = m
         /\ \A k \in 1..Len(log) : Append(log, m)[k] = log[k]
<1>1. Len(log) \in Nat /\ DOMAIN log = 1..Len(log) BY LenProperties
<1>2. /\ Append(log, m) \in Seq(Records) /\ Len(Append(log, m)) = Len(log) + 1
      /\ Append(log, m)[Len(log)+1] = m
      /\ \A k \in 1..Len(log) : Append(log, m)[k] = log[k]
  BY AppendProperties
<1>3. DOMAIN Append(log, m) = 1..Len(Append(log, m)) BY <1>2, LenProperties
<1> QED BY <1>1, <1>2, <1>3

LEMMA AppendKeepsOrder ==
  ASSUME NEW log \in Seq(Records), NEW m \in Records, NEW latest \in Nat,
         Ordered(log, latest), latest <= m.seq
  PROVE  Ordered(Append(log, m), m.seq)
<1> DEFINE r == Append(log, m)
           n == Len(log) + 1
<1>1. /\ Len(log) \in Nat /\ DOMAIN log = 1..Len(log) /\ DOMAIN r = 1..n /\ r[n] = m
      /\ r \in Seq(Records) /\ \A k \in 1..Len(log) : r[k] = log[k]
  BY AppendedRecord
<1> HIDE DEF r
<1>2. m.seq \in Nat /\ \A k \in DOMAIN log : log[k].seq \in Nat
  <2>1. \A x \in Records : x.seq \in Nat BY DEF Records
  <2>2. \A k \in DOMAIN log : log[k] \in Records OBVIOUS
  <2> QED BY <2>1, <2>2
<1>3. ASSUME NEW k \in DOMAIN r PROVE r[k].seq <= m.seq
  <2>1. CASE k = n BY <1>1, <1>2, <2>1
  <2>2. CASE k # n
    <3>1. k \in DOMAIN log /\ r[k] = log[k] BY <1>1, <2>2
    <3>2. log[k].seq <= latest BY <3>1 DEF Ordered
    <3> QED BY <1>2, <3>1, <3>2
  <2> QED BY <2>1, <2>2
<1>4. ASSUME NEW k \in DOMAIN r, NEW l \in DOMAIN r, k <= l PROVE r[k].seq <= r[l].seq
  <2>1. CASE l = n BY <1>1, <1>3, <2>1
  <2>2. CASE l # n
    <3>1. k \in DOMAIN log /\ r[k] = log[k] /\ l \in DOMAIN log /\ r[l] = log[l]
      BY <1>1, <1>4, <2>2
    <3> QED BY <1>4, <3>1 DEF Ordered
  <2> QED BY <2>1, <2>2
<1>5. Ordered(r, m.seq) BY <1>3, <1>4 DEF Ordered
<1> QED BY <1>5 DEF r

\* An edit that is appended is the latest, and changes no settings.
LEMMA AppendEdit ==
  ASSUME NEW log \in Seq(Records), NEW m \in Records, m.kind = "edit"
  PROVE  LET r == Append(log, m) IN
         /\ Journalled(r) = Journalled(log) /\ SettingsOf(r) = SettingsOf(log)
         /\ \A k \in SettingsOf(log) : r[k] = log[k]
         /\ \A snap : m.seq > snap.seq =>
              EditsSince(r, snap) # {} /\ r[Last0(EditsSince(r, snap))] = m
<1> DEFINE r == Append(log, m)
           n == Len(log) + 1
<1>1. /\ Len(log) \in Nat /\ DOMAIN log = 1..Len(log) /\ DOMAIN r = 1..n /\ r[n] = m
      /\ \A k \in 1..Len(log) : r[k] = log[k]
  BY AppendedRecord
<1> HIDE DEF r
<1>2. SettingsOf(r) = SettingsOf(log)
  <2>1. ASSUME NEW k \in SettingsOf(r) PROVE k \in SettingsOf(log)
    <3>1. k # n /\ k \in 1..n BY <1>1 DEF SettingsOf
    <3>2. k \in 1..Len(log) BY <1>1, <3>1
    <3> QED BY <1>1, <3>2 DEF SettingsOf
  <2>2. ASSUME NEW k \in SettingsOf(log) PROVE k \in SettingsOf(r)
    <3>1. k \in 1..Len(log) /\ k \in 1..n BY <1>1 DEF SettingsOf
    <3> QED BY <1>1, <3>1 DEF SettingsOf
  <2> QED BY <2>1, <2>2
<1>3. \A k \in SettingsOf(log) : r[k] = log[k] BY <1>1 DEF SettingsOf
<1>4. Journalled(r) = Journalled(log)
  <2>1. CASE SettingsOf(log) = {} BY <1>2, <2>1 DEF Journalled
  <2>2. CASE SettingsOf(log) # {}
    <3>1. SettingsOf(log) \in SUBSET (1..Len(log)) BY <1>1 DEF SettingsOf
    <3>2. Last0(SettingsOf(log)) \in SettingsOf(log) BY <1>1, <2>2, <3>1, LastIsGreatest
    <3>3. r[Last0(SettingsOf(log))] = log[Last0(SettingsOf(log))] BY <1>3, <3>2
    <3> QED BY <1>2, <3>3 DEF Journalled
  <2> QED BY <2>1, <2>2
<1>5. ASSUME NEW snap, m.seq > snap.seq
      PROVE  EditsSince(r, snap) # {} /\ r[Last0(EditsSince(r, snap))] = m
  <2>1. n \in EditsSince(r, snap) BY <1>1, <1>5 DEF EditsSince
  <2>2. EditsSince(r, snap) \in SUBSET (1..n) BY <1>1 DEF EditsSince
  <2>3. \A l \in EditsSince(r, snap) : l <= n BY <1>1, <2>2
  <2>4. n \in Nat BY <1>1
  <2> HIDE DEF n
  <2>5. Last0(EditsSince(r, snap)) = n BY <2>1, <2>2, <2>3, <2>4, LastIs
  <2> QED BY <1>1, <2>1, <2>5
<1> QED BY <1>2, <1>3, <1>4, <1>5 DEF r

\* Settings that are appended are those of the journal, and are no edit.
LEMMA AppendSettings ==
  ASSUME NEW log \in Seq(Records), NEW m \in Records, m.kind = "settings"
  PROVE  LET r == Append(log, m) IN
         /\ Journalled(r) = m.chunks /\ Len(log) + 1 \in SettingsOf(r) /\ r[Len(log) + 1] = m
         /\ \A snap : /\ EditsSince(r, snap) = EditsSince(log, snap)
                      /\ EditsSince(log, snap) # {} =>
                           r[Last0(EditsSince(r, snap))] = log[Last0(EditsSince(log, snap))]
<1> DEFINE r == Append(log, m)
           n == Len(log) + 1
<1>1. /\ Len(log) \in Nat /\ DOMAIN log = 1..Len(log) /\ DOMAIN r = 1..n /\ r[n] = m
      /\ \A k \in 1..Len(log) : r[k] = log[k]
  BY AppendedRecord
<1> HIDE DEF r
<1>2. n \in SettingsOf(r) BY <1>1 DEF SettingsOf
<1>3. Journalled(r) = m.chunks
  <2>1. SettingsOf(r) \in SUBSET (1..n) BY <1>1 DEF SettingsOf
  <2>2. \A l \in SettingsOf(r) : l <= n BY <1>1, <2>1
  <2>3. n \in Nat BY <1>1
  <2> HIDE DEF n
  <2>4. Last0(SettingsOf(r)) = n BY <1>2, <2>1, <2>2, <2>3, LastIs
  <2> QED BY <1>1, <1>2, <2>4 DEF Journalled
<1>4. ASSUME NEW snap
      PROVE  /\ EditsSince(r, snap) = EditsSince(log, snap)
             /\ EditsSince(log, snap) # {} =>
                  r[Last0(EditsSince(r, snap))] = log[Last0(EditsSince(log, snap))]
  <2>1. ASSUME NEW k \in EditsSince(r, snap) PROVE k \in EditsSince(log, snap)
    <3>1. k # n /\ k \in 1..n BY <1>1 DEF EditsSince
    <3>2. k \in 1..Len(log) BY <1>1, <3>1
    <3> QED BY <1>1, <3>2 DEF EditsSince
  <2>2. ASSUME NEW k \in EditsSince(log, snap) PROVE k \in EditsSince(r, snap)
    <3>1. k \in 1..Len(log) /\ k \in 1..n BY <1>1 DEF EditsSince
    <3> QED BY <1>1, <3>1 DEF EditsSince
  <2>3. EditsSince(r, snap) = EditsSince(log, snap) BY <2>1, <2>2
  <2>4. ASSUME EditsSince(log, snap) # {}
        PROVE  r[Last0(EditsSince(r, snap))] = log[Last0(EditsSince(log, snap))]
    <3>1. EditsSince(log, snap) \in SUBSET (1..Len(log)) BY <1>1 DEF EditsSince
    <3>2. Last0(EditsSince(log, snap)) \in EditsSince(log, snap)
      BY <1>1, <2>4, <3>1, LastIsGreatest
    <3>3. Last0(EditsSince(log, snap)) \in 1..Len(log) BY <3>1, <3>2
    <3> QED BY <1>1, <2>3, <3>3
  <2> QED BY <2>3, <2>4
<1> QED BY <1>1, <1>2, <1>3, <1>4 DEF r

\* A load finds the settings of the journal, and the place of the latest edit if
\* the snapshot has settings.
LEMMA LoadFinds ==
  ASSUME ServerTypeOK, LogInv
  PROVE  /\ Loaded.chunks = Journalled(journal)
         /\ EditsSince(journal, stored) # {} \/ stored.chunks # Default => Loaded.point = point
<1>s. journal \in Seq(Records) /\ stored \in Snapshots BY DEF ServerTypeOK
<1>n. Len(journal) \in Nat /\ DOMAIN journal = 1..Len(journal) BY <1>s, LenProperties
<1>q. stored.seq \in Nat /\ \A k \in DOMAIN journal : journal[k].seq \in Nat
  <2>1. \A x \in Records : x.seq \in Nat BY DEF Records
  <2>2. \A k \in DOMAIN journal : journal[k] \in Records BY <1>s
  <2> QED BY <1>s, <2>1, <2>2 DEF Snapshots
<1> DEFINE S == SettingsOf(journal)
           L == LaterSettings
<1>1. /\ S \in SUBSET (1..Len(journal)) /\ L \in SUBSET (1..Len(journal)) /\ L \subseteq S
      /\ \A k \in S : k \in L <=> journal[k].seq >= stored.seq
  BY <1>n DEF SettingsOf, LaterSettings
<1> HIDE DEF S, L
<1>2. Loaded.chunks = Journalled(journal)
  <2>1. CASE L = {}
    <3>1. \A k \in S : journal[k].seq < stored.seq BY <1>1, <1>n, <1>q, <2>1
    <3>2. stored.chunks = Journalled(journal) BY <3>1 DEF LogInv, HasSettings, S
    <3> QED BY <2>1, <3>2 DEF Loaded, L
  <2>2. CASE L # {}
    <3>1. S # {} BY <1>1, <2>2
    <3>2. Last0(S) \in S /\ \A l \in S : l <= Last0(S) BY <1>1, <1>n, <3>1, LastIsGreatest
    <3>3. PICK k \in L : TRUE BY <2>2
    <3>4. journal[k].seq >= stored.seq /\ k <= Last0(S) /\ k \in DOMAIN journal
          /\ Last0(S) \in DOMAIN journal
      BY <1>1, <1>n, <3>2, <3>3
    <3>5. journal[k].seq <= journal[Last0(S)].seq BY <3>4 DEF LogInv, Ordered
    <3>6. Last0(S) \in L BY <1>1, <1>q, <3>2, <3>4, <3>5
    <3>7. \A l \in L : l <= Last0(S) BY <1>1, <3>2
    <3>8. Last0(L) = Last0(S) BY <1>1, <1>n, <3>6, <3>7, LastIs
    <3> QED BY <2>2, <3>1, <3>8 DEF Loaded, Journalled, S, L
  <2> QED BY <2>1, <2>2
<1>3. EditsSince(journal, stored) = LaterEdits BY DEF EditsSince, LaterEdits
<1>4. EditsSince(journal, stored) # {} \/ stored.chunks # Default => Loaded.point = point
  BY <1>3 DEF LogInv, HasPoint, Loaded
<1> QED BY <1>2, <1>4

\* The save in hand has what it had, and the metadata are another object.
LEMMA TouchKeeps ==
  ASSUME ServerTypeOK, Touch \/ UNCHANGED saving
  PROVE  /\ (saving' # None) <=> (saving # None)
         /\ saving # None => saving'.captured = saving.captured /\ saving'.own = saving.own
BY TouchType DEF ServerTypeOK

LEMMA NextLog == ServerTypeOK /\ LogInv /\ [Next]_vars => LogInv'
<1> SUFFICES ASSUME ServerTypeOK, LogInv, [Next]_vars PROVE LogInv' OBVIOUS
<1>s. /\ chunks \in AnySettings /\ point \in Place /\ seq \in Nat
      /\ stored \in Snapshots /\ journal \in Seq(Records)
      /\ change \in {None} \cup Changes /\ saving \in {None} \cup Saves
  BY DEF ServerTypeOK
<1>q. /\ stored.seq \in Nat /\ stored.seq <= seq
      /\ saving # None /\ saving.captured # None =>
           saving.captured \in Snapshots /\ saving.captured.seq \in Nat
             /\ saving.captured.seq <= seq
  BY <1>s DEF LogInv, HasSettings, Snapshots, Saves
<1>1. CASE UNCHANGED server
  BY <1>1 DEF LogInv, server, Journalling
<1>2. ASSUME NEW t \in Tab, TabStep(t) \/ UserStep(t) PROVE UNCHANGED server
  BY <1>2 DEF TabStep, UserStep, Join, ReceiveSettings, ReceiveBroadcast, EndMove, Lift,
              Press, ChooseMode, Navigate, MiddlePress, Resize, Drop, Reload
<1>3. ASSUME NEW p \in Place, NEW by, AcceptEdit(by, p) PROVE LogInv'
  <2> DEFINE m == [kind |-> "edit", seq |-> seq + 1, point |-> p]
  <2>1. m \in Records /\ m.kind = "edit" /\ m.seq = seq + 1 /\ m.point = p BY <1>s DEF Records
  <2>2. /\ journal' = Append(journal, m) /\ seq' = seq + 1 /\ point' = p /\ change = None
        /\ UNCHANGED <<chunks, stored, change>> /\ (Touch \/ UNCHANGED saving)
    BY <1>3 DEF AcceptEdit
  <2> HIDE DEF m
  <2>3. /\ (saving' # None) <=> (saving # None)
        /\ saving # None => saving'.captured = saving.captured /\ saving'.own = saving.own
    BY <2>2, TouchKeeps
  <2> DEFINE r == Append(journal, m)
  <2>a. /\ Journalled(r) = Journalled(journal)
        /\ SettingsOf(r) = SettingsOf(journal)
        /\ \A k \in SettingsOf(journal) : r[k] = journal[k]
        /\ \A snap : m.seq > snap.seq => /\ EditsSince(r, snap) # {}
                                         /\ r[Last0(EditsSince(r, snap))] = m
    BY <1>s, <2>1, AppendEdit
  <2>b. journal' = r BY <2>2
  <2> HIDE DEF r
  <2>4. /\ Journalled(journal') = Journalled(journal)
        /\ SettingsOf(journal') = SettingsOf(journal)
        /\ \A k \in SettingsOf(journal) : journal'[k] = journal[k]
        /\ \A snap : m.seq > snap.seq => /\ EditsSince(journal', snap) # {}
                                         /\ journal'[Last0(EditsSince(journal', snap))] = m
    BY <2>a, <2>b
  <2>5. Ordered(journal', seq') BY <1>s, <2>1, <2>2, AppendKeepsOrder DEF LogInv
  <2>6. ASSUME NEW snap, snap.seq \in Nat, snap.seq <= seq, HasSettings(snap, journal, seq),
               NEW known
        PROVE  HasSettings(snap, journal', seq') /\ HasPoint(snap, journal', point', known)
    <3>1. snap.seq <= seq' /\ m.seq > snap.seq BY <1>s, <2>1, <2>2, <2>6
    <3>2. HasSettings(snap, journal', seq') BY <2>4, <2>6, <3>1 DEF HasSettings
    <3>3. HasPoint(snap, journal', point', known) BY <2>1, <2>2, <2>4, <3>1 DEF HasPoint
    <3> QED BY <3>2, <3>3
  <2>7. HasSettings(stored, journal', seq') /\ HasPoint(stored, journal', point', stored.chunks # Default)
    BY <1>q, <2>6 DEF LogInv
  <2>8. ASSUME saving # None
        PROVE  /\ saving.own => change # None /\ ~Journalling
               /\ saving.captured # None => /\ HasSettings(saving.captured, journal', seq')
                                            /\ HasPoint(saving.captured, journal', point', TRUE)
    BY <1>q, <2>6, <2>8 DEF LogInv
  <2>9. Journalling' = Journalling BY <2>2 DEF Journalling
  <2> QED BY <2>2, <2>3, <2>4, <2>5, <2>7, <2>8, <2>9 DEF LogInv
<1>4. ASSUME NEW kind \in {"post", "import"}, BeginChange(kind) PROVE LogInv'
  <2>1. /\ UNCHANGED <<point, seq, stored, journal>> /\ Touch /\ change = None
        /\ change' = [kind |-> kind, journalled |-> FALSE]
    BY <1>4 DEF BeginChange
  <2>2. /\ (saving' # None) <=> (saving # None)
        /\ saving # None => saving'.captured = saving.captured /\ saving'.own = saving.own
    BY <2>1, TouchKeeps
  <2>3. change' \in Changes BY <2>1 DEF Changes
  <2>4. Journalling' BY <2>1, <2>3, NoneIsNoRecord DEF Journalling
  <2>5. saving # None => ~saving.own BY <2>1 DEF LogInv
  <2> QED BY <2>1, <2>2, <2>4, <2>5 DEF LogInv
<1>5. CASE JournalChange
  <2> DEFINE m == [kind |-> "settings", seq |-> seq, chunks |-> chunks]
  <2>1. m \in Records /\ m.kind = "settings" /\ m.seq = seq /\ m.chunks = chunks
    BY <1>s DEF Records
  <2>2. /\ journal' = Append(journal, m) /\ Journalling
        /\ UNCHANGED <<chunks, point, seq, stored, saving>>
    BY <1>5 DEF JournalChange
  <2> HIDE DEF m
  <2> DEFINE r == Append(journal, m)
  <2>a. /\ Journalled(r) = m.chunks /\ Len(journal) + 1 \in SettingsOf(r)
        /\ r[Len(journal) + 1] = m
        /\ \A snap : /\ EditsSince(r, snap) = EditsSince(journal, snap)
                     /\ EditsSince(journal, snap) # {} =>
                          r[Last0(EditsSince(r, snap))]
                            = journal[Last0(EditsSince(journal, snap))]
    BY <1>s, <2>1, AppendSettings
  <2>b. journal' = r BY <2>2
  <2> HIDE DEF r
  <2>3. /\ Journalled(journal') = chunks /\ Len(journal) + 1 \in SettingsOf(journal')
        /\ journal'[Len(journal) + 1] = m
        /\ \A snap : /\ EditsSince(journal', snap) = EditsSince(journal, snap)
                     /\ EditsSince(journal, snap) # {} =>
                          journal'[Last0(EditsSince(journal', snap))]
                            = journal[Last0(EditsSince(journal, snap))]
    BY <2>1, <2>a, <2>b
  <2>4. Ordered(journal', seq) BY <1>s, <2>1, <2>2, AppendKeepsOrder DEF LogInv
  <2>5. ASSUME NEW snap, snap.seq \in Nat, HasSettings(snap, journal, seq), NEW known,
               HasPoint(snap, journal, point, known)
        PROVE  HasSettings(snap, journal', seq) /\ HasPoint(snap, journal', point, known)
    <3>1. snap.seq <= seq /\ ~ (seq < snap.seq) BY <1>s, <2>5 DEF HasSettings
    <3>2. HasSettings(snap, journal', seq) BY <2>1, <2>3, <3>1 DEF HasSettings
    <3>3. HasPoint(snap, journal', point, known) BY <2>3, <2>5 DEF HasPoint
    <3> QED BY <3>2, <3>3
  <2>6. HasSettings(stored, journal', seq) /\ HasPoint(stored, journal', point, stored.chunks # Default)
    BY <1>q, <2>5 DEF LogInv
  <2>7. ASSUME saving # None
        PROVE  /\ ~saving.own
               /\ saving.captured # None => /\ HasSettings(saving.captured, journal', seq)
                                            /\ HasPoint(saving.captured, journal', point, TRUE)
    BY <1>q, <2>2, <2>5, <2>7 DEF LogInv
  <2> QED BY <2>2, <2>3, <2>4, <2>6, <2>7 DEF LogInv
<1>6. ASSUME NEW own \in BOOLEAN, RequestSave(own) PROVE LogInv'
  <2>1. /\ UNCHANGED <<chunks, point, seq, stored, journal, change>>
        /\ own = (change # None /\ ~Journalling)
        /\ saving'.own = own /\ saving'.captured = None
    BY <1>6 DEF RequestSave
  <2>2. Journalling' = Journalling BY <2>1 DEF Journalling
  <2> QED BY <2>1, <2>2 DEF LogInv
\* The change in hand is answered, and it was journalled.
<1>7. ASSUME NEW own \in BOOLEAN, NEW ok \in BOOLEAN, Answer(own, ok), UNCHANGED <<chunks, journal>>,
             own => ~Journalling
      PROVE  (~Journalling' => chunks' = Journalled(journal')) /\ (~own => change' = change)
  <2>1. CASE own BY <1>7, <2>1 DEF LogInv
  <2>2. CASE ~own
    <3>1. change' = change BY <1>7, <2>2 DEF Answer
    <3>2. Journalling' = Journalling BY <3>1 DEF Journalling
    <3> QED BY <1>7, <2>2, <3>1, <3>2 DEF LogInv
  <2> QED BY <2>1, <2>2
<1>8. CASE CaptureSave
  <2>1. saving # None /\ saving.own \in BOOLEAN /\ saving \in Saves BY <1>8, <1>s DEF CaptureSave, Saves
  <2>2. ~Journalling /\ UNCHANGED <<chunks, point, seq, stored, journal>> BY <1>8 DEF CaptureSave
  <2>3. CASE saving' = None /\ Answer(saving.own, FALSE)
    <3>1. ~Journalling' => chunks' = Journalled(journal') BY <1>7, <2>1, <2>2, <2>3
    <3> QED BY <2>2, <2>3, <3>1 DEF LogInv
  <2>4. CASE /\ saving' = [saving EXCEPT !.fresh = TRUE,
                             !.captured = [chunks |-> chunks, point |-> point, seq |-> seq]]
             /\ UNCHANGED <<change, untold, down>>
    <3> DEFINE snap == [chunks |-> chunks, point |-> point, seq |-> seq]
    <3>1. saving'.own = saving.own /\ saving'.captured = snap BY <2>1, <2>4 DEF Saves
    <3>2. snap.chunks = chunks /\ snap.point = point /\ snap.seq = seq OBVIOUS
    <3> HIDE DEF snap
    <3>3. Journalling' = Journalling BY <2>4 DEF Journalling
    <3>4. seq <= seq BY <1>s
    <3>5. HasSettings(snap, journal, seq) BY <2>2, <3>2, <3>4 DEF HasSettings, LogInv
    <3>6. EditsSince(journal, snap) = {}
      <4> SUFFICES ASSUME NEW k \in EditsSince(journal, snap) PROVE FALSE OBVIOUS
      <4>1. k \in DOMAIN journal /\ journal[k].seq > seq BY <3>2 DEF EditsSince
      <4>2. journal[k].seq <= seq BY <4>1 DEF LogInv, Ordered
      <4>3. journal[k] \in Records BY <1>s, <4>1
      <4>4. journal[k].seq \in Nat BY <4>3 DEF Records
      <4> QED BY <1>s, <4>1, <4>2, <4>4
    <3>7. HasPoint(snap, journal, point, TRUE) BY <3>2, <3>6 DEF HasPoint
    <3> QED BY <2>1, <2>2, <2>4, <3>1, <3>3, <3>5, <3>7 DEF LogInv
  <2> QED BY <1>8, <2>3, <2>4 DEF CaptureSave
<1>9. CASE EndSave
  <2>1. /\ saving # None /\ saving.captured # None /\ saving.own \in BOOLEAN
        /\ saving' = None /\ stored' = saving.captured /\ Answer(saving.own, TRUE)
        /\ UNCHANGED <<chunks, point, seq, journal>>
    BY <1>9, <1>s DEF EndSave, Saves
  <2>2. /\ saving.own => ~Journalling
        /\ HasSettings(saving.captured, journal, seq)
        /\ HasPoint(saving.captured, journal, point, TRUE)
    BY <2>1 DEF LogInv
  <2>3. ~Journalling' => chunks' = Journalled(journal') BY <1>7, <2>1, <2>2
  <2>4. HasPoint(saving.captured, journal, point, saving.captured.chunks # Default)
    BY <2>2 DEF HasPoint
  <2> QED BY <2>1, <2>2, <2>3, <2>4 DEF LogInv
<1>10. CASE FailSave
  <2>1. /\ saving # None /\ saving.own \in BOOLEAN
        /\ saving' = None /\ Answer(saving.own, FALSE)
        /\ UNCHANGED <<chunks, point, seq, stored, journal>>
    BY <1>10, <1>s DEF FailSave, Saves
  <2>2. saving.own => ~Journalling BY <2>1 DEF LogInv
  <2>3. ~Journalling' => chunks' = Journalled(journal') BY <1>7, <2>1, <2>2
  <2> QED BY <2>1, <2>3 DEF LogInv
<1>11. CASE Restart
  <2>1. /\ chunks' = Loaded.chunks /\ point' = Loaded.point /\ saving' = None
        /\ UNCHANGED <<seq, stored, journal>>
    BY <1>11 DEF Restart
  <2>2. /\ Loaded.chunks = Journalled(journal)
        /\ EditsSince(journal, stored) # {} \/ stored.chunks # Default => Loaded.point = point
    BY LoadFinds
  <2>3. HasPoint(stored, journal, Loaded.point, stored.chunks # Default)
    BY <2>2 DEF LogInv, HasPoint
  <2> QED BY <2>1, <2>2, <2>3 DEF LogInv
<1> QED BY <1>1, <1>2, <1>3, <1>4, <1>5, <1>6, <1>8, <1>9, <1>10, <1>11 DEF Next, vars

LEMMA InitLog == Init => LogInv
<1> SUFFICES ASSUME Init PROVE LogInv OBVIOUS
<1>1. /\ journal = <<>> /\ seq = 0 /\ chunks = Default /\ point = 0 /\ saving = None
      /\ stored.chunks = Default /\ stored.point = 0 /\ stored.seq = 0
  BY DEF Init
<1>2. DOMAIN journal = {} BY <1>1
<1>3. SettingsOf(journal) = {} /\ EditsSince(journal, stored) = {} BY <1>2 DEF SettingsOf, EditsSince
<1>4. Journalled(journal) = Default BY <1>3 DEF Journalled
<1>5. Ordered(journal, seq) BY <1>2 DEF Ordered
<1>6. HasSettings(stored, journal, seq) BY <1>1, <1>4 DEF HasSettings
<1>7. HasPoint(stored, journal, point, stored.chunks # Default) BY <1>1, <1>3 DEF HasPoint
<1> QED BY <1>1, <1>4, <1>5, <1>6, <1>7 DEF LogInv

THEOREM LogInvHolds == Spec => []LogInv
<1>1. TypeInv /\ LogInv /\ [Next]_vars => LogInv' BY NextLog DEF TypeInv
<1> QED BY <1>1, InitLog, TypesHold, PTL DEF Spec

\* Whenever the server ends, a restart finds the settings that were answered or
\* told, and the place of the latest edit, if the stored board has settings
\* (README.md:468-470).
THEOREM ARestartFindsTheSettings == Spec => []SettingsSurvive
<1>1. TypeInv /\ LogInv => SettingsSurvive
  <2> SUFFICES ASSUME TypeInv, LogInv, ~Journalling
               PROVE  /\ Loaded.chunks = chunks
                      /\ stored.chunks = Default \/ Loaded.point = point
    BY DEF SettingsSurvive
  <2> QED BY LoadFinds DEF TypeInv, LogInv
<1> QED BY <1>1, TypesHold, LogInvHolds, PTL
=============================================================================
