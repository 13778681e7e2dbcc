--------------------------- MODULE StrokeHistory ---------------------------
(***************************************************************************)
(* Pencil strokes from the pointer to the journal.  A tab draws a line     *)
(* point by point and says when it has finished it, once nothing of the    *)
(* line waits in its buffer; the server journals every point it accepts    *)
(* and, when the stroke closes, one record with the interval and the curve *)
(* of the whole line.  It also journals which stroke every socket has open,*)
(* so that a restart can close it.  Other users remove lines, undo and     *)
(* redo meanwhile.                                                         *)
(*                                                                         *)
(* A socket is one connection of a tab: a tab that reconnects draws new    *)
(* lines on another socket.  What the journal survives is BoardStore's     *)
(* subject, how a tab sends again what was cut off ClientWrites'.          *)
(***************************************************************************)
EXTENDS SeminarReplay, SequenceParts

CONSTANTS
  Socket,       \* connections
  Point,        \* places on the board
  MaxChildren,  \* MAX_CHILDREN, the points a line may have
  MaxLines,     \* bound: lines drawn
  MaxTime,      \* bound: the server's clock
  MaxEvents     \* bound: edits of others, refusals, lost connections, restarts

ASSUME StrokeAssumption ==
  /\ IsFiniteSet(Socket) /\ 0 \notin Point /\ MaxChildren \in Nat \ {0}
  /\ MaxLines \in Nat /\ MaxTime \in Nat /\ MaxEvents \in Nat

Line == 1..MaxLines
None == 0

VARIABLES
  link,      \* a socket is "new", "open" or "closed"
  line,      \* curLineId of the tab
  count,     \* currentLineChildCount
  finished,  \* finishedStrokes
  cleaned,   \* rejectedLineDeletes
  queue,     \* buffered writes that have not been sent
  up, down,  \* messages on their way to the server and to the tab
  board,     \* the lines on the board
  strokes,   \* BoardHistory.strokes
  curves,    \* BoardHistory.curves
  journal,   \* what BoardHistory has appended
  was,       \* what an undo or a redo would make of a line, if there is one
  drawn, events

tab == <<link, line, count, finished, cleaned, queue>>
server == <<board, strokes, curves, journal, was>>
vars == <<tab, up, down, server, drawn, events>>

Message(type, l, p) == [type |-> type, id |-> l, point |-> p, kept |-> TRUE]

----------------------------------------------------------------------------
(* The tab. *)

\* A tab's part of the state, which the operators below take and give.
Of(s) == [line |-> line[s], count |-> count[s], finished |-> finished[s],
          cleaned |-> cleaned[s], queue |-> queue[s], up |-> up[s], down |-> down[s]]
Becomes(s, t) ==
  /\ line' = [line EXCEPT ![s] = t.line] /\ count' = [count EXCEPT ![s] = t.count]
  /\ finished' = [finished EXCEPT ![s] = t.finished]
  /\ cleaned' = [cleaned EXCEPT ![s] = t.cleaned]
  /\ queue' = [queue EXCEPT ![s] = t.queue]
  /\ up' = [up EXCEPT ![s] = t.up] /\ down' = [down EXCEPT ![s] = t.down]

\* The lines that have a write of such a type in the buffer: queued, or sent and
\* unanswered.  `kept' is FALSE for one that has been pruned from the buffer.
Writes == {"create", "append", "delete"}
Unanswered(t, types) ==
  {m.id : m \in {m \in Range(t.queue) \cup Range(t.up) : m.kept /\ m.type \in types}}
    \cup {m.id : m \in {m \in Range(t.down) :
                          m.kept /\ m.type = "answer" /\ m.write.type \in types}}

\* In whatever order: a socket has one stroke open at most, and the server
\* ignores the end of any other.
EndMessages(lines) ==
  LET ends == SetToSeq(lines) IN [k \in 1..Cardinality(lines) |-> Message("end", ends[k], None)]

\* Mutant: what is in the queue is not waited for.
FlushAtOnce(t) ==
  LET ends == t.finished \ Unanswered([t EXCEPT !.queue = <<>>], Writes)
  IN  [t EXCEPT !.finished = @ \ ends, !.up = @ \o EndMessages(ends)]

\* flushFinishedStrokes.
Flush(t) ==
  LET ends == t.finished \ Unanswered(t, Writes)
  IN  [t EXCEPT !.finished = @ \ ends, !.up = @ \o EndMessages(ends)]

Send(t, m) == [t EXCEPT !.queue = Append(@, m)]
ClearActive(t) == [t EXCEPT !.line = None, !.count = 0]
\* finishActiveStroke, whether the pointer is released, the line has all the
\* points it may have, another tool is taken or the camera moves.
FinishActive(t) ==
  IF t.line = None THEN t ELSE ClearActive(Flush([t EXCEPT !.finished = @ \cup {t.line}]))
\* move, when it is not too early for another point.
MoveTo(t, p) ==
  LET sent == [Send(t, Message("append", t.line, p)) EXCEPT !.count = @ + 1]
  IN  IF t.line = None THEN t
      ELSE IF t.count + 1 >= MaxChildren THEN FinishActive(sent) ELSE sent

\* pruneBufferedWritesForInvalidatingMessage.
Forgotten(messages, ids) ==
  [k \in DOMAIN messages |->
     IF messages[k].id \in ids THEN [messages[k] EXCEPT !.kept = FALSE] ELSE messages[k]]
Prune(t, ids) ==
  [t EXCEPT !.queue = Only(t.queue, {m \in Range(t.queue) : m.id \notin ids}),
            !.up = Forgotten(@, ids), !.down = Forgotten(@, ids)]
\* An authoritative clear, deletion or restoration, drawn by the tools' onMessage.
Removed(t, m) ==
  CASE m.type = "clear" -> ClearActive(IF Unanswered(t, Writes) = {} THEN t
                                       ELSE [Prune(t, Line) EXCEPT !.finished = {}])
    [] m.type = "delete" -> LET u == Prune(t, {m.id})
                            IN  IF u.line = m.id THEN ClearActive(u) ELSE u
    [] m.type = "restore" -> Prune(t, {m.id})

\* onMutationRejected of the write and of those that depend on it.
Rejected(t, w) ==
  LET append == w.type = "append" \/ w.id \in Unanswered(t, {"append"})
      cleared == IF t.line = w.id THEN ClearActive(t) ELSE t
  IN  IF append /\ w.id \notin t.cleaned
      THEN [Send(cleared, Message("delete", w.id, None)) EXCEPT !.cleaned = @ \cup {w.id}]
      ELSE cleared

----------------------------------------------------------------------------
(* The server's journal. *)

Last0(s) == IF s = <<>> THEN 0 ELSE Last(s).at
\* timestamp(): never before the last record.  Between two records the clock
\* advances by one at most: what matters is whether it has advanced.
Moments == {t \in Last0(journal)..Last0(journal)+1 : t <= MaxTime}
Seq0 == Cardinality({k \in DOMAIN journal : IsMutation(journal[k])})

MutationRecord(at, m) == [kind |-> "mutation", at |-> at, seq |-> Seq0 + 1, m |-> m]
StrokeRecord(c, stroke, at, reason) ==
  [kind |-> "stroke", at |-> at, id |-> stroke.id, start |-> stroke.start,
   end |-> IF reason = "release" THEN at ELSE stroke.end,
   curve |-> IF stroke.id \in DOMAIN c THEN c[stroke.id] ELSE NoCurve]
ActiveRecord(at, s, stroke) == [kind |-> "active", at |-> at, socket |-> s, stroke |-> stroke]

\* The history of a board: [strokes, curves, journal].
History == [strokes |-> strokes, curves |-> curves, journal |-> journal]
Keeps(h) == strokes' = h.strokes /\ curves' = h.curves /\ journal' = h.journal

\* A stroke of the socket gives place to another.
CloseFor(h, s, at, reason) ==
  [h EXCEPT !.journal = Append(@, StrokeRecord(h.curves, h.strokes[s], at, reason)),
            !.curves = Without(@, {h.strokes[s].id})]

\* The stroke and the curve that a point of a line belongs to.
Extend(stroke, m, at) == IF stroke.id = m.id THEN [stroke EXCEPT !.end = at] ELSE stroke
Smooth(c, m) ==
  IF m.id \in DOMAIN c THEN [c EXCEPT ![m.id] = AddPoint(c[m.id], m.point)] ELSE c

\* commit, of an edit that came on socket s.
Commit(h, s, m, at) ==
  LET record == MutationRecord(at, m)
      opened == IF h.strokes[s] = NoStroke THEN h ELSE CloseFor(h, s, at, "superseded")
      done == CASE m.type = "create" ->
                     [opened EXCEPT !.strokes[s] = [id |-> m.id, start |-> at, end |-> at],
                                    !.curves = With(@, m.id, <<>>)]
                [] m.type = "append" ->
                     [h EXCEPT !.strokes[s] = Extend(h.strokes[s], m, at),
                               !.curves = Smooth(h.curves, m)]
                [] OTHER -> h
  IN  [done EXCEPT !.journal = @ \o <<record, ActiveRecord(at, s, done.strokes[s])>>]

\* finishStroke; l is None when the socket is gone or the process is back.
FinishStroke(h, s, l, at, reason) ==
  IF h.strokes[s] = NoStroke \/ (l # None /\ h.strokes[s].id # l) THEN h
  ELSE LET closed == CloseFor(h, s, at, reason)
       IN  [closed EXCEPT !.strokes[s] = NoStroke,
                          !.journal = Append(@, ActiveRecord(at, s, NoStroke))]

\* loadHistory: the strokes and curves that were open when the process ended.
RecoverRecord(h, r) ==
  CASE IsMutation(r) -> IF r.m.type = "append" THEN [h EXCEPT !.curves = Smooth(h.curves, r.m)] ELSE h
    [] r.kind = "active" ->
         LET previous == h.strokes[r.socket]
             kept == IF previous.id # r.stroke.id THEN Without(h.curves, {previous.id}) ELSE h.curves
         IN  [h EXCEPT !.strokes[r.socket] = r.stroke,
                       !.curves = IF r.stroke = NoStroke \/ r.stroke.id \in DOMAIN kept THEN kept
                                  ELSE With(kept, r.stroke.id, <<>>)]
    [] OTHER -> h
NoHistory == [strokes |-> [s \in Socket |-> NoStroke], curves |-> Nothing]

\* Mutant: the points after an active record are not added to its curve.
RecoveredPointless(j) ==
  FoldLeft(RecoverRecord, NoHistory, SelectSeq(j, LAMBDA r : ~IsMutation(r)))

Recovered(j) ==
  LET after[k \in 0..Len(j)] == IF k = 0 THEN NoHistory ELSE RecoverRecord(after[k - 1], j[k])
  IN  after[Len(j)]

\* What others are told of a removal or a restoration.
Told(except, m) ==
  [s \in Socket |-> IF s # except /\ link[s] = "open"
                    THEN Append(down[s], [type |-> m.type, id |-> m.id, kept |-> TRUE]) ELSE down[s]]
Mutation(type, l, p) == [type |-> type, id |-> l, point |-> p, items |-> Nothing]
Remembered(lines) == Over(Restrict(board, lines \cap DOMAIN board), was)

----------------------------------------------------------------------------
Init ==
  /\ link = [s \in Socket |-> "new"] /\ line = [s \in Socket |-> None]
  /\ count = [s \in Socket |-> 0] /\ finished = [s \in Socket |-> {}]
  /\ cleaned = [s \in Socket |-> {}] /\ queue = [s \in Socket |-> <<>>]
  /\ up = [s \in Socket |-> <<>>] /\ down = [s \in Socket |-> <<>>]
  /\ board = Nothing /\ was = Nothing /\ journal = <<>>
  /\ strokes = NoHistory.strokes /\ curves = NoHistory.curves
  /\ drawn = 0 /\ events = 0

Event == events < MaxEvents /\ events' = events + 1

\* press: a new line, and its first point.  A press may come without a release.
\* A socket is connected long before, which nothing else depends on.
Press(s, p) ==
  /\ link[s] # "closed" /\ link' = [link EXCEPT ![s] = "open"]
  /\ drawn < MaxLines /\ drawn' = drawn + 1
  /\ Becomes(s, MoveTo([Send(Of(s), Message("create", drawn + 1, None))
                          EXCEPT !.line = drawn + 1, !.count = 0], p))
  /\ UNCHANGED <<server, events>>

Move(s, p) ==
  /\ link[s] = "open" /\ line[s] # None
  /\ Becomes(s, MoveTo(Of(s), p))
  /\ UNCHANGED <<link, server, drawn, events>>

\* release, with or without a last point.
Release(s) ==
  /\ link[s] = "open" /\ line[s] # None
  /\ \/ Becomes(s, FinishActive(Of(s)))
     \/ \E p \in Point : Becomes(s, FinishActive(MoveTo(Of(s), p)))
  /\ UNCHANGED <<link, server, drawn, events>>

\* cancelTouchGesture: a second finger turns the stroke into a pinch.
Cancel(s) ==
  /\ link[s] = "open" /\ line[s] # None /\ Event
  /\ Becomes(s, Send(ClearActive(Of(s)), Message("delete", line[s], None)))
  /\ UNCHANGED <<link, server, drawn>>

\* pumpBufferedWrites; the tab's own rate limits say when.
Pump(s) ==
  /\ link[s] = "open" /\ queue[s] # <<>>
  /\ queue' = [queue EXCEPT ![s] = <<>>] /\ up' = [up EXCEPT ![s] = @ \o queue[s]]
  /\ UNCHANGED <<link, line, count, finished, cleaned, down, server, drawn, events>>

Receive(s) ==
  /\ link[s] = "open" /\ down[s] # <<>>
  /\ LET m == Head(down[s])
         t == [Of(s) EXCEPT !.down = Tail(@)]
     IN  Becomes(s, IF m.type # "answer" THEN Removed(t, m)
                    ELSE IF ~m.kept THEN t
                    ELSE IF m.ok THEN Flush(t)
                    ELSE Rejected(Flush(t), m.write))
  /\ UNCHANGED <<link, server, drawn, events>>

\* The connection is lost: the server gets some of what was on its way, then
\* learns that the socket is gone.  onSocketDisconnect, discardBufferedWrites.
Close(s) ==
  /\ link[s] = "open" /\ Event /\ link' = [link EXCEPT ![s] = "closed"]
  /\ \E k \in 0..Len(up[s]) :
       Becomes(s, [ClearActive(Of(s)) EXCEPT
                     !.finished = {}, !.cleaned = {}, !.queue = <<>>, !.down = <<>>,
                     !.up = Append(SubSeq(@, 1, k), Message("gone", None, None))])
  /\ UNCHANGED <<server, drawn>>

----------------------------------------------------------------------------
Next0(s) == Head(up[s])
Served(s) == up' = [up EXCEPT ![s] = Tail(@)]
Answer(s, ok) ==
  [down EXCEPT ![s] = IF link[s] = "open"
                      THEN Append(@, [type |-> "answer", id |-> Next0(s).id, kept |-> Next0(s).kept,
                                      write |-> Next0(s), ok |-> ok]) ELSE @]

Draws(s) == up[s] # <<>> /\ Next0(s).type \in {"create", "append"}
Acceptable(m) ==
  m.type = "append" => m.id \in DOMAIN board /\ Len(board[m.id]) < MaxChildren

\* persistBoardBroadcast of a line or a point.
AcceptWrite(s) ==
  /\ Draws(s) /\ Acceptable(Next0(s)) /\ Served(s) /\ down' = Answer(s, TRUE)
  /\ LET m == Mutation(Next0(s).type, Next0(s).id, Next0(s).point)
     IN  /\ board' = Apply(board, m)
         /\ was' = IF m.type = "create" THEN With(was, m.id, Gone) ELSE was
         /\ \E at \in Moments : Keeps(Commit(History, s, m, at))
  /\ UNCHANGED <<tab, drawn, events>>

\* A point of a line that is not there or is full, or the board is read-only.
RefuseWrite(s) ==
  /\ Draws(s) /\ Served(s) /\ down' = Answer(s, FALSE)
  /\ IF Acceptable(Next0(s)) THEN Event ELSE UNCHANGED events
  /\ UNCHANGED <<tab, server, drawn>>

DeleteLine(s) ==
  /\ up[s] # <<>> /\ Next0(s).type = "delete" /\ Served(s)
  /\ LET m == Mutation("delete", Next0(s).id, None)
     IN  /\ board' = Apply(board, m) /\ was' = Remembered({m.id})
         /\ down' = [Told(s, m) EXCEPT ![s] = Answer(s, TRUE)[s]]
         /\ \E at \in Moments : Keeps(Commit(History, s, m, at))
  /\ UNCHANGED <<tab, drawn, events>>

\* stroke_end, of which a socket may send 200 in ten seconds.
StrokeEnd(s) ==
  /\ up[s] # <<>> /\ Next0(s).type = "end" /\ Served(s)
  /\ \/ \E at \in Moments : Keeps(FinishStroke(History, s, Next0(s).id, at, "release"))
        /\ UNCHANGED events
     \/ Event /\ UNCHANGED <<strokes, curves, journal>>
  /\ UNCHANGED <<tab, down, board, was, drawn>>

\* disconnecting.
Disconnecting(s) ==
  /\ up[s] # <<>> /\ Next0(s).type = "gone" /\ Served(s)
  /\ \E at \in Moments : Keeps(FinishStroke(History, s, None, at, "disconnected"))
  /\ UNCHANGED <<tab, down, board, was, drawn, events>>

\* Another user, who is not drawing, erases a line or clears the board.
Journals(m) ==
  \E at \in Moments :
    /\ journal' = Append(journal, MutationRecord(at, m))
    /\ UNCHANGED <<strokes, curves>>
Erase ==
  /\ Event /\ \E l \in Line, type \in {"delete", "clear"} :
       /\ l \in DOMAIN board
       /\ LET m == Mutation(type, l, None)
          IN  /\ board' = Apply(board, m) /\ down' = Told(None, m) /\ Journals(m)
              /\ was' = Remembered(IF type = "clear" THEN Line ELSE {l})
  /\ UNCHANGED <<tab, up, drawn>>

\* Undo and redo from another tab of the one who drew the line, or erased it.
UndoOrRedo ==
  /\ Event /\ \E l \in DOMAIN was :
       LET m == [Mutation("restore", l, None) EXCEPT !.items = With(Nothing, l, was[l])]
       IN  /\ board' = Apply(board, m) /\ down' = Told(None, m) /\ Journals(m)
           /\ was' = With(was, l, IF l \in DOMAIN board THEN board[l] ELSE Gone)
  /\ UNCHANGED <<tab, up, drawn>>

\* The process ends, and the journal is read again: every connection is lost,
\* and what was open is closed as it was recovered.  Undo stacks are forgotten.
InterruptAll(h, at) ==
  LET open == SetToSeq({s \in Socket : h.strokes[s] # NoStroke})
      closed[k \in 0..Cardinality({s \in Socket : h.strokes[s] # NoStroke})] ==
        IF k = 0 THEN h ELSE FinishStroke(closed[k - 1], open[k], None, at, "interrupted")
  IN  closed[Cardinality({s \in Socket : h.strokes[s] # NoStroke})]
Restart ==
  /\ Event
  /\ LET h == Recovered(journal)
     IN  \E at \in Moments :
           Keeps(InterruptAll([strokes |-> h.strokes, curves |-> h.curves, journal |-> journal], at))
  /\ link' = [s \in Socket |-> IF link[s] = "open" THEN "closed" ELSE link[s]]
  /\ line' = [s \in Socket |-> None] /\ count' = [s \in Socket |-> 0]
  /\ finished' = [s \in Socket |-> {}] /\ cleaned' = [s \in Socket |-> {}]
  /\ queue' = [s \in Socket |-> <<>>] /\ up' = [s \in Socket |-> <<>>]
  /\ down' = [s \in Socket |-> <<>>]
  /\ was' = Nothing /\ UNCHANGED <<board, drawn>>

Next ==
  \/ \E s \in Socket :
       \/ Release(s) \/ Cancel(s) \/ Pump(s) \/ Receive(s) \/ Close(s)
       \/ AcceptWrite(s) \/ RefuseWrite(s) \/ DeleteLine(s) \/ StrokeEnd(s) \/ Disconnecting(s)
       \/ \E p \in Point : Press(s, p) \/ Move(s, p)
  \/ Erase \/ UndoOrRedo \/ Restart

Spec == Init /\ [][Next]_vars

----------------------------------------------------------------------------
(* Properties. *)

MessageType == [type : {"create", "append", "delete", "end", "gone"}, id : Line \cup {None},
                point : Point \cup {None}, kept : BOOLEAN]
\* The state has the types that the code gives it, an open stroke has its curve
\* in memory, and there is no curve of anything else (BoardHistory.curves).
TypeOK ==
  /\ link \in [Socket -> {"new", "open", "closed"}]
  /\ line \in [Socket -> Line \cup {None}] /\ count \in [Socket -> 0..MaxChildren]
  /\ \A s \in Socket : /\ Range(queue[s]) \cup Range(up[s]) \subseteq MessageType
                       /\ finished[s] \cup cleaned[s] \subseteq Line
                       /\ line[s] = None => count[s] = 0
  /\ DOMAIN board \subseteq Line /\ \A l \in DOMAIN board : board[l] \in Seq(Point)
  /\ DOMAIN curves = {strokes[s].id : s \in {s \in Socket : strokes[s] # NoStroke}}

\* What the server has is looked at when every tab has sent and read what it had
\* to: neither changes anything at the server, so nothing is missed.
Quiet == \A s \in Socket : queue[s] = <<>> /\ down[s] = <<>>

Records(kind) == {k \in DOMAIN journal : journal[k].kind = kind}
Drawing(type, l) ==
  {k \in Records("mutation") : journal[k].m.type = type /\ journal[k].m.id = l}
IsPointOf(r, l) == IsMutation(r) /\ r.m.type = "append" /\ r.m.id = l
PointsOf(j, l) ==
  LET points[k \in 0..Len(j)] ==
        IF k = 0 THEN <<>>
        ELSE IF IsPointOf(j[k], l) THEN Append(points[k - 1], j[k].m.point) ELSE points[k - 1]
  IN  points[Len(j)]

\* Every line that was accepted is being drawn or has one stroke record, which
\* comes after all of its points, has the curve of all of them, and an interval
\* from its beginning to its last point or later (README.md:124-133).
StrokesAreTimed ==
  Quiet => \A c \in Records("mutation") : journal[c].m.type = "create" =>
    LET l == journal[c].m.id
        records == {k \in Records("stroke") : journal[k].id = l}
    IN  IF \E s \in Socket : strokes[s].id = l THEN records = {}
        ELSE /\ Cardinality(records) = 1
             /\ \A k \in records :
                  /\ journal[k].start = journal[c].at /\ journal[k].curve = PencilCurve(PointsOf(journal, l))
                  /\ \A a \in Drawing("append", l) : a < k /\ journal[a].at <= journal[k].end

\* A restart at any moment finds in the journal the strokes and the curves that
\* were open in memory (history.mjs:368-402).
RestartFindsTheStrokes == Quiet => Recovered(journal) = [strokes |-> strokes, curves |-> curves]

\* The moments of which a snapshot can be asked when k records are journalled,
\* later ones not of the same moment; a snapshot of lines that all have points
\* may also be an export of the board, which has no point twice in a row.
SnapshotMoments(k) ==
  {at \in 0..MaxTime : \A n \in k+1..Len(journal) : journal[n].at > at}
Exported(snapshot) == [snapshot EXCEPT !.items = [l \in DOMAIN @ |-> Distinct(@[l])]]
Snapshots(k, at) ==
  LET s == Snapshot(journal, k, at)
  IN  {s} \cup (IF \E l \in DOMAIN s.items : s.items[l] = <<>> THEN {} ELSE {Exported(s)})

\* The replay compiles, and its curves have all the points of their lines and
\* begin with what the snapshot showed (compileReplay, measureCurve).
Compiles(c) ==
  /\ c.ok
  /\ \A k \in DOMAIN c.strokes :
       LET s == c.strokes[k]
           prefix == PencilCurve(SubSeq(s.points, 1, s.prefix))
       IN  /\ DistinctCurvePoints(FullCurve(s)) = DistinctCurvePoints(PencilCurve(s.points))
           /\ SubSeq(FullCurve(s), 1, Len(prefix)) = prefix

\* At every moment of a replay, its frame has the lines the board had, and of a
\* line that is not being revealed the points it had then; in the last frame
\* nothing is (ReplayPlayer.frame).
FollowsTheBoard(c, snapshot, at, log, to) ==
  \A moment \in at..to :
    \A p \in {Play(c, snapshot, at, log, moment)},
       then \in {Snapshot(journal, Len(journal), moment).items} :
      /\ DOMAIN p.board = DOMAIN then
      /\ \A l \in DOMAIN then :
           IF InProgress(c, p, l, at, moment) THEN moment < to
           ELSE Distinct(Frame(c, p, l, at, moment)) = Distinct(then[l])

\* Every snapshot and log the server can give out is a replay that compiles and
\* shows the board as it was.
FramesFollowTheBoard ==
  Quiet => \A at \in 0..Last0(journal) : \A to \in at..Last0(journal) :
    \A k \in {k \in {Len(UpTo(journal, at))} : at \in SnapshotMoments(k)} :
      \A snapshot \in Snapshots(k, at), log \in {Log(journal, to)} :
        \A c \in {Compile(snapshot, at, log)} :
          Compiles(c) /\ FollowsTheBoard(c, snapshot, at, log, to)
=============================================================================
