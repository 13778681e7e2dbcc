--------------------------- MODULE SeminarReplay ---------------------------
(***************************************************************************)
(* Reading the journal of a board (history.mjs) and making a video of it   *)
(* (seminar_replay.mjs): the historical snapshot of a moment, the log of an*)
(* interval, the strokes a replay finds in the two, and what its frames    *)
(* show.  Everything here is a function of a journal, a sequence of        *)
(* records; StrokeHistory says which journals the server writes.           *)
(*                                                                         *)
(* Only lines are modelled: a board is a function from the lines that are  *)
(* on it to their points.  A record is a mutation, a "stroke" (the whole   *)
(* interval and curve of a line, once it is finished) or an "active"       *)
(* record, which says what stroke a socket has open.  Themes, chunks, the  *)
(* camera and checkpoints are left out, and so are the limits on sizes.    *)
(***************************************************************************)
EXTENDS Integers, FiniteSets, Functions, PencilCurves

NoStroke == [id |-> 0, start |-> 0, end |-> 0]
NoCurve == <<0>>                 \* a stroke record without a curve
Gone == <<0>>                    \* "item: null" in a restoration
Nothing == [l \in {} |-> <<>>]   \* a board without lines

----------------------------------------------------------------------------
(* Mutations of lines: [type, id, point, items]. *)

Accepts(board, m) == m.type = "append" => m.id \in DOMAIN board
\* f over g, and g with v at x.  (These are @@ and :> of TLC, of which nothing
\* can be proved.)
Over(f, g) == [x \in DOMAIN f \cup DOMAIN g |-> IF x \in DOMAIN f THEN f[x] ELSE g[x]]
With(g, x, v) == [y \in {x} \cup DOMAIN g |-> IF y = x THEN v ELSE g[y]]
Without(board, ids) == Restrict(board, DOMAIN board \ ids)
Apply(board, m) ==
  CASE m.type = "create" -> With(board, m.id, <<>>)
    [] m.type = "append" -> [board EXCEPT ![m.id] = Append(@, m.point)]
    [] m.type = "delete" -> Without(board, {m.id})
    [] m.type = "clear" -> Nothing
    [] m.type = "restore" ->
         LET back == {l \in DOMAIN m.items : m.items[l] # Gone}
         IN  Over(Restrict(m.items, back), Without(board, DOMAIN m.items))

IsMutation(r) == r.kind = "mutation"
ApplyAll(board, records) ==
  FoldLeft(LAMBDA b, r : Apply(b, r.m), board, SelectSeq(records, IsMutation))

\* historicalSnapshot: the records up to the moment, of those journalled so far.
UpTo(records, at) == SelectSeq(records, LAMBDA r : r.at <= at)
Snapshot(journal, k, at) ==
  LET before == UpTo(SubSeq(journal, 1, k), at)
  IN  [items |-> ApplyAll(Nothing, before), seq |-> Len(SelectSeq(before, IsMutation))]

\* downloadHistory, from the beginning.
Log(journal, to) == SelectSeq(journal, LAMBDA r : r.at <= to /\ r.kind # "active")

----------------------------------------------------------------------------
(* compileReplay. *)

NewStroke(l, at, points) ==
  [id |-> l, start |-> at, end |-> at, points |-> points, prefix |-> Len(points),
   closed |-> FALSE, curve |-> NoCurve]

StrokeMatches(s, r) == r.start <= s.start /\ r.end >= s.start
CurveAgrees(s, r) ==
  r.curve # NoCurve => DistinctCurvePoints(r.curve) = DistinctCurvePoints(PencilCurve(s.points))

\* The strokes of a replay are numbered in the order they are found; `active'
\* is the latest of each line.
Compiling(snapshot, at) ==
  LET lines == SetToSeq(DOMAIN snapshot.items)
  IN  [strokes |-> [k \in DOMAIN lines |-> NewStroke(lines[k], at, snapshot.items[lines[k]])],
       active |-> [l \in DOMAIN snapshot.items |-> CHOOSE k \in DOMAIN lines : lines[k] = l],
       board |-> snapshot.items, seq |-> snapshot.seq, ok |-> TRUE]

Extended(s, r) ==
  [s EXCEPT !.points = Append(s.points, r.m.point), !.curve = NoCurve, !.end = r.at]
CompileMutation(c, r) ==
  LET m == r.m
      next == [c EXCEPT !.ok = c.ok /\ r.seq = c.seq + 1 /\ Accepts(c.board, m),
                        !.seq = r.seq,
                        !.board = IF Accepts(c.board, m) THEN Apply(@, m) ELSE @]
  IN  CASE m.type = "create" ->
             [next EXCEPT !.strokes = Append(@, NewStroke(m.id, r.at, <<>>)),
                          !.active = With(@, m.id, Len(c.strokes) + 1)]
        [] m.type = "append" /\ m.id \in DOMAIN c.active ->
             [next EXCEPT !.strokes[c.active[m.id]] = Extended(c.strokes[c.active[m.id]], r)]
        [] m.type = "restore" -> [next EXCEPT !.active = Without(@, DOMAIN m.items)]
        [] OTHER -> next

Closed(s, r) == [s EXCEPT !.curve = r.curve, !.end = r.end, !.closed = TRUE]
CompileStroke(c, r) ==
  IF r.id \notin DOMAIN c.active \/ ~StrokeMatches(c.strokes[c.active[r.id]], r) THEN c
  ELSE LET k == c.active[r.id]
       IN  [c EXCEPT !.ok = @ /\ CurveAgrees(c.strokes[k], r),
                     !.strokes[k] = Closed(c.strokes[k], r)]

CompileRecord(c, r) ==
  LET now == [c EXCEPT !.ok = @ /\ (r.kind = "stroke" => r.start <= r.end /\ r.end <= r.at)]
  IN  IF IsMutation(r) THEN CompileMutation(now, r) ELSE CompileStroke(now, r)

\* Records up to the moment of the snapshot only serve to check that it fits.
Compile(snapshot, at, log) ==
  LET past == SelectSeq(UpTo(log, at), IsMutation)
      compiled == FoldLeft(CompileRecord, Compiling(snapshot, at),
                           SelectSeq(log, LAMBDA r : r.at > at))
  IN  [compiled EXCEPT !.ok = @ /\ (past # <<>> => Last(past).seq = snapshot.seq)]

\* What is drawn of a stroke in the end: its recorded curve if there is one.
FullCurve(s) ==
  Measured(IF s.curve # NoCurve THEN s.curve ELSE PencilCurve(s.points),
           PencilCurve(SubSeq(s.points, 1, s.prefix)))

----------------------------------------------------------------------------
(* ReplayPlayer. *)

\* The board at a moment and, for every line, the stroke that draws it, or 0:
\* strokes are given up when their line is removed or restored.
Play(c, snapshot, at, log, moment) ==
  LET future == SelectSeq(log, LAMBDA r : r.at > at /\ r.at <= moment /\ IsMutation(r))
      \* The stroke a "create" of the log starts comes after those of the snapshot.
      Created(l) == CHOOSE k \in DOMAIN c.strokes :
                      k > Cardinality(DOMAIN snapshot.items) /\ c.strokes[k].id = l
      Step(p, r) ==
        [board |-> Apply(p.board, r.m),
         drawn |-> CASE r.m.type = "create" -> With(p.drawn, r.m.id, Created(r.m.id))
                     [] r.m.type = "clear" -> Nothing
                     [] r.m.type = "delete" -> Without(p.drawn, {r.m.id})
                     [] r.m.type = "restore" -> Without(p.drawn, DOMAIN r.m.items)
                     [] OTHER -> p.drawn]
  IN  FoldLeft(Step, [board |-> snapshot.items,
                      drawn |-> [l \in DOMAIN snapshot.items |->
                                   CHOOSE k \in 1..Cardinality(DOMAIN snapshot.items) :
                                     c.strokes[k].id = l]], future)

Revealing(c, p, l, at, moment) ==
  /\ l \in DOMAIN p.drawn /\ moment > at
  /\ LET s == c.strokes[p.drawn[l]] IN Len(s.points) > s.prefix

\* Mutant: the frame has all points of a line from its beginning.
FrameLate(c, p, l, at, moment) ==
  IF l \in DOMAIN p.drawn THEN c.strokes[p.drawn[l]].points ELSE p.board[l]

\* The points the frame shows of a line whose stroke is not being revealed now.
Frame(c, p, l, at, moment) ==
  IF Revealing(c, p, l, at, moment) THEN c.strokes[p.drawn[l]].points ELSE p.board[l]
InProgress(c, p, l, at, moment) ==
  Revealing(c, p, l, at, moment) /\ moment < c.strokes[p.drawn[l]].end
=============================================================================
