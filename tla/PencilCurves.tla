---------------------------- MODULE PencilCurves ----------------------------
(***************************************************************************)
(* The smoothed curve of a pencil line (wbo_pencil_point.js, curve.js) and *)
(* how a replay joins what a snapshot already shows of it to the rest      *)
(* (seminar_curves.mjs).                                                   *)
(*                                                                         *)
(* A curve is the sequence of the end points of its segments.  The first   *)
(* segment moves to the first point and the second is a line of length     *)
(* zero, there so that a single point can be seen; cubics follow.  Where   *)
(* the control points lie is left out: it does not change what is joined.  *)
(***************************************************************************)
EXTENDS Naturals, Sequences, SequencesExt

\* wboPencilPoint, and pencilExtrapolatePoints from the third segment on: a
\* point equal to one of the last two adds nothing.
AddPoint(curve, p) ==
  CASE curve = <<>> -> <<p, p>>
    [] Len(curve) = 2 -> Append(curve, p)
    [] OTHER -> IF p \in {Last(curve), curve[Len(curve) - 1]} THEN curve ELSE Append(curve, p)

PencilCurve(points) ==
  LET curve[k \in 0..Len(points)] == IF k = 0 THEN <<>> ELSE AddPoint(curve[k - 1], points[k])
  IN  curve[Len(points)]

\* segmentPoints leaves out the line of length zero, distinctCurvePoints then
\* the points that repeat the one before.
SegmentPoints(curve) == IF curve = <<>> THEN <<>> ELSE <<curve[1]>> \o SubSeq(curve, 3, Len(curve))
Distinct(points) ==
  LET First(k) == k = 1 \/ points[k] # points[k - 1]
  IN  [j \in 1..Len(SelectSeq([k \in DOMAIN points |-> k], First)) |->
         points[SelectSeq([k \in DOMAIN points |-> k], First)[j]]]
DistinctCurvePoints(curve) == Distinct(SegmentPoints(curve))

\* How many segments of a curve the end points in `ends' account for: each new
\* one is looked for after the one before, and repetitions of the last skipped.
Through(curve, ends) ==
  LET Find(from, p) ==
        LET at == {k \in from+1..Len(curve) : curve[k] = p}
        IN  IF at = {} THEN Len(curve) ELSE CHOOSE k \in at : \A l \in at : k <= l
      found == FoldLeft(Find, 0, Distinct(ends))
      after == {k \in found+1..Len(curve) : curve[k] # Last(ends)}
  IN  IF ends = <<>> THEN 0
      ELSE IF after = {} THEN Len(curve) ELSE (CHOOSE k \in after : \A l \in after : k <= l) - 1

\* measureCurve: the prefix as it was, then what the curve has after it.
Measured(curve, prefix) == prefix \o SubSeq(curve, Through(curve, prefix) + 1, Len(curve))
=============================================================================
