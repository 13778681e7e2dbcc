--------------------------- MODULE MCStrokeHistory ---------------------------
(* StrokeHistory with connections that are interchangeable. *)
EXTENDS StrokeHistory, TLC
Alike == Permutations(Socket)
=============================================================================
