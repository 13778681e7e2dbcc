---------------------------- MODULE MCBoardEdits ----------------------------
(* Instances of BoardEdits for TLC. *)
EXTENDS BoardEdits

Users == Permutations(User)

\* Mostly lines, which have points in the file and in memory.
FewOthers == {[line |-> 2, text |-> 1, shape |-> 0], [line |-> 2, text |-> 0, shape |-> 1]}

Nothing == {}
\* What it takes for a line to be stored twice (README, section 12).
UndoStored == {"undo_stored"}
=============================================================================
