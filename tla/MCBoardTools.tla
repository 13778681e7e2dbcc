----------------------------- MODULE MCBoardTools -----------------------------
(* Instances of BoardTools for TLC. *)
EXTENDS BoardTools

\* Toolbars with few tools: every tool, and every way to take one for another.
SmallToolbars == {{"hand"}, {"rectangle"}, {"pencil", "eraser"}, {"text", "eraser", "clear"}}
=============================================================================
