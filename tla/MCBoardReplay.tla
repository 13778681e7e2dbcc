--------------------------- MODULE MCBoardReplay ---------------------------
(* Instances of BoardReplay for TLC. *)
EXTENDS BoardReplay

\* The sets of edits the configurations choose from.
Empty  == {}
First  == {1}
=============================================================================
