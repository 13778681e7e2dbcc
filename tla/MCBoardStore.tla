---------------------------- MODULE MCBoardStore ----------------------------
(* Small instances of BoardStore for TLC. *)
EXTENDS BoardStoreInvariant, TLC

\* Sockets and instances carry no order.  Edits do not stand for each other:
\* some are imports, some clear the board.
Symmetry == Permutations(Socket) \union Permutations(Instance)
=============================================================================
