--------------------------- MODULE MCClientWrites ---------------------------
(* Instances of ClientWrites for TLC. *)
EXTENDS ClientWrites

Nothing == {}
=============================================================================
