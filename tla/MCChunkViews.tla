---------------------------- MODULE MCChunkViews ----------------------------
(* ChunkViews with what its configurations leave out. *)
EXTENDS ChunkViews
Nothing == {}
=============================================================================
