----------------------------- MODULE MCChunkGrid -----------------------------
(* ChunkGrid on a small instance: one position inside the grid and one outside. *)
EXTENDS ChunkGrid
=============================================================================
