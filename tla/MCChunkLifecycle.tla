--------------------------- MODULE MCChunkLifecycle ---------------------------
(* TLC instance of ChunkLifecycle. *)
EXTENDS ChunkLifecycle

=============================================================================
