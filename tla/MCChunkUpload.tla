---------------------------- MODULE MCChunkUpload ----------------------------
(* TLC instances of ChunkUpload. *)
EXTENDS ChunkUpload, TLC

\* No action or property tells one request handler from another.
Symmetry == Permutations(Requests)

=============================================================================
