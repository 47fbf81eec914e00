---------------------------- MODULE MCChunkMesh ----------------------------
(* Chunks of eight blocks for TLC. *)
EXTENDS ChunkMesh
=============================================================================
