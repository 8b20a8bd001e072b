------------------------- MODULE MCChunkedAllocator -------------------------
(* Small instances of ChunkedAllocator for TLC. *)
EXTENDS ChunkedAllocator, TLC

\* The addresses of chunks are interchangeable.
ChunkSymmetry == Permutations(ChunkIds)
=============================================================================
