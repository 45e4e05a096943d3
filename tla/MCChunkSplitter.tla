--------------------------- MODULE MCChunkSplitter ---------------------------
(* Model checking of ChunkSplitter: bytes of two bits, x^4 + x + 1 in       *)
(* registers of five, a window of three bytes and segments of three to      *)
(* five; eight bytes are at least one whole segment and most of another.    *)
EXTENDS ChunkSplitter

MCPoly == {4, 1, 0}
=============================================================================
