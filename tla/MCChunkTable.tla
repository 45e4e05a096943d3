---------------------------- MODULE MCChunkTable ----------------------------
(* Model checking of ChunkTable: two keys that are interchangeable.  The    *)
(* model stops where a remount and the last snapshot have both happened.    *)
EXTENDS ChunkTable, TLC

KeySymmetry == Permutations(Keys)

FewerAfterRemount == mount > 1 => taken < MaxShots
=============================================================================
