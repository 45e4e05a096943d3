---------------------------- MODULE MCChunkCache ----------------------------
(* Model checking of ChunkCache: two objects of size 1, one that fills the  *)
(* cache alone and one that is larger than the cache.  What makes no        *)
(* difference to what follows is not part of the view: the last victim and  *)
(* the last reply, memory while nothing is mounted, and what a crash would  *)
(* undo once there have been enough crashes.  At most two objects are       *)
(* concerned by faults.                                                     *)
EXTENDS ChunkCache, TLC

CONSTANTS small1, small2, full, large

MCKeys == {small1, small2, full, large}
MCSize == (small1 :> 1) @@ (small2 :> 1) @@ (full :> 2) @@ (large :> 3)
MCFlaky == {small1}
FewFailed == Cardinality(failed) <= 2

Memory == <<cached_objects_, cache_used_, request, list, entries>>

MCView ==
    <<cloud, diskVars, IF mounted THEN Memory ELSE <<>>, again,
      IF crashes < MaxCrashes THEN touched ELSE {}, failed, crashes,
      file, fault, mounted, mount>>
=============================================================================
