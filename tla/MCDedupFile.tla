---------------------------- MODULE MCDedupFile ----------------------------
(* Model checking of DedupFile: descriptors are interchangeable, and what   *)
(* nothing reads any more is left out of the state that is compared: the    *)
(* buffer file of a large file, and all but past once that ended the run.   *)
EXTENDS DedupFile

FdSymmetry == Permutations(Fds)

Seen ==
    IF "stale" \in past THEN <<past>>
    ELSE <<exists, size, chunkinfo, truncated, IF IsLarge THEN <<>> ELSE buffer,
           open_files_, store, chunk_splitter_, fault, content, misread, behind, past>>
=============================================================================
