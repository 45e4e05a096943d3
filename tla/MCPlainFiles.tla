---------------------------- MODULE MCPlainFiles ----------------------------
(* Model checking of PlainFiles: two names whose object keys are the same,  *)
(* as those of "/d/e/f" and "/d_e/f" are: two files, until both are on the  *)
(* cloud, or one with two links.  Names, inodes and descriptors are         *)
(* interchangeable.  Of a lost file only the sizes make a difference, and   *)
(* the model goes no further once past is not empty, both files are lost,   *)
(* or both are concerned by a crash or a broken rule.                       *)
EXTENDS PlainFiles, TLC

MCKeyOf == [n \in Names |-> CHOOSE k \in Keys : TRUE]
MCSymmetry == Permutations(Names) \union Permutations(Inodes) \union Permutations(Fds)

LostNames == {buffer_path[i] : i \in lost}
SizesOnly(f, dom) ==
    [d \in DOMAIN f |-> IF d \in dom /\ f[d] # None THEN <<"size", Len(f[d])>> ELSE f[d]]

SomeFileSound == Cardinality(lost \union interrupted) <= 1

MCView ==
    IF past # {} THEN <<past>>
    ELSE <<dir, inodeVars, SizesOnly(buffer, LostNames), size,
           SizesOnly(cloud, {KeyOf[n] : n \in LostNames}), open_files_,
           truncated \ lost, interrupted \ lost, orphans, lost, past>>
=============================================================================
