---------------------------- MODULE MCSnapshots ----------------------------
(* Model checking of Snapshots.  Contents are interchangeable.              *)
EXTENDS Snapshots, TLC

ContentSymmetry == Permutations(Contents)
=============================================================================
