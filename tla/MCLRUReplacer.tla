---------------------------- MODULE MCLRUReplacer ---------------------------
(* Model checking of LRUReplacer: three keys, so that a node can have two   *)
(* neighbours, and three mounts, so that a list loaded after a mount that   *)
(* touched only part of it is reached.  What freed nodes hold is not part   *)
(* of the view: a node is filled in when it is allocated again.             *)
EXTENDS LRUReplacer

KeySymmetry == Permutations(Keys)

MCView ==
    <<head_, tail_, [n \in live |-> <<key_[n], prev_[n], next_[n]>>],
      cache_entries_, file, victim, fault, mounted, mount>>
=============================================================================
