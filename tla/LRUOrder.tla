------------------------------ MODULE LRUOrder ------------------------------
(***************************************************************************)
(* What the interface CacheReplacer (cache_replacer.h:22-60) promises to   *)
(* the chunk cache under the policy LRU: the set of keys the replacer      *)
(* tracks and the order in which they were last accessed.  Nothing here    *)
(* says how the order is stored.  Saving the order at unmount and loading  *)
(* it at the next mount is invisible: it is a stuttering step.             *)
(***************************************************************************)
CONSTANTS
    Keys,       \* object keys the cache may hold
    NoKey       \* "no key was evicted by the last operation"

VARIABLES
    tracked,    \* the keys under replacement control
    older,      \* <<a, b>>: a was accessed less recently than b
    victim      \* the key the last operation evicted, or NoKey

vars == <<tracked, older, victim>>

Without(k) == {p \in older : p[1] # k /\ p[2] # k}

Init ==
    /\ tracked = {}
    /\ older = {}
    /\ victim = NoKey

Access(k) ==
    /\ tracked' = tracked \union {k}
    /\ older' = Without(k) \union ((tracked \ {k}) \X {k})
    /\ victim' = NoKey

\* The only key evict may hand out is the one nothing tracked is older than.
Evict(k) ==
    /\ k \in tracked
    /\ \A other \in tracked \ {k} : <<k, other>> \in older
    /\ tracked' = tracked \ {k}
    /\ older' = Without(k)
    /\ victim' = k

Remove(k) ==
    /\ k \in tracked
    /\ tracked' = tracked \ {k}
    /\ older' = Without(k)
    /\ victim' = NoKey

Next == \E k \in Keys : Access(k) \/ Evict(k) \/ Remove(k)

Spec == Init /\ [][Next]_vars
=============================================================================
