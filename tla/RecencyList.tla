---------------------------- MODULE RecencyList ----------------------------
(***************************************************************************)
(* LRUCacheReplacer (cache_replacer.cc) with its doubly linked list seen   *)
(* as a sequence of keys, head_ first, and its map cache_entries_ seen as  *)
(* the set of its keys.  The constructor rebuilds the list from the saved  *)
(* file but never fills the map, so after a remount the two disagree: the  *)
(* list may then hold a key twice, and the map knows only the newer node.  *)
(* LRUReplacer shows that the pointer structure implements this module.    *)
(***************************************************************************)
EXTENDS Naturals, FiniteSets, SequencesExt

\* The users of this module assume NoKey \notin Keys and MaxMounts > 0.
CONSTANTS
    Keys,
    NoKey,
    MaxMounts   \* bound: how many times the file system is mounted

VARIABLES
    list,       \* keys from head_ to tail_
    entries,    \* the keys of cache_entries_
    file,       \* the persist file: [count, keys]
    victim,     \* the key evict returned, or NoKey
    fault,      \* "none", an uncaught exception, or a list left dangling
    mounted,
    mount       \* the number of this mount

vars == <<list, entries, file, victim, fault, mounted, mount>>

NoFile == [count |-> 0, keys |-> <<>>]

TypeOK ==
    /\ list \in Seq(Keys) /\ Len(list) <= 2 * Cardinality(Keys)
    /\ entries \subseteq Keys
    /\ file.count \in Nat /\ file.keys \in Seq(Keys)
    /\ victim \in Keys \union {NoKey}
    /\ fault \in {"none", "throw", "dangling"}
    /\ mounted \in BOOLEAN
    /\ mount \in 1..MaxMounts

Init ==
    /\ list = <<>>
    /\ entries = {}
    /\ file = NoFile
    /\ victim = NoKey
    /\ fault = "none"
    /\ mounted = TRUE
    /\ mount = 1

Running == mounted /\ fault = "none"

Mut_NeverUnlinks(k) == <<k>> \o list

\* The node of a key in the map is the newest of its nodes: the first one.
AccessList(k) == IF k \in entries THEN <<k>> \o RemoveFirst(list, k)
                                  ELSE <<k>> \o list

Access(k) ==
    /\ Running
    /\ list' = AccessList(k)
    /\ entries' = entries \union {k}
    /\ victim' = NoKey
    /\ UNCHANGED <<file, fault, mounted, mount>>

\* evict unlinks tail_ but frees cache_entries_[key].  When the key also has
\* a newer node, that one is freed while it is still linked.
Dangles == Last(list) \in entries /\ Last(list) \in Range(Front(list))

Mut_NotErased(k) == entries
Erased(k) == entries \ {k}

EvictTail ==
    /\ Running
    /\ list # <<>>
    /\ victim' = Last(list)
    /\ list' = Front(list)
    /\ entries' = Erased(Last(list))
    /\ fault' = IF Dangles THEN "dangling" ELSE "none"
    /\ UNCHANGED <<file, mounted, mount>>

EvictEmpty ==
    /\ Running
    /\ list = <<>>
    /\ fault' = "throw"
    /\ UNCHANGED <<list, entries, file, victim, mounted, mount>>

RemoveKey(k) ==
    /\ Running
    /\ k \in entries
    /\ list' = RemoveFirst(list, k)
    /\ entries' = Erased(k)
    /\ victim' = NoKey
    /\ UNCHANGED <<file, fault, mounted, mount>>

RemoveUnknown(k) ==
    /\ Running
    /\ k \notin entries
    /\ fault' = "throw"
    /\ UNCHANGED <<list, entries, file, victim, mounted, mount>>

\* The count written first is the size of the map, the keys are the list's.
Persist ==
    /\ Running
    /\ file' = [count |-> Cardinality(entries), keys |-> list]
    /\ mounted' = FALSE
    /\ UNCHANGED <<list, entries, victim, fault, mount>>

\* The constructor of the next mount: reads count keys, then unlinks the file.
Load ==
    /\ ~mounted /\ fault = "none" /\ mount < MaxMounts
    /\ list' = SubSeq(file.keys, 1, file.count)
    /\ entries' = {}
    /\ file' = NoFile
    /\ mounted' = TRUE
    /\ mount' = mount + 1
    /\ UNCHANGED <<victim, fault>>

Next ==
    \/ \E k \in Keys : Access(k) \/ RemoveKey(k) \/ RemoveUnknown(k)
    \/ EvictTail
    \/ EvictEmpty
    \/ Persist
    \/ Load

Spec == Init /\ [][Next]_vars

-----------------------------------------------------------------------------
\* Within one mount every key of the list has its entry and is listed once.
OneNodePerEntry ==
    mount = 1 => /\ entries = Range(list)
                 /\ IsInjective(list)
                 /\ fault # "dangling"

\* Across mounts too, every entry of the map has a node in the list, and the
\* count written by persist never exceeds the keys written after it.
EntriesAreListed ==
    fault # "dangling" => /\ entries \subseteq Range(list)
                          /\ file.count <= Len(file.keys)

Position(k) == SelectInSeq(list, LAMBDA x : x = k)

\* Recency as the list alone shows it: k is older when its first node is
\* further from the head.
Order == INSTANCE LRUOrder WITH
    tracked <- Range(list),
    older <- {p \in Range(list) \X Range(list) : Position(p[1]) > Position(p[2])}
=============================================================================
