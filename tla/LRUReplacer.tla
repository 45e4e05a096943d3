---------------------------- MODULE LRUReplacer ----------------------------
(***************************************************************************)
(* LRUCacheReplacer (cache_replacer.cc) at the level of its pointers: the  *)
(* doubly linked list of CacheEntry nodes between head_ and tail_, and the *)
(* map cache_entries_ from keys to nodes.  An address is a number of       *)
(* Nodes, 0 is nullptr; new takes the lowest free address, so freed        *)
(* addresses are reused.                                                   *)
(***************************************************************************)
EXTENDS Naturals, FiniteSets, SequencesExt, FiniteSetsExt

CONSTANTS
    Keys,
    NoKey,
    MaxMounts

ASSUME NoKeyAssumption == NoKey \notin Keys
ASSUME KeysAssumption == IsFiniteSet(Keys)
ASSUME MountsAssumption == MaxMounts \in Nat \ {0}

\* A mount links at most one loaded and one new node per key.
Nodes == 1..(2 * Cardinality(Keys))
Null == 0

VARIABLES
    head_, tail_,       \* nodes, or Null
    key_, prev_, next_, \* the fields of every node
    live,               \* allocated nodes
    cache_entries_,     \* a key's node, or Null when the map lacks the key
    file, victim, fault, mounted, mount     \* as in RecencyList

links == <<head_, tail_, key_, prev_, next_, live, cache_entries_>>
vars == <<links, file, victim, fault, mounted, mount>>

NoFile == [count |-> 0, keys |-> <<>>]
Address == Nodes \union {Null}

Running == mounted /\ fault = "none"
Tracked(k) == cache_entries_[k] # Null
MapSize == Cardinality({k \in Keys : Tracked(k)})

TypeOK ==
    /\ {head_, tail_} \subseteq Address
    /\ key_ \in [Nodes -> Keys \union {NoKey}]
    /\ {prev_, next_} \subseteq [Nodes -> Address]
    /\ live \subseteq Nodes
    /\ cache_entries_ \in [Keys -> Address]
    /\ fault # "dangling" => \A k \in Keys : Tracked(k) =>
            cache_entries_[k] \in live /\ key_[cache_entries_[k]] = k
    /\ file.count \in Nat /\ file.keys \in Seq(Keys)
    /\ victim \in Keys \union {NoKey}
    /\ fault \in {"none", "throw", "dangling"}
    /\ mounted \in BOOLEAN /\ mount \in 1..MaxMounts

Init ==
    /\ head_ = Null /\ tail_ = Null
    /\ key_ = [n \in Nodes |-> NoKey]
    /\ prev_ = [n \in Nodes |-> Null]
    /\ next_ = [n \in Nodes |-> Null]
    /\ live = {}
    /\ cache_entries_ = [k \in Keys |-> Null]
    /\ file = NoFile /\ victim = NoKey /\ fault = "none"
    /\ mounted = TRUE /\ mount = 1

\* The nodes from a node on, along next_ or along prev_.
Walk(start, link) ==
    LET step[i \in Nodes] == IF i = 1 THEN start
                             ELSE IF step[i-1] = Null THEN Null ELSE link[step[i-1]]
    IN [i \in 1..Cardinality({n \in Nodes : step[n] # Null}) |-> step[i]]

Forward == Walk(head_, next_)
KeysOf(path) == [i \in DOMAIN path |-> key_[path[i]]]

\* The neighbours of a node joined over it.
Mut_OnlyForward(e) == prev_

NextWithout(e) == [n \in Nodes |-> IF n = prev_[e] THEN next_[e] ELSE next_[n]]
PrevWithout(e) == [n \in Nodes |-> IF n = next_[e] THEN prev_[e] ELSE prev_[n]]

-----------------------------------------------------------------------------
AccessHead(k) ==
    /\ Running /\ Tracked(k) /\ cache_entries_[k] = head_
    /\ victim' = NoKey
    /\ UNCHANGED <<links, file, fault, mounted, mount>>

Mut_TailStays(e) == tail_
TailAfterMove(e) == IF e = tail_ THEN prev_[e] ELSE tail_

\* First in, first out: an access to a known key does not move its node.
Mut_KeepsPlace(k) ==
    /\ Running /\ Tracked(k) /\ cache_entries_[k] # head_
    /\ victim' = NoKey
    /\ UNCHANGED <<links, file, fault, mounted, mount>>

AccessMove(k) ==
    LET entry == cache_entries_[k] IN
    /\ Running /\ Tracked(k) /\ entry # head_
    /\ next_' = [NextWithout(entry) EXCEPT ![entry] = head_]
    /\ prev_' = [PrevWithout(entry) EXCEPT ![entry] = Null, ![head_] = entry]
    /\ tail_' = TailAfterMove(entry)
    /\ head_' = entry
    /\ victim' = NoKey
    /\ UNCHANGED <<key_, live, cache_entries_, file, fault, mounted, mount>>

AccessNew(k) ==
    LET new == Min(Nodes \ live) IN
    /\ Running /\ ~Tracked(k)
    /\ live' = live \union {new}
    /\ key_' = [key_ EXCEPT ![new] = k]
    /\ next_' = [next_ EXCEPT ![new] = head_]
    /\ prev_' = [n \in Nodes |-> IF n = new THEN Null
                                 ELSE IF n = head_ THEN new ELSE prev_[n]]
    /\ head_' = new
    /\ tail_' = IF tail_ = Null THEN new ELSE tail_
    /\ cache_entries_' = [cache_entries_ EXCEPT ![k] = new]
    /\ victim' = NoKey
    /\ UNCHANGED <<file, fault, mounted, mount>>

Mut_NotErased(k) == cache_entries_
Erased(k) == [cache_entries_ EXCEPT ![k] = Null]

\* delete cache_entries_[key] frees the map's node, or nothing when the map
\* lacks the key (the old tail is then leaked); the map's node may not be the
\* tail that was unlinked.
Evict ==
    LET key == key_[tail_]
        before == prev_[tail_]
        freed == cache_entries_[key] IN
    /\ Running /\ tail_ # Null
    /\ victim' = key
    /\ next_' = [n \in Nodes |-> IF n = before THEN Null ELSE next_[n]]
    /\ tail_' = before
    /\ head_' = IF before = Null THEN Null ELSE head_
    /\ live' = live \ {freed}
    /\ cache_entries_' = Erased(key)
    /\ fault' = IF freed \notin {tail_, Null} THEN "dangling" ELSE "none"
    /\ UNCHANGED <<key_, prev_, file, mounted, mount>>

EvictEmpty ==
    /\ Running /\ tail_ = Null
    /\ fault' = "throw"
    /\ UNCHANGED <<links, file, victim, mounted, mount>>

RemoveEntry(k) ==
    LET entry == cache_entries_[k] IN
    /\ Running /\ Tracked(k)
    /\ next_' = NextWithout(entry)
    /\ prev_' = PrevWithout(entry)
    /\ head_' = IF entry = head_ THEN next_[entry] ELSE head_
    /\ tail_' = IF entry = tail_ THEN prev_[entry] ELSE tail_
    /\ live' = live \ {entry}
    /\ cache_entries_' = Erased(k)
    /\ victim' = NoKey
    /\ UNCHANGED <<key_, file, fault, mounted, mount>>

RemoveUnknown(k) ==
    /\ Running /\ ~Tracked(k)
    /\ fault' = "throw"
    /\ UNCHANGED <<links, file, victim, mounted, mount>>

Persist ==
    /\ Running
    /\ file' = [count |-> MapSize, keys |-> KeysOf(Forward)]
    /\ mounted' = FALSE
    /\ UNCHANGED <<links, victim, fault, mount>>

\* The next process appends a fresh node at the tail for each key it reads.
Load ==
    LET n == file.count IN
    /\ ~mounted /\ fault = "none" /\ mount < MaxMounts
    /\ live' = 1..n
    /\ key_' = [m \in Nodes |-> IF m <= n THEN file.keys[m] ELSE NoKey]
    /\ next_' = [m \in Nodes |-> IF m < n THEN m + 1 ELSE Null]
    /\ prev_' = [m \in Nodes |-> IF m <= n THEN m - 1 ELSE Null]
    /\ head_' = IF n = 0 THEN Null ELSE 1
    /\ tail_' = n
    /\ cache_entries_' = [k \in Keys |-> Null]
    /\ file' = NoFile
    /\ mounted' = TRUE
    /\ mount' = mount + 1
    /\ UNCHANGED <<victim, fault>>

Next ==
    \/ \E k \in Keys : \/ AccessHead(k) \/ AccessMove(k) \/ AccessNew(k)
                       \/ RemoveEntry(k) \/ RemoveUnknown(k)
    \/ Evict
    \/ EvictEmpty
    \/ Persist
    \/ Load

Spec == Init /\ [][Next]_vars

-----------------------------------------------------------------------------
(***************************************************************************)
(* The list is one list: read along prev_ from tail_ it is the reverse of  *)
(* what it is along next_ from head_, and every node on it is allocated    *)
(* (the pointer surgery of access, evict and remove).                      *)
(***************************************************************************)
DoublyLinked ==
    fault # "dangling" => /\ Walk(tail_, prev_) = Reverse(Forward)
                          /\ Range(Forward) \subseteq live

\* The sequence the pointers form.
List == INSTANCE RecencyList WITH
    list <- KeysOf(Forward),
    entries <- {k \in Keys : Tracked(k)}

(***************************************************************************)
(* The pointers implement the sequence view, in every mount: access moves  *)
(* the key's newest node to the front, evict takes the last node, persist  *)
(* writes the list head to tail.                                           *)
(***************************************************************************)
ImplementsRecencyList == List!Spec

(***************************************************************************)
(* Within one mount list and map agree and nothing freed stays linked      *)
(* (cache_replacer.cc:77-164); the sequence of the pointers shows it.      *)
(***************************************************************************)
OneNodePerEntry == List!OneNodePerEntry

(***************************************************************************)
(* In every mount each entry of the map has a node in the list, and        *)
(* persist never counts more keys than it writes (cache_replacer.cc:178).  *)
(***************************************************************************)
EntriesAreListed == List!EntriesAreListed

(***************************************************************************)
(* The pointer operations evict in least-recently-used order until the     *)
(* replacer is loaded by a second mount (README.md: "使用LRU作为替换策略"). *)
(***************************************************************************)
ImplementsLRUOrder ==
    /\ List!Order!Init
    /\ [][mount' = 1 => List!Order!Next]_(List!Order!vars)
    /\ [][mount' = 1 =>
            /\ \A k \in Keys :
                  /\ AccessHead(k) \/ AccessMove(k) \/ AccessNew(k) => List!Order!Access(k)
                  /\ RemoveEntry(k) => List!Order!Remove(k)
            /\ Evict => List!Order!Evict(victim')]_vars
=============================================================================
