--------------------------- MODULE SnapshotStore ---------------------------
(***************************************************************************)
(* What the snapshot ioctls promise (snapshot.h, snapshot-api.h): named    *)
(* copies of the user's files.  Taking one copies the files, restoring one *)
(* puts them back and forgets the newer copies, deleting one forgets it.   *)
(***************************************************************************)
EXTENDS Naturals, FiniteSets

CONSTANTS Timestamps, Trees, EmptyTree, NoTree, MaxSnapshots

VARIABLES
    files,      \* the user's files
    copies,     \* per timestamp the files of the snapshot, or NoTree
    restored    \* the snapshot the last call restored, or 0

vars == <<files, copies, restored>>

Taken == {t \in Timestamps : copies[t] # NoTree}

Init ==
    /\ files = EmptyTree
    /\ copies = [t \in Timestamps |-> NoTree]
    /\ restored = 0

\* The user changes files, or the local disk is formatted while unmounted.
Change(tree) ==
    /\ files' = tree
    /\ restored' = 0
    /\ UNCHANGED copies

Take(ts) ==
    /\ ts \notin Taken /\ Cardinality(Taken) < MaxSnapshots
    /\ copies' = [copies EXCEPT ![ts] = files]
    /\ restored' = 0
    /\ UNCHANGED files

Restore(ts) ==
    /\ ts \in Taken
    /\ files' = copies[ts]
    /\ copies' = [t \in Timestamps |-> IF t > ts THEN NoTree ELSE copies[t]]
    /\ restored' = ts

Delete(ts) ==
    /\ ts \in Taken
    /\ copies' = [copies EXCEPT ![ts] = NoTree]
    /\ restored' = 0
    /\ UNCHANGED files

\* A call that is refused, or that does not concern the copies.
Other == restored' = 0 /\ UNCHANGED <<files, copies>>

Next ==
    \/ \E tree \in Trees : Change(tree)
    \/ Other
    \/ \E ts \in Timestamps : Take(ts) \/ Restore(ts) \/ Delete(ts)

Spec == Init /\ [][Next]_vars
=============================================================================
