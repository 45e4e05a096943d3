---------------------------- MODULE ObjectStore ----------------------------
(***************************************************************************)
(* What BufferFileController promises the file system about chunks         *)
(* (buffer_file.h): an object stored under a key can be read back until it *)
(* is deleted, wherever it is kept meanwhile.  A key is the digest of its  *)
(* content, so an object is its key.                                       *)
(***************************************************************************)
CONSTANTS
    Keys,
    NoKey       \* nothing was read

VARIABLES
    stored,     \* the keys whose object exists
    reply       \* the object the last completed read returned

Init == stored = {} /\ reply = NoKey

Put(k) ==
    /\ k \notin stored
    /\ stored' = stored \union {k}
    /\ UNCHANGED reply

Get(k) ==
    /\ k \in stored
    /\ reply' = k
    /\ UNCHANGED stored

Delete(k) ==
    /\ k \in stored
    /\ stored' = stored \ {k}
    /\ UNCHANGED reply

\* The cloud could not be reached, or the process was killed.
Lose(ks) ==
    /\ stored' = stored \ ks
    /\ reply' \in {reply, NoKey}

Next == \/ \E k \in Keys : Put(k) \/ Get(k) \/ Delete(k)
        \/ \E ks \in SUBSET Keys : Lose(ks)

Spec == Init /\ [][Next]_<<stored, reply>>
=============================================================================
