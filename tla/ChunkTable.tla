----------------------------- MODULE ChunkTable -----------------------------
(***************************************************************************)
(* The chunk table (chunk_table.cc) with what its counts are about: the    *)
(* chunks the live files are made of, the objects of the cloud, and the    *)
(* snapshot objects.  The file operations of CloudfsControllerDedup reach  *)
(* it through UseChunk and ReleaseChunk, the snapshot controller through   *)
(* the other actions; FUSE runs single threaded, so an operation is a step.*)
(***************************************************************************)
EXTENDS ChunkTableOps, FiniteSets

CONSTANTS
    MaxRefs,        \* bound: reference count of a key
    MaxShots,       \* bound: snapshots ever created
    MaxMounts       \* bound: mounts

ASSUME KeysAssumption == IsFiniteSet(Keys)
ASSUME BoundsAssumption ==
    MaxRefs \in Nat /\ MaxShots \in Nat /\ MaxMounts \in Nat \ {0}

Shots == 1..MaxShots

VARIABLES
    chunk_table,    \* chunk_table_
    live,           \* references to a key from the chunk lists of live files
    objects,        \* keys whose object is stored (cached or on the cloud)
    shots,          \* snapshots whose object is stored
    image,          \* the table part of the snapshot objects
    saved,          \* live, as the files recorded in the snapshot objects have it
    taken,          \* how many snapshots were created
    cloud_table,    \* the table as last uploaded
    mounted, mount,
    past            \* history: which of Events happened

vars == <<chunk_table, live, objects, shots, image, saved, taken, cloud_table,
          mounted, mount, past>>

shotVars == <<shots, image, saved, taken>>
mountVars == <<cloud_table, mounted, mount>>

Events == {"restored", "aborted", "stale"}
Counts == [Keys -> Nat]
NoCounts == [k \in Keys |-> 0]

TypeOK ==
    /\ chunk_table \in [Keys -> Entry]
    /\ live \in Counts
    /\ objects \subseteq Keys
    /\ shots \subseteq Shots
    /\ image \in [Shots -> [Keys -> ImageEntry]]
    /\ saved \in [Shots -> Counts]
    /\ taken \in 0..MaxShots
    /\ cloud_table \in [Keys -> Entry]
    /\ mounted \in BOOLEAN
    /\ mount \in 1..MaxMounts
    /\ past \subseteq Events

Init ==
    /\ chunk_table = EmptyTable
    /\ live = NoCounts
    /\ objects = {}
    /\ shots = {}
    /\ image = [s \in Shots |-> Image(EmptyTable)]
    /\ saved = [s \in Shots |-> NoCounts]
    /\ taken = 0
    /\ cloud_table = EmptyTable
    /\ mounted = TRUE
    /\ mount = 1
    /\ past = {}

-----------------------------------------------------------------------------
\* A chunk of a file is added: uploaded only when the table says it is new.
UseChunk(k) ==
    /\ mounted
    /\ chunk_table[k].ref < MaxRefs
    /\ live' = [live EXCEPT ![k] = @ + 1]
    /\ chunk_table' = Use(chunk_table, k)
    /\ objects' = IF UseIsNew(chunk_table, k) THEN objects \union {k} ELSE objects
    /\ UNCHANGED <<shotVars, mountVars, past>>

\* A chunk of a file goes: its object is deleted when nothing else uses it.
ReleaseChunk(k) ==
    /\ mounted
    /\ live[k] > 0
    /\ live' = [live EXCEPT ![k] = @ - 1]
    /\ chunk_table' = Release(chunk_table, k)
    /\ objects' = IF ReleaseIsLast(chunk_table, k) THEN objects \ {k} ELSE objects
    /\ UNCHANGED <<shotVars, mountVars, past>>

NextShot == taken + 1

\* create_snapshot: the image is written before the counts are raised.
TakeSnapshot ==
    /\ mounted
    /\ taken < MaxShots
    /\ image' = [image EXCEPT ![NextShot] = Image(chunk_table)]
    /\ saved' = [saved EXCEPT ![NextShot] = live]
    /\ chunk_table' = Snapshot(chunk_table)
    /\ shots' = shots \union {NextShot}
    /\ taken' = taken + 1
    /\ UNCHANGED <<live, objects, mountVars, past>>

\* create_snapshot returns an error after ChunkTable::snapshot: walking the
\* files failed, for instance on a symbolic link without a target.
AbortSnapshot ==
    /\ mounted
    /\ taken < MaxShots
    /\ chunk_table' = Snapshot(chunk_table)
    /\ taken' = taken + 1
    /\ past' = past \union {"aborted"}
    /\ UNCHANGED <<live, objects, shots, image, saved, mountVars>>

\* restore_snapshot up to the deletion of newer snapshots: the user's files
\* are removed without releasing their chunks, the recorded ones put back.
RestoreSnapshot(s) ==
    /\ mounted
    /\ s \in shots
    /\ chunk_table' = Restore(chunk_table, image[s])
    /\ live' = saved[s]
    /\ past' = past \union {"restored"}
    /\ UNCHANGED <<objects, shotVars, mountVars>>

DeleteSnapshot(s) ==
    /\ mounted
    /\ s \in shots
    /\ chunk_table' = SnapshotDeleted(chunk_table, image[s])
    /\ objects' = objects \ Dropped(chunk_table, image[s])
    /\ shots' = shots \ {s}
    /\ image' = [image EXCEPT ![s] = Image(EmptyTable)]
    /\ saved' = [saved EXCEPT ![s] = NoCounts]
    /\ UNCHANGED <<live, taken, mountVars, past>>

\* persist returns without uploading when the table is empty.
Persisted(t) == IF t = EmptyTable THEN cloud_table ELSE t

Unmount ==
    /\ mounted
    /\ cloud_table' = Persisted(chunk_table)
    /\ past' = IF cloud_table' = chunk_table THEN past ELSE past \union {"stale"}
    /\ mounted' = FALSE
    /\ UNCHANGED <<chunk_table, live, objects, shotVars, mount>>

Mount ==
    /\ ~mounted
    /\ mount < MaxMounts
    /\ chunk_table' = cloud_table
    /\ mounted' = TRUE
    /\ mount' = mount + 1
    /\ UNCHANGED <<live, objects, shotVars, cloud_table, past>>

Next ==
    \/ \E k \in Keys : UseChunk(k) \/ ReleaseChunk(k)
    \/ TakeSnapshot
    \/ AbortSnapshot
    \/ \E s \in Shots : RestoreSnapshot(s) \/ DeleteSnapshot(s)
    \/ Unmount
    \/ Mount

Spec == Init /\ [][Next]_vars

-----------------------------------------------------------------------------
\* The snapshots that need a chunk.
Users(k) == {s \in shots : image[s][k].ref > 0}
Needed(k) == live[k] > 0 \/ \E s \in shots : saved[s][k] > 0

(***************************************************************************)
(* No chunk that a live file or a snapshot still needs has been deleted    *)
(* from the store, through any sequence of writes, unlinks, snapshots,     *)
(* failed snapshots, restores and deletions (use, release, snapshot,       *)
(* restore, snapshot_deleted), unless an earlier mount left behind a table *)
(* that persist did not overwrite.                                         *)
(***************************************************************************)
NoChunkLost == "stale" \notin past => \A k \in Keys : Needed(k) => k \in objects

(***************************************************************************)
(* Every stored chunk is needed: when nothing references a chunk any more  *)
(* its object is gone (test_2_16.sh:129-137), as long as no snapshot was   *)
(* restored or failed.                                                     *)
(***************************************************************************)
NoChunkLeaked == past = {} => \A k \in objects : Needed(k)

(***************************************************************************)
(* snapshot_ref_count_ is what chunk_table.h:26-27 says, how many          *)
(* snapshots are using the chunk, unless creating one failed half way.     *)
(***************************************************************************)
SnapshotCountsExact ==
    past \subseteq {"restored"} =>
        \A k \in Keys : chunk_table[k].snap = Cardinality(Users(k))

(***************************************************************************)
(* ref_count_ never falls below the references the live files hold, so     *)
(* that releasing them never throws "Chunk not found in table" and never   *)
(* drives a count negative (chunk_table.cc:61-76), not even with a stale   *)
(* table.                                                                  *)
(***************************************************************************)
ReleaseNeverThrows ==
    \A k \in Keys : live[k] > 0 =>
        /\ chunk_table[k].ref >= live[k]
        /\ chunk_table[k].listed

(***************************************************************************)
(* What the table tells the callers of the chunk cache fits the store: an  *)
(* object is uploaded only when none is stored under its key, and deleted  *)
(* only when there is one.  ChunkCache assumes exactly that of its callers *)
(* (cloudfs_controller.cc:750-804).                                        *)
(***************************************************************************)
CallsFitTheStore ==
    past = {} => \A k \in Keys :
        /\ UseIsNew(chunk_table, k) => k \notin objects
        /\ live[k] > 0 /\ ReleaseIsLast(chunk_table, k) => k \in objects

-----------------------------------------------------------------------------
\* What a comment of chunk_table.h says without exception: it is violated, and
\* the counterexample is a finding.

(***************************************************************************)
(* use returns "true if this chunk is new" (chunk_table.h:51): a chunk     *)
(* whose object is not stored is reported new, so that it is uploaded.     *)
(***************************************************************************)
MissingIsReportedNew ==
    mounted => \A k \in Keys : k \notin objects => UseIsNew(chunk_table, k)

-----------------------------------------------------------------------------
(***************************************************************************)
(* The inductive invariant behind the properties above, in named parts.    *)
(* Counts may exceed what they count, never fall below it: that is what    *)
(* keeps chunks safe when a restore or a failed snapshot made them         *)
(* inexact.                                                                *)
(***************************************************************************)
\* What a table, in memory or on the cloud, must cover.
Covers(t) ==
    \A k \in Keys : /\ t[k].ref >= live[k]
                    /\ t[k].snap >= Cardinality(Users(k))
                    /\ ~t[k].listed => Zero(t[k])

ShotsSound ==
    /\ \A s \in shots : s <= taken
    /\ \A s \in shots, k \in Keys :
            /\ image[s][k].ref >= saved[s][k]
            /\ image[s][k].ref > 0 => image[s][k].listed

\* The reference counts are exact while nothing made them drift.
RefExact ==
    past = {} => /\ \A k \in Keys : chunk_table[k].ref = live[k]
                 /\ \A s \in shots, k \in Keys : image[s][k].ref = saved[s][k]

\* An object is stored for every counted key, and only for those.
CountedStored ==
    "stale" \notin past => \A k \in Keys : ~Zero(chunk_table[k]) => k \in objects
StoredCounted == past = {} => \A k \in objects : ~Zero(chunk_table[k])

\* Between mounts the cloud has the table, unless it was left stale.
CloudSound == \A k \in Keys : ~cloud_table[k].listed => Zero(cloud_table[k])
TableSaved ==
    ~mounted => /\ Covers(cloud_table)
                /\ "stale" \notin past => cloud_table = chunk_table

IInv ==
    /\ TypeOK
    /\ Covers(chunk_table)
    /\ ShotsSound
    /\ SnapshotCountsExact
    /\ RefExact
    /\ CountedStored
    /\ StoredCounted
    /\ CloudSound
    /\ TableSaved
=============================================================================
