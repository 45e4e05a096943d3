-------------------------- MODULE Snapshots_proofs --------------------------
(***************************************************************************)
(* Proofs about Snapshots, for any timestamps, files, contents and bounds: *)
(* listed snapshots can be read, installed ones are listed and unchanged,  *)
(* and the controller implements SnapshotStore.                            *)
(***************************************************************************)
EXTENDS Snapshots, FiniteSetTheorems, TLAPS

-----------------------------------------------------------------------------
(* The inductive invariant.                                                *)

\* The lists only grow by one snapshot at a time, below the maximum.
ListsBounded ==
    /\ IsFiniteSet(snapshot_list) /\ Cardinality(snapshot_list) <= MaxSnapshots
    /\ IsFiniteSet(cloud_list) /\ Cardinality(cloud_list) <= MaxSnapshots

\* Between mounts the list on the cloud is the one on the SSD, unless a new
\* disk emptied the latter.
ListsAgree ==
    ~mounted /\ "stale" \notin past => snapshot_list \in {cloud_list, {}}

\* restored describes the last call of a mounted file system.
RestoredIsLast == ~mounted => restored = 0

IInv ==
    /\ TypeOK
    /\ ListsBounded
    /\ ListsAgree
    /\ RestoredIsLast
    /\ ListedAreStored
    /\ InstalledShowSnapshot

-----------------------------------------------------------------------------
\* A restore never deletes a snapshot it keeps.
LEMMA KeptNotDeleted ==
    ASSUME NEW ts \in Timestamps, snapshot_list \subseteq Timestamps
    PROVE  /\ Kept(ts) \subseteq snapshot_list
           /\ Deleted(ts) \subseteq snapshot_list
           /\ \A t \in Kept(ts) : t \notin Deleted(ts) /\ ~(t > ts)
           /\ \A t \in Deleted(ts) : t > ts
           /\ \A t \in snapshot_list : t \in Kept(ts) <=> ~(t > ts)
  BY TimestampsAssumption DEF Kept, Deleted

\* The files in a tree are a tree when one of them changes, or all are gone.
LEMMA TreeFacts ==
    /\ EmptyTree \in Trees
    /\ \A tree \in Trees, f \in Files, c \in Contents \union {NoFile} :
          [tree EXCEPT ![f] = c] \in Trees
  BY DEF EmptyTree, Trees

\* The empty file system satisfies the invariant.
LEMMA Initially == Init => IInv
<1> SUFFICES ASSUME Init PROVE IInv
  OBVIOUS
<1>1. TypeOK
  BY TreeFacts, FS_EmptySet, BoundsAssumption DEF Init, TypeOK
<1>2. ListsBounded
  BY FS_EmptySet, BoundsAssumption DEF Init, ListsBounded
<1>3. QED
  BY <1>1, <1>2 DEF Init, IInv, ListsAgree, RestoredIsLast, ListedAreStored,
       Listed, InstalledShowSnapshot

-----------------------------------------------------------------------------
(* One lemma per action.                                                   *)

\* The user's files are no part of a snapshot.
LEMMA WriteFileStep ==
    ASSUME IInv, NEW f \in Files, NEW c \in Contents \union {NoFile}, WriteFile(f, c)
    PROVE  IInv'
<1> USE DEF IInv, WriteFile, lists, mountVars
<1>1. TypeOK'
  BY TreeFacts DEF TypeOK
<1>2. ListsBounded' /\ ListsAgree' /\ RestoredIsLast'
  BY DEF ListsBounded, ListsAgree, RestoredIsLast
<1>3. Listed' = Listed /\ \A t \in Timestamps : Stored(t)' = Stored(t)
  BY DEF Listed, Loaded, Stored
<1>4. ListedAreStored'
  BY <1>3 DEF ListedAreStored, Listed, Loaded, Stored
<1>5. InstalledShowSnapshot'
  BY DEF InstalledShowSnapshot, Stored
<1>6. QED
  BY <1>1, <1>2, <1>4, <1>5

\* A new snapshot is stored and finds nothing installed.
LEMMA CreateStep ==
    ASSUME IInv, NEW ts \in Timestamps, CreateSnapshot(ts)
    PROVE  IInv'
<1> USE DEF IInv, CreateSnapshot, CreateRefused, mountVars
<1>1. Cardinality(snapshot_list) \in Nat /\ Cardinality(snapshot_list) < MaxSnapshots
  BY FS_CardinalityType, BoundsAssumption DEF ListsBounded
<1>2. ListsBounded'
  <2>1. /\ IsFiniteSet(snapshot_list \union {ts})
        /\ Cardinality(snapshot_list \union {ts}) = Cardinality(snapshot_list) + 1
    BY FS_AddElement DEF ListsBounded
  <2>2. Cardinality(snapshot_list \union {ts}) <= MaxSnapshots
    BY <1>1, <2>1, BoundsAssumption
  <2>3. QED
    BY <2>1, <2>2 DEF ListsBounded
<1>3. TypeOK'
  BY <1>2 DEF TypeOK, ListsBounded
<1>4. ListedAreStored'
  BY NoObjectAssumption DEF TypeOK, ListedAreStored, Listed, Stored
<1>5. InstalledShowSnapshot'
  BY DEF InstalledShowSnapshot
<1>6. QED
  BY <1>2, <1>3, <1>4, <1>5 DEF ListsAgree, RestoredIsLast

\* A deleted snapshot leaves the list and is not installed.
LEMMA DeleteStep ==
    ASSUME IInv, NEW ts \in Timestamps, DeleteSnapshot(ts)
    PROVE  IInv'
<1> USE DEF IInv, DeleteSnapshot, Busy, mountVars
<1>1. Cardinality(snapshot_list) \in Nat
  BY FS_CardinalityType DEF ListsBounded
<1>2. ListsBounded'
  <2>1. /\ IsFiniteSet(snapshot_list \ {ts})
        /\ Cardinality(snapshot_list \ {ts}) = Cardinality(snapshot_list) - 1
    BY FS_RemoveElement DEF ListsBounded
  <2>2. Cardinality(snapshot_list \ {ts}) <= MaxSnapshots
    BY <1>1, <2>1, BoundsAssumption DEF ListsBounded
  <2>3. QED
    BY <2>1, <2>2 DEF ListsBounded
<1>3. TypeOK'
  BY <1>2 DEF TypeOK, ListsBounded
<1>4. ListedAreStored'
  BY DEF TypeOK, ListedAreStored, Listed, Stored
<1>5. InstalledShowSnapshot'
  BY DEF TypeOK, InstalledShowSnapshot, Stored
<1>6. QED
  BY <1>2, <1>3, <1>4, <1>5 DEF ListsAgree, RestoredIsLast

\* A restore keeps the object of every snapshot it keeps on the list.
LEMMA RestoreStep ==
    ASSUME IInv, NEW ts \in Timestamps, RestoreSnapshot(ts)
    PROVE  IInv'
<1> USE DEF IInv, RestoreSnapshot, mountVars
<1>1. /\ Kept(ts) \subseteq snapshot_list
      /\ \A t \in Kept(ts) : t \notin Deleted(ts)
  BY KeptNotDeleted DEF TypeOK
<1>2. ListsBounded'
  <2>1. IsFiniteSet(Kept(ts)) /\ Cardinality(Kept(ts)) <= Cardinality(snapshot_list)
    BY <1>1, FS_Subset DEF ListsBounded
  <2>2. Cardinality(Kept(ts)) \in Nat /\ Cardinality(snapshot_list) \in Nat
    BY <2>1, FS_CardinalityType DEF ListsBounded
  <2>3. QED
    BY <2>1, <2>2, BoundsAssumption DEF ListsBounded
<1>3. TypeOK'
  <2>1. snapshot_list' \subseteq Timestamps /\ installed_snapshot_list' \subseteq Timestamps
    BY <1>1 DEF TypeOK
  <2>2. objects' \in [Timestamps -> Trees \union {NoObject}]
    BY DEF TypeOK
  <2>3. files' \in Trees /\ shown' \in [Timestamps -> Trees]
    BY TreeFacts DEF TypeOK, ShownWithout, Stored
  <2>4. QED
    BY <1>2, <2>1, <2>2, <2>3 DEF TypeOK, ListsBounded, Events
<1>4. ListedAreStored'
  BY <1>1 DEF TypeOK, ListedAreStored, Listed, Stored
<1>5. InstalledShowSnapshot'
  BY DEF TypeOK, InstalledShowSnapshot, Stored, ShownWithout
<1>6. QED
  BY <1>2, <1>3, <1>4, <1>5 DEF ListsAgree, RestoredIsLast

\* Only a stale list names a snapshot whose object is missing.
LEMMA RestoreMissingStep ==
    ASSUME IInv, NEW ts \in Timestamps, RestoreMissing(ts)
    PROVE  IInv'
<1> USE DEF IInv, RestoreMissing, lists, mountVars
<1>1. "stale" \in past
  BY DEF ListedAreStored, Listed
<1>2. TypeOK'
  BY TreeFacts DEF TypeOK, ShownWithout
<1>3. InstalledShowSnapshot'
  BY <1>1 DEF TypeOK, InstalledShowSnapshot, Stored, ShownWithout
<1>4. QED
  BY <1>1, <1>2, <1>3 DEF ListsBounded, ListsAgree, RestoredIsLast, ListedAreStored

\* An installed snapshot is listed, stored and shown.
LEMMA InstallStep ==
    ASSUME IInv, NEW ts \in Timestamps, InstallSnapshot(ts)
    PROVE  IInv'
<1> USE DEF IInv, InstallSnapshot, Unpacked, mountVars
<1>1. objects[ts] \in Trees
  BY DEF TypeOK, Stored
<1>2. TypeOK'
  BY <1>1 DEF TypeOK
<1>3. InstalledShowSnapshot'
  BY DEF TypeOK, InstalledShowSnapshot, Stored
<1>4. QED
  BY <1>2, <1>3 DEF ListsBounded, ListsAgree, RestoredIsLast, ListedAreStored,
       Listed, Stored

\* Uninstalling clears the directory of that snapshot only.
LEMMA UninstallStep ==
    ASSUME IInv, NEW ts \in Timestamps, UninstallSnapshot(ts)
    PROVE  IInv'
<1> USE DEF IInv, UninstallSnapshot, ShownWithout, mountVars
<1>1. TypeOK'
  BY TreeFacts DEF TypeOK
<1>2. InstalledShowSnapshot'
  BY DEF TypeOK, InstalledShowSnapshot, Stored
<1>3. QED
  BY <1>1, <1>2 DEF ListsBounded, ListsAgree, RestoredIsLast, ListedAreStored,
       Listed, Stored

\* The uploaded list is the one on the SSD, or a stale one is on the cloud.
LEMMA UnmountStep ==
    ASSUME IInv, Unmount
    PROVE  IInv'
<1> USE DEF IInv, Unmount, lists
<1>1. TypeOK' /\ ListsBounded'
  BY DEF TypeOK, ListsBounded, Persisted, Events
<1>2. ListsAgree' /\ RestoredIsLast'
  BY DEF ListsAgree, RestoredIsLast, Persisted
<1>3. ASSUME "stale" \notin past' PROVE past' = past /\ Listed' = Listed
  BY <1>3 DEF Listed, Loaded, Persisted
<1>4. ListedAreStored'
  BY <1>3 DEF ListedAreStored, Stored
<1>5. InstalledShowSnapshot'
  BY DEF InstalledShowSnapshot, Stored
<1>6. QED
  BY <1>1, <1>2, <1>4, <1>5

\* A new disk leaves the snapshots that the cloud has.
LEMMA FormatStep ==
    ASSUME IInv, Format
    PROVE  IInv'
<1> USE DEF IInv, Format, mountVars
<1>1. TypeOK' /\ ListsBounded'
  BY TreeFacts, FS_EmptySet, BoundsAssumption DEF TypeOK, ListsBounded, ShownWithout
<1>2. ListsAgree' /\ RestoredIsLast'
  BY DEF ListsAgree, RestoredIsLast
<1>3. ListedAreStored'
  BY DEF ListedAreStored, Listed, Loaded, Stored
<1>4. QED
  BY <1>1, <1>2, <1>3 DEF InstalledShowSnapshot

\* Mounting makes the list what it would have been.
LEMMA MountStep ==
    ASSUME IInv, Mount
    PROVE  IInv'
<1> USE DEF IInv, Mount
<1>1. TypeOK' /\ ListsBounded'
  BY BoundsAssumption DEF TypeOK, ListsBounded, Loaded
<1>2. Listed' = Listed
  BY DEF Listed
<1>3. ListedAreStored' /\ InstalledShowSnapshot'
  BY <1>2 DEF ListedAreStored, InstalledShowSnapshot, Stored
<1>4. QED
  BY <1>1, <1>3 DEF ListsAgree, RestoredIsLast

\* Every step preserves the invariant: one of the actions, or a stutter.
LEMMA Step == IInv /\ [Next]_vars => IInv'
<1> SUFFICES ASSUME IInv, [Next]_vars PROVE IInv'
  OBVIOUS
<1>1. ASSUME NEW f \in Files, NEW c \in Contents \union {NoFile}, WriteFile(f, c)
      PROVE  IInv'
  BY <1>1, WriteFileStep
<1>2. ASSUME NEW ts \in Timestamps,
             \/ CreateSnapshot(ts) \/ DeleteSnapshot(ts)
             \/ RestoreSnapshot(ts) \/ RestoreMissing(ts)
             \/ InstallSnapshot(ts) \/ UninstallSnapshot(ts)
      PROVE  IInv'
  BY <1>2, CreateStep, DeleteStep, RestoreStep, RestoreMissingStep, InstallStep,
     UninstallStep
<1>3. CASE Unmount \/ Format \/ Mount
  BY <1>3, UnmountStep, FormatStep, MountStep
<1>4. CASE UNCHANGED vars
  BY <1>4 DEF vars, IInv, TypeOK, ListsBounded, ListsAgree, RestoredIsLast,
       ListedAreStored, Listed, Loaded, Stored, InstalledShowSnapshot
<1>5. QED
  BY <1>1, <1>2, <1>3, <1>4 DEF Next

\* The invariant holds in every reachable state.
LEMMA Invariance == Spec => []IInv
  BY Initially, Step, PTL DEF Spec

-----------------------------------------------------------------------------
(***************************************************************************)
(* Every variable keeps its type, and the list of snapshots never exceeds  *)
(* CLOUDFS_MAX_NUM_SNAPSHOTS, also when it is loaded from the cloud.       *)
(***************************************************************************)
THEOREM SnapshotTypes == Spec => []TypeOK
  BY Invariance, PTL DEF IInv

(***************************************************************************)
(* Every listed snapshot has its object on the cloud, through restores,    *)
(* deletions, remounts and new disks, unless an empty list was not         *)
(* uploaded at an unmount.                                                 *)
(***************************************************************************)
THEOREM SnapshotsReadable == Spec => []ListedAreStored
  BY Invariance, PTL DEF IInv

(***************************************************************************)
(* An installed snapshot is never deleted, and its directory shows its     *)
(* files or, after a restore, nothing, whatever list a mount brings back.  *)
(***************************************************************************)
THEOREM InstalledUnchanged == Spec => []InstalledShowSnapshot
  BY Invariance, PTL DEF IInv

\* History does not forget.
LEMMA PastGrows == ASSUME [Next]_vars PROVE past \subseteq past'
  BY DEF Next, vars, WriteFile, CreateSnapshot, DeleteSnapshot, RestoreSnapshot,
     RestoreMissing, InstallSnapshot, UninstallSnapshot, Unmount, Format, Mount

\* What a step does to an installed snapshot and the list.
LEMMA StepKeepsInstalled ==
    ASSUME IInv, [Next]_vars, "stale" \notin past',
           NEW ts \in installed_snapshot_list' \intersect Listed
    PROVE  ts \in Listed' \/ FirstNewer(ts)
<1>1. "stale" \notin past
  BY PastGrows
<1>2. ASSUME NEW f \in Files, NEW c \in Contents \union {NoFile}, WriteFile(f, c)
      PROVE  ts \in Listed'
  BY <1>2 DEF WriteFile, lists, mountVars, Listed, Loaded
<1>3. ASSUME NEW t \in Timestamps, \/ CreateSnapshot(t) \/ InstallSnapshot(t)
                                   \/ UninstallSnapshot(t) \/ RestoreMissing(t)
      PROVE  ts \in Listed'
  BY <1>3 DEF CreateSnapshot, InstallSnapshot, UninstallSnapshot, RestoreMissing, lists,
     mountVars, Listed
<1>4. ASSUME NEW t \in Timestamps, DeleteSnapshot(t)
      PROVE  ts \in Listed'
  BY <1>4 DEF DeleteSnapshot, Busy, mountVars, Listed
<1>5. ASSUME NEW t \in Timestamps, RestoreSnapshot(t), ts \notin Listed'
      PROVE  FirstNewer(ts)
  <2>1. Listed = snapshot_list /\ Listed' = Kept(t) /\ restored' = t
    BY <1>5 DEF RestoreSnapshot, mountVars, Listed
  <2>2. ts > t /\ ts \notin Deleted(t) /\ snapshot_list \subseteq Timestamps
    BY <1>5, <2>1, KeptNotDeleted DEF RestoreSnapshot, IInv, TypeOK
  <2>3. \A o \in snapshot_list : ~(t < o /\ o < ts)
    BY <2>1, <2>2 DEF Deleted
  <2>4. t \in Nat \ {0} /\ ts \in Nat /\ \A o \in Listed : o \in Nat
    BY <2>1, <2>2, TimestampsAssumption
  <2>5. \A o \in Listed : o <= t \/ o >= ts
    BY <2>1, <2>3, <2>4
  <2>6. QED
    BY <2>1, <2>2, <2>4, <2>5 DEF FirstNewer
<1>6. CASE Unmount
  BY <1>6 DEF Unmount, lists, Listed, Loaded, Persisted
<1>7. CASE Format
  BY <1>1, <1>7 DEF IInv, ListsAgree, Format, Listed, Loaded, mountVars
<1>8. CASE Mount
  BY <1>8 DEF Mount, Listed
<1>9. CASE UNCHANGED vars
  BY <1>9 DEF vars, Listed, Loaded
<1>10. QED
  BY <1>2, <1>3, <1>4, <1>5, <1>6, <1>7, <1>8, <1>9 DEF Next

(***************************************************************************)
(* An installed snapshot stays on the list, through deletions, restores,   *)
(* new disks and remounts, unless a stale list is left: a restore drops    *)
(* the first snapshot that is newer, and no other installed one.           *)
(***************************************************************************)
THEOREM InstalledNotDropped == Spec => InstalledStayListed
<1>1. IInv /\ [Next]_vars =>
        [ "stale" \notin past' =>
            \A ts \in installed_snapshot_list' \intersect Listed :
                ts \in Listed' \/ FirstNewer(ts) ]_vars
  BY StepKeepsInstalled
<1>2. QED
  BY <1>1, Invariance, PTL DEF Spec, InstalledStayListed

-----------------------------------------------------------------------------
(* The refinement.                                                         *)

\* While no stale list is left, the copies of the store are the objects of
\* the listed snapshots.
LEMMA TakenAreListed ==
    ASSUME IInv, "stale" \notin past
    PROVE  /\ Listed \subseteq Timestamps
           /\ \A t \in Listed : Stored(t) /\ Copies[t] = objects[t]
           /\ \A t \in Timestamps \ Listed : Copies[t] = NoObject
           /\ Store!Taken = Listed
  BY DEF IInv, TypeOK, ListedAreStored, Listed, Loaded, Copies, Stored, Store!Taken

\* Both specifications start without snapshots.
LEMMA InitRefines == Init => Store!Init
  BY DEF Init, Store!Init, Copies, Listed, Stored

\* The second conjunct of the refinement.
StepMapped ==
    /\ \A f \in Files, c \in Contents \union {NoFile} :
          WriteFile(f, c) => Store!Change([files EXCEPT ![f] = c])
    /\ \A ts \in Timestamps : IoctlMapped(ts)
    /\ Unmount => Store!Other
    /\ Format => Store!Change(EmptyTree)
    /\ Mount => UNCHANGED Store!vars

\* Every handler is the store's action that it should be.
LEMMA StepMaps ==
    ASSUME IInv, [Next]_vars, past' \subseteq {"restored"}
    PROVE  StepMapped
<1>1. "stale" \notin past
  BY PastGrows
<1>2. /\ Listed \subseteq Timestamps
      /\ \A t \in Listed : Stored(t) /\ Copies[t] = objects[t]
      /\ \A t \in Timestamps \ Listed : Copies[t] = NoObject
      /\ Store!Taken = Listed
  BY <1>1, TakenAreListed
<1>3. ASSUME NEW f \in Files, NEW c \in Contents \union {NoFile}, WriteFile(f, c)
      PROVE  Store!Change([files EXCEPT ![f] = c])
  <2>1. Copies' = Copies
    BY <1>3 DEF WriteFile, lists, mountVars, Copies, Listed, Loaded, Stored
  <2>2. QED
    BY <1>3, <2>1 DEF WriteFile, Store!Change
<1>4. ASSUME NEW ts \in Timestamps, CreateSnapshot(ts)
      PROVE  Store!Take(ts)
  <2>1. Listed = snapshot_list /\ Listed' = snapshot_list \union {ts}
    BY <1>4 DEF CreateSnapshot, mountVars, Listed
  <2>2. ts \notin Listed /\ Cardinality(Listed) < MaxSnapshots
    <3>1. Cardinality(snapshot_list) \in Nat
      BY FS_CardinalityType DEF IInv, ListsBounded
    <3>2. QED
      BY <1>4, <2>1, <3>1, BoundsAssumption DEF CreateSnapshot, CreateRefused
  <2>3. Copies' = [Copies EXCEPT ![ts] = files]
    <3>1. objects'[ts] = files /\ \A t \in Timestamps \ {ts} : objects'[t] = objects[t]
      BY <1>4 DEF IInv, TypeOK, CreateSnapshot
    <3>2. QED
      BY <2>1, <3>1 DEF Copies, Stored
  <2>4. Store!Cardinality(Listed) = Cardinality(Listed)
    BY Zenon DEF Store!Cardinality, Cardinality
  <2>5. QED
    BY <1>2, <1>4, <2>2, <2>3, <2>4 DEF CreateSnapshot, Store!Take
<1>5. ASSUME NEW ts \in Timestamps, DeleteSnapshot(ts)
      PROVE  Store!Delete(ts)
  <2>1. Listed = snapshot_list /\ Listed' = snapshot_list \ {ts}
    BY <1>5 DEF DeleteSnapshot, mountVars, Listed
  <2>2. Copies' = [Copies EXCEPT ![ts] = NoObject]
    <3>1. \A t \in Timestamps \ {ts} : objects'[t] = objects[t]
      BY <1>5 DEF IInv, TypeOK, DeleteSnapshot
    <3>2. QED
      BY <2>1, <3>1 DEF Copies, Stored
  <2>3. QED
    BY <1>2, <1>5, <2>1, <2>2 DEF DeleteSnapshot, Store!Delete
<1>6. ASSUME NEW ts \in Timestamps, RestoreSnapshot(ts)
      PROVE  Store!Restore(ts)
  <2>1. Listed = snapshot_list /\ Listed' = Kept(ts)
    BY <1>6 DEF RestoreSnapshot, mountVars, Listed
  <2>2. /\ \A t \in Kept(ts) : t \notin Deleted(ts) /\ ~(t > ts) /\ t \in snapshot_list
        /\ \A t \in snapshot_list : t \in Kept(ts) <=> ~(t > ts)
    BY KeptNotDeleted DEF IInv, TypeOK
  <2>3. \A t \in Kept(ts) : objects'[t] = objects[t]
    BY <1>2, <1>6, <2>1, <2>2 DEF RestoreSnapshot
  <2>4. Copies' = [t \in Timestamps |-> IF t > ts THEN NoObject ELSE Copies[t]]
    <3>1. ASSUME NEW t \in Timestamps
          PROVE  (IF t \in Listed' /\ Stored(t)' THEN objects'[t] ELSE NoObject)
                 = IF t > ts THEN NoObject ELSE Copies[t]
      BY <1>2, <2>1, <2>2, <2>3 DEF Stored
    <3>2. QED
      BY <3>1 DEF Copies
  <2>5. QED
    BY <1>2, <1>6, <2>1, <2>4 DEF RestoreSnapshot, Store!Restore
<1>7. ASSUME NEW ts \in Timestamps, RestoreMissing(ts)
      PROVE  FALSE
  BY <1>2, <1>7 DEF RestoreMissing, Listed, Stored
<1>8. ASSUME NEW ts \in Timestamps, InstallSnapshot(ts) \/ UninstallSnapshot(ts)
      PROVE  Store!Other
  BY <1>8 DEF InstallSnapshot, UninstallSnapshot, mountVars, Copies, Listed, Loaded,
     Stored, Store!Other
<1>9. ASSUME Unmount PROVE Store!Other
  <2>1. Listed' = Listed
    BY <1>9 DEF Unmount, Listed, Loaded, Persisted, lists
  <2>2. QED
    BY <1>9, <2>1 DEF Unmount, Copies, Stored, Store!Other
<1>10. ASSUME Format PROVE Store!Change(EmptyTree)
  <2>1. Listed' = Listed
    BY <1>1, <1>10 DEF IInv, ListsAgree, Format, Listed, Loaded, mountVars
  <2>2. Copies' = Copies
    BY <1>10, <2>1 DEF Format, Copies, Stored
  <2>3. QED
    BY <1>10, <2>2 DEF IInv, RestoredIsLast, Format, Store!Change
<1>11. ASSUME Mount PROVE UNCHANGED Store!vars
  <2>1. Listed' = Listed
    BY <1>11 DEF Mount, Listed
  <2>2. QED
    BY <1>11, <2>1 DEF Mount, Copies, Stored, Store!vars
<1>12. \A ts \in Timestamps : IoctlMapped(ts)
  BY <1>4, <1>5, <1>6, <1>7, <1>8 DEF IoctlMapped
<1>13. QED
  BY <1>3, <1>9, <1>10, <1>11, <1>12 DEF StepMapped

\* So every step is a step of the store, or changes nothing the store sees.
LEMMA StepRefines ==
    ASSUME IInv, [Next]_vars, past' \subseteq {"restored"}
    PROVE  Store!Next \/ UNCHANGED Store!vars
<1>1. StepMapped
  BY StepMaps
<1>2. ASSUME NEW f \in Files, NEW c \in Contents \union {NoFile}, WriteFile(f, c)
      PROVE  Store!Next
  <2>1. [files EXCEPT ![f] = c] \in Trees
    BY TreeFacts DEF IInv, TypeOK
  <2>2. Store!Change([files EXCEPT ![f] = c])
    BY <1>1, <1>2 DEF StepMapped
  <2>3. QED
    BY <2>1, <2>2 DEF Store!Next, Store!Change
<1>3. ASSUME NEW ts \in Timestamps,
             \/ CreateSnapshot(ts) \/ DeleteSnapshot(ts)
             \/ RestoreSnapshot(ts) \/ RestoreMissing(ts)
             \/ InstallSnapshot(ts) \/ UninstallSnapshot(ts)
      PROVE  Store!Next
  <2>1. IoctlMapped(ts)
    BY <1>1 DEF StepMapped
  <2>2. QED
    BY <1>3, <2>1 DEF IoctlMapped, Store!Next
<1>4. CASE Unmount
  BY <1>1, <1>4 DEF StepMapped, Store!Next
<1>5. CASE Format
  <2>1. Store!Change(EmptyTree)
    BY <1>1, <1>5 DEF StepMapped
  <2>2. QED
    BY <2>1, TreeFacts DEF Store!Next
<1>6. CASE Mount
  BY <1>1, <1>6 DEF StepMapped
<1>7. CASE UNCHANGED vars
  BY <1>7 DEF vars, Copies, Listed, Loaded, Stored, Store!vars
<1>8. QED
  BY <1>2, <1>3, <1>4, <1>5, <1>6, <1>7 DEF Next

(***************************************************************************)
(* The snapshot ioctls, unmounting, new disks and mounting implement the   *)
(* store of copies of the user's files, while no stale list is left: a     *)
(* restore brings back the files of the moment the snapshot was taken, and *)
(* each call is the store's action of its name.                            *)
(***************************************************************************)
THEOREM SnapshotStoreImplemented == Spec => ImplementsSnapshotStore
<1>1. Init => Store!Init
  BY InitRefines
<1>2. IInv /\ [Next]_vars => [past' \subseteq {"restored"} => Store!Next]_(Store!vars)
  BY StepRefines
<1>3. IInv /\ [Next]_vars => [past' \subseteq {"restored"} => StepMapped]_vars
  BY StepMaps
<1>4. Spec => Store!Init
  BY <1>1 DEF Spec
<1>5. Spec => [][past' \subseteq {"restored"} => Store!Next]_(Store!vars)
  BY <1>2, Invariance, PTL DEF Spec
<1>6. Spec => [][past' \subseteq {"restored"} => StepMapped]_vars
  BY <1>3, Invariance, PTL DEF Spec
<1>7. QED
  BY <1>4, <1>5, <1>6, PTL DEF ImplementsSnapshotStore, StepMapped
=============================================================================
