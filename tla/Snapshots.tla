----------------------------- MODULE Snapshots -----------------------------
(***************************************************************************)
(* The snapshot controller (snapshot.cc): the lists of snapshots and of    *)
(* installed snapshots in the attributes of the file .snapshot, the        *)
(* snapshot objects, the files on the SSD that a snapshot copies and a     *)
(* restore replaces, and the directories snapshot_<ts> that show installed *)
(* snapshots.  A file's content is a value; how the chunks of large files  *)
(* survive is the matter of ChunkTable.  The caller passes the timestamp   *)
(* of a new snapshot, so that it can be any.  Directories are left out:    *)
(* clear_dir never removes one, so that install_snapshot, which has to     *)
(* make the directory snapshot_<ts>, may fail without changing anything    *)
(* else.  FUSE runs single threaded: an ioctl is a step.                   *)
(***************************************************************************)
EXTENDS Naturals, FiniteSets

CONSTANTS
    Timestamps,     \* the timestamps callers pass
    Files, Contents,
    NoFile,
    NoObject,
    MaxSnapshots,   \* CLOUDFS_MAX_NUM_SNAPSHOTS
    MaxMounts       \* bound: mounts

ASSUME TimestampsAssumption == Timestamps \subseteq Nat \ {0}
ASSUME BoundsAssumption == MaxSnapshots \in Nat /\ MaxMounts \in Nat \ {0}

Trees == [Files -> Contents \union {NoFile}]
EmptyTree == [f \in Files |-> NoFile]

ASSUME NoObjectAssumption == NoObject \notin Trees

VARIABLES
    snapshot_list,  \* attributes user.cloudfs.snapshot_<i>
    installed_snapshot_list,
    objects,        \* per timestamp the files in the snapshot object, or NoObject
    cloud_list,     \* the snapshot list as last uploaded
    files,          \* the user's files
    shown,          \* per timestamp the files in its directory
    mounted, mount,
    restored,       \* history: the snapshot the last call restored, or 0
    past            \* history: which of Events happened

vars == <<snapshot_list, installed_snapshot_list, objects, cloud_list, files,
          shown, mounted, mount, restored, past>>
lists == <<snapshot_list, installed_snapshot_list>>
mountVars == <<cloud_list, mounted, mount>>

Events == {"restored", "stale"}

TypeOK ==
    /\ snapshot_list \subseteq Timestamps
    /\ Cardinality(snapshot_list) <= MaxSnapshots
    /\ installed_snapshot_list \subseteq Timestamps
    /\ objects \in [Timestamps -> Trees \union {NoObject}]
    /\ cloud_list \subseteq Timestamps
    /\ files \in Trees
    /\ shown \in [Timestamps -> Trees]
    /\ mounted \in BOOLEAN /\ mount \in 1..MaxMounts
    /\ restored \in Timestamps \union {0}
    /\ past \subseteq Events

Init ==
    /\ snapshot_list = {} /\ installed_snapshot_list = {}
    /\ objects = [t \in Timestamps |-> NoObject]
    /\ cloud_list = {}
    /\ files = EmptyTree
    /\ shown = [t \in Timestamps |-> EmptyTree]
    /\ mounted = TRUE /\ mount = 1
    /\ restored = 0 /\ past = {}

-----------------------------------------------------------------------------
\* What the user does outside the directories of installed snapshots.
WriteFile(f, c) ==
    /\ mounted /\ files[f] # c
    /\ files' = [files EXCEPT ![f] = c]
    /\ restored' = 0
    /\ UNCHANGED <<lists, objects, shown, mountVars, past>>

Mut_OneTooMany(ts) ==
    \/ Cardinality(snapshot_list) > MaxSnapshots
    \/ installed_snapshot_list # {}
    \/ ts \in snapshot_list
CreateRefused(ts) ==
    \/ Cardinality(snapshot_list) >= MaxSnapshots
    \/ installed_snapshot_list # {}
    \/ ts \in snapshot_list

\* Files below the directories of snapshots are there only while a snapshot
\* is installed, so that the walk finds none.
CreateSnapshot(ts) ==
    /\ mounted /\ ~CreateRefused(ts)
    /\ objects' = [objects EXCEPT ![ts] = files]
    /\ snapshot_list' = snapshot_list \union {ts}
    /\ restored' = 0
    /\ UNCHANGED <<installed_snapshot_list, files, shown, mountVars, past>>

ShownWithout(tss) == [t \in Timestamps |-> IF t \in tss THEN EmptyTree ELSE shown[t]]

\* delete_snapshot and install_snapshot of a listed snapshot read its object.
Stored(ts) == objects[ts] # NoObject

Mut_NeverBusy(ts) == FALSE
Busy(ts) == ts \in installed_snapshot_list

DeleteSnapshot(ts) ==
    /\ mounted /\ ts \in snapshot_list /\ ~Busy(ts) /\ Stored(ts)
    /\ objects' = [objects EXCEPT ![ts] = NoObject]
    /\ snapshot_list' = snapshot_list \ {ts}
    /\ restored' = 0
    /\ UNCHANGED <<installed_snapshot_list, files, shown, mountVars, past>>

Mut_KeepsFirstNewer(ts) ==
    {t \in snapshot_list : Cardinality({o \in snapshot_list : o > ts /\ o < t}) = 0}
Kept(ts) == {t \in snapshot_list : t <= ts}

\* The loop over the newer snapshots starts at the second of them.
Mut_FromRestored(ts) == {t \in snapshot_list : t >= ts}
Deleted(ts) == {t \in snapshot_list : \E o \in snapshot_list : ts < o /\ o < t}

\* clear_dir empties the directories of installed snapshots as well.
RestoreSnapshot(ts) ==
    /\ mounted /\ ts \in snapshot_list /\ Stored(ts)
    /\ files' = objects[ts]
    /\ shown' = ShownWithout(Timestamps)
    /\ objects' = [t \in Timestamps |-> IF t \in Deleted(ts) THEN NoObject ELSE objects[t]]
    /\ installed_snapshot_list' = installed_snapshot_list \ Deleted(ts)
    /\ snapshot_list' = Kept(ts)
    /\ restored' = ts
    /\ past' = past \union {"restored"}
    /\ UNCHANGED mountVars

\* The files are removed before the object is found missing.
RestoreMissing(ts) ==
    /\ mounted /\ ts \in snapshot_list /\ ~Stored(ts)
    /\ files' = EmptyTree
    /\ shown' = ShownWithout(Timestamps)
    /\ restored' = 0
    /\ UNCHANGED <<lists, objects, mountVars, past>>

Mut_ShowsCurrent(ts) == files
Unpacked(ts) == objects[ts]

InstallSnapshot(ts) ==
    /\ mounted /\ ts \in snapshot_list /\ ~Busy(ts) /\ Stored(ts)
    /\ shown' = [shown EXCEPT ![ts] = Unpacked(ts)]
    /\ installed_snapshot_list' = installed_snapshot_list \union {ts}
    /\ restored' = 0
    /\ UNCHANGED <<snapshot_list, objects, files, mountVars, past>>

\* Does not ask whether the snapshot is listed.
UninstallSnapshot(ts) ==
    /\ mounted /\ ts \in installed_snapshot_list
    /\ shown' = ShownWithout({ts})
    /\ installed_snapshot_list' = installed_snapshot_list \ {ts}
    /\ restored' = 0
    /\ UNCHANGED <<snapshot_list, objects, files, mountVars, past>>

\* persist returns without uploading when the list is empty.
Persisted == IF snapshot_list = {} THEN cloud_list ELSE snapshot_list

Unmount ==
    /\ mounted
    /\ cloud_list' = Persisted
    /\ past' = IF Persisted = snapshot_list THEN past ELSE past \union {"stale"}
    /\ mounted' = FALSE
    /\ restored' = 0
    /\ UNCHANGED <<lists, objects, files, shown, mount>>

\* A new local disk between two mounts, as in test_3_2.sh.
Format ==
    /\ ~mounted
    /\ snapshot_list' = {} /\ installed_snapshot_list' = {}
    /\ files' = EmptyTree
    /\ shown' = ShownWithout(Timestamps)
    /\ UNCHANGED <<objects, mountVars, restored, past>>

\* The uploaded list, when there is one, replaces the one on the SSD.
Loaded == IF cloud_list = {} THEN snapshot_list ELSE cloud_list

Mount ==
    /\ ~mounted /\ mount < MaxMounts
    /\ snapshot_list' = Loaded
    /\ mounted' = TRUE
    /\ mount' = mount + 1
    /\ UNCHANGED <<installed_snapshot_list, objects, files, shown, cloud_list, restored, past>>

Next ==
    \/ \E f \in Files, c \in Contents \union {NoFile} : WriteFile(f, c)
    \/ \E ts \in Timestamps :
          \/ CreateSnapshot(ts) \/ DeleteSnapshot(ts)
          \/ RestoreSnapshot(ts) \/ RestoreMissing(ts)
          \/ InstallSnapshot(ts) \/ UninstallSnapshot(ts)
    \/ Unmount \/ Format \/ Mount

Spec == Init /\ [][Next]_vars

-----------------------------------------------------------------------------
\* The list a mounted file system has, or would have when mounted now.
Listed == IF mounted THEN snapshot_list ELSE Loaded

(***************************************************************************)
(* Every listed snapshot can be read: its object is there, through         *)
(* restores that drop newer ones, deletions, remounts and a new disk,      *)
(* unless persist left the list of an earlier mount on the cloud.          *)
(***************************************************************************)
ListedAreStored == "stale" \notin past => \A ts \in Listed : Stored(ts)

(***************************************************************************)
(* An installed snapshot is never deleted ("cannot delete installed        *)
(* snapshot", snapshot.cc:651), and its directory shows its files as they  *)
(* were (install_snapshot, test_3_4.sh) or, once a restore has cleared it, *)
(* nothing: never other files, whatever is restored or remounted between.  *)
(***************************************************************************)
InstalledShowSnapshot ==
    \A ts \in installed_snapshot_list :
        /\ Stored(ts)
        /\ shown[ts] = objects[ts] \/ (past # {} /\ shown[ts] = EmptyTree)

(***************************************************************************)
(* A snapshot does not leave the list while it is installed, through       *)
(* deletions, restores and remounts, unless a stale list is left: only a   *)
(* restore drops one without uninstalling it, the first that is newer than *)
(* the restored one (snapshot.cc:563-579).                                 *)
(***************************************************************************)
FirstNewer(t) == restored' # 0 /\ t > restored' /\ \A o \in Listed : o <= restored' \/ o >= t
InstalledStayListed ==
    [][ "stale" \notin past' =>
        \A ts \in installed_snapshot_list' \intersect Listed : ts \in Listed' \/ FirstNewer(ts) ]_vars

Copies == [t \in Timestamps |-> IF t \in Listed /\ Stored(t) THEN objects[t] ELSE NoObject]
Store == INSTANCE SnapshotStore WITH
    copies <- Copies, NoTree <- NoObject

\* Which of the store's actions each ioctl is.
IoctlMapped(ts) ==
    /\ CreateSnapshot(ts) => Store!Take(ts)
    /\ DeleteSnapshot(ts) => Store!Delete(ts)
    /\ RestoreSnapshot(ts) => Store!Restore(ts)
    /\ ~RestoreMissing(ts)
    /\ InstallSnapshot(ts) \/ UninstallSnapshot(ts) => Store!Other

(***************************************************************************)
(* The ioctls implement the snapshot store: a restore brings back exactly  *)
(* the files that were there when the snapshot was created and forgets the *)
(* newer snapshots, deletions forget one, and snapshots survive remounts.  *)
(* While the list on the cloud is not a stale one, no restore finds its    *)
(* object missing after it has removed the user's files.                   *)
(***************************************************************************)
ImplementsSnapshotStore ==
    /\ Store!Init
    /\ [][past' \subseteq {"restored"} => Store!Next]_(Store!vars)
    /\ [][past' \subseteq {"restored"} =>
            /\ \A f \in Files, c \in Contents \union {NoFile} :
                  WriteFile(f, c) => Store!Change([files EXCEPT ![f] = c])
            /\ \A ts \in Timestamps : IoctlMapped(ts)
            /\ Unmount => Store!Other
            /\ Format => Store!Change(EmptyTree)
            /\ Mount => UNCHANGED Store!vars]_vars

(***************************************************************************)
(* restore_snapshot deletes "snapshots that are newer than the restored    *)
(* snapshot" (snapshot.cc:574), delete_snapshot deletes the "cloud object" *)
(* (snapshot.cc:689): every snapshot object on the cloud is listed.        *)
(***************************************************************************)
StoredAreListed ==
    "stale" \notin past => \A ts \in Timestamps : Stored(ts) => ts \in Listed
=============================================================================
