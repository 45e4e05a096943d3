----------------------------- MODULE PlainFiles -----------------------------
(***************************************************************************)
(* Regular files under CloudfsControllerNoDedup (cloudfs_controller.cc):   *)
(* small files stay in their buffer file, larger ones are one object on    *)
(* the cloud, downloaded into the buffer file by open and uploaded by      *)
(* close.  A file may have several names and several descriptors.  FUSE    *)
(* runs single threaded, so a handler is a step; the process may be killed *)
(* between two handlers or between two steps of a close.                   *)
(***************************************************************************)
EXTENDS Naturals, FiniteSets, SequencesExt, FiniteSetsExt, FileBytes

CONSTANTS
    Names,      \* paths of regular files
    Inodes,     \* main files on the SSD
    Fds,        \* descriptors
    None,       \* no inode, no name, no object
    Keys,       \* keys of objects
    KeyOf,      \* generate_object_key of the buffer path made from a name
    Units,      \* contents, that of a hole among them
    Lost,       \* stands for the content of a file the user may have lost
    Threshold,  \* state_->threshold
    MaxSize,    \* bound: file size
    MaxWrite    \* bound: units per write

ASSUME KeyAssumption == KeyOf \in [Names -> Keys]
ASSUME UnitsAssumption == Hole \in Units
ASSUME SizesAssumption == Threshold \in Nat /\ MaxSize \in Nat /\ MaxWrite \in Nat
ASSUME NoneAssumption == None \notin Inodes \union Names

SeqsUpTo(n) == UNION {[1..m -> Units] : m \in 0..n}
Contents == SeqsUpTo(MaxSize)
ASSUME NoContentAssumption == {None, Lost} \cap Contents = {}

VARIABLES
    dir,            \* the inode of a name, or None
    buffer_path,    \* xattr of an inode: the name its buffer path was made from
    is_on_cloud,    \* xattr of an inode
    buffer,         \* the buffer file made for a name, or None
    size,           \* xattr of the buffer file
    cloud,          \* the object of a key, or None
    open_files_,    \* per descriptor the name it was opened by, and is_dirty_
    truncated,      \* history: inodes whose buffer file was truncated since
                    \* its size was last recorded
    interrupted,    \* history: inodes left open by a crash and not closed since
    orphans,        \* history: keys uploaded by a close that was cut short
    lost,           \* history: inodes whose users broke the rules below
    past            \* history: which of Events happened

inodeVars == <<buffer_path, is_on_cloud>>
vars == <<dir, inodeVars, buffer, size, cloud, open_files_,
          truncated, interrupted, orphans, lost, past>>

Events == {"reused", "collided"}
Closed == [name |-> None, dirty |-> FALSE]

TypeOK ==
    /\ dir \in [Names -> Inodes \union {None}]
    /\ buffer_path \in [Inodes -> Names \union {None}]
    /\ is_on_cloud \in [Inodes -> BOOLEAN]
    /\ buffer \in [Names -> Contents \union {None}]
    /\ size \in [Names -> 0..MaxSize]
    /\ cloud \in [Keys -> Contents \union {None}]
    /\ open_files_ \in [Fds -> [name : Names \union {None}, dirty : BOOLEAN]]
    /\ truncated \subseteq Inodes /\ interrupted \subseteq Inodes /\ lost \subseteq Inodes
    /\ orphans \subseteq Keys
    /\ past \subseteq Events
    /\ \A n \in Names : dir[n] # None => /\ buffer_path[dir[n]] # None
                                         /\ past = {} => buffer[buffer_path[dir[n]]] # None
    /\ \A fd \in Fds : open_files_[fd].name # None => dir[open_files_[fd].name] # None

Init ==
    /\ dir = [n \in Names |-> None]
    /\ buffer_path = [i \in Inodes |-> None]
    /\ is_on_cloud = [i \in Inodes |-> FALSE]
    /\ buffer = [n \in Names |-> None]
    /\ size = [n \in Names |-> 0]
    /\ cloud = [k \in Keys |-> None]
    /\ open_files_ = [fd \in Fds |-> Closed]
    /\ truncated = {} /\ interrupted = {} /\ orphans = {} /\ lost = {} /\ past = {}

-----------------------------------------------------------------------------
\* What the model follows ends when two files come to share a buffer file or
\* an object.
Idle == past = {}

Linked(i) == \E n \in Names : dir[n] = i
IsOpen(fd) == open_files_[fd].name # None
InodeOf(fd) == dir[open_files_[fd].name]
OpenOn(i) == {fd \in Fds : IsOpen(fd) /\ InodeOf(fd) = i}

Buffer(i) == buffer[buffer_path[i]]
Size(i) == size[buffer_path[i]]
Key(i) == KeyOf[buffer_path[i]]

\* download_file: the error of a missing object is only logged.
Object(i) == IF cloud[Key(i)] = None THEN <<>> ELSE cloud[Key(i)]

-----------------------------------------------------------------------------
(* Creating, linking, unlinking.                                           *)

\* creat on the buffer path empties a buffer file that is there: one whose
\* file was linked under another name before this one was unlinked.
CreateFile(n, i) ==
    /\ dir' = [dir EXCEPT ![n] = i]
    /\ buffer_path' = [buffer_path EXCEPT ![i] = n]
    /\ is_on_cloud' = [is_on_cloud EXCEPT ![i] = FALSE]
    /\ buffer' = [buffer EXCEPT ![n] = <<>>]
    /\ size' = [size EXCEPT ![n] = 0]
    /\ past' = IF buffer[n] = None THEN past ELSE past \union {"reused"}

\* The new file is opened by the same handler.
Create(n, i, fd) ==
    /\ Idle /\ dir[n] = None /\ ~Linked(i) /\ ~IsOpen(fd)
    /\ CreateFile(n, i)
    /\ open_files_' = [open_files_ EXCEPT ![fd] = [name |-> n, dirty |-> FALSE]]
    /\ UNCHANGED <<cloud, truncated, interrupted, orphans, lost>>

Link(n, new) ==
    /\ Idle /\ dir[n] # None /\ dir[new] = None
    /\ dir' = [dir EXCEPT ![new] = dir[n]]
    /\ UNCHANGED <<inodeVars, buffer, size, cloud, open_files_,
                   truncated, interrupted, orphans, lost, past>>

\* FUSE hides a file that is unlinked while open under that name by renaming
\* it, which this file system does not support.
Mut_UnlinksOpen(n) == dir[n] # None
Unlinkable(n) == dir[n] # None /\ \A fd \in Fds : open_files_[fd].name # n

UnlinkName(n) ==
    /\ Idle /\ Unlinkable(n)
    /\ \E m \in Names \ {n} : dir[m] = dir[n]
    /\ dir' = [dir EXCEPT ![n] = None]
    /\ UNCHANGED <<inodeVars, buffer, size, cloud, open_files_,
                   truncated, interrupted, orphans, lost, past>>

Mut_ObjectStays(i) == cloud
ObjectDeleted(i) == IF is_on_cloud[i] THEN [cloud EXCEPT ![Key(i)] = None] ELSE cloud

UnlinkLast(n) ==
    LET i == dir[n] IN
    /\ Idle /\ Unlinkable(n)
    /\ \A m \in Names \ {n} : dir[m] # i
    /\ dir' = [dir EXCEPT ![n] = None]
    /\ cloud' = ObjectDeleted(i)
    /\ buffer' = [buffer EXCEPT ![buffer_path[i]] = None]
    /\ size' = [size EXCEPT ![buffer_path[i]] = 0]
    /\ buffer_path' = [buffer_path EXCEPT ![i] = None]
    /\ is_on_cloud' = [is_on_cloud EXCEPT ![i] = FALSE]
    /\ truncated' = truncated \ {i}
    /\ interrupted' = interrupted \ {i}
    /\ lost' = lost \ {i}
    /\ UNCHANGED <<open_files_, orphans, past>>

-----------------------------------------------------------------------------
(* Opening, writing, truncating.                                           *)

\* Changes that are only in the buffer file.
Unsaved(i) == i \in truncated \/ \E fd \in OpenOn(i) : open_files_[fd].dirty

\* Rule 1: a file on the cloud is not opened while another descriptor has
\* unsaved changes, which the download overwrites.
Mut_NeverOverwrites(i) == FALSE
OverwritesChanges(i) == is_on_cloud[i] /\ OpenOn(i) # {} /\ Unsaved(i)

Opened(n, fd, download) ==
    LET i == dir[n] IN
    /\ Idle /\ i # None /\ ~IsOpen(fd)
    /\ buffer' = IF is_on_cloud[i] THEN [buffer EXCEPT ![buffer_path[i]] = download] ELSE buffer
    /\ open_files_' = [open_files_ EXCEPT ![fd] = [name |-> n, dirty |-> FALSE]]
    /\ truncated' = IF is_on_cloud[i] THEN truncated \ {i} ELSE truncated
    /\ UNCHANGED <<dir, inodeVars, size, cloud, interrupted, orphans, past>>

Open(n, fd) ==
    /\ Opened(n, fd, Object(dir[n]))
    /\ lost' = IF OverwritesChanges(dir[n]) THEN lost \union {dir[n]} ELSE lost

\* A download that breaks off is only logged: the file is opened with the
\* part that arrived, and the next close takes it for truncated.
OpenFailing(n, fd, arrived) ==
    /\ Opened(n, fd, Resized(Object(dir[n]), arrived))
    /\ is_on_cloud[dir[n]] /\ arrived < Len(Object(dir[n]))
    /\ lost' = lost \union {dir[n]}

Mut_SizeNotRecorded(i, bytes) == size
Recorded(i, bytes) == [size EXCEPT ![buffer_path[i]] = Len(bytes)]

Write(fd, offset, data) ==
    LET i == InodeOf(fd)
        bytes == Overwrite(Buffer(i), offset, data) IN
    /\ Idle /\ IsOpen(fd) /\ offset + Len(data) <= MaxSize
    /\ buffer' = [buffer EXCEPT ![buffer_path[i]] = bytes]
    /\ size' = Recorded(i, bytes)
    /\ open_files_' = [open_files_ EXCEPT ![fd].dirty = TRUE]
    /\ truncated' = truncated \ {i}
    /\ UNCHANGED <<dir, inodeVars, cloud, interrupted, orphans, lost, past>>

\* Only the buffer file is truncated.
\* Rule 2: a file on the cloud is not truncated while it is closed (nor
\* opened with O_TRUNC): the next open downloads the object again.
Mut_NeverClosed(i) == FALSE
TruncatesClosed(i) == is_on_cloud[i] /\ OpenOn(i) = {}

Truncate(n, newSize) ==
    LET i == dir[n] IN
    /\ Idle /\ i # None
    /\ buffer' = [buffer EXCEPT ![buffer_path[i]] = Resized(Buffer(i), newSize)]
    /\ truncated' = IF TruncatesClosed(i) THEN truncated ELSE truncated \union {i}
    /\ lost' = IF TruncatesClosed(i) THEN lost \union {i} ELSE lost
    /\ UNCHANGED <<dir, inodeVars, size, cloud, open_files_, interrupted, orphans, past>>

-----------------------------------------------------------------------------
(* Closing.                                                                *)

OthersOpen(fd) == OpenOn(InodeOf(fd)) # {fd}

Mut_DirtyOnly(fd) == open_files_[fd].dirty
Changed(fd) == open_files_[fd].dirty \/ Len(Buffer(InodeOf(fd))) # Size(InodeOf(fd))

IsLarge(i) == Len(Buffer(i)) > Threshold

CloseEffect(fd) ==
    /\ open_files_' = [open_files_ EXCEPT ![fd] = Closed]
    /\ size' = Recorded(InodeOf(fd), Buffer(InodeOf(fd)))
    /\ truncated' = truncated \ {InodeOf(fd)}
    /\ interrupted' = IF Changed(fd) \/ is_on_cloud[InodeOf(fd)]
                      THEN interrupted \ {InodeOf(fd)} ELSE interrupted

\* Another file whose object is under the same key.
Collides(i) == \E j \in Inodes \ {i} : Linked(j) /\ is_on_cloud[j] /\ Key(j) = Key(i)

Uploaded(i) == [cloud EXCEPT ![Key(i)] = Buffer(i)]
Mut_NotCleared(i) == buffer
Cleared(i) == [buffer EXCEPT ![buffer_path[i]] = <<>>]

ClosedLarge(fd) ==
    LET i == InodeOf(fd) IN
    /\ Idle /\ IsOpen(fd) /\ Changed(fd) /\ IsLarge(i)
    /\ CloseEffect(fd)
    /\ is_on_cloud' = [is_on_cloud EXCEPT ![i] = TRUE]
    /\ buffer' = Cleared(i)
    /\ orphans' = orphans \ {Key(i)}
    /\ past' = IF Collides(i) THEN past \union {"collided"} ELSE past
    /\ UNCHANGED <<dir, buffer_path>>

\* Rule 3: a file that is on the cloud when it is closed is not open under
\* another descriptor, whose buffer file is emptied.
CloseUpload(fd) ==
    /\ ClosedLarge(fd)
    /\ cloud' = Uploaded(InodeOf(fd))
    /\ lost' = IF OthersOpen(fd) THEN lost \union {InodeOf(fd)} ELSE lost

\* An upload that fails is only logged, and the buffer file emptied.
CloseUploadFailing(fd) ==
    /\ ClosedLarge(fd)
    /\ lost' = lost \union {InodeOf(fd)}
    /\ UNCHANGED cloud

CloseKeep(fd) ==
    LET i == InodeOf(fd) IN
    /\ Idle /\ IsOpen(fd) /\ Changed(fd) /\ ~IsLarge(i)
    /\ CloseEffect(fd)
    /\ cloud' = ObjectDeleted(i)
    /\ is_on_cloud' = [is_on_cloud EXCEPT ![i] = FALSE]
    /\ UNCHANGED <<dir, buffer_path, buffer, orphans, lost, past>>

\* Rule 4: a file on the cloud is not truncated and then extended to its old
\* size again without a write: the size looks unchanged.
Regrown(i) == i \in truncated /\ Len(Buffer(i)) = Size(i)
ClosesUnsaved(fd) == is_on_cloud[InodeOf(fd)] /\ (OthersOpen(fd) \/ Regrown(InodeOf(fd)))

CloseRead(fd) ==
    LET i == InodeOf(fd) IN
    /\ Idle /\ IsOpen(fd) /\ ~Changed(fd)
    /\ CloseEffect(fd)
    /\ buffer' = IF is_on_cloud[i] THEN Cleared(i) ELSE buffer
    /\ lost' = IF ClosesUnsaved(fd) THEN lost \union {i} ELSE lost
    /\ UNCHANGED <<dir, inodeVars, cloud, orphans, past>>

-----------------------------------------------------------------------------
(* The process is killed: descriptors and dirty flags are gone.            *)

Killed ==
    /\ open_files_' = [fd \in Fds |-> Closed]
    /\ truncated' = {i \in truncated : ~is_on_cloud[i]}
    /\ interrupted' = interrupted \union {i \in Inodes : OpenOn(i) # {}}
    /\ UNCHANGED <<dir, buffer_path, past>>

Crash ==
    /\ Idle
    /\ Killed
    /\ UNCHANGED <<is_on_cloud, buffer, size, cloud, orphans, lost>>

\* Killed while closing, after the object was uploaded and before is_on_cloud
\* was set, or after that and before the buffer file was cleared.
CrashUploaded(fd, marked) ==
    LET i == InodeOf(fd) IN
    /\ Idle /\ IsOpen(fd) /\ Changed(fd) /\ IsLarge(i) /\ ~Collides(i)
    /\ Killed
    /\ cloud' = Uploaded(i)
    /\ size' = Recorded(i, Buffer(i))
    /\ is_on_cloud' = [is_on_cloud EXCEPT ![i] = @ \/ marked]
    /\ orphans' = IF is_on_cloud'[i] THEN orphans \ {Key(i)} ELSE orphans \union {Key(i)}
    /\ UNCHANGED <<buffer, lost>>

\* Killed after the object was deleted and before is_on_cloud was reset: the
\* next open overwrites the only copy, the buffer file, with nothing.
CrashDeleted(fd) ==
    LET i == InodeOf(fd) IN
    /\ Idle /\ IsOpen(fd) /\ Changed(fd) /\ ~IsLarge(i) /\ is_on_cloud[i]
    /\ Killed
    /\ cloud' = ObjectDeleted(i)
    /\ size' = Recorded(i, Buffer(i))
    /\ lost' = lost \union {i}
    /\ UNCHANGED <<is_on_cloud, buffer, orphans>>

-----------------------------------------------------------------------------
Data == SeqsUpTo(MaxWrite) \ {<<>>}

Next ==
    \/ \E n \in Names, fd \in Fds : \/ Open(n, fd)
                                    \/ \E arrived \in 0..MaxSize : OpenFailing(n, fd, arrived)
                                    \/ \E i \in Inodes : Create(n, i, fd)
    \/ \E n \in Names : \/ UnlinkName(n) \/ UnlinkLast(n)
                        \/ \E new \in Names : Link(n, new)
                        \/ \E newSize \in 0..MaxSize : Truncate(n, newSize)
    \/ \E fd \in Fds : \/ CloseUpload(fd) \/ CloseUploadFailing(fd)
                       \/ CloseKeep(fd) \/ CloseRead(fd)
                       \/ CrashDeleted(fd)
                       \/ \E marked \in BOOLEAN : CrashUploaded(fd, marked)
                       \/ \E offset \in 0..MaxSize, data \in Data : Write(fd, offset, data)
    \/ Crash

Spec == Init /\ [][Next]_vars

-----------------------------------------------------------------------------
(* What holds, as long as no two files share a buffer file or an object.   *)

\* What a reader gets, now and after a crash.
Held(i) == IF is_on_cloud[i] THEN Object(i) ELSE Buffer(i)
Seen(i) == IF OpenOn(i) = {} THEN Held(i) ELSE Buffer(i)

Store == INSTANCE FileStore WITH
    Empty <- <<>>,
    content <- [i \in Inodes |-> IF i \in lost THEN Lost
                                 ELSE IF Linked(i) THEN Seen(i) ELSE <<>>],
    durable <- [i \in Inodes |-> IF i \in lost THEN Lost
                                 ELSE IF Linked(i) THEN Held(i) ELSE <<>>]

\* Which of the store's actions each handler is: on names, on the file of a
\* path, and on that of a descriptor.
NamesMapped(n) ==
    /\ \A i \in Inodes, fd \in Fds : Create(n, i, fd) => Store!Create(n, i)
    /\ \A new \in Names : Link(n, new) => Store!Link(n, new)
    /\ UnlinkName(n) \/ UnlinkLast(n) => Store!Unlink(n)

PathMapped(n, i) ==
    dir[n] = i =>
        /\ \A fd \in Fds : Open(n, fd) =>
              IF OverwritesChanges(i) THEN Store!Lose(i) ELSE UNCHANGED Store!vars
        /\ \A fd \in Fds, arrived \in 0..MaxSize : OpenFailing(n, fd, arrived) => Store!Lose(i)
        /\ \A newSize \in 0..MaxSize : Truncate(n, newSize) =>
              IF TruncatesClosed(i) THEN Store!Lose(i) ELSE Store!Truncate(i, newSize)

DescriptorMapped(fd, i) ==
    IsOpen(fd) /\ InodeOf(fd) = i =>
        /\ \A offset \in 0..MaxSize, data \in Data :
              Write(fd, offset, data) => Store!Write(i, offset, data)
        /\ CloseUpload(fd) => IF OthersOpen(fd) THEN Store!Lose(i) ELSE Store!Close(i)
        /\ CloseUploadFailing(fd) => Store!Lose(i)
        /\ CloseKeep(fd) => Store!Close(i)
        /\ CloseRead(fd) => IF ClosesUnsaved(fd) THEN Store!Lose(i) ELSE Store!Close(i)
        /\ \A marked \in BOOLEAN : CrashUploaded(fd, marked) => Store!Crash({i}, {})
        /\ CrashDeleted(fd) => Store!Crash({}, {i})

(***************************************************************************)
(* The controller implements plain files: opening changes no content, a    *)
(* write and a truncation change what they should, closing makes a file    *)
(* durable, a crash takes back only what was written since, and only a     *)
(* broken rule, a failed transfer or a crash between the deletion of an    *)
(* object and the reset of is_on_cloud costs a file, and no other than the *)
(* one it concerns (open_file, write_file, close_file, truncate_file,      *)
(* unlink_file of CloudfsControllerNoDedup).                               *)
(***************************************************************************)
ImplementsFileStore ==
    /\ Store!Init
    /\ [][past' = {} => Store!Next]_(Store!vars)
    /\ [][past' = {} => /\ \A n \in Names : NamesMapped(n)
                        /\ \A n \in Names, i \in Inodes : PathMapped(n, i)
                        /\ \A fd \in Fds, i \in Inodes : DescriptorMapped(fd, i)
                        /\ Crash => Store!Crash({}, {})]_vars

(***************************************************************************)
(* The size in the attribute of the buffer file, which stat_file returns   *)
(* (cloudfs_controller.cc:236), is the length of what a read returns,      *)
(* except between a truncation and the next write or close, and for a file *)
(* on the cloud that a crash left open.                                    *)
(***************************************************************************)
StatIsSize ==
    past = {} => \A i \in Inodes :
        Linked(i) /\ i \notin truncated \union lost =>
            \/ Size(i) = Len(Seen(i))
            \/ i \in interrupted /\ is_on_cloud[i]

(***************************************************************************)
(* Objects and files agree: every file that is on the cloud has its        *)
(* object, and every object is that of such a file, unless a close was cut *)
(* short: changing between local and cloud in any order neither loses nor  *)
(* leaks an object (close_file, unlink_file).                              *)
(***************************************************************************)
ObjectsAreFiles ==
    past = {} =>
        /\ \A i \in Inodes : Linked(i) /\ is_on_cloud[i] /\ i \notin lost => cloud[Key(i)] # None
        /\ \A k \in Keys \ orphans : cloud[k] # None =>
              \E i \in Inodes : Linked(i) /\ is_on_cloud[i] /\ Key(i) = k

(***************************************************************************)
(* The SSD holds only small files: once closed, a file on the cloud has an *)
(* empty buffer file, any other one of at most the threshold, unless it    *)
(* was truncated while closed or left open by a crash (close_file).        *)
(***************************************************************************)
SsdHoldsSmall ==
    past = {} => \A i \in Inodes :
        Linked(i) /\ OpenOn(i) = {} /\ i \notin truncated \union interrupted \union lost =>
            Len(Buffer(i)) <= IF is_on_cloud[i] THEN 0 ELSE Threshold

(***************************************************************************)
(* A file whose descriptors wrote nothing and that was not truncated has   *)
(* the size it had: close takes no other file for truncated                *)
(* (cloudfs_controller.cc:419-421), unless rule 3 was broken.              *)
(***************************************************************************)
SizeChangeIsTruncation ==
    past = {} => \A fd \in Fds : IsOpen(fd) /\ Changed(fd) =>
        \/ open_files_[fd].dirty
        \/ InodeOf(fd) \in truncated \union lost \union interrupted
=============================================================================
