----------------------------- MODULE ChunkCache -----------------------------
(***************************************************************************)
(* The write-back cache of chunk objects (class BufferFileController,      *)
(* buffer_file.cc) with its replacer, the .cache directory and the bucket. *)
(* A call that must make room is a request: each turn of the loop in       *)
(* evict_to_size is a step, and nothing else happens until the call has    *)
(* completed.  The process may be killed, and a transfer from or to the    *)
(* cloud may fail: its status is written to the log and not looked at.     *)
(* The callers read and delete only objects that they believe are stored,  *)
(* and store those that they believe are not: that is what the chunk table *)
(* tells them (ChunkTable!CallsFitTheStore) until a snapshot is restored,  *)
(* when a count can be zero while the object exists.  After a crash the    *)
(* table is the one of the last unmount.                                   *)
(***************************************************************************)
EXTENDS Naturals, Integers, FiniteSets, SequencesExt

CONSTANTS
    Keys,
    NoKey,
    Size,           \* the size of the object under a key
    CacheSize,      \* state->cache_size
    Flaky,          \* keys of the objects whose transfers may fail
    MaxMounts, MaxCrashes   \* bounds

ASSUME KeysAssumption == IsFiniteSet(Keys)
ASSUME SizeAssumption == Size \in [Keys -> Nat \ {0}]
ASSUME CacheSizeAssumption == CacheSize \in Nat
ASSUME FaultsAssumption == Flaky \subseteq Keys /\ MaxCrashes \in Nat
ASSUME MountsAssumption == MaxMounts \in Nat \ {0}

VARIABLES
    cloud,          \* keys of the objects in the bucket
    disk,           \* keys of the files in .cache
    short,          \* those that hold less than the object
    labelled,       \* those with the attributes that unmounting writes
    cached_objects_,\* per key "absent", "clean" or "dirty"
    cache_used_,
    request,        \* the call that is making room, or NoRequest
    reply,          \* the object the last completed read returned
    again,          \* history: an object was stored that was stored already
    touched,        \* history: keys stored or deleted since the last unmount
    failed,         \* history: keys of which the callers may believe what is
                    \* not so: a transfer failed, or a crash undid the belief
    crashes,
    list, entries, file, victim, fault, mounted, mount  \* the replacer

replacerVars == <<list, entries, file, victim, fault, mounted, mount>>
diskVars == <<disk, short, labelled>>
cacheVars == <<diskVars, cached_objects_, cache_used_>>
vars == <<cloud, cacheVars, request, reply, again, touched, failed, crashes,
          replacerVars>>

Replacer == INSTANCE RecencyList

NoRequest == [op |-> "none", key |-> NoKey]
Request == [op : {"upload", "download"}, key : Keys]

TypeOK ==
    /\ cloud \subseteq Keys /\ disk \subseteq Keys
    /\ short \subseteq disk /\ labelled \subseteq disk
    /\ touched \subseteq Keys /\ failed \subseteq Keys
    /\ crashes \in 0..MaxCrashes
    /\ cached_objects_ \in [Keys -> {"absent", "clean", "dirty"}]
    /\ cache_used_ \in 0..CacheSize
    /\ request \in Request \union {NoRequest}
    /\ reply \in Keys \union {NoKey}
    /\ again \in BOOLEAN
    /\ Replacer!TypeOK

Init ==
    /\ cloud = {} /\ disk = {} /\ short = {} /\ labelled = {}
    /\ touched = {} /\ failed = {} /\ crashes = 0
    /\ cached_objects_ = [k \in Keys |-> "absent"]
    /\ cache_used_ = 0
    /\ request = NoRequest
    /\ reply = NoKey
    /\ again = FALSE
    /\ Replacer!Init

IsCached(k) == cached_objects_[k] # "absent"
IsDirty(k) == cached_objects_[k] = "dirty"
Cached == {k \in Keys : IsCached(k)}
Dirty == {k \in Keys : IsDirty(k)}
Stored == cloud \union Dirty

\* The size an entry of the map carries; operator[] creates one of size 0.
EntrySize(k) == IF IsCached(k) THEN Size[k] ELSE 0

Mut_KeepsUsed(k) == cache_used_
UsedWithout(k) == cache_used_ - EntrySize(k)

Mut_NeverTooLarge(k) == Size[k] > CacheSize + 1
TooLarge(k) == Size[k] > CacheSize

Mut_FitsWithSlack(k) == CacheSize - cache_used_ + 1 >= Size[k]
Fits(k) == CacheSize - cache_used_ >= Size[k]

Idle == mounted /\ fault = "none" /\ request = NoRequest

\* What the callers believe is stored.
Believed(k) == k \in Stored \union failed

-----------------------------------------------------------------------------
(* Transfers.  An object is transferred as a whole or not at all; the file *)
(* of a download that failed is left short, unless it was there already.   *)

Puts(ks) ==
    \E bad \in SUBSET (ks \cap Flaky) :
        /\ cloud' = cloud \union (ks \ bad)
        /\ failed' = failed \union bad

Gets(k, got) ==
    /\ got => k \in cloud
    /\ ~got => k \notin cloud \/ k \in Flaky
    /\ failed' = IF got THEN failed ELSE failed \union {k}
    /\ UNCHANGED cloud

Deletes(k) ==
    \/ cloud' = cloud \ {k} /\ UNCHANGED failed
    \/ k \in cloud \cap Flaky /\ failed' = failed \union {k} /\ UNCHANGED cloud

FilesRemoved(ks) ==
    /\ disk' = disk \ ks
    /\ short' = short \ ks
    /\ labelled' = labelled \ ks

Touches(k) == touched' = touched \union {k}

-----------------------------------------------------------------------------
Noted(k) == again' = (again \/ k \in Stored)

UploadDirect(k) ==
    /\ Idle /\ TooLarge(k)
    /\ Noted(k)
    /\ Puts({k})
    /\ Touches(k)
    /\ UNCHANGED <<cacheVars, request, reply, crashes, replacerVars>>

\* "already in cache": nothing is written, and recency is not updated.
UploadCached(k) ==
    /\ Idle /\ ~TooLarge(k) /\ IsCached(k)
    /\ Noted(k)
    /\ Touches(k)
    /\ UNCHANGED <<cloud, cacheVars, request, reply, failed, crashes, replacerVars>>

UploadBegin(k) ==
    /\ Idle /\ ~TooLarge(k) /\ ~IsCached(k)
    /\ Noted(k)
    /\ request' = [op |-> "upload", key |-> k]
    /\ UNCHANGED <<cloud, cacheVars, reply, touched, failed, crashes, replacerVars>>

UploadEnd ==
    LET k == request.key IN
    /\ request.op = "upload" /\ fault = "none" /\ Fits(k)
    /\ disk' = disk \union {k}
    /\ short' = short \ {k}
    /\ cached_objects_' = [cached_objects_ EXCEPT ![k] = "dirty"]
    /\ cache_used_' = cache_used_ + Size[k]
    /\ Replacer!Access(k)
    /\ request' = NoRequest
    /\ Touches(k)
    /\ UNCHANGED <<cloud, labelled, reply, again, failed, crashes>>

DownloadDirect(k, got) ==
    /\ Idle /\ Believed(k) /\ TooLarge(k)
    /\ Gets(k, got)
    /\ reply' = IF got THEN k ELSE NoKey
    /\ UNCHANGED <<cacheVars, request, again, touched, crashes, replacerVars>>

\* A file that is short fails the call before the replacer is told.
ReadCached(k) ==
    IF k \in short' THEN reply' = NoKey /\ UNCHANGED replacerVars
                    ELSE reply' = k /\ Replacer!Access(k)

DownloadHit(k) ==
    /\ Idle /\ Believed(k) /\ ~TooLarge(k) /\ IsCached(k)
    /\ UNCHANGED <<cloud, cacheVars, request, again, touched, failed, crashes>>
    /\ ReadCached(k)

DownloadBegin(k) ==
    /\ Idle /\ Believed(k) /\ ~TooLarge(k) /\ ~IsCached(k)
    /\ request' = [op |-> "download", key |-> k]
    /\ UNCHANGED <<cloud, cacheVars, reply, again, touched, failed, crashes, replacerVars>>

Mut_DownloadedDirty == "dirty"
Downloaded == "clean"

DownloadEnd(got) ==
    LET k == request.key IN
    /\ request.op = "download" /\ fault = "none" /\ Fits(k)
    /\ Gets(k, got)
    /\ disk' = disk \union {k}
    /\ short' = IF got THEN short \ {k} ELSE short \union ({k} \ disk)
    /\ cached_objects_' = [cached_objects_ EXCEPT ![k] = Downloaded]
    /\ cache_used_' = cache_used_ + Size[k]
    /\ ReadCached(k)
    /\ request' = NoRequest
    /\ UNCHANGED <<labelled, again, touched, crashes>>

\* A dirty victim is written back before it is forgotten.
Mut_NoWriteBack(k) == {}
WrittenBack(k) == IF IsDirty(k) THEN {k} ELSE {}

EvictOne ==
    /\ request # NoRequest /\ ~Fits(request.key)
    /\ Replacer!EvictTail
    /\ Puts(WrittenBack(victim'))
    /\ FilesRemoved({victim'})
    /\ cached_objects_' = [cached_objects_ EXCEPT ![victim'] = "absent"]
    /\ cache_used_' = UsedWithout(victim')
    /\ UNCHANGED <<request, reply, again, touched, crashes>>

\* The replacer has nothing left to evict: it throws, the process ends.
EvictNothing ==
    /\ request # NoRequest /\ ~Fits(request.key)
    /\ Replacer!EvictEmpty
    /\ UNCHANGED <<cloud, cacheVars, request, reply, again, touched, failed, crashes>>

\* What the cache forgets of a deleted object, before the replacer is told.
Forget(k) ==
    /\ FilesRemoved({k})
    /\ cached_objects_' = [cached_objects_ EXCEPT ![k] = "absent"]
    /\ cache_used_' = UsedWithout(k)

DeleteCached(k) ==
    /\ Idle /\ Believed(k) /\ IsCached(k)
    /\ Forget(k)
    /\ Replacer!RemoveKey(k)
    /\ IF IsDirty(k) THEN UNCHANGED <<cloud, failed>> ELSE Deletes(k)
    /\ Touches(k)
    /\ UNCHANGED <<request, reply, again, crashes>>

\* The replacer does not know a key that was cached by an earlier mount and
\* not read since, or whose file is short: it throws before the object is
\* deleted from the cloud.
DeleteUntracked(k) ==
    /\ Idle /\ Believed(k) /\ IsCached(k)
    /\ Forget(k)
    /\ Replacer!RemoveUnknown(k)
    /\ UNCHANGED <<cloud, request, reply, again, touched, failed, crashes>>

DeleteUncached(k) ==
    /\ Idle /\ Believed(k) /\ ~IsCached(k)
    /\ Deletes(k)
    /\ Touches(k)
    /\ UNCHANGED <<cacheVars, request, reply, again, crashes, replacerVars>>

\* persist_cache_state: the replacer, then every dirty object and the xattrs.
Mut_PersistedDirty == {}
PersistedDirty == Dirty

Unmount ==
    /\ Idle
    /\ Replacer!Persist
    /\ Puts(PersistedDirty)
    /\ cached_objects_' = [k \in Keys |-> IF IsDirty(k) THEN "clean" ELSE cached_objects_[k]]
    /\ labelled' = Cached
    /\ touched' = {}
    /\ UNCHANGED <<disk, short, cache_used_, request, reply, again, crashes>>

\* The constructor rebuilds the map from the files of .cache that carry the
\* attributes; others stay where they are.
Mount ==
    /\ Replacer!Load
    /\ cached_objects_' = [k \in Keys |-> IF k \in labelled THEN "clean" ELSE "absent"]
    /\ cache_used_' = SumFunctionOnSet(Size, labelled)
    /\ UNCHANGED <<cloud, diskVars, request, reply, again, touched, failed, crashes>>

\* The process is killed, or has died of an exception: what was only in
\* memory is gone, and the chunk table will be that of the last unmount.
Crash ==
    /\ mounted /\ fault # "dangling" /\ crashes < MaxCrashes
    /\ crashes' = crashes + 1
    /\ mounted' = FALSE /\ fault' = "none" /\ list' = <<>> /\ entries' = {}
    /\ cached_objects_' = [k \in Keys |-> "absent"]
    /\ cache_used_' = 0
    /\ request' = NoRequest
    /\ failed' = failed \union touched
    /\ touched' = {}
    /\ UNCHANGED <<cloud, diskVars, reply, again, file, victim, mount>>

Next ==
    \/ \E k \in Keys : \/ UploadDirect(k) \/ UploadCached(k) \/ UploadBegin(k)
                       \/ DownloadHit(k) \/ DownloadBegin(k)
                       \/ \E got \in BOOLEAN : DownloadDirect(k, got)
                       \/ DeleteCached(k) \/ DeleteUntracked(k) \/ DeleteUncached(k)
    \/ UploadEnd
    \/ \E got \in BOOLEAN : DownloadEnd(got)
    \/ EvictOne
    \/ EvictNothing
    \/ Unmount
    \/ Mount
    \/ Crash

Spec == Init /\ [][Next]_vars

\* A call that has begun runs on: FUSE handlers are sequential code.
Continue == UploadEnd \/ (\E got \in BOOLEAN : DownloadEnd(got)) \/ EvictOne \/ EvictNothing
FairSpec == Spec /\ WF_vars(Continue)

-----------------------------------------------------------------------------
(***************************************************************************)
(* cache_used_ is the total size of the cached objects, whose files are in *)
(* .cache, and never exceeds the configured size, in every mount and       *)
(* whatever fails; only a crash leaves files there that are not accounted  *)
(* for (buffer_file.cc:105-246, 294-317, 388-418).                         *)
(***************************************************************************)
UsedIsExact ==
    /\ cache_used_ = SumFunctionOnSet(Size, Cached)
    /\ cache_used_ <= CacheSize
    /\ Cached \subseteq disk /\ (crashes = 0 => disk = Cached)

(***************************************************************************)
(* "dirty means the object hasn't been uploaded to cloud"                  *)
(* (buffer_file.cc:307): deleting a dirty object need not touch the cloud, *)
(* as long as no object was stored twice and none of its transfers failed. *)
(***************************************************************************)
DirtyNotOnCloud == ~again => Dirty \cap cloud \subseteq failed

(***************************************************************************)
(* A clean object is on the cloud, and its file is complete, so that       *)
(* evicting it without writing it back loses nothing and reading it needs  *)
(* no transfer, even when an object is stored again, unless one of its own *)
(* transfers failed or a crash came before the next unmount.               *)
(***************************************************************************)
CleanOnCloud ==
    /\ Cached \ Dirty \subseteq cloud \union failed
    /\ Cached \cap short \subseteq failed

(***************************************************************************)
(* During the first mount the replacer tracks exactly the cached objects   *)
(* that were read completely, so that evicting and deleting never throw    *)
(* (cache_replacer.cc:118-121, 138-145 are unreachable) as long as no      *)
(* transfer failed.                                                        *)
(***************************************************************************)
ReplacerTracksCache ==
    mount = 1 => /\ entries = Cached \ short
                 /\ Range(list) = entries
                 /\ Len(list) = Cardinality(entries)
                 /\ fault # "none" => failed # {}

(***************************************************************************)
(* The cache is transparent: write-back, eviction, unmounting and mounting *)
(* never lose, resurrect or confuse an object, up to the moment the        *)
(* process dies of an exception; only a call that deletes an object makes  *)
(* it disappear.  A transfer that fails costs its own object and no other, *)
(* a crash those that were stored or deleted since the last unmount.       *)
(***************************************************************************)
Store == INSTANCE ObjectStore WITH
    stored <- Stored \ failed,
    reply <- IF reply \in failed THEN NoKey ELSE reply
ImplementsObjectStore ==
    /\ Store!Spec
    /\ [][\A k \in Stored \ failed : k \notin Stored' \ failed' =>
            \/ DeleteCached(k) \/ DeleteUncached(k)
            \/ k \in Flaky
            \/ Crash /\ k \in touched]_vars

(***************************************************************************)
(* Making room ends: the eviction loop does not spin and does not run out  *)
(* of victims (during the first mount, while no transfer has failed).      *)
(***************************************************************************)
RequestsComplete ==
    (request # NoRequest /\ mount = 1) ~> (request = NoRequest \/ failed # {})

(***************************************************************************)
(* "load cache states across mounts" (buffer_file.cc:40): objects that an  *)
(* earlier mount cached can be read, evicted and deleted after a remount   *)
(* without an exception ending the process or freed nodes staying linked.  *)
(***************************************************************************)
CacheSurvivesRemount == fault = "none"
=============================================================================
