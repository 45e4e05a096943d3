-------------------------- MODULE ChunkCache_proofs --------------------------
(***************************************************************************)
(* Proofs about ChunkCache, for any keys, sizes, cache size and faults: a  *)
(* clean object is on the cloud, a dirty one is not, and the cache         *)
(* implements the object store.  What is said of its files and of the      *)
(* replacer's list rests on RecencyList_proofs.                            *)
(***************************************************************************)
EXTENDS ChunkCache, FiniteSetTheorems, WellFoundedInduction, TLAPS

Lists == INSTANCE RecencyList_proofs

-----------------------------------------------------------------------------
(* The inductive invariant.                                                *)

Types ==
    /\ cloud \subseteq Keys /\ labelled \subseteq Keys
    /\ touched \subseteq Keys /\ failed \subseteq Keys
    /\ cached_objects_ \in [Keys -> {"absent", "clean", "dirty"}]
    /\ request \in Request \union {NoRequest}
    /\ reply \in Keys \union {NoKey}
    /\ again \in BOOLEAN /\ mounted \in BOOLEAN

\* What a call that is making room found when it began.
Pending ==
    request # NoRequest =>
        /\ mounted /\ request.key \notin Cached /\ ~TooLarge(request.key)
        /\ request.op = "download" => request.key \in cloud \union failed
        /\ request.op = "upload" /\ ~again => request.key \notin cloud

\* What a later mount will find cached is on the cloud as well.
LabelledOnCloud ==
    /\ labelled \subseteq cloud \union failed
    /\ mounted => labelled \subseteq Cached \ Dirty

\* The dirty objects are those of this mount: the replacer knows them all.
DirtyIsNew ==
    /\ Dirty \subseteq touched /\ \A k \in Dirty : ~TooLarge(k)
    /\ mounted => Dirty \subseteq entries
    /\ ~mounted => Dirty = {}

ShortFailed == short \subseteq failed

CleanStored == Cached \ Dirty \subseteq cloud \union failed

IInv ==
    /\ Types
    /\ Lists!Listed
    /\ Pending
    /\ LabelledOnCloud
    /\ DirtyIsNew
    /\ ShortFailed
    /\ CleanStored
    /\ DirtyNotOnCloud

-----------------------------------------------------------------------------
(* Sets of objects.                                                        *)

\* An entry of the map becomes absent, clean or dirty.
LEMMA EntryChanges ==
    ASSUME Types, NEW k \in Keys, NEW s \in {"absent", "clean", "dirty"},
           cached_objects_' = [cached_objects_ EXCEPT ![k] = s]
    PROVE  /\ cached_objects_' \in [Keys -> {"absent", "clean", "dirty"}]
           /\ Cached' = IF s = "absent" THEN Cached \ {k} ELSE Cached \union {k}
           /\ Dirty' = IF s = "dirty" THEN Dirty \union {k} ELSE Dirty \ {k}
  BY DEF Types, Cached, Dirty, IsCached, IsDirty

\* What is cached and what is dirty depend on the map only.
LEMMA EntriesSame ==
    ASSUME UNCHANGED cached_objects_
    PROVE  Cached' = Cached /\ Dirty' = Dirty
  BY DEF Cached, Dirty, IsCached, IsDirty

\* Dirty objects are cached ones.
LEMMA SetFacts ==
    /\ Dirty \subseteq Cached /\ Cached \subseteq Keys
    /\ \A k \in Keys : (k \in Cached <=> IsCached(k)) /\ (k \in Dirty <=> IsDirty(k))
  BY DEF Cached, Dirty, IsCached, IsDirty

\* Transfers only add to what is on the cloud or known to have failed.
LEMMA PutFacts ==
    ASSUME NEW ks, Puts(ks)
    PROVE  \E bad \in SUBSET (ks \cap Flaky) :
              /\ cloud' = cloud \union (ks \ bad)
              /\ failed' = failed \union bad
  BY DEF Puts

-----------------------------------------------------------------------------
(* The replacer of the cache is the one of RecencyList_proofs.             *)

\* Both instances remove the same node ...
LEMMA SameRemoveFirst ==
    \A s, e : Replacer!RemoveFirst(s, e) = Lists!RemoveFirst(s, e)
  BY Zenon DEF Replacer!RemoveFirst, Replacer!RemoveAt, Replacer!SelectInSeq, Replacer!Min,
       Lists!RemoveFirst, Lists!RemoveAt, Lists!SelectInSeq, Lists!Min

\* ... and access,
LEMMA SameAccess == \A k : Replacer!Access(k) <=> Lists!Access(k)
  BY SameRemoveFirst, Zenon DEF Replacer!Access, Replacer!Running, Replacer!AccessList,
       Lists!Access, Lists!Running, Lists!AccessList

\* remove,
LEMMA SameRemoveKey == \A k : Replacer!RemoveKey(k) <=> Lists!RemoveKey(k)
  BY SameRemoveFirst, Zenon DEF Replacer!RemoveKey, Replacer!Running, Replacer!Erased,
       Lists!RemoveKey, Lists!Running, Lists!Erased

\* evict,
LEMMA SameEvictTail == Replacer!EvictTail <=> Lists!EvictTail
  BY SMT DEF Replacer!EvictTail, Replacer!Running, Replacer!Erased, Replacer!Dangles,
       Replacer!Last, Replacer!Front, Replacer!Range, Lists!Last, Lists!Front, Lists!Range,
       Lists!EvictTail, Lists!Running, Lists!Erased, Lists!Dangles

\* count,
LEMMA SameCardinality == \A S : Replacer!Cardinality(S) = Lists!Cardinality(S)
  BY Zenon DEF Replacer!Cardinality, Lists!Cardinality

\* persist
LEMMA SamePersist == Replacer!Persist <=> Lists!Persist
  BY SameCardinality DEF Replacer!Persist, Replacer!Running, Lists!Persist, Lists!Running

\* and load alike.
LEMMA SameLoad == Replacer!Load <=> Lists!Load
  BY DEF Replacer!Load, Replacer!NoFile, Lists!Load, Lists!NoFile

-----------------------------------------------------------------------------
(* The invariant is inductive; one lemma per action.                       *)

\* The empty cache satisfies the invariant.
LEMMA Initially == Init => IInv
<1> SUFFICES ASSUME Init PROVE IInv
  OBVIOUS
<1>1. Cached = {} /\ Dirty = {}
  BY DEF Init, Cached, Dirty, IsCached, IsDirty
<1>2. Types /\ Pending
  BY DEF Init, Types, Pending, Replacer!Init
<1>3. Lists!Listed
  BY DEF Init, Replacer!Init, Replacer!NoFile, Lists!Listed
<1>4. QED
  BY <1>1, <1>2, <1>3
  DEF Init, IInv, LabelledOnCloud, DirtyIsNew, ShortFailed, CleanStored, DirtyNotOnCloud

\* Calls that neither start a request nor change what is cached.
LEMMA CloudOnlyStep ==
    ASSUME IInv, NEW k \in Keys,
           \/ UploadDirect(k) \/ UploadCached(k)
           \/ \E got \in BOOLEAN : DownloadDirect(k, got)
    PROVE  IInv'
<1> USE DEF IInv
<1>1. /\ UNCHANGED <<cacheVars, request, replacerVars>> /\ request = NoRequest
      /\ cloud \subseteq cloud' /\ cloud' \subseteq cloud \union {k}
      /\ failed \subseteq failed' /\ failed' \subseteq failed \union {k}
      /\ touched' \in {touched, touched \union {k}}
      /\ reply' \in {reply, k, NoKey} /\ again' \in BOOLEAN
      /\ ~again' => ~again /\ (k \in cloud' => k \in cloud \/ k \notin Dirty)
  <2>1. CASE UploadDirect(k)
    BY <2>1 DEF UploadDirect, Idle, Puts, Touches, Noted, Stored, Types
  <2>2. CASE UploadCached(k)
    BY <2>2 DEF UploadCached, Idle, Touches, Noted, Types
  <2>3. CASE \E got \in BOOLEAN : DownloadDirect(k, got)
    BY <2>3 DEF DownloadDirect, Idle, Gets, Types
  <2>4. QED
    BY <2>1, <2>2, <2>3
<1>2. Cached' = Cached /\ Dirty' = Dirty
  BY <1>1, EntriesSame DEF cacheVars
<1>3. Types' /\ Pending'
  BY <1>1 DEF Types, Pending, cacheVars, diskVars, replacerVars
<1>4. Lists!Listed'
  BY <1>1 DEF Lists!Listed, replacerVars
<1>5. QED
  BY <1>1, <1>2, <1>3, <1>4 DEF LabelledOnCloud, DirtyIsNew, ShortFailed,
       CleanStored, DirtyNotOnCloud, cacheVars, diskVars, replacerVars

\* Calls that begin to make room.
LEMMA BeginStep ==
    ASSUME IInv, NEW k \in Keys, UploadBegin(k) \/ DownloadBegin(k)
    PROVE  IInv'
<1> USE DEF IInv
<1>1. /\ UNCHANGED <<cloud, cacheVars, reply, touched, failed, replacerVars>>
      /\ mounted /\ k \notin Cached /\ ~TooLarge(k)
      /\ request'.key = k /\ request' \in Request
      /\ again' \in BOOLEAN /\ (~again' => ~again)
      /\ request'.op = "download" => k \in cloud \union failed
      /\ request'.op = "upload" /\ ~again' => k \notin cloud
  BY SetFacts DEF UploadBegin, DownloadBegin, Idle, Noted, Stored, Believed,
       Request, Types
<1>2. Cached' = Cached /\ Dirty' = Dirty
  BY <1>1, EntriesSame DEF cacheVars
<1>3. Types' /\ Pending'
  BY <1>1, <1>2 DEF Types, Pending, cacheVars, diskVars, replacerVars
<1>4. Lists!Listed'
  BY <1>1 DEF Lists!Listed, replacerVars
<1>5. QED
  BY <1>1, <1>2, <1>3, <1>4 DEF LabelledOnCloud, DirtyIsNew, ShortFailed,
       CleanStored, DirtyNotOnCloud, cacheVars, diskVars, replacerVars

\* A stored object is dirty and was not on the cloud, unless stored again.
LEMMA UploadEndStep ==
    ASSUME IInv, UploadEnd
    PROVE  IInv'
<1> USE DEF IInv
<1> DEFINE k == request.key
<1>1. /\ k \in Keys /\ k \notin Cached /\ ~TooLarge(k)
      /\ mounted /\ (~again => k \notin cloud)
  BY DEF UploadEnd, NoRequest, Request, Types, Pending
<1> HIDE DEF k
<1>2. /\ UNCHANGED <<cloud, labelled, reply, again, failed, mounted>>
      /\ disk' = disk \union {k} /\ short' = short \ {k}
      /\ cached_objects_' = [cached_objects_ EXCEPT ![k] = "dirty"]
      /\ touched' = touched \union {k} /\ entries' = entries \union {k}
      /\ request' = NoRequest
  BY DEF UploadEnd, Touches, Replacer!Access, k
<1>3. /\ Cached' = Cached \union {k} /\ Dirty' = Dirty \union {k}
      /\ cached_objects_' \in [Keys -> {"absent", "clean", "dirty"}]
  BY <1>1, <1>2, EntryChanges
<1>4. Types' /\ Pending'
  BY <1>1, <1>2, <1>3 DEF Types, Pending
<1>5. Lists!Listed'
  BY <1>1, Lists!AccessListed, SameAccess DEF UploadEnd, k
<1>6. QED
  BY <1>1, <1>2, <1>3, <1>4, <1>5, SetFacts DEF LabelledOnCloud, DirtyIsNew,
       ShortFailed, CleanStored, DirtyNotOnCloud

\* Reading an object from its file tells the replacer, unless it is short.
LEMMA ReadListed ==
    ASSUME Lists!Listed, NEW k \in Keys, ReadCached(k)
    PROVE  /\ Lists!Listed' /\ reply' \in {k, NoKey}
           /\ entries \subseteq entries' /\ UNCHANGED mounted
<1>1. CASE k \in short'
  BY <1>1 DEF ReadCached, replacerVars, Lists!Listed
<1>2. CASE k \notin short'
  <2>1. Replacer!Access(k) /\ reply' = k
    BY <1>2 DEF ReadCached
  <2>2. Lists!Listed'
    BY <2>1, Lists!AccessListed, SameAccess
  <2>3. QED
    BY <2>1, <2>2 DEF Replacer!Access
<1>3. QED
  BY <1>1, <1>2

\* A hit changes recency only.
LEMMA DownloadHitStep ==
    ASSUME IInv, NEW k \in Keys, DownloadHit(k)
    PROVE  IInv'
<1> USE DEF IInv, DownloadHit, cacheVars, diskVars
<1>1. Lists!Listed' /\ reply' \in {k, NoKey} /\ entries \subseteq entries' /\ UNCHANGED mounted
  BY ReadListed
<1>2. Cached' = Cached /\ Dirty' = Dirty
  BY EntriesSame
<1>3. Types' /\ Pending'
  BY <1>1 DEF Types, Pending, Idle
<1>4. QED
  BY <1>1, <1>2, <1>3 DEF LabelledOnCloud, DirtyIsNew, ShortFailed, CleanStored,
       DirtyNotOnCloud

\* A downloaded object is clean and on the cloud, or its transfer failed.
LEMMA DownloadEndStep ==
    ASSUME IInv, NEW got \in BOOLEAN, DownloadEnd(got)
    PROVE  IInv'
<1> USE DEF IInv
<1> DEFINE k == request.key
<1>1. k \in Keys /\ k \notin Cached /\ mounted
  BY DEF DownloadEnd, NoRequest, Request, Types, Pending
<1> HIDE DEF k
<1>2. /\ UNCHANGED <<cloud, labelled, again, touched>>
      /\ disk' = disk \union {k}
      /\ short' = IF got THEN short \ {k} ELSE short \union ({k} \ disk)
      /\ cached_objects_' = [cached_objects_ EXCEPT ![k] = "clean"]
      /\ failed' = IF got THEN failed ELSE failed \union {k}
      /\ got => k \in cloud
      /\ request' = NoRequest /\ ReadCached(k)
  BY DEF DownloadEnd, Gets, Downloaded, k
<1>3. /\ Cached' = Cached \union {k} /\ Dirty' = Dirty
      /\ cached_objects_' \in [Keys -> {"absent", "clean", "dirty"}]
  <2>1. /\ Cached' = Cached \union {k} /\ Dirty' = Dirty \ {k}
        /\ cached_objects_' \in [Keys -> {"absent", "clean", "dirty"}]
    BY <1>1, <1>2, EntryChanges
  <2>2. QED
    BY <2>1, <1>1, SetFacts
<1>4. Lists!Listed' /\ reply' \in {k, NoKey} /\ entries \subseteq entries' /\ UNCHANGED mounted
  BY <1>1, <1>2, ReadListed
<1>5. Types' /\ Pending'
  BY <1>1, <1>2, <1>3, <1>4 DEF Types, Pending
<1>6. QED
  BY <1>1, <1>2, <1>3, <1>4, <1>5, SetFacts DEF LabelledOnCloud, DirtyIsNew,
       ShortFailed, CleanStored, DirtyNotOnCloud

\* The victim is written back before it is forgotten.
LEMMA EvictOneStep ==
    ASSUME IInv, EvictOne
    PROVE  IInv'
<1> USE DEF IInv
<1>1. Lists!Listed' /\ victim' \in Keys
  BY Lists!EvictListed, SameEvictTail DEF EvictOne
<1>2. PICK k \in Keys : k = victim'
  BY <1>1
<1>3. /\ UNCHANGED <<request, reply, again, touched, mounted>>
      /\ request # NoRequest /\ mounted
      /\ disk' = disk \ {k} /\ short' = short \ {k} /\ labelled' = labelled \ {k}
      /\ cached_objects_' = [cached_objects_ EXCEPT ![k] = "absent"]
      /\ entries' = entries \ {k}
      /\ cloud \subseteq cloud' /\ failed \subseteq failed'
      /\ k \in Dirty => k \in cloud' \union failed'
      /\ cloud' \subseteq cloud \union (Dirty \cap {k})
      /\ failed' \subseteq failed \union {k}
  BY <1>2, SetFacts DEF EvictOne, Replacer!EvictTail, Replacer!Running, Replacer!Erased,
       FilesRemoved, Puts, WrittenBack
<1>4. /\ Cached' = Cached \ {k} /\ Dirty' = Dirty \ {k}
      /\ cached_objects_' \in [Keys -> {"absent", "clean", "dirty"}]
  BY <1>3, EntryChanges
<1>5. Types' /\ Pending'
  BY <1>3, <1>4, SetFacts DEF Types, Pending
<1>6. QED
  BY <1>1, <1>3, <1>4, <1>5, SetFacts DEF LabelledOnCloud, DirtyIsNew,
       ShortFailed, CleanStored, DirtyNotOnCloud

\* A deleted object leaves the cache; what is dirty is never untracked.
LEMMA DeleteStep ==
    ASSUME IInv, NEW k \in Keys,
           DeleteCached(k) \/ DeleteUntracked(k) \/ DeleteUncached(k)
    PROVE  IInv'
<1> USE DEF IInv
<1>1. ASSUME IsCached(k), Forget(k)
      PROVE  /\ Cached' = Cached \ {k} /\ Dirty' = Dirty \ {k}
             /\ cached_objects_' \in [Keys -> {"absent", "clean", "dirty"}]
             /\ disk' = disk \ {k} /\ short' = short \ {k} /\ labelled' = labelled \ {k}
  BY <1>1, EntryChanges DEF Forget, FilesRemoved
<1>2. ASSUME Deletes(k)
      PROVE  /\ cloud \ {k} \subseteq cloud' /\ cloud' \subseteq cloud
             /\ failed \subseteq failed' /\ failed' \subseteq failed \union {k}
  BY <1>2 DEF Deletes
<1>3. CASE DeleteCached(k)
  <2>1. /\ IsCached(k) /\ Forget(k) /\ request = NoRequest /\ mounted
        /\ cloud \ {k} \subseteq cloud' /\ cloud' \subseteq cloud
        /\ failed \subseteq failed' /\ failed' \subseteq failed \union {k}
        /\ touched' = touched \union {k} /\ entries' = entries \ {k}
        /\ UNCHANGED <<request, reply, again, mounted>>
    BY <1>2, <1>3 DEF DeleteCached, Idle, Touches, Replacer!RemoveKey, Replacer!Erased
  <2>2. Lists!Listed'
    BY <1>3, Lists!RemoveListed, SameRemoveKey DEF DeleteCached
  <2>3. Types' /\ Pending'
    BY <1>1, <2>1 DEF Types, Pending
  <2>4. QED
    BY <1>1, <2>1, <2>2, <2>3, SetFacts DEF LabelledOnCloud, DirtyIsNew, ShortFailed,
         CleanStored, DirtyNotOnCloud
<1>4. CASE DeleteUntracked(k)
  <2>1. /\ IsCached(k) /\ Forget(k) /\ request = NoRequest /\ mounted
        /\ UNCHANGED <<cloud, failed, touched, request, reply, again, mounted>>
        /\ UNCHANGED <<list, entries, file>>
    BY <1>4 DEF DeleteUntracked, Idle, Replacer!RemoveUnknown
  <2>2. Lists!Listed'
    BY <2>1 DEF Lists!Listed
  <2>3. k \notin Dirty
    BY <2>1, <1>4 DEF DeleteUntracked, DirtyIsNew, Replacer!RemoveUnknown
  <2>4. Types' /\ Pending'
    BY <1>1, <2>1 DEF Types, Pending
  <2>5. QED
    BY <1>1, <2>1, <2>2, <2>3, <2>4, SetFacts DEF LabelledOnCloud, DirtyIsNew, ShortFailed,
         CleanStored, DirtyNotOnCloud
<1>5. CASE DeleteUncached(k)
  <2>1. /\ k \notin Cached /\ request = NoRequest /\ mounted
        /\ cloud \ {k} \subseteq cloud' /\ cloud' \subseteq cloud
        /\ failed \subseteq failed' /\ failed' \subseteq failed \union {k}
        /\ touched' = touched \union {k}
        /\ UNCHANGED <<cacheVars, request, reply, again, replacerVars>>
    BY <1>2, <1>5, SetFacts DEF DeleteUncached, Idle, Touches
  <2>2. Cached' = Cached /\ Dirty' = Dirty
    BY <2>1, EntriesSame DEF cacheVars
  <2>3. Lists!Listed'
    BY <2>1 DEF Lists!Listed, replacerVars
  <2>4. Types' /\ Pending'
    BY <2>1 DEF Types, Pending, cacheVars, diskVars, replacerVars
  <2>5. QED
    BY <2>1, <2>2, <2>3, <2>4, SetFacts DEF LabelledOnCloud, DirtyIsNew, ShortFailed,
         CleanStored, DirtyNotOnCloud, cacheVars, diskVars, replacerVars
<1>6. QED
  BY <1>3, <1>4, <1>5

\* Every dirty object is written back, or known to have failed.
LEMMA UnmountStep ==
    ASSUME IInv, Unmount
    PROVE  IInv'
<1> USE DEF IInv
<1>1. /\ cloud \subseteq cloud' /\ Dirty \subseteq cloud' \union failed'
      /\ failed \subseteq failed' /\ failed' \subseteq failed \union Dirty
      /\ cloud' \subseteq Keys
      /\ labelled' = Cached /\ touched' = {} /\ request = NoRequest
      /\ mounted' = FALSE
      /\ UNCHANGED <<disk, short, request, reply, again>>
  BY SetFacts DEF Unmount, Puts, PersistedDirty, Idle, Replacer!Persist, Types
<1>2. failed' \subseteq Keys
  BY <1>1, SetFacts DEF Types
<1>3. /\ cached_objects_' \in [Keys -> {"absent", "clean", "dirty"}]
      /\ Cached' = Cached /\ Dirty' = {}
  BY SetFacts DEF Unmount, Types, Cached, Dirty, IsCached, IsDirty
<1>4. Lists!Listed'
  BY Lists!PersistListed, SamePersist DEF Unmount
<1>5. Types' /\ Pending'
  BY <1>1, <1>2, <1>3, SetFacts DEF Types, Pending
<1>6. QED
  BY <1>1, <1>3, <1>4, <1>5 DEF LabelledOnCloud, DirtyIsNew, ShortFailed,
       CleanStored, DirtyNotOnCloud

\* What the new mount finds cached is labelled, hence on the cloud or failed.
LEMMA MountStep ==
    ASSUME IInv, Mount
    PROVE  IInv'
<1> USE DEF IInv
<1>1. /\ UNCHANGED <<cloud, diskVars, request, reply, again, touched, failed>>
      /\ mounted' = TRUE /\ ~mounted
  BY DEF Mount, Replacer!Load
<1>2. /\ cached_objects_' \in [Keys -> {"absent", "clean", "dirty"}]
      /\ Cached' = labelled \cap Keys /\ Dirty' = {}
  BY DEF Mount, Cached, Dirty, IsCached, IsDirty
<1>3. Lists!Listed'
  BY Lists!LoadListed, SameLoad DEF Mount
<1>4. Types' /\ Pending'
  BY <1>1, <1>2 DEF Types, Pending, diskVars
<1>5. labelled \subseteq Cached'
  <2>1. labelled \subseteq Keys
    BY DEF Types
  <2>2. QED
    BY <1>2, <2>1
<1>6. QED
  BY <1>1, <1>2, <1>3, <1>4, <1>5 DEF LabelledOnCloud, DirtyIsNew, ShortFailed,
       CleanStored, DirtyNotOnCloud, diskVars

\* After a crash nothing is cached, and what was touched is not believed.
LEMMA CrashStep ==
    ASSUME IInv, Crash
    PROVE  IInv'
<1> USE DEF IInv
<1>1. Cached' = {} /\ Dirty' = {}
  BY DEF Crash, Cached, Dirty, IsCached, IsDirty
<1>2. Lists!Listed'
  BY DEF Crash, Lists!Listed, Lists!Range
<1>3. Types' /\ Pending'
  BY DEF Crash, Types, Pending, diskVars
<1>4. QED
  BY <1>1, <1>2, <1>3 DEF Crash, LabelledOnCloud, DirtyIsNew, ShortFailed,
       CleanStored, DirtyNotOnCloud, diskVars

\* An eviction that throws, and steps of the environment.
LEMMA NothingStep ==
    ASSUME IInv, EvictNothing \/ UNCHANGED vars
    PROVE  IInv'
<1> USE DEF IInv
<1>1. /\ UNCHANGED <<cloud, cacheVars, request, reply, again, touched, failed>>
      /\ UNCHANGED <<list, entries, file, mounted>>
  BY DEF EvictNothing, Replacer!EvictEmpty, vars, replacerVars
<1>2. Cached' = Cached /\ Dirty' = Dirty
  BY <1>1, EntriesSame DEF cacheVars
<1>3. Lists!Listed'
  BY <1>1 DEF Lists!Listed
<1>4. Types' /\ Pending'
  BY <1>1, <1>2 DEF Types, Pending, cacheVars, diskVars
<1>5. QED
  BY <1>1, <1>2, <1>3, <1>4 DEF LabelledOnCloud, DirtyIsNew, ShortFailed, CleanStored,
       DirtyNotOnCloud, cacheVars, diskVars

\* The invariant holds in every behaviour.
LEMMA Invariance == Spec => []IInv
<1>1. Init => IInv
  BY Initially
<1>2. IInv /\ [Next]_vars => IInv'
  <2> SUFFICES ASSUME IInv, [Next]_vars PROVE IInv'
    OBVIOUS
  <2>1. CASE Next
    BY <2>1, CloudOnlyStep, BeginStep, UploadEndStep, DownloadHitStep, DownloadEndStep,
       EvictOneStep, DeleteStep, UnmountStep, MountStep, CrashStep, NothingStep DEF Next
  <2>2. QED
    BY <2>1, NothingStep
<1>3. QED
  BY <1>1, <1>2, PTL DEF Spec

-----------------------------------------------------------------------------
(* The total size of a set of objects, which SumFunctionOnSet adds up one  *)
(* chosen object after the other, is the number of their units of space,   *)
(* in whatever order they are chosen.                                      *)

\* One unit of space of every object, numbered.
Units(ks) == UNION {{k} \X (1..Size[k]) : k \in ks}

\* The recursion by which the sizes are added up.
Adds(sum, ks) ==
    sum = [s \in SUBSET ks |-> IF s = {} THEN 0
                               ELSE LET k == CHOOSE k \in s : TRUE IN Size[k] + sum[s \ {k}]]

\* The size of an interval from one.
LEMMA IntervalFacts ==
    ASSUME NEW n \in Nat
    PROVE  IsFiniteSet(1..n) /\ Cardinality(1..n) = n
<1>1. 1 \in Int /\ n \in Int
  OBVIOUS
<1>2. IsFiniteSet(1..n) /\ Cardinality(1..n) = IF 1 > n THEN 0 ELSE n-1+1
  BY <1>1, FS_Interval
<1>3. (IF 1 > n THEN 0 ELSE n-1+1) = n
  OBVIOUS
<1>4. QED
  BY <1>2, <1>3

\* The units of an object.
LEMMA ObjectUnits ==
    ASSUME NEW k \in Keys
    PROVE  /\ IsFiniteSet({k} \X (1..Size[k]))
           /\ Cardinality({k} \X (1..Size[k])) = Size[k]
           /\ Size[k] \in Nat \ {0}
<1>1. Size[k] \in Nat \ {0}
  BY SizeAssumption
<1>2. IsFiniteSet(1..Size[k]) /\ Cardinality(1..Size[k]) = Size[k]
  BY <1>1, IntervalFacts
<1>3. IsFiniteSet({k}) /\ Cardinality({k}) = 1
  BY FS_Singleton
<1>4. /\ IsFiniteSet({k} \X (1..Size[k]))
      /\ Cardinality({k} \X (1..Size[k])) = Cardinality({k}) * Cardinality(1..Size[k])
  BY <1>2, <1>3, FS_Product
<1>5. QED
  BY <1>1, <1>2, <1>3, <1>4

\* Finitely many objects have finitely many units.
LEMMA UnitsFinite ==
    ASSUME NEW ks \in SUBSET Keys, IsFiniteSet(ks)
    PROVE  IsFiniteSet(Units(ks)) /\ Cardinality(Units(ks)) \in Nat
<1> DEFINE S == {{k} \X (1..Size[k]) : k \in ks}
           f == [k \in ks |-> {k} \X (1..Size[k])]
<1>1. f \in Surjection(ks, S)
  BY DEF Surjection
<1>2. IsFiniteSet(S)
  BY <1>1, FS_Surjection
<1>3. \A T \in S : IsFiniteSet(T)
  BY ObjectUnits
<1>4. IsFiniteSet(UNION S)
  BY <1>2, <1>3, FS_UNION
<1>5. QED
  BY <1>4, FS_CardinalityType DEF Units

\* An object adds its size.
LEMMA UnitsSplit ==
    ASSUME NEW ks \in SUBSET Keys, IsFiniteSet(ks), NEW k \in ks
    PROVE  Cardinality(Units(ks)) = Size[k] + Cardinality(Units(ks \ {k}))
<1> DEFINE rest == Units(ks \ {k})
           own == {k} \X (1..Size[k])
<1>1. /\ IsFiniteSet(rest) /\ Cardinality(rest) \in Nat
  BY FS_Subset, UnitsFinite
<1>2. IsFiniteSet(own) /\ Cardinality(own) = Size[k] /\ Size[k] \in Nat
  BY ObjectUnits
<1>3. Units(ks) = rest \union own
  BY DEF Units
<1>4. rest \cap own = {}
  BY DEF Units
<1>5. Cardinality(rest \union own) = Cardinality(rest) + Cardinality(own) - Cardinality(rest \cap own)
  BY <1>1, <1>2, FS_Union
<1>6. Cardinality(rest \cap own) = 0
  BY <1>4, FS_EmptySet
<1> HIDE DEF rest, own
<1>7. QED
  BY <1>1, <1>2, <1>3, <1>5, <1>6 DEF rest

\* Counting units solves the recursion ...
LEMMA UnitsAdd ==
    ASSUME NEW ks \in SUBSET Keys, IsFiniteSet(ks)
    PROVE  Adds([s \in SUBSET ks |-> Cardinality(Units(s))], ks)
<1> DEFINE g == [s \in SUBSET ks |-> Cardinality(Units(s))]
<1>1. ASSUME NEW s \in SUBSET ks
      PROVE  g[s] = IF s = {} THEN 0 ELSE LET k == CHOOSE k \in s : TRUE IN Size[k] + g[s \ {k}]
  <2>1. CASE s = {}
    <3>1. Units(s) = {}
      BY <2>1 DEF Units
    <3>2. QED
      BY <2>1, <3>1, FS_EmptySet
  <2>2. CASE s # {}
    <3> DEFINE k == CHOOSE k \in s : TRUE
    <3>1. k \in s
      BY <2>2
    <3> HIDE DEF k
    <3>2. Cardinality(Units(s)) = Size[k] + Cardinality(Units(s \ {k}))
      BY <3>1, UnitsSplit, FS_Subset
    <3>3. g[s] = Size[k] + g[s \ {k}]
      BY <3>2
    <3>4. QED
      BY <2>2, <3>3 DEF k
  <2>3. QED
    BY <2>1, <2>2
<1> HIDE DEF g
<1>2. g = [s \in SUBSET ks |-> g[s]]
  BY DEF g
<1>3. QED
  BY <1>1, <1>2, Zenon DEF Adds, g

\* ... which has one solution.
LEMMA AddsOnce ==
    ASSUME NEW ks, IsFiniteSet(ks), NEW f, NEW g, Adds(f, ks), Adds(g, ks)
    PROVE  f = g
<1> DEFINE D == {s \in SUBSET ks : f[s] # g[s]}
<1>1. D = {}
  <2> SUFFICES ASSUME D # {} PROVE FALSE
    OBVIOUS
  <2>1. D \subseteq FiniteSubsetsOf(ks)
    BY FS_Subset DEF FiniteSubsetsOf
  <2>2. PICK s \in D : \A t \in D : <<t, s>> \notin StrictSubsetOrdering(ks)
    BY <2>1, FS_StrictSubsetOrderingWellFounded, WFMin
  <2>3. s # {}
    BY DEF Adds
  <2> DEFINE k == CHOOSE k \in s : TRUE
  <2>4. k \in s
    BY <2>3
  <2>5. f[s] = Size[k] + f[s \ {k}] /\ g[s] = Size[k] + g[s \ {k}]
    BY <2>3, Zenon DEF Adds
  <2> HIDE DEF k
  <2>6. f[s \ {k}] = g[s \ {k}]
    <3>1. s \in SUBSET ks /\ s \ {k} \in SUBSET ks /\ s \ {k} # s
      BY <2>4
    <3>2. <<s \ {k}, s>> \in StrictSubsetOrdering(ks)
      BY <3>1 DEF StrictSubsetOrdering
    <3>3. s \ {k} \notin D
      BY <2>2, <3>2
    <3>4. QED
      BY <3>1, <3>3
  <2>7. QED
    BY <2>5, <2>6
<1>2. f = [s \in SUBSET ks |-> f[s]] /\ g = [s \in SUBSET ks |-> g[s]]
  BY DEF Adds
<1>3. QED
  BY <1>1, <1>2

\* The total size of objects is the number of their units.
LEMMA SumIs ==
    ASSUME NEW ks \in SUBSET Keys, IsFiniteSet(ks)
    PROVE  SumFunctionOnSet(Size, ks) = Cardinality(Units(ks))
<1> DEFINE g == [s \in SUBSET ks |-> Cardinality(Units(s))]
           sum == CHOOSE sum : Adds(sum, ks)
<1>1. Adds(g, ks)
  BY UnitsAdd
<1> HIDE DEF g
<1>2. Adds(sum, ks)
  BY <1>1, Zenon
<1> HIDE DEF sum
<1>3. sum = g
  BY <1>1, <1>2, AddsOnce
<1>4. SumFunctionOnSet(Size, ks) = sum[ks]
  BY Zenon DEF SumFunctionOnSet, FoldFunctionOnSet, MapThenFoldSet, sum, Adds
<1>5. QED
  BY <1>3, <1>4 DEF g

\* What adding and removing an object does to the total size.
LEMMA SumFacts ==
    ASSUME NEW ks \in SUBSET Keys
    PROVE  /\ SumFunctionOnSet(Size, ks) \in Nat
           /\ SumFunctionOnSet(Size, ks) = 0 <=> ks = {}
           /\ \A k \in ks : SumFunctionOnSet(Size, ks \ {k}) = SumFunctionOnSet(Size, ks) - Size[k]
           /\ \A k \in Keys \ ks :
                 SumFunctionOnSet(Size, ks \union {k}) = SumFunctionOnSet(Size, ks) + Size[k]
           /\ \A ls \in SUBSET ks : SumFunctionOnSet(Size, ls) <= SumFunctionOnSet(Size, ks)
<1>1. IsFiniteSet(ks) /\ \A ls \in SUBSET Keys : IsFiniteSet(ls)
  BY KeysAssumption, FS_Subset
<1>2. SumFunctionOnSet(Size, ks) \in Nat
  BY <1>1, SumIs, UnitsFinite
<1>3. SumFunctionOnSet(Size, ks) = 0 <=> ks = {}
  <2>1. Cardinality(Units(ks)) = 0 <=> Units(ks) = {}
    BY <1>1, UnitsFinite, FS_EmptySet
  <2>2. Units(ks) = {} <=> ks = {}
    <3>1. ASSUME NEW k \in ks
          PROVE  Units(ks) # {}
      <4>1. 1 \in 1..Size[k]
        <5>1. Size[k] \in Nat \ {0}
          BY ObjectUnits
        <5>2. QED
          BY <5>1
      <4>2. <<k, 1>> \in {k} \X (1..Size[k])
        BY <4>1
      <4>3. <<k, 1>> \in Units(ks)
        BY <4>2 DEF Units
      <4>4. QED
        BY <4>3
    <3>2. ks = {} => Units(ks) = {}
      BY DEF Units
    <3>3. QED
      BY <3>1, <3>2
  <2>3. QED
    BY <2>1, <2>2, <1>1, SumIs
<1>4. ASSUME NEW k \in ks
      PROVE  SumFunctionOnSet(Size, ks \ {k}) = SumFunctionOnSet(Size, ks) - Size[k]
  <2>1. Cardinality(Units(ks)) = Size[k] + Cardinality(Units(ks \ {k}))
    BY <1>1, UnitsSplit
  <2>2. /\ SumFunctionOnSet(Size, ks \ {k}) = Cardinality(Units(ks \ {k}))
        /\ SumFunctionOnSet(Size, ks) = Cardinality(Units(ks))
        /\ Cardinality(Units(ks \ {k})) \in Nat /\ Size[k] \in Nat
    BY <1>1, SumIs, UnitsFinite, ObjectUnits
  <2>3. QED
    BY <2>1, <2>2
<1>5. ASSUME NEW k \in Keys \ ks
      PROVE  SumFunctionOnSet(Size, ks \union {k}) = SumFunctionOnSet(Size, ks) + Size[k]
  <2> DEFINE more == ks \union {k}
  <2>1. more \in SUBSET Keys /\ k \in more /\ more \ {k} = ks
    OBVIOUS
  <2> HIDE DEF more
  <2>2. Cardinality(Units(more)) = Size[k] + Cardinality(Units(ks))
    BY <2>1, <1>1, UnitsSplit
  <2>3. /\ SumFunctionOnSet(Size, more) = Cardinality(Units(more))
        /\ SumFunctionOnSet(Size, ks) = Cardinality(Units(ks))
        /\ Cardinality(Units(ks)) \in Nat /\ Size[k] \in Nat
    BY <2>1, <1>1, SumIs, UnitsFinite, ObjectUnits
  <2>4. QED
    BY <2>2, <2>3 DEF more
<1>6. ASSUME NEW ls \in SUBSET ks
      PROVE  SumFunctionOnSet(Size, ls) <= SumFunctionOnSet(Size, ks)
  <2>1. Units(ls) \in SUBSET Units(ks)
    BY DEF Units
  <2>2. IsFiniteSet(Units(ks))
    BY <1>1, UnitsFinite
  <2>3. Cardinality(Units(ls)) <= Cardinality(Units(ks))
    BY <2>1, <2>2, FS_Subset
  <2>4. QED
    BY <2>3, <1>1, SumIs
<1>7. QED
  BY <1>2, <1>3, <1>4, <1>5, <1>6

-----------------------------------------------------------------------------
(* The space used, the files of .cache and what the replacer tracks: an    *)
(* invariant that rests on the first one.                                  *)

\* The space accounted for; a later mount will find no more than fits.
Accounted ==
    /\ cache_used_ = SumFunctionOnSet(Size, Cached)
    /\ cache_used_ <= CacheSize
    /\ SumFunctionOnSet(Size, labelled) <= CacheSize

\* The files are those of the cached objects, and those a crash left.
FilesKept ==
    /\ Cached \subseteq disk /\ short \subseteq disk /\ labelled \subseteq disk
    /\ disk \subseteq Keys
    /\ crashes = 0 => disk = Cached /\ (~mounted => labelled = Cached)
    /\ crashes \in 0..MaxCrashes

\* In the first mount the replacer knows all that was read completely.
Tracks ==
    mount = 1 => /\ entries = Cached \ short
                 /\ fault # "none" => failed # {}

SpaceInv == Lists!IInv /\ Accounted /\ FilesKept /\ Tracks

\* The assumptions of the lemmas about the replacer.
LEMMA ListsAssumptions == Lists!IsFiniteSet(Keys) /\ MaxMounts \in Nat \ {0}
<1>1. Lists!IsFiniteSet(Keys) <=> IsFiniteSet(Keys)
  BY Zenon DEF Lists!IsFiniteSet, IsFiniteSet
<1>2. QED
  BY <1>1, KeysAssumption, MountsAssumption

\* An eviction or a removal that throws is the same in both instances.
LEMMA SameThrow ==
    /\ Replacer!EvictEmpty <=> Lists!EvictEmpty
    /\ \A k : Replacer!RemoveUnknown(k) <=> Lists!RemoveUnknown(k)
  BY DEF Replacer!EvictEmpty, Replacer!RemoveUnknown, Replacer!Running,
         Lists!EvictEmpty, Lists!RemoveUnknown, Lists!Running

\* The replacer's own invariant survives all of its operations ...
LEMMA ReplacerStep ==
    ASSUME Lists!IInv,
           \/ \E k \in Keys : Replacer!Access(k) \/ Replacer!RemoveKey(k) \/ Replacer!RemoveUnknown(k)
           \/ Replacer!EvictTail \/ Replacer!EvictEmpty
           \/ Replacer!Persist \/ Replacer!Load
    PROVE  Lists!IInv'
<1>1. ASSUME NEW k \in Keys, Replacer!Access(k)
      PROVE  Lists!IInv'
  BY <1>1, SameAccess, ListsAssumptions, Lists!AccessStep
<1>2. ASSUME NEW k \in Keys, Replacer!RemoveKey(k)
      PROVE  Lists!IInv'
  BY <1>2, SameRemoveKey, ListsAssumptions, Lists!RemoveStep
<1>3. ASSUME NEW k \in Keys, Replacer!RemoveUnknown(k)
      PROVE  Lists!IInv'
  <2>1. \E x \in Keys : Lists!RemoveUnknown(x)
    BY <1>3, SameThrow
  <2>2. QED
    BY <2>1, ListsAssumptions, Lists!ThrowStep
<1>4. CASE Replacer!EvictTail
  BY <1>4, SameEvictTail, ListsAssumptions, Lists!EvictStep
<1>5. CASE Replacer!EvictEmpty
  BY <1>5, SameThrow, ListsAssumptions, Lists!ThrowStep
<1>6. CASE Replacer!Persist
  BY <1>6, SamePersist, ListsAssumptions, Lists!PersistStep
<1>7. CASE Replacer!Load
  BY <1>7, SameLoad, ListsAssumptions, Lists!LoadStep
<1>8. QED
  BY <1>1, <1>2, <1>3, <1>4, <1>5, <1>6, <1>7

\* ... and the calls that leave it alone ...
LEMMA ReplacerSame ==
    ASSUME Lists!IInv, UNCHANGED replacerVars
    PROVE  Lists!IInv'
<1>1. UNCHANGED Lists!vars
  BY DEF replacerVars, Lists!vars
<1>2. QED
  BY <1>1, ListsAssumptions, Lists!ThrowStep

\* ... and a crash, which empties it.
LEMMA ReplacerCrash ==
    ASSUME Lists!IInv, Crash
    PROVE  Lists!IInv'
<1> USE DEF Lists!IInv
<1>1. /\ list' = <<>> /\ entries' = {} /\ fault' = "none" /\ mounted' = FALSE
      /\ UNCHANGED <<file, victim, mount>>
  BY DEF Crash
<1>2. Lists!Listed'
  BY <1>1 DEF Lists!Listed, Lists!Range
<1>3. /\ Len(list') = 0 /\ Lists!Cardinality(entries') = 0
      /\ Lists!Cardinality(Keys) \in Nat
  <2>1. Lists!Cardinality(Keys) = Cardinality(Keys) /\ Lists!Cardinality(entries') = Cardinality(entries')
    BY Zenon DEF Lists!Cardinality, Cardinality
  <2>2. QED
    BY <2>1, <1>1, KeysAssumption, FS_CardinalityType, FS_EmptySet
<1>4. Lists!Short'
  BY <1>1, <1>3 DEF Lists!Short
<1>5. Lists!TypeOK'
  BY <1>1, <1>2, <1>4, ListsAssumptions, Lists!TypeFromListed DEF Lists!TypeOK
<1>6. Lists!OneNodePerEntry'
  BY <1>1 DEF Lists!OneNodePerEntry, Lists!Range, Lists!IsInjective
<1>7. QED
  BY <1>2, <1>4, <1>5, <1>6

\* The empty cache uses no space.
LEMMA SpaceInitially == Init => SpaceInv
<1> SUFFICES ASSUME Init PROVE SpaceInv
  OBVIOUS
<1>1. Cached = {}
  BY DEF Init, Cached, IsCached
<1>2. SumFunctionOnSet(Size, {}) = 0
  BY SumFacts
<1>3. Lists!IInv
  <2>1. Lists!Init
    BY DEF Init, Replacer!Init, Lists!Init, Replacer!NoFile, Lists!NoFile
  <2>2. QED
    BY <2>1, ListsAssumptions, Lists!Initially
<1>4. Accounted /\ FilesKept
  BY <1>1, <1>2, CacheSizeAssumption, FaultsAssumption DEF Init, Accounted, FilesKept
<1>5. Tracks
  BY <1>1 DEF Init, Replacer!Init, Tracks
<1>6. QED
  BY <1>3, <1>4, <1>5 DEF SpaceInv

\* Calls that change neither the cache nor what the replacer tracks.
LEMMA SpaceSame ==
    ASSUME SpaceInv, UNCHANGED <<cacheVars, entries, mounted, mount, crashes>>,
           failed \subseteq failed', fault' = fault \/ (mount = 1 => failed' # {})
    PROVE  Accounted' /\ FilesKept' /\ Tracks'
<1>1. Cached' = Cached
  BY EntriesSame DEF cacheVars
<1>2. QED
  BY <1>1 DEF SpaceInv, Accounted, FilesKept, Tracks, cacheVars, diskVars

\* An object that fits enters the cache.
LEMMA SpaceTaken ==
    ASSUME SpaceInv, IInv, mounted, NEW k \in Keys \ Cached, Fits(k),
           Cached' = Cached \union {k}, disk' = disk \union {k}, short' \subseteq short \union {k},
           cache_used_' = cache_used_ + Size[k], mounted', UNCHANGED <<labelled, crashes>>
    PROVE  Accounted' /\ FilesKept'
<1>1. Cached \in SUBSET Keys
  BY SetFacts
<1>2. /\ SumFunctionOnSet(Size, Cached) \in Nat
      /\ SumFunctionOnSet(Size, Cached \union {k}) = SumFunctionOnSet(Size, Cached) + Size[k]
      /\ Size[k] \in Nat
  BY <1>1, SumFacts, SizeAssumption
<1>3. Accounted'
  BY <1>2, CacheSizeAssumption DEF SpaceInv, Accounted, Fits
<1>4. FilesKept'
  BY DEF SpaceInv, FilesKept
<1>5. QED
  BY <1>3, <1>4

\* An object leaves the cache, if it was there, with its file.
LEMMA SpaceFreed ==
    ASSUME SpaceInv, IInv, mounted, NEW k \in Keys, FilesRemoved({k}),
           Cached' = Cached \ {k}, cache_used_' = UsedWithout(k), mounted', UNCHANGED crashes
    PROVE  Accounted' /\ FilesKept'
<1>1. Cached \in SUBSET Keys /\ labelled \in SUBSET Keys
  BY SetFacts DEF IInv, Types
<1>2. /\ SumFunctionOnSet(Size, Cached) \in Nat
      /\ SumFunctionOnSet(Size, Cached') = SumFunctionOnSet(Size, Cached) - EntrySize(k)
      /\ EntrySize(k) \in Nat
  <2>1. CASE k \in Cached
    BY <2>1, <1>1, SumFacts, SetFacts, SizeAssumption DEF EntrySize
  <2>2. CASE k \notin Cached
    <3>1. Cached' = Cached /\ EntrySize(k) = 0
      BY <2>2, SetFacts DEF EntrySize
    <3>2. SumFunctionOnSet(Size, Cached) \in Nat
      BY <1>1, SumFacts
    <3>3. QED
      BY <3>1, <3>2
  <2>3. QED
    BY <2>1, <2>2
<1>3. /\ SumFunctionOnSet(Size, labelled) \in Nat
      /\ SumFunctionOnSet(Size, labelled') \in Nat
      /\ SumFunctionOnSet(Size, labelled') <= SumFunctionOnSet(Size, labelled)
  <2>1. labelled' \in SUBSET labelled /\ labelled' \in SUBSET Keys
    BY <1>1 DEF FilesRemoved
  <2>2. QED
    BY <2>1, <1>1, SumFacts
<1>4. Accounted'
  BY <1>2, <1>3, CacheSizeAssumption DEF SpaceInv, Accounted, UsedWithout
<1>5. FilesKept'
  BY DEF SpaceInv, FilesKept, FilesRemoved
<1>6. QED
  BY <1>4, <1>5

\* Calls that transfer directly, begin, or find nothing to do.
LEMMA SpaceOtherCalls ==
    ASSUME SpaceInv, IInv, NEW k \in Keys,
           \/ UploadDirect(k) \/ UploadCached(k) \/ UploadBegin(k) \/ DownloadBegin(k)
           \/ DeleteUncached(k)
           \/ \E got \in BOOLEAN : DownloadDirect(k, got)
    PROVE  SpaceInv'
<1>1. UNCHANGED <<cacheVars, replacerVars, crashes>> /\ failed \subseteq failed'
  <2>1. CASE UploadDirect(k)
    BY <2>1 DEF UploadDirect, Puts
  <2>2. CASE UploadCached(k) \/ UploadBegin(k) \/ DownloadBegin(k)
    BY <2>2 DEF UploadCached, UploadBegin, DownloadBegin
  <2>3. CASE DeleteUncached(k)
    BY <2>3 DEF DeleteUncached, Deletes
  <2>4. CASE \E got \in BOOLEAN : DownloadDirect(k, got)
    BY <2>4 DEF DownloadDirect, Gets
  <2>5. QED
    BY <2>1, <2>2, <2>3, <2>4
<1>2. Lists!IInv'
  BY <1>1, ReplacerSame DEF SpaceInv
<1>3. Accounted' /\ FilesKept' /\ Tracks'
  BY <1>1, SpaceSame DEF replacerVars
<1>4. QED
  BY <1>2, <1>3 DEF SpaceInv

\* A read tells the replacer of its object unless the file is short.
LEMMA ReadTracks ==
    ASSUME SpaceInv, NEW k \in Keys, ReadCached(k)
    PROVE  /\ Lists!IInv' /\ UNCHANGED <<mounted, mount, fault>>
           /\ entries' = IF k \in short' THEN entries ELSE entries \union {k}
<1>1. CASE k \in short'
  <2>1. UNCHANGED replacerVars
    BY <1>1 DEF ReadCached
  <2>2. QED
    BY <1>1, <2>1, ReplacerSame DEF SpaceInv, replacerVars
<1>2. CASE k \notin short'
  <2>1. Replacer!Access(k)
    BY <1>2 DEF ReadCached
  <2>2. Lists!IInv'
    BY <2>1, ReplacerStep DEF SpaceInv
  <2>3. QED
    BY <1>2, <2>1, <2>2 DEF Replacer!Access
<1>3. QED
  BY <1>1, <1>2

\* The end of an upload.
LEMMA SpaceUploadEnd ==
    ASSUME SpaceInv, IInv, UploadEnd
    PROVE  SpaceInv'
<1> DEFINE k == request.key
<1>1. k \in Keys /\ k \notin Cached /\ mounted
  BY DEF UploadEnd, NoRequest, Request, IInv, Types, Pending
<1>2. /\ Fits(k) /\ disk' = disk \union {k} /\ short' = short \ {k}
      /\ cached_objects_' = [cached_objects_ EXCEPT ![k] = "dirty"]
      /\ cache_used_' = cache_used_ + Size[k]
      /\ Replacer!Access(k)
      /\ UNCHANGED <<labelled, failed, crashes>>
  BY DEF UploadEnd
<1> HIDE DEF k
<1>3. Cached' = Cached \union {k}
  BY <1>1, <1>2, EntryChanges DEF IInv
<1>4. entries' = entries \union {k} /\ UNCHANGED <<mounted, mount, fault>>
  BY <1>2 DEF Replacer!Access
<1>5. Lists!IInv'
  BY <1>1, <1>2, ReplacerStep DEF SpaceInv
<1>6. Accounted' /\ FilesKept'
  BY <1>1, <1>2, <1>3, <1>4, SpaceTaken
<1>7. Tracks'
  BY <1>2, <1>3, <1>4 DEF SpaceInv, Tracks
<1>8. QED
  BY <1>5, <1>6, <1>7 DEF SpaceInv

\* A read that hits, and the end of one that misses.
LEMMA SpaceDownload ==
    ASSUME SpaceInv, IInv
    PROVE  /\ \A k \in Keys : DownloadHit(k) => SpaceInv'
           /\ \A got \in BOOLEAN : DownloadEnd(got) => SpaceInv'
<1>1. ASSUME NEW k \in Keys, DownloadHit(k)
      PROVE  SpaceInv'
  <2>1. /\ UNCHANGED <<cacheVars, failed, crashes>> /\ ReadCached(k) /\ k \in Cached
    BY <1>1, SetFacts DEF DownloadHit
  <2>2. /\ Lists!IInv' /\ UNCHANGED <<mounted, mount, fault>>
        /\ entries' = IF k \in short' THEN entries ELSE entries \union {k}
    BY <2>1, ReadTracks
  <2>3. Cached' = Cached /\ short' = short
    BY <2>1, EntriesSame DEF cacheVars, diskVars
  <2>4. Accounted' /\ FilesKept'
    BY <2>1, <2>2, <2>3 DEF SpaceInv, Accounted, FilesKept, cacheVars, diskVars
  <2>5. Tracks'
    BY <2>1, <2>2, <2>3 DEF SpaceInv, Tracks
  <2>6. QED
    BY <2>2, <2>4, <2>5 DEF SpaceInv
<1>2. ASSUME NEW got \in BOOLEAN, DownloadEnd(got)
      PROVE  SpaceInv'
  <2> DEFINE k == request.key
  <2>1. k \in Keys /\ k \notin Cached /\ mounted
    BY <1>2 DEF DownloadEnd, NoRequest, Request, IInv, Types, Pending
  <2>2. /\ Fits(k) /\ disk' = disk \union {k}
        /\ short' = IF got THEN short \ {k} ELSE short \union ({k} \ disk)
        /\ cached_objects_' = [cached_objects_ EXCEPT ![k] = "clean"]
        /\ cache_used_' = cache_used_ + Size[k]
        /\ ReadCached(k)
        /\ failed \subseteq failed'
        /\ UNCHANGED <<labelled, crashes>>
    BY <1>2 DEF DownloadEnd, Gets, Downloaded
  <2> HIDE DEF k
  <2>3. Cached' = Cached \union {k}
    BY <2>1, <2>2, EntryChanges DEF IInv
  <2>4. /\ Lists!IInv' /\ UNCHANGED <<mounted, mount, fault>>
        /\ entries' = IF k \in short' THEN entries ELSE entries \union {k}
    BY <2>1, <2>2, ReadTracks
  <2>5. Accounted' /\ FilesKept'
    BY <2>1, <2>2, <2>3, <2>4, SpaceTaken
  <2>6. Tracks'
    BY <2>1, <2>2, <2>3, <2>4 DEF SpaceInv, Tracks
  <2>7. QED
    BY <2>4, <2>5, <2>6 DEF SpaceInv
<1>3. QED
  BY <1>1, <1>2

\* In the first mount a victim is one of the entries, and nothing dangles.
LEMMA SpaceEvictOne ==
    ASSUME SpaceInv, IInv, EvictOne
    PROVE  SpaceInv'
<1>1. Lists!IInv'
  BY ReplacerStep DEF SpaceInv, EvictOne
<1>2. victim' \in Keys
  BY Lists!EvictListed, SameEvictTail DEF EvictOne, IInv
<1>3. PICK k \in Keys : k = victim'
  BY <1>2
<1>4. /\ FilesRemoved({k}) /\ cache_used_' = UsedWithout(k)
      /\ cached_objects_' = [cached_objects_ EXCEPT ![k] = "absent"]
      /\ mounted /\ mounted' /\ failed \subseteq failed'
      /\ entries' = entries \ {k} /\ fault' \in {"none", "dangling"}
      /\ UNCHANGED <<mount, crashes>>
  BY <1>3 DEF EvictOne, Replacer!EvictTail, Replacer!Running, Replacer!Erased, Puts
<1>5. Cached' = Cached \ {k}
  BY <1>4, EntryChanges DEF IInv
<1>6. Accounted' /\ FilesKept'
  BY <1>4, <1>5, SpaceFreed
<1>7. Tracks'
  <2>1. mount = 1 => fault' = "none"
    BY <1>1, <1>4 DEF Lists!IInv, Lists!OneNodePerEntry
  <2>2. QED
    BY <2>1, <1>4, <1>5 DEF SpaceInv, Tracks, FilesRemoved
<1>8. QED
  BY <1>1, <1>6, <1>7 DEF SpaceInv

\* In the first mount there is a victim, unless a transfer has failed: the
\* request fits an empty cache, so some object is cached, and it is listed
\* unless its file is short.
LEMMA SpaceEvictNothing ==
    ASSUME SpaceInv, IInv, EvictNothing
    PROVE  SpaceInv'
<1>1. /\ request # NoRequest /\ ~Fits(request.key) /\ Replacer!EvictEmpty
      /\ UNCHANGED <<cacheVars, failed, crashes>>
  BY DEF EvictNothing
<1>2. Lists!IInv'
  BY <1>1, ReplacerStep DEF SpaceInv
<1>3. ASSUME mount = 1
      PROVE  failed # {}
  <2>1. request.key \in Keys /\ ~TooLarge(request.key)
    BY <1>1 DEF NoRequest, Request, IInv, Types, Pending
  <2>2. Size[request.key] \in Nat /\ CacheSize \in Nat
    BY <2>1, SizeAssumption, CacheSizeAssumption
  <2>3. SumFunctionOnSet(Size, Cached) \in Nat /\ cache_used_ = SumFunctionOnSet(Size, Cached)
    BY SumFacts, SetFacts DEF SpaceInv, Accounted
  <2>4. SumFunctionOnSet(Size, Cached) # 0
    BY <1>1, <2>1, <2>2, <2>3 DEF Fits, TooLarge
  <2>5. Cached # {}
    BY <2>4, SetFacts, SumFacts
  <2>6. entries = {}
    <3>1. list = <<>>
      BY <1>1 DEF Replacer!EvictEmpty
    <3>2. QED
      BY <3>1 DEF SpaceInv, Lists!IInv, Lists!Listed, Lists!Range
  <2>7. Cached \subseteq short
    BY <1>3, <2>6 DEF SpaceInv, Tracks
  <2>8. QED
    BY <2>5, <2>7 DEF IInv, ShortFailed
<1>4. Accounted' /\ FilesKept' /\ Tracks'
  BY <1>1, <1>3, SpaceSame DEF Replacer!EvictEmpty
<1>5. QED
  BY <1>2, <1>4 DEF SpaceInv

\* A deleted object leaves cache and replacer; in the first mount the
\* replacer lacks it only when its file is short.
LEMMA SpaceDelete ==
    ASSUME SpaceInv, IInv, NEW k \in Keys, DeleteCached(k) \/ DeleteUntracked(k)
    PROVE  SpaceInv'
<1>1. /\ IsCached(k) /\ FilesRemoved({k}) /\ cache_used_' = UsedWithout(k)
      /\ cached_objects_' = [cached_objects_ EXCEPT ![k] = "absent"]
      /\ mounted /\ UNCHANGED crashes
  BY DEF DeleteCached, DeleteUntracked, Forget, Idle
<1>2. Cached' = Cached \ {k}
  BY <1>1, EntryChanges DEF IInv
<1>3. k \in Cached /\ short' = short \ {k}
  BY <1>1, SetFacts DEF FilesRemoved
<1>4. CASE DeleteCached(k)
  <2>1. /\ Replacer!RemoveKey(k) /\ failed \subseteq failed'
    BY <1>4 DEF DeleteCached, Deletes
  <2>2. Lists!IInv'
    BY <2>1, ReplacerStep DEF SpaceInv
  <2>3. entries' = entries \ {k} /\ UNCHANGED <<fault, mount, mounted>>
    BY <2>1 DEF Replacer!RemoveKey, Replacer!Erased
  <2>4. Accounted' /\ FilesKept'
    BY <1>1, <1>2, <2>3, SpaceFreed
  <2>5. Tracks'
    BY <1>2, <1>3, <2>1, <2>3 DEF SpaceInv, Tracks
  <2>6. QED
    BY <2>2, <2>4, <2>5 DEF SpaceInv
<1>5. CASE DeleteUntracked(k)
  <2>1. Replacer!RemoveUnknown(k) /\ UNCHANGED failed
    BY <1>5 DEF DeleteUntracked
  <2>2. Lists!IInv'
    BY <2>1, ReplacerStep DEF SpaceInv
  <2>3. k \notin entries /\ UNCHANGED <<entries, mount, mounted>>
    BY <2>1 DEF Replacer!RemoveUnknown
  <2>4. Accounted' /\ FilesKept'
    BY <1>1, <1>2, <2>3, SpaceFreed
  <2>5. Tracks'
    <3>1. mount = 1 => k \in short /\ failed # {}
      BY <1>3, <2>3 DEF SpaceInv, Tracks, IInv, ShortFailed
    <3>2. QED
      BY <3>1, <1>2, <1>3, <2>1, <2>3 DEF SpaceInv, Tracks
  <2>6. QED
    BY <2>2, <2>4, <2>5 DEF SpaceInv
<1>6. QED
  BY <1>4, <1>5

\* Unmounting labels what is cached, which fits.
LEMMA SpaceUnmount ==
    ASSUME SpaceInv, IInv, Unmount
    PROVE  SpaceInv'
<1>1. /\ labelled' = Cached /\ mounted' = FALSE /\ failed \subseteq failed'
      /\ UNCHANGED <<disk, short, cache_used_, crashes, entries, fault, mount>>
  BY DEF Unmount, Replacer!Persist, Puts
<1>2. Cached' = Cached
  BY DEF Unmount, IInv, Types, Cached, IsCached, IsDirty
<1>3. Lists!IInv'
  BY ReplacerStep DEF SpaceInv, Unmount
<1>4. Accounted'
  BY <1>1, <1>2 DEF SpaceInv, Accounted
<1>5. FilesKept'
  BY <1>1, <1>2 DEF SpaceInv, FilesKept
<1>6. Tracks'
  BY <1>1, <1>2 DEF SpaceInv, Tracks
<1>7. QED
  BY <1>3, <1>4, <1>5, <1>6 DEF SpaceInv

\* The next mount finds what was labelled; the first one is over.
LEMMA SpaceMount ==
    ASSUME SpaceInv, IInv, Mount
    PROVE  SpaceInv'
<1>1. /\ cache_used_' = SumFunctionOnSet(Size, labelled) /\ mounted' = TRUE /\ ~mounted
      /\ UNCHANGED <<diskVars, crashes>> /\ mount' = mount + 1
  BY DEF Mount, Replacer!Load
<1>2. Cached' = labelled
  BY DEF Mount, Cached, IsCached, IInv, Types
<1>3. Lists!IInv'
  BY ReplacerStep DEF SpaceInv, Mount
<1>4. Accounted'
  BY <1>1, <1>2 DEF SpaceInv, Accounted, diskVars
<1>5. FilesKept'
  BY <1>1, <1>2 DEF SpaceInv, FilesKept, diskVars
<1>6. Tracks'
  BY <1>1, ListsAssumptions DEF SpaceInv, Tracks, Lists!IInv, Lists!TypeOK
<1>7. QED
  BY <1>3, <1>4, <1>5, <1>6 DEF SpaceInv

\* A crash leaves files that nothing accounts for.
LEMMA SpaceCrash ==
    ASSUME SpaceInv, IInv, Crash
    PROVE  SpaceInv'
<1>1. Cached' = {}
  BY DEF Crash, Cached, IsCached
<1>2. SumFunctionOnSet(Size, {}) = 0
  BY SumFacts
<1>3. Lists!IInv'
  BY ReplacerCrash DEF SpaceInv
<1>4. Accounted'
  BY <1>1, <1>2, CacheSizeAssumption DEF SpaceInv, Accounted, Crash, diskVars
<1>5. FilesKept'
  BY <1>1, FaultsAssumption DEF SpaceInv, FilesKept, Crash, diskVars
<1>6. Tracks'
  BY <1>1 DEF Tracks, Crash
<1>7. QED
  BY <1>3, <1>4, <1>5, <1>6 DEF SpaceInv

\* Nothing happens to the cache.
LEMMA SpaceStutter ==
    ASSUME SpaceInv, UNCHANGED vars
    PROVE  SpaceInv'
<1>1. UNCHANGED <<cacheVars, replacerVars, failed, crashes>>
  BY DEF vars
<1>2. Lists!IInv'
  BY <1>1, ReplacerSame DEF SpaceInv
<1>3. Accounted' /\ FilesKept' /\ Tracks'
  BY <1>1, SpaceSame DEF replacerVars
<1>4. QED
  BY <1>2, <1>3 DEF SpaceInv

\* The second invariant holds in every behaviour, on top of the first.
LEMMA SpaceInvariance == Spec => []SpaceInv
<1>1. Init => SpaceInv
  BY SpaceInitially
<1>2. IInv /\ SpaceInv /\ [Next]_vars => SpaceInv'
  <2> SUFFICES ASSUME IInv, SpaceInv, [Next]_vars PROVE SpaceInv'
    OBVIOUS
  <2>1. CASE Next
    BY <2>1, SpaceOtherCalls, SpaceUploadEnd, SpaceDownload, SpaceEvictOne, SpaceEvictNothing,
       SpaceDelete, SpaceUnmount, SpaceMount, SpaceCrash DEF Next
  <2>2. QED
    BY <2>1, SpaceStutter
<1>3. QED
  BY <1>1, <1>2, Invariance, PTL DEF Spec

-----------------------------------------------------------------------------
(* Every step is one of the object store, and loses only what it may.      *)

\* What a read has returned, as far as the callers may rely on it.
Answer == IF reply \in failed THEN NoKey ELSE reply

StoreStep == [Store!Next]_<<Stored \ failed, Answer>>

LossIsKnown ==
    \A k \in Stored \ failed : k \notin Stored' \ failed' =>
        \/ DeleteCached(k) \/ DeleteUncached(k)
        \/ k \in Flaky
        \/ Crash /\ k \in touched

\* Nothing is stored in the beginning.
LEMMA InitRefined == Init => Store!Init
  BY DEF Init, Store!Init, Stored, Dirty, IsDirty

\* A step that the callers cannot see.
LEMMA SameRefined ==
    ASSUME Stored' \ failed' = Stored \ failed, Answer' = Answer
    PROVE  StoreStep
  BY DEF StoreStep

\* An object is stored: again, or one that is not relied on, or a new one.
LEMMA PutRefined ==
    ASSUME NEW k \in Keys, Stored' = Stored \union {k}, UNCHANGED <<failed, reply>>
    PROVE  StoreStep
<1>1. Answer' = Answer
  BY DEF Answer
<1>2. CASE k \in Stored \ failed \/ k \in failed
  BY <1>1, <1>2, SameRefined
<1>3. CASE k \notin Stored \ failed /\ k \notin failed
  BY <1>1, <1>3 DEF StoreStep, Store!Next, Store!Put, Answer
<1>4. QED
  BY <1>2, <1>3

\* A read of what is stored, or of what is not relied on.
LEMMA GetRefined ==
    ASSUME NEW k \in Keys, k \in Stored \union failed, reply' = k,
           Stored' \ failed' = Stored \ failed, UNCHANGED failed
    PROVE  StoreStep
<1>1. CASE k \in failed
  <2>1. Store!Lose({})
    BY <1>1 DEF Store!Lose
  <2>2. QED
    BY <2>1 DEF StoreStep, Store!Next
<1>2. CASE k \notin failed
  <2>1. Store!Get(k)
    BY <1>2 DEF Store!Get
  <2>2. QED
    BY <2>1 DEF StoreStep, Store!Next
<1>3. QED
  BY <1>1, <1>2

\* Objects are lost, and an answer may be withdrawn.
LEMMA LoseRefined ==
    ASSUME NEW ks \in SUBSET Keys, Stored' \ failed' = (Stored \ failed) \ ks,
           Answer' \in {Answer, NoKey}
    PROVE  StoreStep
<1>1. Store!Lose(ks)
  BY DEF Store!Lose, Answer
<1>2. QED
  BY <1>1 DEF StoreStep, Store!Next

\* Keys that have failed do not come back: an answer stays or is withdrawn.
LEMMA AnswerWithdrawn ==
    ASSUME reply' \in {reply, NoKey}, failed \subseteq failed'
    PROVE  Answer' \in {Answer, NoKey}
  BY DEF Answer

\* The calls that store, and those that only begin to make room.
LEMMA UploadRefined ==
    ASSUME IInv, NEW k \in Keys,
           UploadDirect(k) \/ UploadCached(k) \/ UploadBegin(k) \/ DownloadBegin(k)
    PROVE  StoreStep /\ LossIsKnown
<1>1. Dirty' = Dirty /\ reply' = reply
  BY EntriesSame DEF UploadDirect, UploadCached, UploadBegin, DownloadBegin, cacheVars
<1>2. CASE UploadDirect(k)
  <2>1. PICK bad \in SUBSET ({k} \cap Flaky) :
           cloud' = cloud \union ({k} \ bad) /\ failed' = failed \union bad
    BY <1>2, PutFacts DEF UploadDirect
  <2>2. CASE bad = {}
    BY <2>1, <2>2, <1>1, PutRefined DEF Stored, LossIsKnown
  <2>3. CASE bad = {k}
    <3>1. Stored' \ failed' = (Stored \ failed) \ {k} /\ k \in Flaky
      BY <2>1, <2>3, <1>1 DEF Stored
    <3>2. QED
      BY <3>1, <2>1, <1>1, AnswerWithdrawn, LoseRefined DEF LossIsKnown
  <2>4. QED
    BY <2>2, <2>3
<1>3. CASE ~UploadDirect(k)
  <2>1. UNCHANGED <<cloud, failed, reply>>
    BY <1>3 DEF UploadCached, UploadBegin, DownloadBegin
  <2>2. QED
    BY <1>1, <2>1, SameRefined DEF Stored, Answer, LossIsKnown
<1>4. QED
  BY <1>2, <1>3

\* A stored object is stored when it is dirty in the cache.
LEMMA UploadEndRefined ==
    ASSUME IInv, UploadEnd
    PROVE  StoreStep /\ LossIsKnown
<1>1. request.key \in Keys
  BY DEF UploadEnd, NoRequest, Request, IInv, Types
<1>2. Dirty' = Dirty \union {request.key} /\ UNCHANGED <<cloud, failed, reply>>
  BY <1>1, EntryChanges DEF UploadEnd, IInv
<1>3. Stored' = Stored \union {request.key}
  BY <1>2 DEF Stored
<1>4. QED
  BY <1>1, <1>2, <1>3, PutRefined DEF LossIsKnown

\* A transfer that may fail, and the answer to the caller.
LEMMA ReadRefined ==
    ASSUME NEW k \in Keys, NEW got \in BOOLEAN, Gets(k, got), Dirty' = Dirty,
           k \in Stored \union failed, k \notin Dirty,
           reply' \in {k, NoKey}
    PROVE  StoreStep /\ LossIsKnown
<1>1. CASE got /\ reply' = k
  <2>1. UNCHANGED <<cloud, failed>>
    BY <1>1 DEF Gets
  <2>2. QED
    BY <1>1, <2>1, GetRefined DEF Stored, LossIsKnown
<1>2. CASE reply' = NoKey /\ got
  <2>1. Stored' = Stored /\ failed' = failed
    BY <1>2 DEF Gets, Stored
  <2>2. Answer' = NoKey
    BY <1>2 DEF Answer
  <2>3. StoreStep
    BY <2>1, <2>2, LoseRefined, {} \in SUBSET Keys
  <2>4. QED
    BY <2>1, <2>3 DEF LossIsKnown
<1>3. CASE ~got
  <2>1. Stored' \ failed' = (Stored \ failed) \ {k} /\ failed' = failed \union {k}
    BY <1>3 DEF Gets, Stored
  <2>2. k \in failed \/ k \in Flaky
    BY <1>3 DEF Gets, Stored
  <2>3. Answer' = NoKey
    BY <2>1 DEF Answer
  <2>4. QED
    BY <2>1, <2>2, <2>3, LoseRefined DEF LossIsKnown
<1>4. QED
  BY <1>1, <1>2, <1>3

\* The calls that read at once.
LEMMA DownloadRefined ==
    ASSUME IInv, NEW k \in Keys, NEW got \in BOOLEAN,
           DownloadDirect(k, got) \/ DownloadHit(k)
    PROVE  StoreStep /\ LossIsKnown
<1>1. CASE DownloadDirect(k, got)
  <2>1. Dirty' = Dirty /\ k \notin Dirty
    BY <1>1, EntriesSame DEF DownloadDirect, cacheVars, IInv, DirtyIsNew
  <2>2. QED
    BY <1>1, <2>1, ReadRefined DEF DownloadDirect, Believed
<1>2. CASE DownloadHit(k)
  <2>1. Dirty' = Dirty /\ UNCHANGED <<cloud, failed>> /\ k \in Stored \union failed
        /\ reply' \in {k, NoKey}
    BY <1>2, EntriesSame DEF DownloadHit, Believed, cacheVars, ReadCached
  <2>2. Stored' = Stored
    BY <2>1 DEF Stored
  <2>3. CASE reply' = k
    BY <2>1, <2>2, <2>3, GetRefined DEF LossIsKnown
  <2>4. CASE reply' = NoKey
    <3>1. Answer' = NoKey
      BY <2>4 DEF Answer
    <3>2. StoreStep
      BY <2>1, <2>2, <3>1, LoseRefined, {} \in SUBSET Keys
    <3>3. QED
      BY <2>1, <2>2, <3>2 DEF LossIsKnown
  <2>5. QED
    BY <2>1, <2>3, <2>4
<1>3. QED
  BY <1>1, <1>2

\* The end of a download that had to make room.
LEMMA DownloadEndRefined ==
    ASSUME IInv, NEW got \in BOOLEAN, DownloadEnd(got)
    PROVE  StoreStep /\ LossIsKnown
<1> DEFINE j == request.key
<1>1. /\ j \in Keys /\ j \notin Cached
      /\ j \in Stored \union failed
  BY DEF DownloadEnd, NoRequest, Request, IInv, Types, Pending, Stored
<1>2. /\ cached_objects_' = [cached_objects_ EXCEPT ![j] = "clean"]
      /\ Gets(j, got) /\ ReadCached(j)
      /\ short' = IF got THEN short \ {j} ELSE short \union ({j} \ disk)
  BY DEF DownloadEnd, Downloaded
<1> HIDE DEF j
<1>3. Dirty' = Dirty \ {j}
  BY <1>1, <1>2, EntryChanges DEF IInv
<1>4. Dirty' = Dirty /\ j \notin Dirty
  BY <1>1, <1>3, SetFacts
<1>5. QED
  BY <1>1, <1>2, <1>4, ReadRefined DEF ReadCached

\* An eviction is invisible unless the write-back fails.
LEMMA EvictRefined ==
    ASSUME IInv, EvictOne \/ EvictNothing
    PROVE  StoreStep /\ LossIsKnown
<1>1. CASE EvictOne
  <2>1. PICK k \in Keys : k = victim'
    BY <1>1, Lists!EvictListed, SameEvictTail DEF EvictOne, IInv
  <2>2. Dirty' = Dirty \ {k} /\ reply' = reply
    BY <1>1, <2>1, EntryChanges DEF EvictOne, IInv
  <2>3. PICK bad \in SUBSET (WrittenBack(k) \cap Flaky) :
           cloud' = cloud \union (WrittenBack(k) \ bad) /\ failed' = failed \union bad
    BY <1>1, <2>1, PutFacts DEF EvictOne
  <2>4. WrittenBack(k) = Dirty \cap {k}
    BY SetFacts DEF WrittenBack
  <2>5. Stored' \ failed' = (Stored \ failed) \ bad /\ bad \in SUBSET Keys
    BY <2>2, <2>3, <2>4, SetFacts DEF Stored
  <2>6. Answer' \in {Answer, NoKey}
    BY <2>2, <2>3, AnswerWithdrawn
  <2>7. StoreStep
    BY <2>5, <2>6, LoseRefined
  <2>8. QED
    BY <2>3, <2>5, <2>7 DEF LossIsKnown
<1>2. CASE EvictNothing
  <2>1. Dirty' = Dirty /\ UNCHANGED <<cloud, failed, reply>>
    BY <1>2, EntriesSame DEF EvictNothing, cacheVars
  <2>2. QED
    BY <2>1, SameRefined DEF Stored, Answer, LossIsKnown
<1>3. QED
  BY <1>1, <1>2

\* A delete takes its object, or that transfer failed, or the call threw.
LEMMA DeleteRefined ==
    ASSUME IInv, NEW k \in Keys,
           DeleteCached(k) \/ DeleteUntracked(k) \/ DeleteUncached(k)
    PROVE  StoreStep /\ LossIsKnown
<1>1. CASE DeleteUntracked(k)
  <2>1. Dirty' = Dirty \ {k} /\ UNCHANGED <<cloud, failed, reply>>
    BY <1>1, EntryChanges DEF DeleteUntracked, Forget, IInv
  <2>2. k \notin Dirty
    BY <1>1 DEF DeleteUntracked, Idle, IInv, DirtyIsNew, Replacer!RemoveUnknown
  <2>3. Stored' = Stored
    BY <2>1, <2>2 DEF Stored
  <2>4. QED
    BY <2>1, <2>3, SameRefined DEF Answer, LossIsKnown
<1>2. CASE DeleteCached(k) \/ DeleteUncached(k)
  <2>1. /\ Dirty' = Dirty \ {k} /\ reply' = reply
        /\ cloud \ {k} \subseteq cloud' /\ cloud' \subseteq cloud
        /\ failed \subseteq failed' /\ failed' \subseteq failed \union {k}
        /\ k \in cloud' => k \in failed' \/ (k \in Dirty /\ UNCHANGED <<cloud, failed>>)
    <3>1. CASE DeleteCached(k)
      BY <3>1, EntryChanges, SetFacts DEF DeleteCached, Forget, Deletes, IInv
    <3>2. CASE DeleteUncached(k)
      BY <3>2, EntriesSame, SetFacts DEF DeleteUncached, cacheVars, Deletes
    <3>3. QED
      BY <1>2, <3>1, <3>2
  <2>2. Answer' \in {Answer, NoKey}
    BY <2>1, AnswerWithdrawn
  <2>3. PICK ks \in SUBSET {k} : Stored' \ failed' = (Stored \ failed) \ ks
    <3>1. CASE k \in Stored' \ failed'
      BY <2>1, <3>1, {} \in SUBSET {k} DEF Stored
    <3>2. CASE k \notin Stored' \ failed'
      BY <2>1, <3>2, {k} \in SUBSET {k} DEF Stored
    <3>3. QED
      BY <3>1, <3>2
  <2>4. StoreStep
    BY <2>2, <2>3, LoseRefined
  <2>5. QED
    BY <1>2, <2>3, <2>4 DEF LossIsKnown
<1>3. QED
  BY <1>1, <1>2

\* Unmounting writes back every dirty object, or its transfer failed.
LEMMA UnmountRefined ==
    ASSUME IInv, Unmount
    PROVE  StoreStep /\ LossIsKnown
<1>1. Dirty' = {} /\ reply' = reply
  BY SetFacts DEF Unmount, Dirty, IsDirty, IInv, Types
<1>2. PICK bad \in SUBSET (Dirty \cap Flaky) :
         cloud' = cloud \union (Dirty \ bad) /\ failed' = failed \union bad
  BY PutFacts DEF Unmount, PersistedDirty
<1>3. Stored' \ failed' = (Stored \ failed) \ bad /\ bad \in SUBSET Keys
  BY <1>1, <1>2, SetFacts DEF Stored
<1>4. Answer' \in {Answer, NoKey}
  BY <1>1, <1>2, AnswerWithdrawn
<1>5. StoreStep
  BY <1>3, <1>4, LoseRefined
<1>6. QED
  BY <1>2, <1>3, <1>5 DEF LossIsKnown

\* Mounting changes nothing that is stored.
LEMMA MountRefined ==
    ASSUME IInv, Mount
    PROVE  StoreStep /\ LossIsKnown
<1>1. Dirty = {} /\ Dirty' = {} /\ UNCHANGED <<cloud, failed, reply>>
  BY DEF Mount, Replacer!Load, IInv, DirtyIsNew, Dirty, IsDirty
<1>2. QED
  BY <1>1, SameRefined DEF Stored, Answer, LossIsKnown

\* A crash costs what was touched since the last unmount, at most.
LEMMA CrashRefined ==
    ASSUME IInv, Crash
    PROVE  StoreStep /\ LossIsKnown
<1>1. Dirty' = {} /\ failed' = failed \union touched /\ UNCHANGED <<cloud, reply>>
  BY DEF Crash, Dirty, IsDirty
<1>2. Dirty \subseteq touched /\ touched \in SUBSET Keys
  BY DEF IInv, DirtyIsNew, Types
<1>3. Stored' \ failed' = (Stored \ failed) \ touched
  BY <1>1, <1>2 DEF Stored
<1>4. Answer' \in {Answer, NoKey}
  BY <1>1, AnswerWithdrawn
<1>5. StoreStep
  BY <1>2, <1>3, <1>4, LoseRefined
<1>6. QED
  BY <1>3, <1>5 DEF LossIsKnown

\* Every step of the cache.
LEMMA StepRefined == IInv /\ [Next]_vars => StoreStep /\ [LossIsKnown]_vars
<1> SUFFICES ASSUME IInv, [Next]_vars PROVE StoreStep /\ [LossIsKnown]_vars
  OBVIOUS
<1>1. CASE UNCHANGED vars
  <2>1. Stored' = Stored /\ Answer' = Answer /\ failed' = failed
    BY <1>1, EntriesSame DEF vars, cacheVars, Stored, Answer
  <2>2. QED
    BY <1>1, <2>1, SameRefined
<1>2. CASE Next
  <2>1. StoreStep /\ LossIsKnown
    BY <1>2, UploadRefined, UploadEndRefined, DownloadRefined, DownloadEndRefined,
       EvictRefined, DeleteRefined,
       UnmountRefined, MountRefined, CrashRefined DEF Next
  <2>2. QED
    BY <2>1
<1>3. QED
  BY <1>1, <1>2

-----------------------------------------------------------------------------
(***************************************************************************)
(* A clean object is on the cloud and its file is complete, unless one of  *)
(* its own transfers failed or a crash undid what was believed of it: what *)
(* evict_to_size and download_chunk take for granted, for every size of    *)
(* the cache (buffer_file.cc:117, 388-418).                                *)
(***************************************************************************)
THEOREM CleanObjectsAreSafe == Spec => []CleanOnCloud
<1>1. IInv => CleanOnCloud
  BY DEF IInv, CleanStored, ShortFailed, CleanOnCloud
<1>2. QED
  BY Invariance, <1>1, PTL

(***************************************************************************)
(* "dirty means the object hasn't been uploaded to cloud"                  *)
(* (buffer_file.cc:307), as long as no object is stored twice and none of  *)
(* its transfers failed.                                                   *)
(***************************************************************************)
THEOREM DirtyObjectsAreLocal == Spec => []DirtyNotOnCloud
<1>1. IInv => DirtyNotOnCloud
  BY DEF IInv
<1>2. QED
  BY Invariance, <1>1, PTL

(***************************************************************************)
(* TypeOK of ChunkCache, for every size of the cache: the replacer's list  *)
(* holds at most two nodes per key, and the counter of the space used      *)
(* neither underflows nor exceeds the configured size.                     *)
(***************************************************************************)
THEOREM CacheTypes == Spec => []TypeOK
<1>1. IInv /\ SpaceInv => TypeOK
  <2> SUFFICES ASSUME IInv, SpaceInv PROVE TypeOK
    OBVIOUS
  <2>1. Replacer!TypeOK
    <3>1. Lists!TypeOK
      BY DEF SpaceInv, Lists!IInv
    <3>2. QED
      BY <3>1, SameCardinality DEF Lists!TypeOK, Replacer!TypeOK
  <2>2. cache_used_ \in 0..CacheSize
    <3>1. cache_used_ \in Nat
      BY SetFacts, SumFacts DEF SpaceInv, Accounted
    <3>2. QED
      BY <3>1, CacheSizeAssumption DEF SpaceInv, Accounted
  <2>3. QED
    BY <2>1, <2>2 DEF SpaceInv, FilesKept, IInv, Types, TypeOK
<1>2. QED
  BY <1>1, Invariance, SpaceInvariance, PTL

(***************************************************************************)
(* cache_used_ is the total size of the cached objects and never exceeds   *)
(* the configured size, in every mount and whatever fails, for any number  *)
(* of objects of any size; the files of .cache are those of the cached     *)
(* objects until a crash (buffer_file.cc:105-246, 294-317, 388-418).       *)
(***************************************************************************)
THEOREM SpaceIsExact == Spec => []UsedIsExact
<1>1. SpaceInv => UsedIsExact
  BY DEF SpaceInv, Accounted, FilesKept, UsedIsExact
<1>2. QED
  BY <1>1, SpaceInvariance, PTL

(***************************************************************************)
(* During the first mount the replacer tracks exactly the cached objects   *)
(* that were read completely, and neither evict nor remove throws, as long *)
(* as no transfer failed (cache_replacer.cc:118-121, 138-145).             *)
(***************************************************************************)
THEOREM ReplacerKnowsCache == Spec => []ReplacerTracksCache
<1>1. SpaceInv => ReplacerTracksCache
  <2> SUFFICES ASSUME SpaceInv, mount = 1
               PROVE  /\ Range(list) = entries
                      /\ Len(list) = Cardinality(entries)
    BY DEF SpaceInv, Tracks, ReplacerTracksCache
  <2>1. /\ entries = Lists!Range(list) /\ Lists!IsInjective(list) /\ list \in Seq(Keys)
    BY DEF SpaceInv, Lists!IInv, Lists!OneNodePerEntry, Lists!Listed
  <2>2. Range(list) = entries
    BY <2>1 DEF Range, Lists!Range
  <2>3. Cardinality(1..Len(list)) = Len(list) /\ IsFiniteSet(1..Len(list))
    <3>1. Len(list) \in Nat
      BY <2>1
    <3>2. QED
      BY <3>1, IntervalFacts
  <2>4. list \in Surjection(1..Len(list), entries) /\ list \in Injection(1..Len(list), entries)
    <3>1. DOMAIN list = 1..Len(list) /\ list \in [1..Len(list) -> Keys]
      BY <2>1
    <3>2. list \in [1..Len(list) -> entries] /\ \A k \in entries : \E i \in 1..Len(list) : list[i] = k
      BY <3>1, <2>2 DEF Range
    <3>3. IsInjective(list)
      BY <2>1 DEF IsInjective, Lists!IsInjective
    <3>4. QED
      BY <3>2, <3>3 DEF Surjection, Injection
  <2>5. QED
    BY <2>2, <2>3, <2>4, FS_Surjection
<1>2. QED
  BY <1>1, SpaceInvariance, PTL

(***************************************************************************)
(* The cache implements the object store, and an object the callers may    *)
(* rely on disappears only when they delete it, when its own transfer      *)
(* fails, or when a crash comes before the unmount that follows its        *)
(* upload: the promise of buffer_file.h, for all sizes and faults.         *)
(***************************************************************************)
THEOREM CacheIsTransparent == Spec => ImplementsObjectStore
<1>1. Init => Store!Init
  BY InitRefined
<1>2. IInv /\ [Next]_vars =>
        [Store!Next]_<<Stored \ failed, IF reply \in failed THEN NoKey ELSE reply>>
  BY StepRefined DEF StoreStep, Answer
<1>3. IInv /\ [Next]_vars => [LossIsKnown]_vars
  BY StepRefined
<1>4. Spec => Store!Spec
  BY <1>1, <1>2, Invariance, PTL DEF Spec, Store!Spec
<1>5. Spec => [][LossIsKnown]_vars
  BY <1>3, Invariance, PTL DEF Spec
<1>6. QED
  BY <1>4, <1>5, PTL DEF ImplementsObjectStore, LossIsKnown
=============================================================================
