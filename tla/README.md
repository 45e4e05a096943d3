# CloudFS: models, checks and proofs

A verification project for CloudFS, a FUSE file system that keeps small files
on a local SSD and stores large files as deduplicated chunks in an S3 bucket,
with a write-back cache of chunks and with snapshots.  The TLA+ modules here
are translated from `src/src/cloudfs`; TLC checks them on small instances and
TLAPS proves the safety properties of the chunk table, the cache, its replacer
down to the pointers, the splitter down to the registers of the fingerprint, the
snapshots, and the files of both controllers for every instance.

## 1. The system

| Part | Code | State it keeps | Operations |
|---|---|---|---|
| FUSE front end | `cloudfs.cc`, `main.cc` | options | one callback at a time (option `-s`, `cloudfs.cc:642`): each forwards to a controller |
| Deduplicating controller | `CloudfsControllerDedup`, `cloudfs_controller.cc` | per open descriptor its chunk list; per file, in extended attributes, the chunk list, size, buffer path and a truncated flag | create, open, read, write, close, unlink, truncate, destroy |
| Plain controller | `CloudfsControllerNoDedup` | per open descriptor a path; the buffer file | the same, whole files, and link |
| Chunk splitter | `chunk_splitter.cc`, `dedup-lib/rabinpoly.cc` | start and length of the current chunk, digest, fingerprint window | init, get_chunks_next, get_chunk_last |
| Chunk table | `chunk_table.cc` | per key a reference count and a snapshot count | use, release, snapshot, restore, snapshot_deleted, persist, load |
| Chunk cache | `buffer_file.cc` | map of cached objects with size and dirty flag, used space, directory `.cache`, bucket | upload, download, delete, evict, persist, load |
| Replacer | `cache_replacer.cc` | doubly linked list and map, persist file | access, evict, remove, persist, load |
| Snapshot controller | `snapshot.cc` | list of snapshots and of installed snapshots (attributes of `.snapshot`), snapshot objects, directories `snapshot_<ts>` | create, restore, list, delete, install, uninstall, persist, load |
| Helpers | `util.cc`, `cloud-lib`, `archive-lib` | none that outlives a call | paths, attributes, S3, tar |

How they interact: a write of the deduplicating controller loads chunks from
the cache, overwrites the buffer file, splits it again, calls `use` for every
new and `release` for every replaced chunk, and uploads or deletes an object
when the table says "first" or "last".  The plain controller goes past the
cache: open downloads a large file into its buffer file, close uploads it and
empties the buffer file.  The cache evicts to make room and asks
the replacer for victims.  The snapshot controller saves the table and the
files' chunk lists in an object, raises snapshot counts, and later restores or
discounts them.  At unmount the table, the cache and the snapshot list are
uploaded; at mount they are loaded.

What is hard here is not parallelism - there is one thread - but long
sequences of calls over state that exists several times: a chunk list in every
open descriptor and in the file; counts in memory, on the cloud and in every
snapshot; a cache map, a replacer list and a replacer map; a snapshot list on
the SSD and on the cloud.  Each remount rebuilds some copies and not others,
each error return leaves some updated and not others, each
transfer that fails is written to the log and taken for done, and a kill of the
process leaves what was on disk and cloud beside what was in memory.  `PROJECT.json` lists
the hazards line by line, with the properties aimed at them.

What makes the parts correct:

* deduplicating controller: reads return what was written; chunk list, counts
  and objects agree;
* plain controller: files as in a local file system, durable once closed;
* splitter: equal contents become equal chunks, and chunks tile the file;
* table: no chunk in use is deleted, none is kept that nobody uses;
* cache: transparent - same objects with and without it, whatever is
  evicted or remounted - and within its size; a fault costs what it concerns;
* replacer: least recently used, list and map agree, pointers well formed;
* snapshots: restoring brings back the copied files, listed ones can be read.

## 2. The modules

| Module | Models | Checked against |
|---|---|---|
| `FileBytes` | the bytes of a file under `truncate` and `pwrite`, used by the modules about files | - |
| `FileStore` | plain files with names, links, contents, and what of them is durable | - |
| `PlainFiles` | the regular files of `CloudfsControllerNoDedup`, with hard links, several descriptors, failing transfers and crashes | `FileStore` |
| `PlainFiles_proofs` | the theorems about `PlainFiles` | - |
| `DedupFile` | one file of `CloudfsControllerDedup` under several descriptors, with splitter and chunk store (uses `ChunkTableOps`) | history of the content |
| `DedupFile_proofs` | the theorems about `DedupFile` | - |
| `Rabin` | the tables, registers and circular window of `rabinpoly.cc`, as functions | residues of polynomials |
| `ChunkSplitter` | `ChunkSplitter` fed with buffers of any length (extends `Rabin`) | the bytes of a chunk alone |
| `ChunkSplitter_proofs` | the theorems about `ChunkSplitter` and the arithmetic of `Rabin` | - |
| `LRUOrder` | the policy: tracked keys and the order of their last access | - |
| `RecencyList` | `LRUCacheReplacer` as a sequence and a set of map keys, over mounts | `LRUOrder` |
| `RecencyList_proofs` | the theorems about `RecencyList` | - |
| `LRUReplacer` | the same at the level of `head_`, `tail_`, `prev_`, `next_`, the map, and reused addresses | `RecencyList` |
| `LRUReplacer_proofs` | the theorems about `LRUReplacer` | - |
| `ObjectStore` | a plain store of objects that may lose one | - |
| `ChunkCache` | `BufferFileController` composed with `RecencyList`, with failing transfers and crashes | `ObjectStore` |
| `ChunkCache_proofs` | the theorems about `ChunkCache` | - |
| `ChunkTableOps` | the operations of `ChunkTable` as functions of the table | - |
| `ChunkTable` | the table with live references, objects, snapshots, failed snapshots, restores and mounts | - |
| `ChunkTable_proofs` | the theorems about `ChunkTable` | - |
| `SnapshotStore` | copies of the user's files by timestamp | - |
| `Snapshots` | the snapshot controller | `SnapshotStore` |
| `Snapshots_proofs` | the theorems about `Snapshots` | - |

The `MC*` modules only add symmetry sets, views, constraints and the values of
constants that a configuration file cannot write.

Correspondence.  Variables have the names of the code where it has one
(`cached_objects_`, `cache_used_`, `open_files_`, `chunk_splitter_`,
`snapshot_list`, `is_on_cloud`).  An action is a whole handler, because
handlers do not overlap, with two exceptions.  In `ChunkCache` each turn of the
eviction loop is a step, so that its termination can be asked about and a crash
can come between two turns.  In `PlainFiles` a close that is cut short is an
action of its own for each place where it leaves something different behind
(`CrashUploaded`, `CrashDeleted`).  `map` in `PROJECT.json` gives the lines of
every definition.  Operators named `Mut_...` are no part of the specifications:
each is a plausible slip in the definition below it, used to test that a
property can fail.

Abstractions.  A chunk key is the content it digests.  In `DedupFile` a unit
of content stands for a run of bytes, and the Rabin fingerprint is the set
`Cuts` of units after which it asks for a boundary.  That a boundary depends on
nothing but the chunk itself, which this needs, is what `ChunksDependOnOwnBytes`
says of the real fingerprint.  In `Rabin` a polynomial over GF(2), and so a
byte and a register, is the set of its exponents; registers keep their width
(`Shl` drops what leaves the `Word`).  In `ChunkTable` a file is the number of
references it contributes.  In `Snapshots` a file has a value.

Variables marked *history* are not in the code; they record what happened
(`past`, `failed`, `lost`), what the user wrote (`content`, `fed`) or what was
restored, so that properties can say until when and for which files or objects
they hold.

Faults.  In `ChunkCache` a put, get or delete of an object in `Flaky` may fail:
`cloudapi.cc` reports a status, `buffer_file.cc` logs it and goes on.  A failed
download leaves a short file in `.cache` that is mapped as a clean object.  A
crash forgets the memory and keeps disk and bucket; the chunk table that the
callers go by is then the one of the last unmount, so the objects stored or
deleted since (`touched`) join `failed`, the objects about which the callers
may be wrong.  In `PlainFiles` the download of an open
and the upload of a close may fail (`OpenFailing`, `CloseUploadFailing`): the
code goes on with what arrived, or marks the file as on the cloud and empties
the only copy, and the file is `lost`.  A crash closes every descriptor and
forgets the dirty flags.  `ChunkTable` has snapshots that fail half way and unmounts
that do not upload; `Snapshots` has lost disks.

Rules of use.  The plain controller is not a file store for every user.
`PlainFiles` follows all of them, and puts a file whose user breaks one of the
following rules among the `lost`, about whose contents nothing is claimed:

1. a file on the cloud is not opened while another descriptor has unsaved
   changes (the download overwrites them, `cloudfs_controller.cc:325`);
2. it is not truncated while closed, nor opened with `O_TRUNC` (the next open
   downloads the object again, `:545`);
3. it is not open under two descriptors when one is closed (which empties the
   shared buffer file, `:433`);
4. it is not truncated and then extended to its old size without a write (the
   size looks unchanged, `:415`).

That these are the only rules, and that breaking one costs no other file, is
what the refinement shows: it says of each handler which action of `FileStore`
it is.  Opening changes nothing unless rule 1 is broken or the download fails, a
write overwrites and a truncation resizes exactly the bytes of its file unless
rule 2 is broken, a close makes the content durable unless rule 3 or 4 is broken
or the upload fails, and the calls on names are the calls of that name.  Without
any one of the rules the run `plain_files` fails; mutants show it for the first
two.  The model ends when two files come to share a
buffer file or an object (`past`): both can happen (see 4).

## 3. The runs

| Run | Question and bounds | Result |
|---|---|---|
| `plain_files` | is the plain controller a store of files, durable when closed? do sizes, objects and space on the SSD agree? 2 names with one key, 2 inodes, 2 descriptors, 2 units, threshold 1, transfers that fail | holds |
| `dedup_file` | do reads return writes, do list, counts and objects agree? 2 descriptors, 3 units, chunks of 1 or 2 | holds until an outdated list is used |
| `dedup_truncate` | "start offset of the chunk in complete file" | violated |
| `dedup_two_writers` | "needs to reload chunks list before next write" | violated |
| `splitter` | is the fingerprint a residue, are cuts a matter of the chunk alone, do chunks tile the input? 8 bytes of 2 bits, window 3, segments of 3 to 5 | holds |
| `lru` | do the pointers implement the list, and the list LRU? do list and map agree? 3 keys, 3 mounts | holds: LRU and agreement in the first mount, map entries always listed |
| `cache` | is the cache transparent, exact, live, whatever fails? objects of size 1, 1, 2, 3, cache of 2, 3 mounts, 1 crash, transfers of one object fail | holds |
| `cache_remount` | "load cache states across mounts" | violated |
| `chunk_table` | are chunks lost or leaked, are counts exact? 2 keys, 2 references, 3 snapshots, 2 mounts | holds with the exceptions each property names |
| `table_use_missing` | "true if this chunk is new" | violated |
| `snapshots` | do the ioctls implement a store of copies? 4 timestamps, room for 3, 3 mounts, new disks | holds until a stale list is loaded; installed snapshots are kept beyond that |
| `snapshots_newer` | "delete snapshots that are newer than the restored snapshot" | violated |

Why the bounds are enough.

* `plain_files`: every hazard of the plain controller is about two names of
  one file, two descriptors of one file, or two files with one key; two of each
  are all of these at once.  Contents of 0, 1 and 2 units are empty, small and
  large, so that files cross the threshold in both directions.  Names, inodes
  and descriptors are interchangeable.  The view keeps only the sizes of lost
  files, because guards and properties look at nothing else of them, and the run
  goes no further when more than one file is lost or interrupted by a crash
  (`SomeFileSound`): the other one is then what the properties speak of.
* `splitter`: the polynomial x^4 + x + 1 in registers of five bits has the
  relation of the original's 63 and 64: a residue fits with one bit to spare.
  Eight bytes hold one whole segment and at least three bytes of the next, so
  that the window is carried over an end of segment, and buffers of one and two
  bytes end everywhere in it.  A second `init`, from offset 0 or 3, starts with
  whatever the splitter was left in.
* `lru`: three keys give a list node two neighbours, and three mounts reach a
  list that was loaded, partly touched, saved and loaded again.  The view leaves
  out what freed nodes hold: a node is filled in when it is allocated again.
* `cache`: the object sizes are the four cases of `evict_to_size`: one eviction,
  two evictions, exactly the cache, larger than the cache.  One flaky object of
  size 1 is evicted, written back, read again and deleted among others that are
  not flaky, and at most two objects may be concerned by faults (`FewFailed`).
  Nothing is lost by the constraint for the liveness property: it asks nothing
  once a transfer has failed.  The view leaves out what nothing that follows
  depends on: the last victim and reply, the memory while nothing is mounted,
  and `touched` after the last crash.
* `chunk_table`: two keys with two references and three snapshots let one key
  leave and re-enter the table between the snapshot that counted it and its
  deletion.  The run does not follow states in which both the last snapshot has
  been taken and the remount has happened (`FewerAfterRemount`).
* `dedup_file`: three units with chunks of one or two give writes with an
  untouched chunk before and after the rewritten ones; the model stops at the
  first call that uses an outdated list or misplaces a chunk (`Idle`), because
  nothing is claimed after it.  The view leaves out the scratch buffer of a
  large file, which every operation clears before it reads it.
* `snapshots`: one content besides "no such file" tells two versions of a file
  apart.  Four timestamps with room for three reach the refusal of a
  fourth, and a restore with a first and a second newer snapshot.

Deadlock is not checked where the models stop at their bounds (mounts) or when
an exception ended the process.

Fairness.  Only `RequestsComplete` in `cache` needs it: weak fairness of the
next step of a call that has begun.  The code justifies it because a handler is
straight code in the only thread.  Nothing is assumed about users, about the
cloud or about crashes.

## 4. What the checks found

Five disagreements between the code and what it says of itself are findings,
each with its run.  In short:

1. An empty chunk table is not persisted (`chunk_table.cc:79`).  The table of
   an earlier session is loaded, reports deleted chunks as stored, and a new
   file with such a chunk cannot be read back.
2. After a remount the replacer's map is empty (`cache_replacer.cc:36`):
   deleting a cached object throws; an evicted key may leave a freed node
   linked, and the order is no longer LRU.
3. Truncating large to large rechunks with a splitter that was not initialised
   (`cloudfs_controller.cc:1067`): wrong offsets, or an uninitialised key.
4. The truncated flag is cleared by the first descriptor that writes
   (`cloudfs_controller.cc:681`); others go on with the old list.
5. A restore takes the first newer snapshot off the list without deleting it
   (`snapshot.cc:575`).

Seen on the way, without a run of their own because the cause is the same,
because nothing in the repository says otherwise, or because the models leave
it out:

* *Chunk table and snapshots.*  `restore` does not lower the counts of chunks
  that only the removed files used: such chunks stay for ever.  A restored
  table may report a stored chunk as new (counts overwritten with 0), so that
  it is uploaded again and a later delete of its dirty copy leaves the old one
  on the cloud.  A snapshot whose creation fails half way leaves the snapshot
  counts raised.  An empty snapshot list is not persisted, so deleted snapshots
  come back at the next mount, and restoring one removes all files before its
  object is found missing (`RestoreMissing`).  A snapshot with directories
  cannot be installed again after it was uninstalled, because `clear_dir` never
  removes directories; for the same reason a restore keeps newer directories.
* *Cache.*  A download that fails leaves a short file that is neither evictable
  nor deletable, and reading again does not try the cloud again.  The direct
  path of `download_chunk` and `upload_chunk` returns 0 then, although the
  header promises a negative error.
* *Plain controller.*  The four rules above.  Killed between deleting the
  object and resetting `is_on_cloud`, close has left the only copy in a buffer
  file that the next open overwrites.  An upload that fails costs the only copy,
  because close empties the buffer file all the same.  Linking a file, unlinking its first name
  and creating that name again makes two files share a buffer file.  The keys
  of `/d/e` and `/d_e` are equal, so that two large files overwrite each
  other's object.  `.f` is the buffer file of `f`.
* *Both.*  Every creation leaks a descriptor.
  A read of the deduplicating controller never looks at the truncated flag.
  Whether the window is no larger than the smallest segment, on which
  `ChunksDependOnOwnBytes` rests, is not checked with the other options
  (`main.cc:115`).

## 5. The proofs

**Chunk table.**  `ChunkTable_proofs` proves for any finite set of keys and any
bounds that `IInv` is invariant and that it implies each of the properties of
the run `chunk_table`.  The counts are exact only while no restore, failed
snapshot or stale table interfered, but safety must survive those.  So the
invariant has a weak half that always holds - `Covers`: counts never fall below
what they count, and an unlisted key has none; `ShotsSound`: the same for the
recorded images; `TableSaved`: between mounts the table on the cloud covers too
- and an exact half under a condition on the history (`RefExact`,
`SnapshotCountsExact`, `CountedStored`, `StoredCounted`).  `Covers` is what
makes the others inductive: a release erases an entry only when both counts are
zero, and then nothing needs the chunk.  Counting the snapshots that use a
chunk needs the finiteness of the set of snapshots and how cardinality changes
when one is added or removed.

**Snapshots.**  `Snapshots_proofs` proves, for any timestamps, files, contents
and bounds, the three invariants of the run `snapshots`, that installed snapshots
stay listed (`InstalledStayListed`), and the refinement
`Spec => ImplementsSnapshotStore`.  The properties speak of the list a mount
would produce (`Listed`), so the invariant has to say how the two lists relate
between mounts (`ListsAgree`: the list on the SSD is the uploaded one, or a new
disk emptied it) and that both stay finite and small (`ListsBounded`), which
makes the refusal of a snapshot in the code the refusal in `SnapshotStore`.
With it, the copies of the store are the objects of the listed snapshots
(`TakenAreListed`), and each action is shown to be the action of the store of its
name, or to change nothing (`StepMaps`); `RestoreMissing`, which removes the
user's files and then finds no object, is shown not to happen before a stale list
is left.  What is said of installed snapshots does not end with a restore: they
have their object and show its files or, once a restore cleared their
directory, nothing (`InstalledShowSnapshot`), and only the first snapshot newer
than the restored one leaves the list while it is installed.

**Replacer, the sequence.**  `RecencyList_proofs` proves, for any finite set of
keys and any number of mounts, that within one mount list and map agree and no
key is listed twice, and that in every mount each map entry has its node and
`persist` counts no key it does not write.  All actions remove the first
occurrence of a key, so the lemmas about `RemoveFirst` carry the proof: the
first occurrence is the least of a set of positions, which exists because `<` is
well-founded on the naturals; what remains has one position less, the same keys
but perhaps that one, and no duplicate that was not there before.  In later
mounts keys may be listed twice; there the invariant is only that the map is a
subset of the list, and that there are at most two nodes per key.  The order of
recency is a relation read off the list (`Older`); the lemmas say how it changes
when a key is put in front, taken out, or the last one dropped.

**Replacer, the pointers.**  `LRUReplacer_proofs` proves that `head_`, `tail_`,
`next_`, `prev_` and the map implement that sequence, in every mount.  A path
is a sequence of nodes that the links follow both ways (`Linked`).  `Walk`, which
the model computes recursively, finds the path there is (`WalkFindsPath`): a least
position where it did not would have no cause.  So for each operation it is
enough to exhibit the path after it - `UnlinkPath`, `PushPath`, `PopPath` and
`MovePath` do, with the node at the head, at the tail, in the middle and alone -
and to follow the keys along it.  The invariant (`Shape`) adds that the node the
map has for a key is the first of that key on the path, without which `access`
would move the wrong one, and that no more nodes are unknown to the map than
there are keys (`Unmapped`), which is why two addresses per key are always
enough and `new` finds one.  `OneNodePerEntry` and `EntriesAreListed` are carried
over from the sequence by this refinement, and with the order of recency it gives
`ImplementsLRUOrder`.  An eviction that frees a node still linked (finding 2)
ends what is claimed of the pointers.

**Cache.**  `ChunkCache_proofs` proves, for any objects, sizes, cache size and
faults, that a clean object is on the cloud (`CleanOnCloud`), that a dirty one
is not (`DirtyNotOnCloud`), and that the cache implements `ObjectStore`, where
only a delete, a failed transfer of the object itself, or a crash makes it
disappear.  The invariant adds to them what a call that makes room found
when it began (`Pending`, because evictions come between), that the objects the
next mount will find are on the cloud (`LabelledOnCloud`), that dirty objects
were stored in this mount and are known to the replacer (`DirtyIsNew`), which
is why deleting one never throws half way, and the part of the replacer's
invariant that this needs (`Listed`).

A second invariant, `SpaceInv`, is about the space.  `cache_used_` is compared
with a fold over the set of cached objects, whose order is not known; it is
shown to be the number of units of all objects together (`SumIs`), where a unit
is a pair of an object and a number up to its size, so that adding or removing
an object is adding or removing a set (`UnitsSplit`).  What fits after an
unmount has to be known until the next mount adds it up (the last part of
`Accounted`), and what was labelled then is what a mount finds (`FilesKept`).
With the replacer's invariant it gives the type invariant and, for the first
mount, that the replacer tracks the cached objects (`Tracks`).

**Plain files.**  `PlainFiles_proofs` proves, for any names, key function,
inodes, descriptors, threshold and sizes, every invariant of the run
`plain_files`, and that the controller implements
`FileStore`, each handler by its own action (`NamesMapped`, `PathMapped`,
`DescriptorMapped`).  The
invariant `IInv` says, until two files share something: no two linked inodes
have one buffer path (`OwnPaths`), every object has its owner (`ObjectsOwned`),
and for each file six facts that relate buffer file, recorded size and object
(`FileOK`): for instance that the buffer file of an open file on the cloud
equals the object unless a descriptor is dirty or it was truncated, and that a
closed file on the cloud has an empty buffer file and the recorded size is the
object's.  Each handler changes one file; `OtherFilesOK` and `UntouchedFile`
dispose of all others because neither their buffer file nor their object can be
the same, and the lemma of the handler shows `FileOK` of its own.  For the
refinement a store's step is established file by file: `OthersSame` for the
files not concerned, then one case for each way in which content and durable
content of the concerned file change (`StoreSteps`).  For a write and a
truncation the new content is given byte by byte (`UpdateSteps`).

**Deduplicated file.**  `DedupFile_proofs` proves every invariant of the run
`dedup_file`, for any contents, boundaries of the fingerprint, segment sizes,
threshold and descriptors.  The invariant is `IInv`: the state is typed, and
until `past` records an outdated list or a misplaced chunk it is `Sound`:

* every list is well placed (`ListsAreWellPlaced`): each chunk starts where the
  one before it ends, and none holds a boundary before its end - also the lists
  that descriptors hold and that may be outdated, because a handler reads them
  before the model can tell;
* the file's list makes up the content (`ListIsContent`), and the table counts
  each key as often as the list has it (`ListIsCounted`), while exactly the
  counted keys are stored (`Proper`).

Loading, overwriting and rechunking part of a file is where it could go wrong.
The proof cuts list and content at the same places, content = `A \o L \o R` with
`L` the chunks loaded, and shows that these cover the range a handler is asked
for (`ReadRange`, `WriteRange`), including ranges that begin or end on a
boundary of a chunk or lie past the end, so that reading or writing `L` is
reading or writing the file (`SliceWithin`, `OverwriteWithin`); that the splitter
returns chunks that make up what it was fed (`SplitFacts`); and that putting them
in place of the loaded ones keeps a list well placed (`SplicedFacts`).  `Exchange`
is the balance of the counts: what is used before what is replaced is released
never throws, and leaves each key with as many references as the new list has.
A truncation inside a chunk keeps a beginning of it, which holds no boundary and
so is not cut again (`SplitUnended`); this is why chunks must be known to hold
none.  `Idle` stops the model with the first outdated list, so about what
happens after it the theorems claim the types only.

**Chunk splitter.**  `ChunkSplitter_proofs` proves every invariant of the run
`splitter`, for any polynomial, width of a byte, window, segment sizes, and any
division of the input into buffers.  It has two halves.

The first is algebra over GF(2).  `Same(p, q)` says that p and q differ by a
multiple of `Poly`; it is an equivalence that sums and shifts respect
(`SameFacts`, from `ProdXor` and `ProdUp`: the parity of the size of a symmetric
difference), and two polynomials below the degree are the same only if they are
equal (`SmallSame`, because a product is at least as long as its factor).  A pair
of registers has a `Value` wider than either, so what one register loses the
other has (`Overflow`).  With that each function of `rabinpoly.cc` is shown to keep
`Same` and to end below the degree: a step of either loop of `polymod` clears the
bit it is at and none above (`ClearHighOne`, `ClearLowOne`, `PolymodIs`),
`polymult` adds a shifted factor for each bit (`PolymultIs`), `append8` and `T`
multiply by a byte's width although the register loses its upper byte
(`Append8Is`, `TableT`), and `U` holds what a byte adds when it is as old as the
window (`SizeShiftIs`, `TableU`).  The invariant of the window is `Rolled`: the
slot that is t places behind `bufpos` holds the byte fed t bytes ago, or zero
before the first, and the fingerprint is the same as those bytes read as one
polynomial.  `SlideIs` is the step: the oldest byte cancels, the others move up.
`ResidueIs` turns it into `FingerprintIsResidue`, whose multiples are bounded.

The second half is about segments.  `Fed` says what the splitter made of the bytes
since the last `init`: chunks and digest make them up, offsets and lengths add
up, the segment is as long as the digest and shorter than the largest, no
beginning of the digest asks for a cut, and no chunk does before its end.  A byte
keeps it (`ConsumeKeeps`).  The code decides by a fingerprint that comes from all
the bytes fed, the property by one of the chunk's bytes; they agree because a
segment is not cut before it is as long as the window, and a fingerprint does
not depend on what is before the window (`FingerprintOfEnd`, `CutIs`).  This is
where `WindowAssumption` is needed, which the code does not check.  A buffer keeps
`Fed` byte by byte (`BufferKeeps`), and after `get_chunk_last` it is still true
of the chunks before the last one (`IInv`).

The folds and `FlattenSeq` of the community modules are recursive functions.
What a fold returns is the end of a trace with one step per element
(`UseAllTrace`, `ReleaseAllTrace`, `SplitTrace`, `FlattenTrace`, `BufferTrace`), and what holds
of a trace's beginning and of each step holds of its end, because a least index
at which it fails would have a predecessor at which it does not.  This replaces
the induction theorems, which the provers cannot instantiate.

Assumptions, evaluated by TLC in the runs: keys of the chunk table, of the cache
and of the replacer are finite, and there is at least one mount; timestamps are
positive numbers; a missing object is neither a tree of files nor a content;
sizes of objects are positive; every name has a key; segments are not empty and
their smallest size is not above their largest; a polynomial is a finite set of
exponents that is at least a byte long, and the window is not empty and not
longer than the smallest segment; bounds, thresholds and sizes are
natural numbers, and the bound on the size of a deduplicated file is not below
the threshold.

Only model-checked: `RequestsComplete`, which is liveness and beyond the prover.
Every other property of a passing run is stated by a theorem.

## 6. Not modelled, and the plan

Left out for good: the FUSE glue and option parsing, helpers and log, the
archive library, listing and creating buckets, the test server and scripts (no
state, or pure I/O), the older copy of the controller under `src/src/src`
(nothing builds it), and directories, symbolic links, modes, times and
attributes, which each call passes through to the SSD.  Names that begin with a
dot are assumed not to be used, because they belong to the file system.
`mknod` makes a file without a buffer file, which cannot be opened or even
stat'ed as the modelled files can; it is left out with the calls that are passed
through.  The SSD is reliable and ordered: what a handler has written survives
a kill of the process; a power failure, which may lose what is in the kernel's
page cache, is not modelled.  Crashes inside handlers other than close and the
eviction loop are not modelled either, in particular inside unmount and inside
the snapshot ioctls: what they leave half done is neither recorded nor repaired
by the code.

`Deduplicating file controller` stays partly modelled: it is one file, and the
plain controller's links are modelled in `PlainFiles` only.  `Snapshots` leaves
out directories and the crash between mounts.

What would come next:

1. `SharedChunks`: several `DedupFile`s over one table, one splitter and the
   snapshots, composing `DedupFile`, `ChunkTable` and `Snapshots`.
2. Directories in `Snapshots`, to show when a snapshot can be installed again.
3. Failing deletions under `PlainFiles` (they leave an object without a file).
