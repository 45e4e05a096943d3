------------------------------ MODULE DedupFile ------------------------------
(***************************************************************************)
(* One regular file under CloudfsControllerDedup (cloudfs_controller.cc),  *)
(* opened by several descriptors.  A file no larger than the threshold is  *)
(* its buffer file; a larger one is the list of its chunks, whose objects  *)
(* are in the chunk store, and the buffer file is scratch space.  A unit   *)
(* of content stands for a run of bytes, the key of a chunk is its content *)
(* (keys are digests).  FUSE runs single threaded, so a handler is a step. *)
(***************************************************************************)
EXTENDS Naturals, FiniteSets, SequencesExt, FiniteSetsExt, FileBytes

CONSTANTS
    Fds,        \* descriptors the file may be open under
    Units,      \* contents, that of a hole among them
    Cuts,       \* the units after which the fingerprint asks for a boundary
    MinSeg,     \* min_segment_size
    MaxSeg,     \* max_segment_size
    Threshold,  \* state_->threshold
    MaxSize,    \* bound: file size
    MaxWrite    \* bound: units per write

ASSUME UnitsAssumption == Hole \in Units /\ Cuts \subseteq Units
ASSUME SegmentAssumption == MinSeg \in Nat \ {0} /\ MaxSeg \in Nat /\ MinSeg <= MaxSeg
ASSUME SizesAssumption ==
    /\ Threshold \in Nat /\ MaxSize \in Nat /\ Threshold <= MaxSize
    /\ MaxWrite \in Nat \ {0}

SeqsUpTo(n) == UNION {[1..m -> Units] : m \in 0..n}
ChunkKeys == SeqsUpTo(MaxSeg) \ {<<>>}
Table == INSTANCE ChunkTableOps WITH Keys <- ChunkKeys

VARIABLES
    exists,         \* the main file and its buffer file exist
    size,           \* xattr user.cloudfs.size of the buffer file
    chunkinfo,      \* the chunk list in the main file
    truncated,      \* xattr user.cloudfs.truncated of the main file
    buffer,         \* the buffer file
    open_files_,    \* per descriptor, whether it is open and its chunks_
    store,          \* [table: the chunk table, objects: the stored keys]
    chunk_splitter_,\* [start, digest]: where the splitter was left
    fault,          \* "none", or why the process ended or a call failed
    content,        \* history: the content the calls so far add up to
    misread,        \* history: a read returned something else
    behind,         \* history: open since before the last truncation
    past            \* history: which of Events happened

vars == <<exists, size, chunkinfo, truncated, buffer, open_files_, store,
          chunk_splitter_, fault, content, misread, behind, past>>
fileVars == <<exists, size, chunkinfo, truncated, content>>
storeVars == <<store, chunk_splitter_>>
pastVars == <<misread, behind, past>>

Events == {"stale", "cut", "unreloaded"}
Closed == [open |-> FALSE, chunks |-> <<>>]
Chunk == [start : 0..MaxSize, key : ChunkKeys]

TypeOK ==
    /\ exists \in BOOLEAN /\ truncated \in BOOLEAN /\ misread \in BOOLEAN
    /\ size \in 0..MaxSize
    /\ chunkinfo \in Seq(Chunk)
    /\ buffer \in Seq(Units) /\ content \in Seq(Units)
    /\ \A fd \in Fds : /\ open_files_[fd].open \in BOOLEAN
                       /\ open_files_[fd].chunks \in Seq(Chunk)
    /\ store.table \in [ChunkKeys -> Table!Entry]
    /\ store.objects \subseteq ChunkKeys
    /\ chunk_splitter_.start \in 0..MaxSize
    /\ chunk_splitter_.digest \in {"none", "fresh", "final"}
    /\ fault \in {"none", "throw", "undefined", "missing"}
    /\ behind \subseteq Fds /\ past \subseteq Events

Init ==
    /\ exists = FALSE
    /\ size = 0 /\ chunkinfo = <<>> /\ truncated = FALSE /\ buffer = <<>>
    /\ open_files_ = [fd \in Fds |-> Closed]
    /\ store = [table |-> Table!EmptyTable, objects |-> {}]
    /\ chunk_splitter_ = [start |-> 0, digest |-> "none"]
    /\ fault = "none"
    /\ content = <<>> /\ misread = FALSE /\ behind = {} /\ past = {}

-----------------------------------------------------------------------------
(* The splitter and the chunk store.                                       *)

KeysOf(chunks) == [i \in DOMAIN chunks |-> chunks[i].key]
Bytes(chunks) == FlattenSeq(KeysOf(chunks))
End(chunks) == Last(chunks).start + Len(Last(chunks).key)
OffsetOf(chunks, i) == Len(Bytes(SubSeq(chunks, 1, i - 1)))

\* rabin_segment_next: a boundary once the segment is long enough.
IsBoundary(seg, unit) == Len(seg) >= MinSeg /\ (unit \in Cuts \/ Len(seg) = MaxSeg)
Consume(split, unit) ==
    LET seg == Append(split.rest, unit) IN
    IF IsBoundary(seg, unit) THEN [segs |-> Append(split.segs, seg), rest |-> <<>>]
                             ELSE [split EXCEPT !.rest = seg]
Split(bytes) == FoldLeft(Consume, [segs |-> <<>>, rest |-> <<>>], bytes)

Mut_DropLastChunk(bytes) == Split(bytes).segs
Segments(bytes) == IF Split(bytes).rest = <<>> THEN Split(bytes).segs
                   ELSE Append(Split(bytes).segs, Split(bytes).rest)

Placed(start, segs) ==
    [i \in DOMAIN segs |->
        [start |-> start + Len(FlattenSeq(SubSeq(segs, 1, i - 1))), key |-> segs[i]]]

\* get_chunk_last leaves the digest finalised when it returns a chunk.
SplitterAfter(start, bytes) ==
    LET rest == Split(bytes).rest IN
    [start |-> start + Len(bytes) - Len(rest),
     digest |-> IF rest = <<>> THEN "fresh" ELSE "final"]

UseOf(s, key) ==
    [table |-> Table!Use(s.table, key),
     objects |-> IF Table!UseIsNew(s.table, key) THEN s.objects \union {key}
                                                 ELSE s.objects]

Mut_ReleaseDeletesEarly(s, key) ==
    [table |-> Table!Release(s.table, key),
     objects |-> IF s.table[key].ref <= 2 THEN s.objects \ {key} ELSE s.objects]
ReleaseOf(s, key) ==
    [table |-> Table!Release(s.table, key),
     objects |-> IF Table!ReleaseIsLast(s.table, key) THEN s.objects \ {key}
                                                      ELSE s.objects]

UseAll(s, segs) == FoldLeft(UseOf, s, segs)
Mut_ReleaseFirst(s, chunks) ==
    FoldLeft(ReleaseOf, s, SubSeq(KeysOf(chunks), 1, Min({1, Len(chunks)})))
ReleaseAll(s, chunks) == FoldLeft(ReleaseOf, s, KeysOf(chunks))

Occurrences(chunks, key) == Cardinality({i \in DOMAIN chunks : chunks[i].key = key})

\* Releasing these chunks one by one meets a key that the table lacks.
Throws(s, chunks) ==
    \E key \in ChunkKeys : Occurrences(chunks, key) > s.table[key].ref

\* What happens after a throw is not followed.
Release(s, chunks) ==
    IF Throws(s, chunks) THEN fault' = "throw" /\ store' = s
                         ELSE fault' = fault /\ store' = ReleaseAll(s, chunks)

Missing(chunks) == \E i \in DOMAIN chunks : chunks[i].key \notin store.objects

\* get_chunk_idx: the chunk an offset lies in, or 0 (the code's -1).
Mut_EndInclusive(chunks, offset) ==
    SelectInSeq([i \in DOMAIN chunks |-> OffsetOf(chunks, i + 1)],
                LAMBDA end : offset <= end)
ChunkAt(chunks, offset) ==
    SelectInSeq([i \in DOMAIN chunks |-> OffsetOf(chunks, i + 1)],
                LAMBDA end : offset < end)
ChunkAtOrLast(chunks, offset) ==
    IF ChunkAt(chunks, offset) = 0 THEN Len(chunks) ELSE ChunkAt(chunks, offset)

\* pread.
Slice(bytes, offset, n) == SubSeq(bytes, offset + 1, Min({offset + n, Len(bytes)}))

-----------------------------------------------------------------------------
(* Opening, closing, creating, unlinking.                                  *)

\* What the model follows ends with the first call that uses an outdated list
\* or leaves chunks misplaced: the properties say what holds until then.
Idle == fault = "none" /\ past = {}
IsLarge == size > Threshold
IsOpen(fd) == open_files_[fd].open
Chunks(fd) == open_files_[fd].chunks

Create ==
    /\ Idle /\ ~exists
    /\ exists' = TRUE
    /\ size' = 0 /\ chunkinfo' = <<>> /\ truncated' = FALSE
    /\ buffer' = <<>> /\ content' = <<>>
    /\ UNCHANGED <<open_files_, storeVars, fault, pastVars>>

Open(fd) ==
    /\ Idle /\ exists /\ ~IsOpen(fd)
    /\ open_files_' = [open_files_ EXCEPT ![fd] = [open |-> TRUE, chunks |-> chunkinfo]]
    /\ UNCHANGED <<fileVars, buffer, storeVars, fault, pastVars>>

Close(fd) ==
    /\ Idle /\ IsOpen(fd)
    /\ open_files_' = [open_files_ EXCEPT ![fd] = Closed]
    /\ behind' = behind \ {fd}
    /\ UNCHANGED <<fileVars, buffer, storeVars, fault, misread, past>>

\* FUSE hides a file that is unlinked while open by renaming it, which this
\* file system does not support: the handler runs for closed files only.
Unlink ==
    /\ Idle /\ exists /\ \A fd \in Fds : ~IsOpen(fd)
    /\ exists' = FALSE
    /\ Release(store, chunkinfo)
    /\ size' = 0 /\ chunkinfo' = <<>> /\ truncated' = FALSE
    /\ buffer' = <<>> /\ content' = <<>>
    /\ UNCHANGED <<open_files_, chunk_splitter_, pastVars>>

-----------------------------------------------------------------------------
(* Reading.                                                                *)

Answered(offset, n, bytes) == misread' = (misread \/ bytes # Slice(content, offset, n))

ReadLocal(fd, offset, n) ==
    /\ Idle /\ IsOpen(fd) /\ ~IsLarge
    /\ Answered(offset, n, Slice(buffer, offset, n))
    /\ UNCHANGED <<fileVars, buffer, open_files_, storeVars, fault, behind, past>>

\* The chunks prepare_read_data loads: those the range lies in, by the list
\* the descriptor was opened with, even after a truncation.
ReadFirst(fd, offset) == ChunkAt(Chunks(fd), offset)
ReadChunks(fd, offset, n) ==
    SubSeq(Chunks(fd), ReadFirst(fd, offset), ChunkAtOrLast(Chunks(fd), offset + n - 1))

NoteRead(fd) == past' = IF Chunks(fd) = chunkinfo THEN past ELSE past \union {"stale"}

ReadLarge(fd, offset, n) ==
    LET loaded == ReadChunks(fd, offset, n) IN
    /\ Idle /\ IsOpen(fd) /\ IsLarge /\ Chunks(fd) # <<>>
    /\ offset < End(Chunks(fd)) /\ ~Missing(loaded)
    /\ buffer' = Bytes(loaded)
    /\ Answered(offset, n, Slice(Bytes(loaded), offset - loaded[1].start, n))
    /\ NoteRead(fd)
    /\ UNCHANGED <<fileVars, open_files_, storeVars, fault, behind>>

ReadPastEnd(fd, offset, n) ==
    /\ Idle /\ IsOpen(fd) /\ IsLarge /\ Chunks(fd) # <<>>
    /\ offset >= End(Chunks(fd))
    /\ buffer' = <<>>
    /\ Answered(offset, n, <<>>)
    /\ NoteRead(fd)
    /\ UNCHANGED <<fileVars, open_files_, storeVars, fault, behind>>

\* chunks_.back() of an empty list, or the object of a chunk is gone.
ReadFails(fd, offset, n) ==
    /\ Idle /\ IsOpen(fd) /\ IsLarge
    /\ \/ Chunks(fd) = <<>> /\ fault' = "undefined"
       \/ /\ Chunks(fd) # <<>> /\ offset < End(Chunks(fd))
          /\ Missing(ReadChunks(fd, offset, n))
          /\ fault' = "missing"
    /\ buffer' = <<>>
    /\ NoteRead(fd)
    /\ UNCHANGED <<fileVars, open_files_, storeVars, misread, behind>>

-----------------------------------------------------------------------------
(* Writing.                                                                *)

\* The list a write uses: reloaded when the file was truncated.
ListFor(fd) == IF truncated THEN chunkinfo ELSE Chunks(fd)

Mut_SizeMayShrink(loaded, base, offset, n) == size + offset + n - base - Len(loaded)
SizeAfter(loaded, base, offset, n) == size + Max({0, offset + n - base - Len(loaded)})

\* What the history keeps of a write that used the list.
NoteWrite(fd) ==
    /\ past' = past \union (IF ListFor(fd) # chunkinfo THEN {"stale"} ELSE {})
                    \union (IF ListFor(fd) # chunkinfo /\ fd \in behind THEN {"unreloaded"} ELSE {})
    /\ behind' = IF truncated THEN behind \ {fd} ELSE behind

\* The file stays in its buffer file.
WriteLocal(fd, offset, data) ==
    LET newSize == SizeAfter(buffer, 0, offset, Len(data)) IN
    /\ Idle /\ IsOpen(fd) /\ ~IsLarge /\ newSize <= Threshold
    /\ buffer' = Overwrite(buffer, offset, data)
    /\ content' = Overwrite(content, offset, data)
    /\ size' = newSize
    /\ open_files_' = [open_files_ EXCEPT ![fd].chunks = ListFor(fd)]
    /\ truncated' = FALSE
    /\ behind' = IF truncated THEN behind \ {fd} ELSE behind
    /\ UNCHANGED <<exists, chunkinfo, storeVars, fault, misread, past>>

\* Chunks first..last of the list are replaced by those of bytes.
Rechunk(fd, list, first, last, base, bytes) ==
    LET segs == Segments(bytes)
        used == UseAll(store, segs)
        replaced == SubSeq(list, first, last)
        newList == SubSeq(list, 1, first - 1) \o Placed(base, segs)
                       \o SubSeq(list, last + 1, Len(list)) IN
    /\ chunk_splitter_' = SplitterAfter(base, bytes)
    /\ Release(used, replaced)
    /\ open_files_' = [open_files_ EXCEPT ![fd].chunks = IF Throws(used, replaced) THEN list ELSE newList]
    /\ chunkinfo' = IF Throws(used, replaced) THEN chunkinfo ELSE newList

\* The file outgrows the threshold: all of it is chunked.
WriteGrow(fd, offset, data) ==
    LET bytes == Overwrite(buffer, offset, data)
        newSize == SizeAfter(buffer, 0, offset, Len(data)) IN
    /\ Idle /\ IsOpen(fd) /\ ~IsLarge /\ newSize > Threshold /\ newSize <= MaxSize
    /\ buffer' = bytes
    /\ content' = Overwrite(content, offset, data)
    /\ size' = newSize
    /\ truncated' = FALSE
    /\ Rechunk(fd, ListFor(fd), 1, Len(ListFor(fd)), 0, bytes)
    /\ NoteWrite(fd)
    /\ UNCHANGED <<exists, misread>>

\* The chunks prepare_write_data loads: one more before the range, or only
\* the last when the range starts at or after the end.
WriteFirst(list, offset) ==
    IF offset >= End(list) THEN Len(list) ELSE Max({1, ChunkAt(list, offset) - 1})
WriteLast(list, offset, n) ==
    IF offset >= End(list) THEN Len(list) ELSE ChunkAtOrLast(list, offset + n - 1)

WriteLarge(fd, offset, data) ==
    LET list == ListFor(fd)
        first == WriteFirst(list, offset)
        last == WriteLast(list, offset, Len(data))
        loaded == SubSeq(list, first, last)
        base == list[first].start
        bytes == Overwrite(Bytes(loaded), offset - base, data)
        newSize == SizeAfter(Bytes(loaded), base, offset, Len(data)) IN
    /\ Idle /\ IsOpen(fd) /\ IsLarge /\ list # <<>>
    /\ ~Missing(loaded) /\ newSize <= MaxSize /\ offset + Len(data) <= MaxSize
    /\ buffer' = bytes
    /\ content' = Overwrite(content, offset, data)
    /\ size' = newSize
    /\ truncated' = FALSE
    /\ Rechunk(fd, list, first, last, base, bytes)
    /\ NoteWrite(fd)
    /\ UNCHANGED <<exists, misread>>

WriteFails(fd, offset, data) ==
    LET list == ListFor(fd) IN
    /\ Idle /\ IsOpen(fd) /\ IsLarge
    /\ \/ list = <<>> /\ fault' = "undefined"
       \/ /\ list # <<>>
          /\ Missing(SubSeq(list, WriteFirst(list, offset), WriteLast(list, offset, Len(data))))
          /\ fault' = "missing"
    /\ buffer' = <<>>
    /\ open_files_' = [open_files_ EXCEPT ![fd].chunks = list]
    /\ truncated' = FALSE
    /\ NoteWrite(fd)
    /\ UNCHANGED <<exists, size, chunkinfo, content, storeVars, misread>>

-----------------------------------------------------------------------------
(* Truncating, by path.                                                    *)

TruncateUp(n) ==
    /\ Idle /\ exists /\ n >= size
    /\ UNCHANGED vars

OpenFds == {fd \in Fds : IsOpen(fd)}

TruncateLocal(n) ==
    /\ Idle /\ exists /\ n < size /\ ~IsLarge
    /\ buffer' = Resized(buffer, n)
    /\ content' = Slice(content, 0, n)
    /\ size' = n
    /\ UNCHANGED <<exists, chunkinfo, truncated, open_files_, storeVars, fault, pastVars>>

TruncateFault(loaded, released) ==
    IF Missing(loaded) THEN "missing"
    ELSE IF Throws(store, released) THEN "throw"
    ELSE fault

\* The file fits its buffer file again: what is left is loaded, every chunk
\* released.
TruncateToLocal(n) ==
    LET loaded == SubSeq(chunkinfo, 1, ChunkAt(chunkinfo, n)) IN
    /\ Idle /\ exists /\ n < size /\ IsLarge /\ n <= Threshold
    /\ fault' = TruncateFault(loaded, chunkinfo)
    /\ buffer' = Resized(Bytes(loaded), n)
    /\ content' = Slice(content, 0, n)
    /\ size' = n
    /\ store' = ReleaseAll(store, chunkinfo)
    /\ chunkinfo' = <<>>
    /\ truncated' = TRUE
    /\ behind' = OpenFds
    /\ UNCHANGED <<exists, open_files_, chunk_splitter_, misread, past>>

\* The chunk rechunked by a truncation to n: the one n lies in, or the next
\* one when n is at the end of a chunk.
CutIdx(n) ==
    LET idx == ChunkAt(chunkinfo, n) IN
    IF chunkinfo[idx].start + Len(chunkinfo[idx].key) = n THEN idx + 1 ELSE idx

\* The splitter is not initialised first: the chunks get their offsets from
\* where the previous write left it, and are not found in the buffer file
\* when that is elsewhere.
TruncateChunks(n) ==
    LET idx == CutIdx(n)
        cut == SubSeq(chunkinfo, idx, Len(chunkinfo))
        base == chunkinfo[idx].start
        bytes == Slice(chunkinfo[idx].key, 0, n - base)
        inPlace == bytes = <<>> \/ chunk_splitter_.start = base
        segs == Segments(bytes)
        released == ReleaseAll(store, cut)
        used == UseAll(released, segs) IN
    /\ Idle /\ exists /\ n < size /\ n > Threshold /\ chunk_splitter_.digest = "fresh"
    /\ fault' = TruncateFault(<<chunkinfo[idx]>>, cut)
    /\ buffer' = bytes
    /\ content' = Slice(content, 0, n)
    /\ size' = n
    /\ store' = [used EXCEPT !.objects = IF inPlace THEN @ ELSE released.objects]
    /\ chunkinfo' = SubSeq(chunkinfo, 1, idx - 1) \o Placed(chunk_splitter_.start, segs)
    /\ chunk_splitter_' = SplitterAfter(chunk_splitter_.start, bytes)
    /\ truncated' = TRUE
    /\ behind' = OpenFds
    /\ past' = IF inPlace THEN past ELSE past \union {"cut"}
    /\ UNCHANGED <<exists, open_files_, misread>>

\* A finalised digest, or a splitter that was never initialised: the key of
\* the last chunk is uninitialised memory.
TruncateUndefined(n) ==
    /\ Idle /\ exists /\ n < size /\ n > Threshold /\ chunk_splitter_.digest # "fresh"
    /\ fault' = "undefined"
    /\ past' = past \union {"cut"}
    /\ UNCHANGED <<fileVars, buffer, open_files_, storeVars, misread, behind>>

-----------------------------------------------------------------------------
Offsets == 0..(MaxSize - 1)
Data == SeqsUpTo(MaxWrite) \ {<<>>}

Next ==
    \/ Create
    \/ Unlink
    \/ \E fd \in Fds : Open(fd) \/ Close(fd)
    \/ \E fd \in Fds, offset \in Offsets, n \in 1..MaxSize :
          \/ ReadLocal(fd, offset, n) \/ ReadLarge(fd, offset, n)
          \/ ReadPastEnd(fd, offset, n) \/ ReadFails(fd, offset, n)
    \/ \E fd \in Fds, offset \in Offsets, data \in Data :
          \/ WriteLocal(fd, offset, data) \/ WriteGrow(fd, offset, data)
          \/ WriteLarge(fd, offset, data) \/ WriteFails(fd, offset, data)
    \/ \E n \in 0..MaxSize :
          \/ TruncateUp(n) \/ TruncateLocal(n) \/ TruncateToLocal(n)
          \/ TruncateChunks(n) \/ TruncateUndefined(n)

Spec == Init /\ [][Next]_vars

-----------------------------------------------------------------------------
(***************************************************************************)
(* Reads return what was written, through writes that rechunk only part of *)
(* the file, sparse writes, and truncations that make the file local again *)
(* or cut at the end of a chunk, as long as no descriptor uses a chunk     *)
(* list that another one has made out of date.                             *)
(***************************************************************************)
ReadsReturnWrites == past = {} => ~misread

(***************************************************************************)
(* The chunk list is the content: the chunks in order make up the file, at *)
(* their offsets, and a local file has none (write_file, truncate_file).   *)
(***************************************************************************)
ChunksAreContent ==
    past = {} /\ fault = "none" =>
        /\ size = Len(content)
        /\ Bytes(chunkinfo) = IF IsLarge THEN content ELSE <<>>
        /\ ~IsLarge /\ exists => buffer = content

(***************************************************************************)
(* The table counts each chunk as often as the list has it, and exactly    *)
(* the counted chunks are stored: use and release are balanced although    *)
(* new chunks are counted before old ones are released.                    *)
(***************************************************************************)
ChunksAreCounted ==
    past = {} => \A key \in ChunkKeys :
        /\ store.table[key].ref = Occurrences(chunkinfo, key)
        /\ key \in store.objects <=> Occurrences(chunkinfo, key) > 0

(***************************************************************************)
(* No exception, undefined behaviour or missing object is met while no     *)
(* descriptor uses an outdated list and no truncation is mishandled.       *)
(***************************************************************************)
OnlyStaleListsFail == past = {} => fault = "none"

(***************************************************************************)
(* start_ is the "start offset of the chunk in complete file"              *)
(* (chunk_splitter.h:20).                                                  *)
(***************************************************************************)
StartsAreOffsets ==
    "stale" \notin past =>
        \A i \in DOMAIN chunkinfo : chunkinfo[i].start = OffsetOf(chunkinfo, i)

(***************************************************************************)
(* After a truncation "the open file needs to reload chunks list before    *)
(* next write" (cloudfs_controller.h:253): no descriptor that was open     *)
(* then writes with the list it had.                                       *)
(***************************************************************************)
WritersReload == "unreloaded" \notin past
=============================================================================
