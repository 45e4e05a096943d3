---------------------------- MODULE ChunkSplitter ----------------------------
(***************************************************************************)
(* ChunkSplitter (chunk_splitter.cc): a file, or a part of it from some    *)
(* offset, is fed in buffers of any length and comes out as chunks.  The   *)
(* key of a chunk is the bytes its digest was computed over.               *)
(***************************************************************************)
EXTENDS Rabin

CONSTANTS
    Starts,     \* offsets the callers begin at
    MaxFed,     \* bound: bytes fed since init
    MaxBuf      \* bound: bytes of one buffer

ASSUME CallsAssumption == Starts \subseteq Nat /\ MaxFed \in Nat /\ MaxBuf \in Nat

VARIABLES
    rp_,            \* the fingerprint, its window and the segment's size
    chunk_start_, chunk_len_,
    mdctx_,         \* the bytes digested so far
    final,          \* EVP_DigestFinal_ex has been called
    start,          \* history: the argument of the last init
    fed,            \* history: the bytes since then
    chunks          \* history: the chunks returned since then

vars == <<rp_, chunk_start_, chunk_len_, mdctx_, final, start, fed, chunks>>

Buffers == UNION {[1..n -> Bytes] : n \in 1..MaxBuf}
Offsets == Nat
Chunk == [start : Offsets, len : 0..MaxSize, key : Seq(Bytes)]

TypeOK ==
    /\ rp_.fingerprint \subseteq 0..Degree - 1
    /\ rp_.bufpos \in -1..WindowSize - 1
    /\ rp_.buf \in [0..WindowSize - 1 -> Bytes]
    /\ rp_.cur_seg_size \in 0..MaxSize - 1
    /\ chunk_start_ \in Offsets /\ chunk_len_ \in 0..MaxSize - 1
    /\ mdctx_ \in Seq(Bytes) /\ final \in BOOLEAN
    /\ start \in Starts /\ fed \in Seq(Bytes) /\ chunks \in Seq(Chunk)

\* The constructor and the first init.
Init ==
    /\ start \in Starts
    /\ rp_ = Fresh
    /\ chunk_start_ = start /\ chunk_len_ = 0
    /\ mdctx_ = <<>> /\ final = FALSE
    /\ fed = <<>> /\ chunks = <<>>

-----------------------------------------------------------------------------
\* A byte is digested and counted, and the segment it ends becomes a chunk.
Mut_SizeStays(s) == [s EXCEPT !.chunks = Append(@, [start |-> s.start, len |-> s.len, key |-> s.md]),
                              !.start = @ + s.len, !.len = 0, !.md = <<>>]
Mut_StartStays(s) == [s EXCEPT !.chunks = Append(@, [start |-> s.start, len |-> s.len, key |-> s.md]),
                               !.rp.cur_seg_size = 0, !.len = 0, !.md = <<>>]
Cut(s) == [s EXCEPT !.chunks = Append(@, [start |-> s.start, len |-> s.len, key |-> s.md]),
                    !.rp.cur_seg_size = 0,
                    !.start = @ + s.len, !.len = 0, !.md = <<>>]

Consume(s, byte) ==
    LET next == [s EXCEPT !.rp = Counted(s.rp, byte), !.len = @ + 1, !.md = Append(@, byte)]
    IN IF IsSegment(next.rp) THEN Cut(next) ELSE next

State == [rp |-> rp_, start |-> chunk_start_, len |-> chunk_len_, md |-> mdctx_, chunks |-> chunks]
Becomes(s) ==
    /\ rp_' = s.rp
    /\ chunk_start_' = s.start /\ chunk_len_' = s.len
    /\ mdctx_' = s.md
    /\ chunks' = s.chunks

init(from) ==
    /\ Becomes([rp |-> Fresh, start |-> from, len |-> 0, md |-> <<>>, chunks |-> <<>>])
    /\ final' = FALSE
    /\ start' = from /\ fed' = <<>>

\* What comes of a digest that is final already is in DedupFile.
get_chunks_next(buf) ==
    /\ ~final /\ Len(fed) + Len(buf) <= MaxFed
    /\ Becomes(FoldLeft(Consume, State, buf))
    /\ fed' = fed \o buf
    /\ UNCHANGED <<final, start>>

\* Neither the start nor the length is reset.
get_chunk_last ==
    /\ ~final /\ chunk_len_ # 0
    /\ chunks' = Append(chunks, [start |-> chunk_start_, len |-> chunk_len_, key |-> mdctx_])
    /\ final' = TRUE
    /\ UNCHANGED <<rp_, chunk_start_, chunk_len_, mdctx_, start, fed>>

Next ==
    \/ \E from \in Starts : init(from)
    \/ \E buf \in Buffers : get_chunks_next(buf)
    \/ get_chunk_last

Spec == Init /\ [][Next]_vars

-----------------------------------------------------------------------------
(* The fingerprint by its definition: the residue of the window, read as   *)
(* one polynomial, modulo Poly.                                            *)

IsOdd(n) == n % 2 = 1
Times(p, q) ==
    {e \in 0..Max(p) + Max(q) : IsOdd(Cardinality({i \in p : e - i \in q}))}
Multiples ==
    {{}} \union {Times(q, Poly) : q \in (SUBSET (0..ByteBits * WindowSize - 1)) \ {{}}}
Residue(p) == CHOOSE r \in SUBSET (0..Degree - 1) : Xor(p, r) \in Multiples

Window(bytes) == SubSeq(bytes, Max({1, Len(bytes) - WindowSize + 1}), Len(bytes))
PolyOf(bytes) ==
    UNION {{e + ByteBits * (Len(bytes) - j) : e \in bytes[j]} : j \in DOMAIN bytes}
Fingerprint(bytes) == Residue(PolyOf(Window(bytes)))

(***************************************************************************)
(* The rolling fingerprint is the one of the last WindowSize bytes, across *)
(* ends of segments and ends of buffers, whatever the bytes before them    *)
(* were (slide8, append8, calcT; rabinpoly.cc:105-142).                    *)
(***************************************************************************)
FingerprintIsResidue == rp_.fingerprint = Fingerprint(fed)

\* Where a file that begins with these bytes is cut for the first time.
IsCut(bytes) ==
    /\ Len(bytes) >= MinSize
    /\ Fingerprint(bytes) \cap Mask = {} \/ Len(bytes) = MaxSize
Uncut(bytes) == \A n \in 1..Len(bytes) : ~IsCut(SubSeq(bytes, 1, n))

(***************************************************************************)
(* Where a chunk ends depends on its own bytes only, not on what was fed   *)
(* before it nor on how the bytes were split into buffers: equal contents  *)
(* become equal chunks, and rechunking a file from the start of a chunk    *)
(* meets the old chunks again.  All but the last chunk have MinSize to     *)
(* MaxSize bytes (dedup.h:59-61), the last one at most that many.          *)
(***************************************************************************)
ChunksDependOnOwnBytes ==
    /\ \A c \in DOMAIN chunks :
          /\ Uncut(Front(chunks[c].key))
          /\ IsCut(chunks[c].key) \/ (c = Len(chunks) /\ final)
    /\ ~final => Uncut(mdctx_)

(***************************************************************************)
(* The chunks returned so far and the bytes still held are the bytes that  *)
(* were fed, in order and without gap, each chunk with its offset and its  *)
(* length (get_chunks_next, get_chunk_last).                               *)
(***************************************************************************)
ChunksTileTheInput ==
    LET held == IF final THEN <<>> ELSE mdctx_
        Before(c) == FlattenSeq([j \in 1..c - 1 |-> chunks[j].key])
    IN /\ Before(Len(chunks) + 1) \o held = fed
       /\ \A c \in DOMAIN chunks : /\ chunks[c].start = start + Len(Before(c))
                                   /\ chunks[c].len = Len(chunks[c].key)
       /\ ~final => /\ chunk_start_ = start + Len(Before(Len(chunks) + 1))
                            /\ chunk_len_ = Len(held)
=============================================================================
