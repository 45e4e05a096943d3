-------------------------------- MODULE Rabin --------------------------------
(***************************************************************************)
(* The Rabin fingerprint of dedup-lib/rabinpoly.cc.  A polynomial over     *)
(* GF(2) is the set of its exponents, a byte a polynomial of degree less   *)
(* than ByteBits.  A register holds one bit more than a residue: 64 bits   *)
(* and degree 63 in the code, so that shifts lose what leaves a register.  *)
(***************************************************************************)
EXTENDS Integers, FiniteSets, SequencesExt, FiniteSetsExt

CONSTANTS
    Poly,           \* FINGERPRINT_PT
    ByteBits,       \* 8
    WindowSize,     \* window_size
    MinSize,        \* min_segment_size
    AvgSize,        \* avg_segment_size
    MaxSize         \* max_segment_size

Degree == Max(Poly)
Shift == Degree - ByteBits
Word == 0..Degree
Bytes == SUBSET (0..ByteBits - 1)

ASSUME PolyAssumption ==
    /\ Poly \subseteq Nat /\ IsFiniteSet(Poly) /\ Poly # {}
    /\ ByteBits \in Nat \ {0} /\ ByteBits <= Degree
\* What rabin_init checks of the sizes, and a window that is not empty.
ASSUME SizesAssumption ==
    /\ WindowSize \in Nat \ {0}
    /\ MinSize \in Nat \ {0} /\ AvgSize \in Nat /\ MaxSize \in Nat
    /\ MinSize <= AvgSize /\ AvgSize <= MaxSize
\* main.cc does not check this one; 48 and 3072 unless options say otherwise.
ASSUME WindowAssumption == WindowSize <= MinSize

Xor(p, q) == (p \ q) \union (q \ p)
Shl(p, k) == {e + k : e \in p} \cap Word
Shr(p, k) == {e - k : e \in {x \in p : x >= k}}

Down(from, to) == [j \in 1..from - to + 1 |-> from + 1 - j]

\* The code takes the first step of the first loop apart, for want of a shift
\* by 64.
polymod(nh, nl, d) ==
    LET k == Max(d)
        top == Shl(d, Degree - k)
        High(w, i) == IF i \in w.h THEN [h |-> Xor(w.h, Shr(top, Degree - i)),
                                         l |-> Xor(w.l, Shl(top, i + 1))]
                                   ELSE w
        Low(l, i) == IF i \in l THEN Xor(l, Shr(top, Degree - i)) ELSE l
    IN FoldLeft(Low, FoldLeft(High, [h |-> nh, l |-> nl], Down(Degree, 0)).l, Down(Degree, k))

polymult(x, y) ==
    FoldSet(LAMBDA i, w : [h |-> Xor(w.h, Shr(y, Degree + 1 - i)), l |-> Xor(w.l, Shl(y, i))],
            [h |-> {}, l |-> {}], x)

polymmult(x, y, d) == polymod(polymult(x, y).h, polymult(x, y).l, d)

\* calcT: what a byte pushed out of the register, or of the window, adds to
\* the residue.
T == LET T1 == polymod({}, {Degree}, Poly)
     IN [i \in Bytes |-> polymmult(i, T1, Poly) \union Shl(i, Degree)]

append8(p, m) == Xor(Shl(p, ByteBits) \union m, T[Shr(p, Shift)])

Mut_OneTooFar == FoldLeft(LAMBDA p, j : append8(p, {}), {0}, Down(WindowSize, 1))
SizeShift == FoldLeft(LAMBDA p, j : append8(p, {}), {0}, Down(WindowSize - 1, 1))
U == [i \in Bytes |-> polymmult(i, SizeShift, Poly)]

Mask == {b \in Word : 2 ^ (b + 1) <= AvgSize}

-----------------------------------------------------------------------------
\* rabin_init, rabin_reset; bufpos is unsigned and wraps to 0.
Fresh == [fingerprint |-> {}, bufpos |-> -1, cur_seg_size |-> 0,
          buf |-> [j \in 0..WindowSize - 1 |-> {}]]

NextPos(rp) == IF rp.bufpos + 1 >= WindowSize THEN 0 ELSE rp.bufpos + 1

slide8(rp, m) ==
    LET pos == NextPos(rp) IN
    [rp EXCEPT !.bufpos = pos, !.buf[pos] = m,
               !.fingerprint = append8(Xor(rp.fingerprint, U[rp.buf[pos]]), m)]

Mut_NoMinimum(rp) == rp.fingerprint \cap Mask = {} \/ rp.cur_seg_size = MaxSize
IsSegment(rp) ==
    /\ rp.cur_seg_size >= MinSize
    /\ rp.fingerprint \cap Mask = {} \/ rp.cur_seg_size = MaxSize

\* The loop body of rabin_segment_next, up to the end of a segment.
Counted(rp, m) == [slide8(rp, m) EXCEPT !.cur_seg_size = @ + 1]
=============================================================================
