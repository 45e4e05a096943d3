------------------------ MODULE ChunkSplitter_proofs ------------------------
(***************************************************************************)
(* Proofs about ChunkSplitter, for any polynomial, byte, window, segment   *)
(* sizes and calls: the rolling fingerprint is the residue of the window,  *)
(* whatever the register lost, segments are cut by their own bytes, and    *)
(* the chunks tile the input.                                              *)
(***************************************************************************)
EXTENDS ChunkSplitter, FiniteSetTheorems, SequenceTheorems, WellFoundedInduction, TLAPS

-----------------------------------------------------------------------------
(* Sequences.                                                              *)

\* A set of numbers has a least one (by well-foundedness).
LEMMA Smallest ==
    ASSUME NEW I \in SUBSET Nat, I # {}
    PROVE  \E i \in I : \A j \in I : i <= j
<1> DEFINE Less == {p \in Nat \X Nat : p[1] < p[2]}
<1>1. IsWellFoundedOn(Less, Nat)
  BY NatLessThanWellFounded, Zenon DEF OpToRel
<1>2. PICK i \in I : \A j \in I : ~(<<j, i>> \in Less)
  BY <1>1, WFMin
<1>3. \A j \in I : i <= j
  <2> SUFFICES ASSUME NEW j \in I, j < i PROVE FALSE
    OBVIOUS
  <2>1. <<j, i>> \in Less
    OBVIOUS
  <2>2. QED
    BY <1>2, <2>1
<1>4. QED
  BY <1>3

\* What is false somewhere up to n, and not of 0, is false of a first number.
LEMMA FirstFailure ==
    ASSUME NEW n \in Nat, NEW D \in SUBSET (0..n), 0 \notin D, D # {}
    PROVE  \E i \in 1..n : i \in D /\ i - 1 \in 0..n /\ i - 1 \notin D
<1>1. PICK i \in D : \A j \in D : i <= j
  <2>1. D \in SUBSET Nat
    OBVIOUS
  <2>2. QED
    BY <2>1, Smallest
<1>2. i \in 1..n /\ i - 1 \in 0..n /\ ~(i <= i - 1)
  OBVIOUS
<1>3. QED
  BY <1>1, <1>2

\* The beginnings of a sequence, one element longer each.
LEMMA PrefixFacts ==
    ASSUME NEW S, NEW t \in Seq(S)
    PROVE  /\ SubSeq(t, 1, 0) = <<>> /\ SubSeq(t, 1, Len(t)) = t
           /\ \A i \in 0..Len(t) : SubSeq(t, 1, i) \in Seq(S) /\ Len(SubSeq(t, 1, i)) = i
           /\ \A i \in 1..Len(t) : SubSeq(t, 1, i) = Append(SubSeq(t, 1, i-1), t[i])
<1>1. Len(t) \in Nat /\ \A i \in 1..Len(t) : t[i] \in S
  BY ElementOfSeq
<1>2. \A i \in 0..Len(t) : /\ SubSeq(t, 1, i) \in Seq(S) /\ Len(SubSeq(t, 1, i)) = i
                          /\ \A j \in 1..i : SubSeq(t, 1, i)[j] = t[j]
  <2> SUFFICES ASSUME NEW i \in 0..Len(t)
               PROVE  /\ SubSeq(t, 1, i) \in Seq(S) /\ Len(SubSeq(t, 1, i)) = i
                      /\ \A j \in 1..i : SubSeq(t, 1, i)[j] = t[j]
    OBVIOUS
  <2>1. 1 \in Int /\ i \in Int /\ \A j \in 1..i : t[j] \in S
    BY <1>1
  <2>2. /\ SubSeq(t, 1, i) \in Seq(S)
        /\ Len(SubSeq(t, 1, i)) = IF 1 <= i THEN i-1+1 ELSE 0
        /\ \A j \in 1..i-1+1 : SubSeq(t, 1, i)[j] = t[1+j-1]
    BY <2>1, SubSeqProperties
  <2>3. QED
    BY <2>2
<1>3. ASSUME NEW i \in 1..Len(t)
      PROVE  SubSeq(t, 1, i) = Append(SubSeq(t, 1, i-1), t[i])
  <2> DEFINE a == SubSeq(t, 1, i)
             b == SubSeq(t, 1, i-1)
  <2>1. a \in Seq(S) /\ Len(a) = i /\ \A j \in 1..i : a[j] = t[j]
    BY <1>2
  <2>2. i-1 \in 0..Len(t)
    BY <1>1
  <2>3. b \in Seq(S) /\ Len(b) = i-1 /\ \A j \in 1..i-1 : b[j] = t[j]
    BY <2>2, <1>2
  <2> HIDE DEF a, b
  <2>4. /\ Append(b, t[i]) \in Seq(S) /\ Len(Append(b, t[i])) = i
        /\ \A j \in 1..i : Append(b, t[i])[j] = IF j = i THEN t[i] ELSE b[j]
    BY <1>1, <2>3
  <2>5. \A j \in 1..Len(a) : a[j] = Append(b, t[i])[j]
    BY <2>1, <2>3, <2>4, <1>1
  <2>6. a = Append(b, t[i])
    BY <2>1, <2>4, <2>5, SeqEqual
  <2>7. QED
    BY <2>6 DEF a, b
<1>4. SubSeq(t, 1, 0) = <<>>
  BY SubSeqEmpty
<1>5. SubSeq(t, 1, Len(t)) = t
  BY SubSeqFull
<1>6. QED
  BY <1>2, <1>3, <1>4, <1>5

\* Appending and concatenating.
LEMMA AppendFacts ==
    ASSUME NEW S, NEW s \in Seq(S), NEW x \in S
    PROVE  /\ Append(s, x) \in Seq(S) /\ Len(Append(s, x)) = Len(s) + 1
           /\ SubSeq(Append(s, x), 1, Len(s)) = s /\ Append(s, x)[Len(s) + 1] = x
           /\ \A i \in 1..Len(s) : Append(s, x)[i] = s[i]
<1>1. /\ Append(s, x) \in Seq(S) /\ Len(Append(s, x)) = Len(s) + 1 /\ Len(s) \in Nat
      /\ Append(s, x)[Len(s) + 1] = x /\ \A i \in 1..Len(s) : Append(s, x)[i] = s[i]
  OBVIOUS
<1> DEFINE r == Append(s, x)
<1>2. SubSeq(r, 1, Len(s)) = s
  <2>1. \A j \in 1..Len(s) : r[j] \in S
    BY <1>1, ElementOfSeq
  <2>2. 1 \in Int /\ Len(s) \in Int
    BY <1>1
  <2>3. /\ SubSeq(r, 1, Len(s)) \in Seq(S)
        /\ Len(SubSeq(r, 1, Len(s))) = IF 1 <= Len(s) THEN Len(s)-1+1 ELSE 0
        /\ \A j \in 1..Len(s)-1+1 : SubSeq(r, 1, Len(s))[j] = r[1+j-1]
    BY <2>1, <2>2, SubSeqProperties
  <2>4. /\ Len(SubSeq(r, 1, Len(s))) = Len(s)
        /\ \A j \in 1..Len(s) : SubSeq(r, 1, Len(s))[j] = s[j]
    BY <1>1, <2>3
  <2>5. QED
    BY <2>3, <2>4, SeqEqual
<1>3. QED
  BY <1>1, <1>2

\* Appending and concatenating can be exchanged.
LEMMA ConcatAppend ==
    ASSUME NEW S, NEW s \in Seq(S), NEW t \in Seq(S), NEW x \in S
    PROVE  s \o Append(t, x) = Append(s \o t, x)
<1>1. <<x>> \in Seq(S)
  OBVIOUS
<1>2. Append(t, x) = t \o <<x>> /\ Append(s \o t, x) = (s \o t) \o <<x>>
  OBVIOUS
<1>3. QED
  BY <1>1, <1>2, ConcatAssociative

-----------------------------------------------------------------------------
(* The bytes of a sequence of sequences.                                   *)

\* The recursion of FlattenSeq.
Flattens(f, s) ==
    f = [i \in 1..Len(s) |-> IF i = 1 THEN s[i] ELSE f[i-1] \o s[i]]

\* It has a solution.
LEMMA FlattenExists ==
    ASSUME NEW S, NEW s \in Seq(Seq(S))
    PROVE  \E f : Flattens(f, s)
<1> DEFINE Solves(f, n) == f = [i \in 1..n |-> IF i = 1 THEN s[i] ELSE f[i-1] \o s[i]]
           D == {n \in 0..Len(s) : ~ \E f : Solves(f, n)}
<1>1. Len(s) \in Nat
  OBVIOUS
<1>2. ~ D # {}
  <2> SUFFICES ASSUME D # {} PROVE FALSE
    OBVIOUS
  <2>1. 0 \notin D
    <3>1. Solves(<<>>, 0)
      OBVIOUS
    <3>2. QED
      BY <3>1
  <2>2. PICK n \in 1..Len(s) : n \in D /\ n-1 \in 0..Len(s) /\ n-1 \notin D
    <3>1. D \in SUBSET (0..Len(s))
      OBVIOUS
    <3> HIDE DEF D
    <3>2. QED
      BY <1>1, <2>1, <3>1, FirstFailure
  <2>3. PICK f : Solves(f, n-1)
    BY <2>2
  <2> DEFINE g == [i \in 1..n |-> IF i = n THEN (IF n = 1 THEN s[n] ELSE f[n-1] \o s[n]) ELSE f[i]]
  <2>4. Solves(g, n)
    <3> SUFFICES ASSUME NEW i \in 1..n
                 PROVE  g[i] = IF i = 1 THEN s[i] ELSE g[i-1] \o s[i]
      OBVIOUS
    <3>1. CASE i = n
      BY <3>1, <2>2
    <3>2. CASE i # n
      <4>1. i \in 1..n-1 /\ (i # 1 => i-1 \in 1..n-1 /\ i-1 # n)
        BY <3>2, <2>2
      <4>2. f[i] = IF i = 1 THEN s[i] ELSE f[i-1] \o s[i]
        BY <4>1, <2>3
      <4>3. g[i] = f[i] /\ (i # 1 => g[i-1] = f[i-1])
        BY <4>1, <3>2, <2>2
      <4>4. QED
        BY <4>2, <4>3
    <3>3. QED
      BY <3>1, <3>2
  <2>5. QED
    BY <2>2, <2>4
<1>3. Len(s) \in 0..Len(s)
  BY <1>1
<1>4. PICK f : Solves(f, Len(s))
  <2> HIDE DEF Solves
  <2>1. QED
    BY <1>2, <1>3
<1>5. Flattens(f, s)
  BY <1>4 DEF Flattens
<1>6. QED
  BY <1>5

\* The bytes of each beginning of the sequence.
LEMMA FlattenTrace ==
    ASSUME NEW S, NEW s \in Seq(Seq(S))
    PROVE  \E f \in [0..Len(s) -> Seq(S)] :
              /\ f[0] = <<>> /\ \A i \in 1..Len(s) : f[i] = f[i-1] \o s[i]
              /\ FlattenSeq(s) = f[Len(s)]
<1>1. Len(s) \in Nat /\ \A i \in 1..Len(s) : s[i] \in Seq(S)
  BY ElementOfSeq
<1> DEFINE flatten == CHOOSE flatten : flatten = [i \in 1..Len(s) |->
                          IF i = 1 THEN s[i] ELSE flatten[i-1] \o s[i]]
<1>2. Flattens(flatten, s)
  <2>1. \E f : Flattens(f, s)
    BY FlattenExists
  <2>2. Flattens(CHOOSE f : Flattens(f, s), s)
    BY <2>1, Zenon
  <2>3. QED
    BY <2>2 DEF Flattens
<1>3. FlattenSeq(s) = IF Len(s) = 0 THEN s ELSE flatten[Len(s)]
  BY Zenon DEF FlattenSeq
<1> HIDE DEF flatten
<1>4. \A i \in 1..Len(s) : flatten[i] = IF i = 1 THEN s[i] ELSE flatten[i-1] \o s[i]
  BY <1>2 DEF Flattens
<1> DEFINE f == [i \in 0..Len(s) |-> IF i = 0 THEN <<>> ELSE flatten[i]]
           D == {i \in 0..Len(s) : f[i] \notin Seq(S)}
<1>5. ~ D # {}
  <2> SUFFICES ASSUME D # {} PROVE FALSE
    OBVIOUS
  <2>1. 0 \notin D /\ D \in SUBSET (0..Len(s))
    BY <1>1
  <2>2. PICK i \in 1..Len(s) : i \in D /\ i-1 \in 0..Len(s) /\ i-1 \notin D
    <3> HIDE DEF D
    <3>1. QED
      BY <1>1, <2>1, FirstFailure
  <2>3. CASE i = 1
    BY <2>2, <2>3, <1>1, <1>4
  <2>4. CASE i # 1
    <3>0. i-1 # 0 /\ f[i-1] \in Seq(S)
      BY <2>2, <2>4
    <3>1. flatten[i-1] \in Seq(S) /\ flatten[i] = flatten[i-1] \o s[i]
      BY <3>0, <2>2, <2>4, <1>4
    <3>2. flatten[i] \in Seq(S)
      BY <3>1, <1>1
    <3>3. QED
      BY <2>2, <3>2
  <2>5. QED
    BY <2>3, <2>4
<1>6. f \in [0..Len(s) -> Seq(S)]
  BY <1>5
<1>7. \A i \in 1..Len(s) : f[i] = f[i-1] \o s[i]
  <2> SUFFICES ASSUME NEW i \in 1..Len(s) PROVE f[i] = f[i-1] \o s[i]
    OBVIOUS
  <2>1. i-1 \in 0..Len(s)
    BY <1>1
  <2>2. CASE i = 1
    BY <2>2, <1>1, <1>4
  <2>3. CASE i # 1
    <3>1. i-1 # 0 /\ i # 0 /\ i \in 0..Len(s)
      BY <2>1, <2>3
    <3>2. f[i] = flatten[i] /\ f[i-1] = flatten[i-1]
      BY <2>1, <3>1
    <3>3. QED
      BY <2>3, <3>2, <1>4
  <2>4. QED
    BY <2>2, <2>3
<1>8. f[0] = <<>> /\ FlattenSeq(s) = f[Len(s)]
  <2>1. CASE Len(s) = 0
    BY <2>1, <1>1, <1>3
  <2>2. CASE Len(s) # 0
    BY <2>2, <1>1, <1>3
  <2>3. QED
    BY <2>1, <2>2
<1> HIDE DEF f
<1>9. QED
  BY <1>6, <1>7, <1>8

\* One more sequence adds its elements at the end.
LEMMA FlattenAppend ==
    ASSUME NEW S, NEW s \in Seq(Seq(S)), NEW x \in Seq(S)
    PROVE  FlattenSeq(Append(s, x)) = FlattenSeq(s) \o x
<1> DEFINE r == Append(s, x)
<1>1. /\ r \in Seq(Seq(S)) /\ Len(r) = Len(s) + 1 /\ Len(s) \in Nat
      /\ r[Len(s) + 1] = x /\ \A i \in 1..Len(s) : r[i] = s[i]
  OBVIOUS
<1> HIDE DEF r
<1>2. PICK f \in [0..Len(s) -> Seq(S)] :
              /\ f[0] = <<>> /\ \A i \in 1..Len(s) : f[i] = f[i-1] \o s[i]
              /\ FlattenSeq(s) = f[Len(s)]
  BY FlattenTrace
<1>3. PICK g \in [0..Len(r) -> Seq(S)] :
              /\ g[0] = <<>> /\ \A i \in 1..Len(r) : g[i] = g[i-1] \o r[i]
              /\ FlattenSeq(r) = g[Len(r)]
  BY <1>1, FlattenTrace
<1> DEFINE D == {i \in 0..Len(s) : f[i] # g[i]}
<1>4. ~ D # {}
  <2> SUFFICES ASSUME D # {} PROVE FALSE
    OBVIOUS
  <2>1. 0 \notin D /\ D \in SUBSET (0..Len(s))
    BY <1>2, <1>3
  <2>2. PICK i \in 1..Len(s) : i \in D /\ i-1 \in 0..Len(s) /\ i-1 \notin D
    <3> HIDE DEF D
    <3>1. QED
      BY <1>1, <2>1, FirstFailure
  <2>3. f[i-1] = g[i-1]
    BY <2>2
  <2>a. i \in 1..Len(r) /\ r[i] = s[i]
    BY <1>1
  <2>4. f[i] = g[i]
    BY <2>3, <2>a, <1>2, <1>3
  <2>5. QED
    BY <2>2, <2>4
<1>5. f[Len(s)] = g[Len(s)]
  <2>1. \A i \in 0..Len(s) : f[i] = g[i]
    BY <1>4
  <2>2. Len(s) \in 0..Len(s)
    BY <1>1
  <2>3. QED
    BY <2>1, <2>2
<1>6. Len(r) \in 1..Len(r) /\ Len(r) - 1 = Len(s)
  BY <1>1
<1>7. FlattenSeq(r) = g[Len(s)] \o x
  BY <1>1, <1>3, <1>6
<1>8. QED
  BY <1>2, <1>5, <1>7 DEF r

\* No sequences, no elements.
LEMMA FlattenEmpty == FlattenSeq(<<>>) = <<>>
  BY DEF FlattenSeq

\* The concatenation of sequences is one.
LEMMA FlattenType ==
    ASSUME NEW S, NEW s \in Seq(Seq(S))
    PROVE  FlattenSeq(s) \in Seq(S)
<1>1. PICK f \in [0..Len(s) -> Seq(S)] : FlattenSeq(s) = f[Len(s)]
  BY FlattenTrace
<1>2. Len(s) \in 0..Len(s)
  OBVIOUS
<1>3. QED
  BY <1>1, <1>2

-----------------------------------------------------------------------------
(* Folding over a sequence, from left to right.                            *)

\* A non-empty set of indices has a largest one.
LEMMA Largest ==
    ASSUME NEW n \in Nat, NEW s \in SUBSET (1..n), s # {}
    PROVE  Max(s) \in s /\ \A j \in s : Max(s) >= j
<1> DEFINE D == {n - i : i \in s}
<1>1. D \in SUBSET Nat /\ D # {}
  <2>1. \A i \in s : n - i \in Nat
    OBVIOUS
  <2>2. QED
    BY <2>1
<1>2. PICK d \in D : \A e \in D : d <= e
  <2> HIDE DEF D
  <2>1. QED
    BY <1>1, Smallest
<1>3. PICK m \in s : d = n - m
  BY <1>2
<1>4. \A j \in s : m >= j
  <2> SUFFICES ASSUME NEW j \in s PROVE m >= j
    OBVIOUS
  <2>1. n - m <= n - j
    BY <1>2, <1>3
  <2>2. QED
    BY <2>1
<1>5. QED
  BY <1>4 DEF Max

\* A fold over 1..i ends with i.
LEMMA LargestOfBeginning ==
    ASSUME NEW i \in Nat \ {0}
    PROVE  Max(1..i) = i /\ (1..i) \ {i} = 1..(i-1) /\ 1..i # {}
<1>1. 1..i \in SUBSET (1..i) /\ i \in 1..i
  OBVIOUS
<1>2. Max(1..i) \in 1..i /\ \A j \in 1..i : Max(1..i) >= j
  BY <1>1, Largest
<1>3. Max(1..i) >= i /\ Max(1..i) <= i
  BY <1>1, <1>2
<1>4. Max(1..i) = i
  <2>1. Max(1..i) \in Int
    BY <1>2
  <2>2. QED
    BY <1>3, <2>1
<1>5. (1..i) \ {i} = 1..(i-1)
  OBVIOUS
<1>6. QED
  BY <1>1, <1>4, <1>5

\* A recursion over the largest index of a set has a solution.
FoldsBy(g, F, S, base, n) ==
    /\ g \in [SUBSET (1..n) -> S]
    /\ \A s \in SUBSET (1..n) :
          g[s] = IF s = {} THEN base ELSE F[<<Max(s), g[s \ {Max(s)}]>>]

\* Every such recursion over subsets has a solution.
LEMMA FoldExists ==
    ASSUME NEW n \in Nat, NEW S, NEW base \in S, NEW F \in [(1..n) \X S -> S]
    PROVE  \E g : FoldsBy(g, F, S, base, n)
<1> DEFINE D == {m \in 0..n : ~ \E g : FoldsBy(g, F, S, base, m)}
<1>1. ~ D # {}
  <2> SUFFICES ASSUME D # {} PROVE FALSE
    OBVIOUS
  <2>1. 0 \notin D
    <3> DEFINE g == [s \in SUBSET (1..0) |-> base]
    <3>1. \A s \in SUBSET (1..0) : s = {}
      OBVIOUS
    <3>2. FoldsBy(g, F, S, base, 0)
      BY <3>1 DEF FoldsBy
    <3>3. QED
      BY <3>2
  <2>2. PICK m \in 1..n : m \in D /\ m-1 \in 0..n /\ m-1 \notin D
    <3>1. D \in SUBSET (0..n)
      OBVIOUS
    <3> HIDE DEF D
    <3>2. QED
      BY <2>1, <3>1, FirstFailure
  <2>3. PICK g : FoldsBy(g, F, S, base, m-1)
    BY <2>2
  <2> DEFINE h == [s \in SUBSET (1..m) |-> IF m \in s THEN F[<<m, g[s \ {m}]>>] ELSE g[s]]
  <2>4. \A s \in SUBSET (1..m) : /\ s \ {m} \in SUBSET (1..m-1)
                                 /\ m \notin s => s \in SUBSET (1..m-1)
    OBVIOUS
  <2>5. h \in [SUBSET (1..m) -> S]
    <3> SUFFICES ASSUME NEW s \in SUBSET (1..m)
                 PROVE  (IF m \in s THEN F[<<m, g[s \ {m}]>>] ELSE g[s]) \in S
      OBVIOUS
    <3>1. g[s \ {m}] \in S /\ (m \notin s => g[s] \in S)
      BY <2>3, <2>4 DEF FoldsBy
    <3>2. QED
      BY <3>1
  <2>6. ASSUME NEW s \in SUBSET (1..m)
        PROVE  h[s] = IF s = {} THEN base ELSE F[<<Max(s), h[s \ {Max(s)}]>>]
    <3>1. CASE m \in s
      <4>1. Max(s) \in s /\ Max(s) >= m
        <5>1. m \in Nat /\ s # {}
          BY <3>1
        <5>2. Max(s) \in s /\ \A j \in s : Max(s) >= j
          BY <5>1, Largest
        <5>3. QED
          BY <3>1, <5>2
      <4>2. Max(s) = m
        <5>1. Max(s) \in 1..m
          BY <4>1
        <5>2. QED
          BY <4>1, <5>1
      <4>3. h[s \ {m}] = g[s \ {m}]
        BY <2>4
      <4>4. QED
        BY <3>1, <4>2, <4>3
    <3>2. CASE m \notin s
      <4>1. s \in SUBSET (1..m-1) /\ h[s] = g[s]
        BY <3>2, <2>4
      <4>2. CASE s = {}
        BY <4>1, <4>2, <2>3 DEF FoldsBy
      <4>3. CASE s # {}
        <5>1. s \ {Max(s)} \in SUBSET (1..m-1) /\ s \ {Max(s)} \in SUBSET (1..m) /\ m \notin s \ {Max(s)}
          BY <4>1, <3>2
        <5>2. h[s \ {Max(s)}] = g[s \ {Max(s)}]
          BY <5>1
        <5>3. g[s] = F[<<Max(s), g[s \ {Max(s)}]>>]
          BY <4>1, <4>3, <2>3 DEF FoldsBy
        <5>4. QED
          BY <4>1, <4>3, <5>2, <5>3
      <4>4. QED
        BY <4>2, <4>3
    <3>3. QED
      BY <3>1, <3>2
  <2> HIDE DEF h
  <2>7. FoldsBy(h, F, S, base, m)
    BY <2>5, <2>6 DEF FoldsBy
  <2>8. QED
    BY <2>2, <2>7
<1>2. n \in 0..n
  OBVIOUS
<1>3. QED
  BY <1>1, <1>2

\* A function that satisfies the recursion as far as its values are in S.
Recurs(it, F, S, base, n) ==
    /\ base \in S /\ F \in [(1..n) \X S -> S] /\ it[{}] = base
    /\ \A s \in SUBSET (1..n) :
          s # {} /\ it[s \ {Max(s)}] \in S => it[s] = F[<<Max(s), it[s \ {Max(s)}]>>]

\* One value for each beginning of the sequence.
Trace(f, F, S, base, n) ==
    /\ f \in [0..n -> S] /\ f[0] = base
    /\ \A i \in 1..n : f[i] = F[<<i, f[i-1]>>]

\* It takes one step for each index.
LEMMA FoldTrace ==
    ASSUME NEW n \in Nat, NEW S, NEW base, NEW F, NEW it, Recurs(it, F, S, base, n)
    PROVE  \E f : Trace(f, F, S, base, n) /\ f[n] = it[1..n]
<1>0. base \in S /\ F \in [(1..n) \X S -> S]
  BY DEF Recurs
<1>1. it[1..0] = base
  <2>1. 1..0 = {}
    OBVIOUS
  <2>2. QED
    BY <2>1 DEF Recurs
<1>2. ASSUME NEW i \in 1..n, it[1..(i-1)] \in S
      PROVE  it[1..i] = F[<<i, it[1..(i-1)]>>]
  <2>1. Max(1..i) = i /\ (1..i) \ {i} = 1..(i-1) /\ 1..i # {}
    <3>1. i \in Nat \ {0}
      OBVIOUS
    <3>2. QED
      BY <3>1, LargestOfBeginning
  <2>2. 1..i \in SUBSET (1..n)
    OBVIOUS
  <2>3. QED
    BY <1>2, <2>1, <2>2 DEF Recurs
<1>3. \A i \in 0..n : it[1..i] \in S
  <2> DEFINE D == {i \in 0..n : it[1..i] \notin S}
  <2> SUFFICES ASSUME D # {} PROVE FALSE
    OBVIOUS
  <2>1. 0 \notin D /\ D \in SUBSET (0..n)
    BY <1>0, <1>1
  <2>2. PICK i \in 1..n : i \in D /\ i-1 \in 0..n /\ i-1 \notin D
    <3> HIDE DEF D
    <3>1. QED
      BY <2>1, FirstFailure
  <2>3. it[1..(i-1)] \in S
    BY <2>2
  <2>4. it[1..i] \in S
    BY <1>0, <1>2, <2>3
  <2>5. QED
    BY <2>2, <2>4
<1> DEFINE f == [i \in 0..n |-> it[1..i]]
<1>4. f \in [0..n -> S] /\ f[0] = base /\ f[n] = it[1..n]
  BY <1>0, <1>1, <1>3
<1>5. \A i \in 1..n : f[i] = F[<<i, f[i-1]>>]
  <2> SUFFICES ASSUME NEW i \in 1..n PROVE f[i] = F[<<i, f[i-1]>>]
    OBVIOUS
  <2>1. i \in 0..n /\ i-1 \in 0..n
    OBVIOUS
  <2>2. it[1..i] = F[<<i, it[1..(i-1)]>>]
    BY <1>2, <1>3, <2>1
  <2>3. QED
    BY <2>1, <2>2
<1> HIDE DEF f
<1>6. QED
  BY <1>4, <1>5 DEF Trace

-----------------------------------------------------------------------------
(* Polynomials over GF(2), of any degree.                                  *)

Polys == {p \in SUBSET Nat : \E n \in Nat : p \subseteq 0..n}

\* A product with a power of x, that no register cuts off.
Up(p, k) == {e + k : e \in p}

\* The product with Poly, coefficient by coefficient.
Prod(q) == {e \in Nat : IsOdd(Cardinality({i \in q : e - i \in Poly}))}
Multiple(m) == \E q \in Polys : m = Prod(q)

\* Congruence modulo Poly.
Same(p, q) == Multiple(Xor(p, q))

\* A finite set of numbers has a bound.
LEMMA PolyBounded == \E n \in Nat : Poly \subseteq 0..n
<1> DEFINE D == {t \in SUBSET Poly : ~ \E n \in Nat : t \subseteq 0..n}
<1>1. D = {}
  <2> SUFFICES ASSUME D # {} PROVE FALSE
    OBVIOUS
  <2>1. D \subseteq FiniteSubsetsOf(Poly)
    BY PolyAssumption, FS_Subset DEF FiniteSubsetsOf
  <2>2. PICK t \in D : \A s \in D : <<s, t>> \notin StrictSubsetOrdering(Poly)
    <3> HIDE DEF D
    <3>1. QED
      BY <2>1, FS_StrictSubsetOrderingWellFounded, WFMin
  <2>3. t # {}
    <3>1. {} \subseteq 0..0
      OBVIOUS
    <3>2. QED
      BY <2>2, <3>1
  <2>4. PICK e \in t : TRUE
    BY <2>3
  <2>5. t \ {e} \notin D
    <3>1. t \in SUBSET Poly /\ t \ {e} \in SUBSET Poly /\ t \ {e} # t
      BY <2>4
    <3>2. <<t \ {e}, t>> \in StrictSubsetOrdering(Poly)
      BY <3>1 DEF StrictSubsetOrdering
    <3>3. QED
      BY <2>2, <3>2
  <2>6. PICK n \in Nat : t \ {e} \subseteq 0..n
    BY <2>5
  <2>7. e \in Nat
    BY <2>4, PolyAssumption
  <2>8. t \subseteq 0..(n + e) /\ n + e \in Nat
    BY <2>4, <2>6, <2>7
  <2>9. QED
    BY <2>2, <2>8
<1>2. Poly \notin D
  BY <1>1
<1>3. QED
  BY <1>2

\* The largest element of a bounded set of numbers.
LEMMA MaxFacts ==
    ASSUME NEW p \in Polys, p # {}
    PROVE  Max(p) \in p /\ Max(p) \in Nat /\ \A e \in p : e <= Max(p)
<1>1. PICK n \in Nat : p \subseteq 0..n
  BY DEF Polys
<1> DEFINE D == {n - e : e \in p}
<1>2. D \in SUBSET Nat /\ D # {}
  <2>1. \A e \in p : n - e \in Nat
    BY <1>1
  <2>2. QED
    BY <2>1
<1>3. PICK d \in D : \A c \in D : d <= c
  <2> HIDE DEF D
  <2>1. QED
    BY <1>2, Smallest
<1>4. PICK m \in p : d = n - m
  BY <1>3
<1>5. \A e \in p : m >= e
  <2> SUFFICES ASSUME NEW e \in p PROVE m >= e
    OBVIOUS
  <2>1. n - m <= n - e
    BY <1>3, <1>4
  <2>2. m \in Nat /\ e \in Nat
    BY <1>1
  <2>3. QED
    BY <2>1, <2>2
<1>6. Max(p) \in p /\ \A e \in p : Max(p) >= e
  BY <1>5 DEF Max
<1>7. p \subseteq Nat
  BY DEF Polys
<1> HIDE DEF D
<1>8. Max(p) \in Nat
  BY <1>6, <1>7
<1>9. \A e \in p : e <= Max(p)
  <2> SUFFICES ASSUME NEW e \in p PROVE e <= Max(p)
    OBVIOUS
  <2>1. e \in Nat /\ Max(p) >= e
    BY <1>6, <1>7
  <2>2. QED
    BY <2>1, <1>8
<1>10. QED
  BY <1>6, <1>8, <1>9

\* The sizes of registers, bytes and residues.
LEMMA Sizes ==
    /\ Degree \in Nat /\ Degree \in Poly /\ Poly \subseteq 0..Degree /\ Poly \in Polys
    /\ ByteBits \in Nat /\ ByteBits > 0
    /\ Shift \in Nat /\ Degree = Shift + ByteBits
    /\ \A b \in Bytes : b \subseteq 0..ByteBits - 1
<1>1. Poly \in Polys
  BY PolyBounded, PolyAssumption DEF Polys
<1>2. Degree \in Nat /\ Degree \in Poly /\ \A e \in Poly : e <= Degree
  BY <1>1, MaxFacts, PolyAssumption DEF Degree
<1>3. Poly \subseteq 0..Degree
  BY <1>2, PolyAssumption
<1>4. Shift \in Nat /\ Degree = Shift + ByteBits /\ ByteBits \in Nat /\ ByteBits > 0
  BY <1>2, PolyAssumption DEF Shift
<1>5. QED
  BY <1>1, <1>2, <1>3, <1>4 DEF Bytes

\* Polynomials are closed under the operations.
LEMMA PolysClosed ==
    /\ {} \in Polys /\ \A k \in Nat : {k} \in Polys
    /\ \A p, q \in Polys : Xor(p, q) \in Polys /\ p \union q \in Polys
    /\ \A p \in Polys, k \in Nat : Up(p, k) \in Polys
    /\ \A n \in Int : \A p \in SUBSET (0..n) : p \in Polys
    /\ \A p \in Polys : IsFiniteSet(p) /\ p \subseteq Nat
<1>1. \A n \in Int : \A p \in SUBSET (0..n) : p \in Polys
  <2> SUFFICES ASSUME NEW n \in Int, NEW p \in SUBSET (0..n)
               PROVE  p \in Polys
    OBVIOUS
  <2>1. CASE n \in Nat
    <3>1. p \in SUBSET Nat /\ p \subseteq 0..n
      BY <2>1
    <3>2. QED
      BY <3>1, <2>1 DEF Polys
  <2>2. CASE n \notin Nat
    <3>1. p \subseteq 0..0 /\ 0 \in Nat
      BY <2>2
    <3>2. QED
      BY <3>1 DEF Polys
  <2>3. QED
    BY <2>1, <2>2
<1>2. ASSUME NEW p \in Polys, NEW q \in Polys
      PROVE  Xor(p, q) \in Polys /\ p \union q \in Polys
  <2>1. PICK m \in Nat : p \subseteq 0..m
    BY DEF Polys
  <2>2. PICK n \in Nat : q \subseteq 0..n
    BY DEF Polys
  <2>3. p \subseteq 0..(m + n) /\ q \subseteq 0..(m + n) /\ m + n \in Int
    BY <2>1, <2>2
  <2>4. Xor(p, q) \in SUBSET (0..(m + n)) /\ p \union q \in SUBSET (0..(m + n))
    BY <2>3 DEF Xor
  <2>5. QED
    BY <1>1, <2>3, <2>4
<1>3. ASSUME NEW p \in Polys, NEW k \in Nat
      PROVE  Up(p, k) \in Polys
  <2>1. PICK m \in Nat : p \subseteq 0..m
    BY DEF Polys
  <2>2. Up(p, k) \in SUBSET (0..(m + k)) /\ m + k \in Int
    BY <2>1 DEF Up
  <2>3. QED
    BY <1>1, <2>2
<1>4. {} \in Polys /\ \A k \in Nat : {k} \in Polys
  <2>1. {} \in SUBSET (0..0) /\ 0 \in Int
    OBVIOUS
  <2>2. \A k \in Nat : {k} \in SUBSET (0..k) /\ k \in Int
    OBVIOUS
  <2>3. QED
    BY <1>1, <2>1, <2>2
<1>5. ASSUME NEW p \in Polys
      PROVE  IsFiniteSet(p) /\ p \subseteq Nat
  <2>1. PICK m \in Nat : p \subseteq 0..m
    BY DEF Polys
  <2>2. IsFiniteSet(0..m)
    <3>1. 0 \in Int /\ m \in Int
      OBVIOUS
    <3>2. QED
      BY <3>1, FS_Interval
  <2>3. p \in SUBSET (0..m)
    BY <2>1
  <2>4. QED
    BY <2>2, <2>3, FS_Subset DEF Polys
<1>6. QED
  BY <1>1, <1>2, <1>3, <1>4, <1>5

\* A sum of two sets has an odd number of elements if one of them has.
LEMMA OddXor ==
    ASSUME NEW a, NEW b, IsFiniteSet(a), IsFiniteSet(b)
    PROVE  IsOdd(Cardinality(Xor(a, b))) <=> ~(IsOdd(Cardinality(a)) <=> IsOdd(Cardinality(b)))
<1>1. /\ IsFiniteSet(a \ b) /\ Cardinality(a \ b) = Cardinality(a) - Cardinality(a \intersect b)
      /\ IsFiniteSet(b \ a) /\ Cardinality(b \ a) = Cardinality(b) - Cardinality(b \intersect a)
  BY FS_Difference
<1>2. a \intersect b = b \intersect a /\ (a \ b) \intersect (b \ a) = {}
  OBVIOUS
<1>3. Cardinality(Xor(a, b)) = Cardinality(a \ b) + Cardinality(b \ a) - Cardinality((a \ b) \intersect (b \ a))
  BY <1>1, FS_Union DEF Xor
<1>4. Cardinality((a \ b) \intersect (b \ a)) = 0
  BY <1>2, FS_EmptySet
<1>5. IsFiniteSet(a \intersect b)
  BY FS_Intersection
<1> DEFINE ca == Cardinality(a)
           cb == Cardinality(b)
           cc == Cardinality(a \intersect b)
           cx == Cardinality(Xor(a, b))
<1>6. ca \in Nat /\ cb \in Nat /\ cc \in Nat
  BY <1>5, FS_CardinalityType
<1>7. cx = (ca - cc) + (cb - cc) - 0
  BY <1>1, <1>2, <1>3, <1>4
<1> HIDE DEF ca, cb, cc, cx
<1>8. IsOdd(cx) <=> ~(IsOdd(ca) <=> IsOdd(cb))
  BY <1>6, <1>7 DEF IsOdd
<1>9. QED
  BY <1>8 DEF ca, cb, cx

\* Multiplication distributes over the sum.
LEMMA ProdXor ==
    ASSUME NEW q \in Polys, NEW r \in Polys
    PROVE  Prod(Xor(q, r)) = Xor(Prod(q), Prod(r))
<1> DEFINE At(p, e) == {i \in p : e - i \in Poly}
<1>1. \A e \in Nat : At(Xor(q, r), e) = Xor(At(q, e), At(r, e))
  BY DEF Xor
<1>2. \A e \in Nat : IsFiniteSet(At(q, e)) /\ IsFiniteSet(At(r, e))
  BY PolysClosed, FS_Subset
<1> DEFINE Odd(p, e) == IsOdd(Cardinality(At(p, e)))
<1>3. ASSUME NEW e \in Nat
      PROVE  Odd(Xor(q, r), e) <=> ~(Odd(q, e) <=> Odd(r, e))
  <2> DEFINE a == At(q, e)
             b == At(r, e)
  <2>1. IsFiniteSet(a) /\ IsFiniteSet(b) /\ At(Xor(q, r), e) = Xor(a, b)
    BY <1>1, <1>2
  <2> HIDE DEF a, b, At
  <2>2. IsOdd(Cardinality(Xor(a, b))) <=> ~(IsOdd(Cardinality(a)) <=> IsOdd(Cardinality(b)))
    BY <2>1, OddXor
  <2>3. QED
    BY <2>1, <2>2, Zenon DEF a, b
<1>4. \A p : Prod(p) = {e \in Nat : Odd(p, e)}
  BY DEF Prod
<1> HIDE DEF Odd
<1>5. QED
  BY <1>3, <1>4 DEF Xor

\* Multiplication commutes with powers of x.
LEMMA ProdUp ==
    ASSUME NEW q \in Polys, NEW k \in Nat
    PROVE  Prod(Up(q, k)) = Up(Prod(q), k)
<1> DEFINE At(p, e) == {i \in p : e - i \in Poly}
<1>1. q \subseteq Nat /\ IsFiniteSet(q)
  BY PolysClosed
<1>2. ASSUME NEW e \in Nat, e >= k
      PROVE  Cardinality(At(Up(q, k), e)) = Cardinality(At(q, e - k))
  <2> DEFINE S == At(q, e - k)
             T2 == At(Up(q, k), e)
             f == [i \in S |-> i + k]
  <2>1. \A i \in S : i + k \in T2
    <3> SUFFICES ASSUME NEW i \in S PROVE i + k \in T2
      OBVIOUS
    <3>1. i \in Nat /\ e - (i + k) = (e - k) - i /\ i \in q
      BY <1>1
    <3>2. i + k \in Up(q, k)
      BY <3>1 DEF Up
    <3>3. QED
      BY <3>1, <3>2
  <2>2. \A j \in T2 : j - k \in S /\ (j - k) + k = j
    <3> SUFFICES ASSUME NEW j \in T2 PROVE j - k \in S /\ (j - k) + k = j
      OBVIOUS
    <3>1. PICK i \in q : j = i + k
      BY DEF Up
    <3>2. i \in Nat /\ (e - k) - i = e - j /\ j - k = i
      BY <1>1, <3>1
    <3>3. QED
      BY <3>1, <3>2
  <2>3. S \subseteq Nat /\ IsFiniteSet(S)
    BY <1>1, FS_Subset
  <2>4. f \in Bijection(S, T2)
    <3>1. f \in [S -> T2]
      BY <2>1
    <3>2. \A i, j \in S : f[i] = f[j] => i = j
      BY <2>3
    <3>3. \A j \in T2 : \E i \in S : f[i] = j
      BY <2>2
    <3> HIDE DEF f, S, T2
    <3>4. QED
      BY <3>1, <3>2, <3>3 DEF Bijection, Injection, Surjection, IsInjective
  <2>5. Cardinality(T2) = Cardinality(S)
    <3> HIDE DEF f, S, T2
    <3>1. QED
      BY <2>3, <2>4, FS_Bijection DEF ExistsBijection
  <2>6. QED
    BY <2>5
<1>3. ASSUME NEW e \in Nat, e < k
      PROVE  Cardinality(At(Up(q, k), e)) = 0
  <2>1. \A i \in Up(q, k) : e - i \notin Poly
    BY <1>1, <1>3, Sizes DEF Up
  <2>2. At(Up(q, k), e) = {}
    BY <2>1
  <2>3. QED
    BY <2>2, FS_EmptySet
<1>4. ~IsOdd(0)
  BY DEF IsOdd
<1>5. \A p, e : e \in Prod(p) <=> e \in Nat /\ IsOdd(Cardinality(At(p, e)))
  BY DEF Prod
<1> HIDE DEF At
<1>6. \A e \in Nat : e \in Prod(Up(q, k)) <=> e >= k /\ (e - k) \in Prod(q)
  <2> SUFFICES ASSUME NEW e \in Nat
               PROVE  e \in Prod(Up(q, k)) <=> e >= k /\ (e - k) \in Prod(q)
    OBVIOUS
  <2>1. CASE e >= k
    BY <1>2, <1>5, <2>1
  <2>2. CASE e < k
    BY <1>3, <1>4, <1>5, <2>2
  <2>3. QED
    BY <2>1, <2>2
<1>7. Prod(q) \subseteq Nat /\ Prod(Up(q, k)) \subseteq Nat
  BY DEF Prod
<1>8. ASSUME NEW e \in Prod(Up(q, k))
      PROVE  e \in Up(Prod(q), k)
  <2>1. e \in Nat /\ e - k \in Prod(q) /\ e = (e - k) + k
    BY <1>6, <1>7
  <2>2. QED
    BY <2>1 DEF Up
<1>9. ASSUME NEW e \in Up(Prod(q), k)
      PROVE  e \in Prod(Up(q, k))
  <2>1. PICK d \in Prod(q) : e = d + k
    BY DEF Up
  <2>2. d \in Nat /\ e \in Nat /\ e >= k /\ e - k = d
    BY <1>7, <2>1
  <2>3. QED
    BY <1>6, <2>1, <2>2
<1>10. QED
  BY <1>8, <1>9

\* Poly times a power of x.
LEMMA ProdOne ==
    /\ Prod({}) = {}
    /\ \A k \in Nat : Up(Poly, k) = Prod(Up({0}, k))
<1>1. Prod({}) = {}
  <2>1. \A e \in Nat : {i \in {} : e - i \in Poly} = {}
    OBVIOUS
  <2>2. ~IsOdd(Cardinality({}))
    BY FS_EmptySet DEF IsOdd
  <2>3. QED
    BY <2>1, <2>2 DEF Prod
<1>2. Prod({0}) = Poly
  <2>1. ASSUME NEW e \in Nat
        PROVE  IsOdd(Cardinality({i \in {0} : e - i \in Poly})) <=> e \in Poly
    <3>1. e - 0 = e /\ IsOdd(1) /\ ~IsOdd(0)
      BY DEF IsOdd
    <3>2. CASE e \in Poly
      <4>1. {i \in {0} : e - i \in Poly} = {0}
        BY <3>1, <3>2
      <4>2. QED
        BY <3>1, <3>2, <4>1, FS_Singleton
    <3>3. CASE e \notin Poly
      <4>1. {i \in {0} : e - i \in Poly} = {}
        BY <3>1, <3>3
      <4>2. QED
        BY <3>1, <3>3, <4>1, FS_EmptySet
    <3>4. QED
      BY <3>2, <3>3
  <2>2. Poly \subseteq Nat
    BY PolyAssumption
  <2>3. QED
    BY <2>1, <2>2 DEF Prod
<1>3. QED
  BY <1>1, <1>2, ProdUp, PolysClosed

\* The highest coefficient of a product.
LEMMA ProdTop ==
    ASSUME NEW q \in Polys, q # {}
    PROVE  Max(q) + Degree \in Prod(q)
<1>1. Max(q) \in q /\ Max(q) \in Nat /\ \A i \in q : i <= Max(q)
  BY MaxFacts
<1> DEFINE m == Max(q)
           e == m + Degree
<1>2. m \in q /\ m \in Nat /\ e \in Nat /\ e - m = Degree
  BY <1>1, Sizes
<1>3. \A i \in q : e - i \in Poly => i = m
  <2> SUFFICES ASSUME NEW i \in q, e - i \in Poly PROVE i = m
    OBVIOUS
  <2>1. i \in Nat /\ i <= m
    BY <1>1, PolysClosed
  <2>2. e - i \in 0..Degree /\ Degree \in Nat
    BY Sizes
  <2> HIDE DEF m
  <2>3. QED
    BY <1>2, <2>1, <2>2
<1> HIDE DEF m, e
<1>4. {i \in q : e - i \in Poly} = {m}
  BY <1>2, <1>3, Sizes
<1>5. IsOdd(Cardinality({m}))
  BY FS_Singleton DEF IsOdd
<1>6. e \in Prod(q)
  BY <1>2, <1>4, <1>5 DEF Prod
<1>7. QED
  BY <1>6 DEF e, m

\* Sums of polynomials.
LEMMA XorFacts ==
    /\ \A p : Xor(p, p) = {} /\ Xor(p, {}) = p
    /\ \A p, q : Xor(p, q) = Xor(q, p)
    /\ \A p, q, r : Xor(Xor(p, q), Xor(q, r)) = Xor(p, r)
    /\ \A p, q, r : Xor(Xor(p, q), r) = Xor(p, Xor(q, r))
    /\ \A p, q, r, s : Xor(Xor(p, q), Xor(r, s)) = Xor(Xor(p, r), Xor(q, s))
    /\ \A p, q : p \intersect q = {} => Xor(p, q) = p \union q
  BY DEF Xor

\* Shifts of polynomials.
LEMMA UpFacts ==
    /\ \A p, q \in SUBSET Nat, k \in Nat : Up(Xor(p, q), k) = Xor(Up(p, k), Up(q, k))
    /\ \A p \in SUBSET Nat, j, k \in Nat : Up(Up(p, j), k) = Up(p, j + k)
    /\ \A j, k \in Nat : Up({j}, k) = {j + k}
    /\ \A k \in Nat : Up({}, k) = {}
    /\ \A p \in SUBSET Nat : Up(p, 0) = p
<1>1. ASSUME NEW p \in SUBSET Nat, NEW q \in SUBSET Nat, NEW k \in Nat
      PROVE  Up(Xor(p, q), k) = Xor(Up(p, k), Up(q, k))
  <2>1. \A r \in SUBSET Nat : \A e : e \in Up(r, k) <=> e \in Nat /\ e >= k /\ e - k \in r
    <3> SUFFICES ASSUME NEW r \in SUBSET Nat, NEW e
                 PROVE  e \in Up(r, k) <=> e \in Nat /\ e >= k /\ e - k \in r
      OBVIOUS
    <3>1. ASSUME e \in Up(r, k) PROVE e \in Nat /\ e >= k /\ e - k \in r
      BY <3>1 DEF Up
    <3>2. ASSUME e \in Nat, e >= k, e - k \in r PROVE e \in Up(r, k)
      <4>1. e = (e - k) + k
        BY <3>2
      <4>2. QED
        BY <3>2, <4>1 DEF Up
    <3>3. QED
      BY <3>1, <3>2
  <2>2. Xor(p, q) \in SUBSET Nat
    BY DEF Xor
  <2>3. QED
    BY <2>1, <2>2 DEF Xor
<1>2. ASSUME NEW p \in SUBSET Nat, NEW j \in Nat, NEW k \in Nat
      PROVE  Up(Up(p, j), k) = Up(p, j + k)
  <2>1. \A e \in p : (e + j) + k = e + (j + k)
    OBVIOUS
  <2>2. QED
    BY <2>1 DEF Up
<1>3. ASSUME NEW p \in SUBSET Nat
      PROVE  Up(p, 0) = p
  <2>1. \A e \in p : e + 0 = e
    OBVIOUS
  <2>2. QED
    BY <2>1 DEF Up
<1>4. QED
  BY <1>1, <1>2, <1>3 DEF Up

\* Congruence is an equivalence and respects sums and shifts.
LEMMA SameFacts ==
    /\ \A p \in Polys : Same(p, p)
    /\ \A p, q \in Polys : Same(p, q) => Same(q, p)
    /\ \A p, q, r \in Polys : Same(p, q) /\ Same(q, r) => Same(p, r)
    /\ \A p, q, r, s \in Polys : Same(p, q) /\ Same(r, s) => Same(Xor(p, r), Xor(q, s))
    /\ \A p, q \in Polys, k \in Nat : Same(p, q) => Same(Up(p, k), Up(q, k))
    /\ \A p \in Polys, k \in Nat : Same(Xor(p, Up(Poly, k)), p)
<1>1. Multiple({})
  BY ProdOne, PolysClosed DEF Multiple
<1>2. \A m, n : Multiple(m) /\ Multiple(n) => Multiple(Xor(m, n))
  <2> SUFFICES ASSUME NEW m, NEW n, Multiple(m), Multiple(n) PROVE Multiple(Xor(m, n))
    OBVIOUS
  <2>1. PICK q \in Polys : m = Prod(q)
    BY DEF Multiple
  <2>2. PICK r \in Polys : n = Prod(r)
    BY DEF Multiple
  <2>3. Xor(m, n) = Prod(Xor(q, r)) /\ Xor(q, r) \in Polys
    BY <2>1, <2>2, ProdXor, PolysClosed
  <2>4. QED
    BY <2>3 DEF Multiple
<1>4. ASSUME NEW m, NEW k \in Nat, Multiple(m) PROVE Multiple(Up(m, k))
  <2>1. PICK q \in Polys : m = Prod(q)
    BY <1>4 DEF Multiple
  <2>2. Up(m, k) = Prod(Up(q, k)) /\ Up(q, k) \in Polys
    BY <2>1, ProdUp, PolysClosed
  <2>3. QED
    BY <2>2 DEF Multiple
<1>5. \A p \in Polys : Same(p, p)
  BY <1>1, XorFacts DEF Same
<1>6. \A p, q \in Polys : Same(p, q) => Same(q, p)
  BY XorFacts DEF Same
<1>7. \A p, q, r \in Polys : Same(p, q) /\ Same(q, r) => Same(p, r)
  <2> SUFFICES ASSUME NEW p \in Polys, NEW q \in Polys, NEW r \in Polys, Same(p, q), Same(q, r)
               PROVE  Same(p, r)
    OBVIOUS
  <2>1. Xor(Xor(p, q), Xor(q, r)) = Xor(p, r)
    BY XorFacts
  <2>2. Multiple(Xor(Xor(p, q), Xor(q, r)))
    BY <1>2 DEF Same
  <2>3. QED
    BY <2>1, <2>2 DEF Same
<1>8. \A p, q, r, s \in Polys : Same(p, q) /\ Same(r, s) => Same(Xor(p, r), Xor(q, s))
  <2> SUFFICES ASSUME NEW p \in Polys, NEW q \in Polys, NEW r \in Polys, NEW s \in Polys,
                      Same(p, q), Same(r, s)
               PROVE  Same(Xor(p, r), Xor(q, s))
    OBVIOUS
  <2>1. Xor(Xor(p, q), Xor(r, s)) = Xor(Xor(p, r), Xor(q, s))
    BY XorFacts
  <2>2. Multiple(Xor(Xor(p, q), Xor(r, s)))
    BY <1>2 DEF Same
  <2>3. QED
    BY <2>1, <2>2 DEF Same
<1>9. \A p, q \in Polys, k \in Nat : Same(p, q) => Same(Up(p, k), Up(q, k))
  <2> SUFFICES ASSUME NEW p \in Polys, NEW q \in Polys, NEW k \in Nat, Same(p, q)
               PROVE  Same(Up(p, k), Up(q, k))
    OBVIOUS
  <2>1. p \in SUBSET Nat /\ q \in SUBSET Nat
    BY PolysClosed
  <2>2. Up(Xor(p, q), k) = Xor(Up(p, k), Up(q, k))
    BY <2>1, UpFacts
  <2>3. Multiple(Up(Xor(p, q), k))
    BY <1>4 DEF Same
  <2>4. QED
    BY <2>2, <2>3 DEF Same
<1>10. ASSUME NEW p \in Polys, NEW k \in Nat
       PROVE  Same(Xor(p, Up(Poly, k)), p)
  <2>1. Xor(Xor(p, Up(Poly, k)), p) = Up(Poly, k)
    BY DEF Xor
  <2>2. Multiple(Up(Poly, k))
    BY ProdOne, PolysClosed DEF Multiple
  <2>3. QED
    BY <2>1, <2>2 DEF Same
<1>11. QED
  BY <1>5, <1>6, <1>7, <1>8, <1>9, <1>10

\* Residues that are congruent are equal.
LEMMA SmallSame ==
    ASSUME NEW r \in SUBSET (0..Degree - 1), NEW s \in SUBSET (0..Degree - 1), Same(r, s)
    PROVE  r = s
<1>1. PICK q \in Polys : Xor(r, s) = Prod(q)
  BY DEF Same, Multiple
<1>2. q = {}
  <2> SUFFICES ASSUME q # {} PROVE FALSE
    OBVIOUS
  <2>1. Max(q) + Degree \in Prod(q) /\ Max(q) \in Nat
    BY ProdTop, MaxFacts
  <2>2. Max(q) + Degree \in 0..Degree - 1
    BY <1>1, <2>1 DEF Xor
  <2>3. QED
    BY <2>1, <2>2, Sizes
<1>3. Xor(r, s) = {}
  BY <1>1, <1>2, ProdOne
<1>4. QED
  BY <1>3 DEF Xor

\* What Residue chooses: the small polynomial congruent to its argument.
LEMMA ResidueIs ==
    ASSUME NEW p \in SUBSET (0..ByteBits * WindowSize - 1), NEW r \in SUBSET (0..Degree - 1),
           Same(p, r)
    PROVE  Residue(p) = r
<1> DEFINE n == ByteBits * WindowSize
           Qs == SUBSET (0..n - 1)
<1>1. n \in Nat
  BY Sizes, SizesAssumption
<1>2. Degree \in Nat /\ Degree > 0
  BY Sizes
<1>3. \A q \in Polys \ {{}} : Times(q, Poly) = Prod(q)
  <2> SUFFICES ASSUME NEW q \in Polys, q # {} PROVE Times(q, Poly) = Prod(q)
    OBVIOUS
  <2>1. Max(q) \in Nat /\ \A i \in q : i <= Max(q) /\ i \in Nat
    BY MaxFacts, PolysClosed
  <2>2. ASSUME NEW e \in Nat, e > Max(q) + Degree
        PROVE  ~IsOdd(Cardinality({i \in q : e - i \in Poly}))
    <3>1. \A i \in q : e - i \notin Poly
      <4> SUFFICES ASSUME NEW i \in q PROVE e - i \notin 0..Degree
        BY Sizes
      <4>1. i \in Nat /\ i <= Max(q)
        BY <2>1
      <4>2. QED
        BY <2>1, <2>2, <1>2, <4>1
    <3>2. {i \in q : e - i \in Poly} = {}
      BY <3>1
    <3>3. Cardinality({i \in q : e - i \in Poly}) = 0
      BY <3>2, FS_EmptySet
    <3>4. ~IsOdd(0)
      BY DEF IsOdd
    <3>5. QED
      BY <3>3, <3>4
  <2>3. \A e \in 0..Max(q) + Degree : e \in Nat
    OBVIOUS
  <2>4. \A e \in Nat : e \notin 0..Max(q) + Degree => e > Max(q) + Degree
    BY <2>1, <1>2
  <2>5. Times(q, Poly) = {e \in 0..Max(q) + Degree : IsOdd(Cardinality({i \in q : e - i \in Poly}))}
    BY DEF Times, Degree
  <2>6. QED
    BY <2>2, <2>3, <2>4, <2>5 DEF Prod
<1>4. Qs \subseteq Polys
  <2>1. n - 1 \in Int
    BY <1>1
  <2> HIDE DEF n
  <2>2. QED
    BY <2>1, PolysClosed
<1> HIDE DEF n
<1>5. \A m \in Multiples : Multiple(m)
  <2> SUFFICES ASSUME NEW m \in Multiples PROVE Multiple(m)
    OBVIOUS
  <2>1. m = {} \/ \E q \in Qs \ {{}} : m = Times(q, Poly)
    BY DEF Multiples, n
  <2>2. {} \in Polys /\ Prod({}) = {}
    BY PolysClosed, ProdOne
  <2>3. QED
    BY <2>1, <2>2, <1>3, <1>4 DEF Multiple
<1>6. Xor(p, r) \in Multiples
  <2>1. PICK q \in Polys : Xor(p, r) = Prod(q)
    BY DEF Same, Multiple
  <2>2. CASE q = {}
    BY <2>1, <2>2, ProdOne DEF Multiples
  <2>3. CASE q # {}
    <3>1. Max(q) + Degree \in Xor(p, r) /\ Max(q) \in Nat /\ \A i \in q : i <= Max(q) /\ i \in Nat
      BY <2>1, <2>3, ProdTop, MaxFacts, PolysClosed
    <3>2. Max(q) + Degree \notin r
      BY <3>1, <1>2
    <3>3. Max(q) + Degree \in 0..n - 1
      BY <3>1, <3>2 DEF Xor, n
    <3>4. \A i \in q : i \in 0..n - 1
      <4> SUFFICES ASSUME NEW i \in q PROVE i \in 0..n - 1
        OBVIOUS
      <4>1. i <= Max(q) /\ i \in Nat /\ Max(q) \in Nat
        BY <3>1
      <4>2. QED
        BY <4>1, <3>3, <1>1, <1>2
    <3>5. q \in Qs \ {{}} /\ Xor(p, r) = Times(q, Poly)
      BY <2>1, <2>3, <3>4, <1>3
    <3>6. QED
      BY <3>5 DEF Multiples, n
  <2>4. QED
    BY <2>2, <2>3
<1>7. p \in Polys /\ r \in Polys /\ \A s \in SUBSET (0..Degree - 1) : s \in Polys
  <2>1. n - 1 \in Int /\ Degree - 1 \in Int
    BY <1>1, <1>2
  <2>2. QED
    BY <2>1, PolysClosed DEF n
<1>8. ASSUME NEW s \in SUBSET (0..Degree - 1), Xor(p, s) \in Multiples
      PROVE  s = r
  <2>1. Same(p, s)
    BY <1>5, <1>8 DEF Same
  <2>2. Same(s, r)
    BY <2>1, <1>7, SameFacts
  <2>3. QED
    BY <2>2, SmallSame
<1>9. QED
  BY <1>6, <1>8 DEF Residue

-----------------------------------------------------------------------------
(* Registers.                                                              *)

\* A pair of registers is one polynomial.
Pairs == [h : SUBSET Word, l : SUBSET Word]
Value(w) == Xor(w.l, Up(w.h, Degree + 1))

\* What a shift pushes out of one register is what the other one gets.
LEMMA Overflow ==
    ASSUME NEW y \in SUBSET Word, NEW k \in 0..Degree + 1
    PROVE  /\ Shl(y, k) \in SUBSET Word /\ Shr(y, Degree + 1 - k) \in SUBSET Word
           /\ Up(y, k) = Xor(Shl(y, k), Up(Shr(y, Degree + 1 - k), Degree + 1))
<1> DEFINE hi == Shr(y, Degree + 1 - k)
<1>1. Degree \in Nat /\ k \in Nat /\ Word = 0..Degree
  BY Sizes DEF Word
<1>2. Shl(y, k) = {e \in Up(y, k) : e <= Degree} /\ Shl(y, k) \in SUBSET Word
  <2>1. \A e \in Up(y, k) : e \in Nat
    BY <1>1 DEF Up
  <2>2. Shl(y, k) = Up(y, k) \intersect Word
    BY DEF Shl, Up
  <2>3. QED
    BY <1>1, <2>1, <2>2
<1>3. \A x \in y : x \in Nat /\ x <= Degree
  BY <1>1
<1>4. hi \in SUBSET Word
  <2>1. \A x \in y : x >= Degree + 1 - k => x - (Degree + 1 - k) \in 0..Degree
    BY <1>1, <1>3
  <2>2. QED
    BY <1>1, <2>1 DEF Shr
<1>5. ASSUME NEW e
      PROVE  e \in Up(hi, Degree + 1) <=> e \in Up(y, k) /\ ~(e <= Degree)
  <2>1. ASSUME e \in Up(hi, Degree + 1)
        PROVE  e \in Up(y, k) /\ ~(e <= Degree)
    <3>1. PICK d \in hi : e = d + (Degree + 1)
      BY <2>1 DEF Up
    <3>2. PICK x \in y : x >= Degree + 1 - k /\ d = x - (Degree + 1 - k)
      BY <3>1 DEF Shr
    <3>3. e = x + k /\ ~(e <= Degree)
      BY <1>1, <1>3, <3>1, <3>2
    <3>4. QED
      BY <3>3 DEF Up
  <2>2. ASSUME e \in Up(y, k), ~(e <= Degree)
        PROVE  e \in Up(hi, Degree + 1)
    <3>1. PICK x \in y : e = x + k
      BY <2>2 DEF Up
    <3>2. x >= Degree + 1 - k /\ e = (x - (Degree + 1 - k)) + (Degree + 1)
      BY <1>1, <1>3, <2>2, <3>1
    <3>3. x - (Degree + 1 - k) \in hi
      BY <3>2 DEF Shr
    <3>4. QED
      BY <3>2, <3>3 DEF Up
  <2>3. QED
    BY <2>1, <2>2
<1> HIDE DEF hi
<1>6. Up(y, k) = Xor(Shl(y, k), Up(hi, Degree + 1))
  BY <1>2, <1>5 DEF Xor
<1>7. QED
  BY <1>2, <1>4, <1>6 DEF hi

\* Registers are polynomials.
LEMMA WordFacts ==
    /\ SUBSET Word \subseteq Polys /\ Word = 0..Degree /\ Poly \in SUBSET Word
    /\ \A p, q \in SUBSET Word : Xor(p, q) \in SUBSET Word
    /\ \A w \in Pairs : Value(w) \in Polys
    /\ SUBSET (0..Degree - 1) \subseteq SUBSET Word /\ Bytes \subseteq SUBSET Word
    /\ \A p, q \in SUBSET (0..Degree - 1) : Xor(p, q) \in SUBSET (0..Degree - 1)
    /\ Bytes \subseteq SUBSET (0..Degree - 1)
<1>1. SUBSET Word \subseteq Polys /\ Word = 0..Degree /\ Poly \in SUBSET Word /\ Degree + 1 \in Nat
  <2>1. Degree \in Int /\ Degree \in Nat /\ Degree + 1 \in Nat /\ Word = 0..Degree
    BY Sizes DEF Word
  <2>2. \A p \in SUBSET (0..Degree) : p \in Polys
    BY <2>1, PolysClosed
  <2>3. QED
    BY <2>1, <2>2, Sizes
<1>2. \A p, q \in SUBSET Word : Xor(p, q) \in SUBSET Word
  BY DEF Xor
<1>3. ASSUME NEW w \in Pairs PROVE Value(w) \in Polys
  <2>1. w.l \in Polys /\ w.h \in Polys
    BY <1>1 DEF Pairs
  <2>2. QED
    BY <1>1, <2>1, PolysClosed DEF Value
<1>4. \A b \in Bytes : b \subseteq 0..Degree - 1
  <2> SUFFICES ASSUME NEW b \in Bytes, NEW e \in b PROVE e \in 0..Degree - 1
    OBVIOUS
  <2>1. e \in 0..ByteBits - 1
    BY Sizes
  <2>2. QED
    BY <2>1, Sizes
<1>5. 0..Degree - 1 \subseteq 0..Degree
  BY Sizes
<1>6. \A p, q \in SUBSET (0..Degree - 1) : Xor(p, q) \in SUBSET (0..Degree - 1)
  BY DEF Xor
<1>7. QED
  BY <1>1, <1>2, <1>3, <1>4, <1>5, <1>6

\* The two steps of polymod, for Poly.
ClearHigh(w, i) ==
    IF i \in w.h THEN [h |-> Xor(w.h, Shr(Shl(Poly, Degree - Max(Poly)), Degree - i)),
                       l |-> Xor(w.l, Shl(Shl(Poly, Degree - Max(Poly)), i + 1))]
    ELSE w
ClearLow(l, i) ==
    IF i \in l THEN Xor(l, Shr(Shl(Poly, Degree - Max(Poly)), Degree - i)) ELSE l

\* Poly is as high as a register.
LEMMA TopIsPoly == Shl(Poly, Degree - Max(Poly)) = Poly
<1>1. Degree - Max(Poly) = 0
  BY Sizes DEF Degree
<1>2. Shl(Poly, 0) = Up(Poly, 0) \intersect Word
  BY DEF Shl, Up
<1>3. Up(Poly, 0) = Poly
  BY UpFacts, PolyAssumption
<1>4. QED
  BY <1>1, <1>2, <1>3, WordFacts

\* A step of the first loop keeps the residue and clears a bit of the high
\* register.
LEMMA ClearHighOne ==
    ASSUME NEW w \in Pairs, NEW i \in 0..Degree
    PROVE  /\ ClearHigh(w, i) \in Pairs
           /\ w.h \subseteq 0..i => /\ ClearHigh(w, i).h \subseteq 0..i - 1
                                    /\ Same(Value(ClearHigh(w, i)), Value(w))
<1> DEFINE H == Shr(Poly, Degree - i)
           L == Shl(Poly, i + 1)
           v == [h |-> Xor(w.h, H), l |-> Xor(w.l, L)]
<1>1. Degree \in Nat /\ i \in Nat /\ i + 1 \in Nat /\ i + 1 \in 0..Degree + 1 /\ Degree + 1 - (i + 1) = Degree - i
  BY Sizes
<1>2. /\ L \in SUBSET Word /\ H \in SUBSET Word
      /\ Up(Poly, i + 1) = Xor(L, Up(H, Degree + 1))
  <2> DEFINE k == i + 1
  <2>1. k \in 0..Degree + 1 /\ Degree + 1 - k = Degree - i /\ Poly \in SUBSET Word
    BY <1>1, WordFacts
  <2> HIDE DEF k
  <2>2. /\ Shl(Poly, k) \in SUBSET Word /\ Shr(Poly, Degree + 1 - k) \in SUBSET Word
        /\ Up(Poly, k) = Xor(Shl(Poly, k), Up(Shr(Poly, Degree + 1 - k), Degree + 1))
    BY <2>1, Overflow
  <2>3. QED
    BY <2>1, <2>2 DEF k
<1>3. w.h \in SUBSET Word /\ w.l \in SUBSET Word
  BY DEF Pairs
<1>4. v \in Pairs
  BY <1>2, <1>3, WordFacts DEF Pairs
<1>5. ClearHigh(w, i) = IF i \in w.h THEN v ELSE w
  BY TopIsPoly DEF ClearHigh
<1>6. i \in H /\ H \subseteq 0..i
  <2>1. Degree \in Poly /\ Degree >= Degree - i /\ Degree - (Degree - i) = i
    BY <1>1, Sizes
  <2>2. i \in H
    BY <2>1 DEF Shr
  <2>3. \A x \in Poly : x >= Degree - i => x - (Degree - i) \in 0..i
    <3> SUFFICES ASSUME NEW x \in Poly, x >= Degree - i PROVE x - (Degree - i) \in 0..i
      OBVIOUS
    <3>1. x \in 0..Degree
      BY Sizes
    <3>2. QED
      BY <1>1, <3>1
  <2>4. QED
    BY <2>2, <2>3 DEF Shr
<1>7. ASSUME w.h \subseteq 0..i, i \in w.h
      PROVE  v.h \subseteq 0..i - 1 /\ Same(Value(v), Value(w))
  <2>1. i \notin Xor(w.h, H) /\ Xor(w.h, H) \subseteq 0..i
    BY <1>6, <1>7 DEF Xor
  <2> HIDE DEF H, L
  <2>2. v.h \subseteq 0..i - 1
    BY <1>1, <2>1
  <2>3. w.h \in SUBSET Nat /\ H \in SUBSET Nat
    BY <1>2, <1>3, WordFacts, PolysClosed
  <2>4. Up(Xor(w.h, H), Degree + 1) = Xor(Up(w.h, Degree + 1), Up(H, Degree + 1))
    BY <1>1, <2>3, UpFacts
  <2>5. Value(v) = Xor(Value(w), Up(Poly, i + 1))
    BY <1>2, <2>4, XorFacts DEF Value
  <2>6. QED
    BY <1>1, <2>2, <2>5, SameFacts, WordFacts
<1>8. ASSUME w.h \subseteq 0..i, i \notin w.h
      PROVE  w.h \subseteq 0..i - 1 /\ Same(Value(w), Value(w))
  <2>1. w.h \subseteq 0..i - 1
    BY <1>1, <1>8
  <2>2. QED
    BY <2>1, SameFacts, WordFacts
<1> HIDE DEF v
<1>9. QED
  BY <1>4, <1>5, <1>7, <1>8

\* The second loop has one step left for a Poly as high as a register.
LEMMA ClearLowOne ==
    ASSUME NEW l \in SUBSET Word
    PROVE  ClearLow(l, Degree) \in SUBSET (0..Degree - 1) /\ Same(ClearLow(l, Degree), l)
<1>1. Degree \in Nat /\ Degree - Degree = 0 /\ Word = 0..Degree
  BY Sizes, WordFacts
<1>2. Shr(Poly, 0) = Poly
  <2>1. \A x \in Poly : x >= 0 /\ x - 0 = x
    BY PolyAssumption
  <2>2. QED
    BY <2>1 DEF Shr
<1>3. ClearLow(l, Degree) = IF Degree \in l THEN Xor(l, Poly) ELSE l
  BY <1>1, <1>2, TopIsPoly DEF ClearLow
<1>4. CASE Degree \in l
  <2>1. Xor(l, Poly) \in SUBSET Word /\ Degree \notin Xor(l, Poly)
    BY <1>4, WordFacts, Sizes DEF Xor
  <2>2. Up(Poly, 0) = Poly
    BY UpFacts, PolyAssumption
  <2>3. l \in Polys /\ 0 \in Nat
    BY WordFacts
  <2>4. Same(Xor(l, Up(Poly, 0)), l)
    BY <2>3, SameFacts
  <2>5. Xor(l, Poly) \in SUBSET (0..Degree - 1)
    BY <1>1, <2>1
  <2>6. QED
    BY <1>3, <1>4, <2>2, <2>4, <2>5
<1>5. CASE Degree \notin l
  <2>1. l \in SUBSET (0..Degree - 1)
    BY <1>1, <1>5
  <2>2. QED
    BY <1>3, <1>5, <2>1, SameFacts, WordFacts
<1>6. QED
  BY <1>4, <1>5

\* polymod finds the residue of the two registers.
LEMMA PolymodIs ==
    ASSUME NEW nh \in SUBSET Word, NEW nl \in SUBSET Word
    PROVE  /\ polymod(nh, nl, Poly) \in SUBSET (0..Degree - 1)
           /\ Same(polymod(nh, nl, Poly), Value([h |-> nh, l |-> nl]))
<1> DEFINE w0 == [h |-> nh, l |-> nl]
           Hs == Down(Degree, 0)
           Ls == Down(Degree, Max(Poly))
           IteratesH(it) == it = [s \in SUBSET DOMAIN Hs |->
                IF s = {} THEN w0 ELSE LET x == Max(s) IN ClearHigh(it[s \ {x}], Hs[x])]
           iterH == CHOOSE it : it = [s \in SUBSET DOMAIN Hs |->
                IF s = {} THEN w0 ELSE LET x == Max(s) IN ClearHigh(it[s \ {x}], Hs[x])]
           low == iterH[DOMAIN Hs].l
           IteratesL(it) == it = [s \in SUBSET DOMAIN Ls |->
                IF s = {} THEN low ELSE LET x == Max(s) IN ClearLow(it[s \ {x}], Ls[x])]
           iterL == CHOOSE it : it = [s \in SUBSET DOMAIN Ls |->
                IF s = {} THEN low ELSE LET x == Max(s) IN ClearLow(it[s \ {x}], Ls[x])]
           n == Degree + 1
           S == Pairs
           F == [p \in (1..n) \X S |-> ClearHigh(p[2], Hs[p[1]])]
<1>1. /\ n \in Nat /\ DOMAIN Hs = 1..n /\ \A i \in 1..n : Hs[i] = n - i /\ n - i \in 0..Degree
      /\ DOMAIN Ls = {1} /\ Ls[1] = Degree
  BY Sizes DEF Down, Degree
<1>2. polymod(nh, nl, Poly) = iterL[DOMAIN Ls]
  BY Zenon DEF polymod, FoldLeft, MapThenFoldSet, ClearHigh, ClearLow
<1>3. w0 \in S /\ F \in [(1..n) \X S -> S]
  <2>1. w0 \in S
    BY DEF Pairs
  <2>2. \A p \in (1..n) \X S : ClearHigh(p[2], Hs[p[1]]) \in S
    BY <1>1, ClearHighOne
  <2>3. QED
    BY <2>1, <2>2
<1>4. IteratesH(iterH)
  <2>1. PICK g : FoldsBy(g, F, S, w0, n)
    <3> HIDE DEF F, n, w0
    <3>1. QED
      BY <1>1, <1>3, FoldExists
  <2>2. IteratesH(g)
    <3>1. ASSUME NEW s \in SUBSET (1..n), s # {}
          PROVE  F[<<Max(s), g[s \ {Max(s)}]>>] = ClearHigh(g[s \ {Max(s)}], Hs[Max(s)])
      <4>1. Max(s) \in 1..n
        BY <1>1, <3>1, Largest
      <4>2. g[s \ {Max(s)}] \in S
        BY <2>1 DEF FoldsBy
      <4>3. QED
        BY <4>1, <4>2
    <3> HIDE DEF F, n, w0, Hs
    <3>2. \A s \in SUBSET (1..n) :
            g[s] = IF s = {} THEN w0 ELSE ClearHigh(g[s \ {Max(s)}], Hs[Max(s)])
      BY <2>1, <3>1 DEF FoldsBy
    <3>3. g = [s \in SUBSET (1..n) |-> g[s]]
      BY <2>1 DEF FoldsBy
    <3>4. QED
      BY <1>1, <3>2, <3>3
  <2> HIDE DEF IteratesH
  <2>3. IteratesH(CHOOSE it : IteratesH(it))
    BY <2>2, Zenon
  <2>4. QED
    BY <2>3 DEF IteratesH
<1> HIDE DEF iterH
<1>5. \A s \in SUBSET (1..n) :
        iterH[s] = IF s = {} THEN w0 ELSE ClearHigh(iterH[s \ {Max(s)}], Hs[Max(s)])
  BY <1>1, <1>4
<1>6. PICK f \in [0..n -> S] :
         /\ f[0] = w0 /\ \A i \in 1..n : f[i] = F[<<i, f[i-1]>>]
         /\ f[n] = iterH[1..n]
  <2>1. iterH[{}] = w0
    BY <1>5
  <2>2. \A s \in SUBSET (1..n) :
           s # {} /\ iterH[s \ {Max(s)}] \in S
              => iterH[s] = F[<<Max(s), iterH[s \ {Max(s)}]>>]
    <3> SUFFICES ASSUME NEW s \in SUBSET (1..n), s # {}, iterH[s \ {Max(s)}] \in S
                 PROVE  iterH[s] = F[<<Max(s), iterH[s \ {Max(s)}]>>]
      OBVIOUS
    <3>1. Max(s) \in 1..n
      BY <1>1, Largest
    <3>2. QED
      BY <1>5, <3>1
  <2>3. n \in Nat /\ Recurs(iterH, F, S, w0, n)
    BY <1>1, <1>3, <2>1, <2>2 DEF Recurs
  <2> HIDE DEF F, n, w0, S, Hs, Ls, low
  <2>4. \E f : Trace(f, F, S, w0, n) /\ f[n] = iterH[1..n]
    BY <2>3, FoldTrace
  <2>5. QED
    BY <2>4 DEF Trace
<1>7. \A i \in 1..n : f[i] = ClearHigh(f[i-1], n - i)
  <2> SUFFICES ASSUME NEW i \in 1..n PROVE f[i] = ClearHigh(f[i-1], n - i)
    OBVIOUS
  <2>1. i - 1 \in 0..n
    BY <1>1
  <2>2. QED
    BY <1>1, <1>6, <2>1
<1> HIDE DEF F, n, S, w0, Hs, Ls, low
<1>8. \A i \in 0..n : f[i].h \subseteq 0..n - 1 - i /\ Same(Value(f[i]), Value(w0))
  <2> DEFINE Good(i) == f[i].h \subseteq 0..n - 1 - i /\ Same(Value(f[i]), Value(w0))
             D == {i \in 0..n : ~Good(i)}
  <2> SUFFICES ASSUME D # {} PROVE FALSE
    OBVIOUS
  <2>1. Good(0)
    <3>1. n - 1 - 0 = Degree /\ w0.h \in SUBSET Word /\ w0 \in Pairs
      BY <1>1, <1>3, Sizes DEF n, w0, S
    <3>2. QED
      BY <1>6, <3>1, WordFacts, SameFacts
  <2>2. 0 \notin D /\ D \in SUBSET (0..n)
    BY <2>1
  <2>3. PICK i \in 1..n : i \in D /\ i-1 \in 0..n /\ i-1 \notin D
    <3> HIDE DEF D
    <3>1. QED
      BY <1>1, <2>2, FirstFailure
  <2>4. Good(i-1)
    BY <2>3
  <2>5. /\ n - 1 - (i - 1) = n - i /\ n - i - 1 = n - 1 - i /\ n - i \in 0..Degree
        /\ f[i-1] \in Pairs /\ f[i] \in Pairs /\ f[i] = ClearHigh(f[i-1], n - i)
    BY <1>1, <1>6, <1>7, <2>3 DEF S
  <2>6. f[i].h \subseteq 0..n - 1 - i /\ Same(Value(f[i]), Value(f[i-1]))
    BY <2>4, <2>5, ClearHighOne
  <2>7. Value(f[i]) \in Polys /\ Value(f[i-1]) \in Polys /\ Value(w0) \in Polys
    BY <1>3, <2>5, WordFacts DEF S
  <2>8. Same(Value(f[i]), Value(w0))
    BY <2>4, <2>6, <2>7, SameFacts
  <2>9. QED
    BY <2>3, <2>6, <2>8
<1>9. low \in SUBSET Word /\ Same(low, Value(w0))
  <2>1. low = f[n].l /\ f[n] \in Pairs /\ n \in 0..n
    BY <1>1, <1>6 DEF low, S
  <2>2. f[n].h = {}
    <3>1. f[n].h \subseteq 0..n - 1 - n
      BY <1>8, <2>1
    <3>2. 0..n - 1 - n = {}
      BY <1>1
    <3>3. QED
      BY <3>1, <3>2
  <2>3. Value(f[n]) = low
    <3>1. Up({}, Degree + 1) = {}
      BY <1>1, UpFacts DEF n
    <3>2. Value(f[n]) = Xor(f[n].l, {})
      BY <2>2, <3>1 DEF Value
    <3>3. QED
      BY <2>1, <3>2, XorFacts
  <2>4. QED
    BY <1>8, <2>1, <2>3 DEF Pairs
<1>10. iterL[{1}] = ClearLow(low, Degree)
  <2> DEFINE g == [s \in SUBSET {1} |-> IF s = {} THEN low ELSE ClearLow(low, Degree)]
  <2>1. \A s \in SUBSET {1} : s # {} => s = {1} /\ Max(s) = 1 /\ s \ {Max(s)} = {}
    <3>1. Max({1}) = 1
      BY DEF Max
    <3>2. QED
      BY <3>1
  <2>2. IteratesL(g)
    <3>1. \A s \in SUBSET {1} : g[s] = IF s = {} THEN low ELSE ClearLow(g[s \ {Max(s)}], Ls[Max(s)])
      BY <1>1, <2>1
    <3>2. g = [s \in SUBSET {1} |-> g[s]]
      OBVIOUS
    <3> HIDE DEF g
    <3>3. QED
      BY <1>1, <3>1, <3>2
  <2> HIDE DEF IteratesL, g
  <2>3. IteratesL(CHOOSE it : IteratesL(it))
    BY <2>2, Zenon
  <2>4. IteratesL(iterL)
    BY <2>3 DEF IteratesL
  <2> HIDE DEF iterL
  <2>5. \A s \in SUBSET {1} : iterL[s] = IF s = {} THEN low ELSE ClearLow(iterL[s \ {Max(s)}], Ls[Max(s)])
    BY <1>1, <2>4 DEF IteratesL
  <2>6. iterL[{}] = low /\ iterL[{1}] = ClearLow(iterL[{1} \ {Max({1})}], Ls[Max({1})])
    BY <2>5
  <2>7. QED
    BY <1>1, <2>1, <2>6
<1>11. QED
  <2>1. polymod(nh, nl, Poly) = ClearLow(low, Degree)
    BY <1>1, <1>2, <1>10
  <2>2. /\ ClearLow(low, Degree) \in SUBSET (0..Degree - 1)
        /\ Same(ClearLow(low, Degree), low)
    BY <1>9, ClearLowOne
  <2>3. ClearLow(low, Degree) \in Polys /\ low \in Polys /\ Value(w0) \in Polys
    BY <1>3, <1>9, <2>2, WordFacts DEF S
  <2>4. QED
    BY <1>9, <2>1, <2>2, <2>3, SameFacts DEF w0

\* A recursion over any element of a finite set has a solution.
FoldsAny(g, F, S, base, x) ==
    /\ g \in [SUBSET x -> S]
    /\ \A s \in SUBSET x :
          g[s] = IF s = {} THEN base
                 ELSE F[<<CHOOSE z \in s : TRUE, g[s \ {CHOOSE z \in s : TRUE}]>>]

\* By induction on the size of the subsets.
LEMMA FoldAnyExists ==
    ASSUME NEW x, IsFiniteSet(x), NEW S, NEW base \in S, NEW F \in [x \X S -> S]
    PROVE  \E g : FoldsAny(g, F, S, base, x)
<1> DEFINE C(s) == CHOOSE z \in s : TRUE
           Small(m) == {s \in SUBSET x : Cardinality(s) <= m}
           Solves(g, m) ==
              /\ g \in [Small(m) -> S]
              /\ \A s \in Small(m) : g[s] = IF s = {} THEN base ELSE F[<<C(s), g[s \ {C(s)}]>>]
           n == Cardinality(x)
           D == {m \in 0..n : ~ \E g : Solves(g, m)}
<1>1. n \in Nat /\ \A s \in SUBSET x : IsFiniteSet(s) /\ Cardinality(s) \in Nat /\ Cardinality(s) <= n
  BY FS_CardinalityType, FS_Subset
<1>2. ASSUME NEW s \in SUBSET x, s # {}
      PROVE  C(s) \in x /\ s \ {C(s)} \in SUBSET x /\ Cardinality(s \ {C(s)}) = Cardinality(s) - 1
  <2>1. C(s) \in s
    BY <1>2
  <2> HIDE DEF C
  <2>2. Cardinality(s \ {C(s)}) = Cardinality(s) - 1
    BY <1>1, <2>1, FS_RemoveElement
  <2>3. QED
    BY <2>1, <2>2
<1>3. \A g : Solves(g, n) => FoldsAny(g, F, S, base, x)
  <2>1. Small(n) = SUBSET x
    BY <1>1
  <2>2. QED
    BY <2>1, Zenon DEF FoldsAny
<1> HIDE DEF C
<1>4. ~ D # {}
  <2> SUFFICES ASSUME D # {} PROVE FALSE
    OBVIOUS
  <2>1. 0 \notin D
    <3> DEFINE g == [s \in Small(0) |-> base]
    <3>1. \A s \in Small(0) : s = {}
      BY <1>1, FS_EmptySet
    <3>2. Solves(g, 0)
      BY <3>1
    <3>3. QED
      BY <3>2
  <2>2. PICK m \in 1..n : m \in D /\ m-1 \in 0..n /\ m-1 \notin D
    <3>1. D \in SUBSET (0..n)
      OBVIOUS
    <3> HIDE DEF D, n
    <3>2. QED
      BY <1>1, <2>1, <3>1, FirstFailure
  <2>3. PICK g : Solves(g, m-1)
    BY <2>2
  <2> DEFINE h == [s \in Small(m) |-> IF s = {} THEN base ELSE F[<<C(s), g[s \ {C(s)}]>>]]
  <2>4. ASSUME NEW s \in Small(m), s # {}
        PROVE  /\ C(s) \in x /\ g[s \ {C(s)}] \in S /\ h[s \ {C(s)}] = g[s \ {C(s)}]
               /\ s \ {C(s)} \in Small(m)
    <3> DEFINE t == s \ {C(s)}
    <3>1. C(s) \in x /\ t \in SUBSET x /\ Cardinality(t) = Cardinality(s) - 1
      BY <1>2, <2>4
    <3>2. t \in Small(m-1) /\ t \in Small(m)
      BY <1>1, <3>1
    <3> HIDE DEF t
    <3>3. g[t] = IF t = {} THEN base ELSE F[<<C(t), g[t \ {C(t)}]>>]
      BY <2>3, <3>2
    <3>4. h[t] = IF t = {} THEN base ELSE F[<<C(t), g[t \ {C(t)}]>>]
      BY <3>2
    <3>5. h[t] = g[t] /\ g[t] \in S
      BY <2>3, <3>2, <3>3, <3>4
    <3> HIDE DEF h
    <3>6. QED
      BY <3>1, <3>2, <3>5 DEF t
  <2>5. \A s \in Small(m) :
           h[s] = IF s = {} THEN base ELSE F[<<C(s), h[s \ {C(s)}]>>]
    <3> SUFFICES ASSUME NEW s \in Small(m)
                 PROVE  h[s] = IF s = {} THEN base ELSE F[<<C(s), h[s \ {C(s)}]>>]
      OBVIOUS
    <3>1. h[s] = IF s = {} THEN base ELSE F[<<C(s), g[s \ {C(s)}]>>]
      OBVIOUS
    <3>2. s # {} => h[s \ {C(s)}] = g[s \ {C(s)}]
      BY <2>4
    <3> HIDE DEF h
    <3>3. QED
      BY <3>1, <3>2
  <2>6. h \in [Small(m) -> S]
    <3>1. ASSUME NEW s \in Small(m)
          PROVE  (IF s = {} THEN base ELSE F[<<C(s), g[s \ {C(s)}]>>]) \in S
      BY <2>4
    <3>2. QED
      BY <3>1
  <2> HIDE DEF h
  <2>7. Solves(h, m)
    BY <2>5, <2>6
  <2>8. \E f : Solves(f, m)
    <3> HIDE DEF Solves
    <3>1. QED
      BY <2>7
  <2>9. QED
    BY <2>2, <2>8
<1>5. n \in 0..n /\ n \notin D
  <2>1. n \in 0..n
    BY <1>1
  <2> HIDE DEF D, n
  <2>2. QED
    BY <1>4, <2>1
<1>6. \E g : Solves(g, n)
  <2> HIDE DEF Solves
  <2>1. QED
    BY <1>5
<1>7. QED
  <2> HIDE DEF Solves
  <2>1. QED
    BY <1>3, <1>6

\* A step of polymult.
Mult(i, w, y) == [h |-> Xor(w.h, Shr(y, Degree + 1 - i)), l |-> Xor(w.l, Shl(y, i))]

\* It adds y times a power of x.
LEMMA MultOne ==
    ASSUME NEW y \in SUBSET Word, NEW i \in Word, NEW w \in Pairs
    PROVE  Mult(i, w, y) \in Pairs /\ Value(Mult(i, w, y)) = Xor(Value(w), Up(y, i))
<1> DEFINE H == Shr(y, Degree + 1 - i)
           L == Shl(y, i)
<1>1. Degree + 1 \in Nat /\ i \in 0..Degree + 1 /\ w.h \in SUBSET Word /\ w.l \in SUBSET Word
  BY Sizes, WordFacts DEF Pairs
<1>2. L \in SUBSET Word /\ H \in SUBSET Word /\ Up(y, i) = Xor(L, Up(H, Degree + 1))
  BY <1>1, Overflow
<1>3. Mult(i, w, y) = [h |-> Xor(w.h, H), l |-> Xor(w.l, L)]
  BY DEF Mult
<1> HIDE DEF H, L
<1>4. Mult(i, w, y) \in Pairs
  BY <1>1, <1>2, <1>3, WordFacts DEF Pairs
<1>5. w.h \in SUBSET Nat /\ H \in SUBSET Nat
  BY <1>1, <1>2, WordFacts, PolysClosed
<1>6. Up(Xor(w.h, H), Degree + 1) = Xor(Up(w.h, Degree + 1), Up(H, Degree + 1))
  BY <1>1, <1>5, UpFacts
<1>7. Value(Mult(i, w, y)) = Xor(Value(w), Up(y, i))
  BY <1>2, <1>3, <1>6, XorFacts DEF Value
<1>8. QED
  BY <1>4, <1>7

\* The product with a register that is congruent to a power of x.
LEMMA PolymultIs ==
    ASSUME NEW x \in SUBSET Word, NEW y \in SUBSET Word, NEW K \in Nat, Same(y, {K})
    PROVE  polymult(x, y) \in Pairs /\ Same(Value(polymult(x, y)), Up(x, K))
<1> DEFINE w0 == [h |-> {}, l |-> {}]
           F == [p \in x \X Pairs |-> Mult(p[1], p[2], y)]
           Iterates(it) == it = [s \in SUBSET x |->
                IF s = {} THEN w0 ELSE LET z == CHOOSE z \in s : TRUE IN Mult(z, it[s \ {z}], y)]
           iter == CHOOSE it : it = [s \in SUBSET x |->
                IF s = {} THEN w0 ELSE LET z == CHOOSE z \in s : TRUE IN Mult(z, it[s \ {z}], y)]
<1>1. IsFiniteSet(x) /\ x \subseteq Nat /\ y \in Polys /\ {K} \in Polys
  <2>1. x \in Polys /\ y \in Polys /\ {K} \in Polys
    BY WordFacts, PolysClosed
  <2>2. QED
    BY <2>1, PolysClosed
<1>2. polymult(x, y) = iter[x]
  BY Zenon DEF polymult, FoldSet, MapThenFoldSet, Mult
<1>3. w0 \in Pairs /\ F \in [x \X Pairs -> Pairs]
  BY MultOne DEF Pairs
<1>4. Iterates(iter)
  <2>1. PICK g : FoldsAny(g, F, Pairs, w0, x)
    <3> HIDE DEF F, w0
    <3>1. QED
      BY <1>1, <1>3, FoldAnyExists
  <2>2. Iterates(g)
    <3>1. ASSUME NEW s \in SUBSET x, s # {}
          PROVE  LET z == CHOOSE z \in s : TRUE IN F[<<z, g[s \ {z}]>>] = Mult(z, g[s \ {z}], y)
      <4> DEFINE z == CHOOSE z \in s : TRUE
      <4>1. z \in x
        BY <3>1
      <4> HIDE DEF z
      <4>2. g[s \ {z}] \in Pairs
        BY <2>1 DEF FoldsAny
      <4>3. F[<<z, g[s \ {z}]>>] = Mult(z, g[s \ {z}], y)
        BY <4>1, <4>2
      <4>4. QED
        BY <4>3 DEF z
    <3> HIDE DEF F, w0
    <3>2. \A s \in SUBSET x :
             g[s] = IF s = {} THEN w0 ELSE LET z == CHOOSE z \in s : TRUE IN Mult(z, g[s \ {z}], y)
      BY <2>1, <3>1 DEF FoldsAny
    <3>3. g = [s \in SUBSET x |-> g[s]]
      BY <2>1 DEF FoldsAny
    <3>4. QED
      BY <3>2, <3>3, Zenon
  <2> HIDE DEF Iterates
  <2>3. Iterates(CHOOSE it : Iterates(it))
    BY <2>2, Zenon
  <2>4. QED
    BY <2>3 DEF Iterates
<1> HIDE DEF iter, F
<1>5. iter[{}] = w0
  BY <1>4
<1>6. ASSUME NEW s \in SUBSET x, s # {}
      PROVE  \E z \in s : iter[s] = Mult(z, iter[s \ {z}], y)
  <2>1. (CHOOSE z \in s : TRUE) \in s
    BY <1>6
  <2>2. iter[s] = LET z == CHOOSE z \in s : TRUE IN Mult(z, iter[s \ {z}], y)
    BY <1>4, <1>6, Zenon
  <2>3. QED
    BY <2>1, <2>2
<1> DEFINE Good(s) == iter[s] \in Pairs /\ Same(Value(iter[s]), Up(s, K))
           D == {s \in SUBSET x : ~Good(s)}
<1>7. D = {}
  <2> SUFFICES ASSUME D # {} PROVE FALSE
    OBVIOUS
  <2>1. D \subseteq FiniteSubsetsOf(x)
    BY <1>1, FS_Subset DEF FiniteSubsetsOf
  <2>2. PICK s \in D : \A t \in D : <<t, s>> \notin StrictSubsetOrdering(x)
    <3> HIDE DEF D
    <3>1. QED
      BY <2>1, FS_StrictSubsetOrderingWellFounded, WFMin
  <2>3. CASE s = {}
    <3>1. Value(w0) = {} /\ Up({}, K) = {}
      <4>1. Degree + 1 \in Nat
        BY Sizes
      <4>2. QED
        BY <4>1, UpFacts, XorFacts DEF Value
    <3>2. Good(s)
      BY <1>3, <1>5, <2>3, <3>1, SameFacts, PolysClosed
    <3>3. QED
      BY <2>2, <3>2
  <2>4. CASE s # {}
    <3>1. PICK z \in s : iter[s] = Mult(z, iter[s \ {z}], y)
      BY <1>6, <2>2, <2>4
    <3> DEFINE t == s \ {z}
    <3>2. Good(t)
      <4>1. s \in SUBSET x /\ t \in SUBSET x /\ t # s
        BY <2>2, <3>1
      <4>2. <<t, s>> \in StrictSubsetOrdering(x)
        BY <4>1 DEF StrictSubsetOrdering
      <4>3. QED
        BY <2>2, <4>1, <4>2
    <3>3. z \in Word /\ z \in Nat /\ t \in SUBSET Word /\ t \in SUBSET Nat
      BY <1>1, <2>2, <3>1
    <3>4. iter[s] \in Pairs /\ Value(iter[s]) = Xor(Value(iter[t]), Up(y, z))
      BY <3>1, <3>2, <3>3, MultOne
    <3>5. Same(Up(y, z), {K + z})
      <4>1. Same(Up(y, z), Up({K}, z))
        BY <1>1, <3>3, SameFacts
      <4>2. Up({K}, z) = {K + z}
        BY <3>3, UpFacts
      <4>3. QED
        BY <4>1, <4>2
    <3>6. Up(s, K) = Xor(Up(t, K), {K + z})
      <4>1. s = Xor(t, {z}) /\ {z} \in SUBSET Nat
        BY <3>1, <3>3 DEF Xor
      <4>2. Up(Xor(t, {z}), K) = Xor(Up(t, K), Up({z}, K))
        BY <3>3, <4>1, UpFacts
      <4>3. Up({z}, K) = {K + z}
        BY <3>3, UpFacts
      <4>4. QED
        BY <4>1, <4>2, <4>3
    <3>7. Value(iter[t]) \in Polys /\ Up(t, K) \in Polys /\ Up(y, z) \in Polys /\ {K + z} \in Polys
      <4>1. t \in Polys /\ K + z \in Nat
        <5>1. t \in Polys
          BY <3>3, WordFacts
        <5>2. QED
          BY <3>3, <5>1
      <4>2. QED
        BY <1>1, <3>2, <3>3, <4>1, WordFacts, PolysClosed
    <3>8. Same(Value(iter[s]), Up(s, K))
      <4> DEFINE a == Value(iter[t])
                 b == Up(t, K)
                 c == Up(y, z)
                 d == {K + z}
      <4>1. a \in Polys /\ b \in Polys /\ c \in Polys /\ d \in Polys /\ Same(a, b) /\ Same(c, d)
        BY <3>2, <3>5, <3>7
      <4> HIDE DEF a, b, c, d
      <4>2. Same(Xor(a, c), Xor(b, d))
        BY <4>1, SameFacts
      <4>3. QED
        BY <3>4, <3>6, <4>2 DEF a, b, c, d
    <3>9. QED
      BY <2>2, <3>4, <3>8
  <2>5. QED
    BY <2>3, <2>4
<1>8. Good(x)
  BY <1>7
<1>9. QED
  BY <1>2, <1>8

\* polymmult: the residue of that product.
LEMMA PolymmultIs ==
    ASSUME NEW x \in SUBSET Word, NEW y \in SUBSET Word, NEW K \in Nat, Same(y, {K})
    PROVE  /\ polymmult(x, y, Poly) \in SUBSET (0..Degree - 1)
           /\ Same(polymmult(x, y, Poly), Up(x, K))
<1> DEFINE w == polymult(x, y)
<1>1. w \in Pairs /\ Same(Value(w), Up(x, K))
  BY PolymultIs
<1>2. polymmult(x, y, Poly) = polymod(w.h, w.l, Poly)
  BY DEF polymmult
<1> HIDE DEF w
<1>3. w.h \in SUBSET Word /\ w.l \in SUBSET Word /\ w = [h |-> w.h, l |-> w.l]
  BY <1>1 DEF Pairs
<1>4. /\ polymod(w.h, w.l, Poly) \in SUBSET (0..Degree - 1)
      /\ Same(polymod(w.h, w.l, Poly), Value(w))
  BY <1>3, PolymodIs
<1>5. polymod(w.h, w.l, Poly) \in Polys /\ Value(w) \in Polys /\ Up(x, K) \in Polys
  BY <1>1, <1>4, WordFacts, PolysClosed
<1>6. QED
  BY <1>1, <1>2, <1>4, <1>5, SameFacts

-----------------------------------------------------------------------------
(* The tables, and appending a byte.                                       *)

\* The table of what is pushed out of the register.
LEMMA TableT ==
    ASSUME NEW i \in Bytes
    PROVE  \E r \in SUBSET (0..Degree - 1) :
              T[i] = r \union Shl(i, Degree) /\ Same(r, Up(i, Degree))
<1> DEFINE T1 == polymod({}, {Degree}, Poly)
<1>1. Degree \in Nat /\ Degree + 1 \in Nat /\ {Degree} \in SUBSET Word /\ {} \in SUBSET Word
  BY Sizes DEF Word
<1>2. Value([h |-> {}, l |-> {Degree}]) = {Degree}
  BY <1>1, UpFacts, XorFacts DEF Value
<1>3. T1 \in SUBSET (0..Degree - 1) /\ Same(T1, {Degree})
  BY <1>1, <1>2, PolymodIs
<1>4. T[i] = polymmult(i, T1, Poly) \union Shl(i, Degree)
  BY DEF T
<1> HIDE DEF T1
<1>5. T1 \in SUBSET Word /\ i \in SUBSET Word
  BY <1>3, WordFacts
<1>6. /\ polymmult(i, T1, Poly) \in SUBSET (0..Degree - 1)
      /\ Same(polymmult(i, T1, Poly), Up(i, Degree))
  BY <1>1, <1>3, <1>5, PolymmultIs
<1>7. QED
  BY <1>4, <1>6

\* append8 multiplies by a power of x, adds the byte and reduces.
LEMMA Append8Is ==
    ASSUME NEW p \in SUBSET (0..Degree - 1), NEW m \in Bytes
    PROVE  /\ append8(p, m) \in SUBSET (0..Degree - 1)
           /\ Same(append8(p, m), Xor(Up(p, ByteBits), m))
<1> DEFINE hi == Shr(p, Shift)
           up == Up(p, ByteBits)
           lo == {e \in up : e < Degree}
           top == Shl(hi, Degree)
<1>1. /\ Degree \in Nat /\ ByteBits \in Nat /\ ByteBits > 0 /\ Shift \in Nat
      /\ Degree = Shift + ByteBits /\ Word = 0..Degree
  BY Sizes, WordFacts
<1>2. \A e \in p : e \in Nat /\ e < Degree
  BY <1>1
<1>3. hi \in Bytes
  <2>1. \A e \in p : e >= Shift => e - Shift \in 0..ByteBits - 1
    BY <1>1, <1>2
  <2>2. QED
    BY <2>1 DEF Shr, Bytes
<1>4. PICK r \in SUBSET (0..Degree - 1) : T[hi] = r \union top /\ Same(r, Up(hi, Degree))
  <2> HIDE DEF hi
  <2>1. QED
    BY <1>3, TableT
<1>5. ASSUME NEW e
      PROVE  e \in Up(hi, Degree) <=> e \in up /\ ~(e < Degree)
  <2>1. ASSUME e \in Up(hi, Degree) PROVE e \in up /\ ~(e < Degree)
    <3>1. PICK d \in hi : e = d + Degree
      BY <2>1 DEF Up
    <3>2. PICK x \in p : x >= Shift /\ d = x - Shift
      BY <3>1 DEF Shr
    <3>3. e = x + ByteBits /\ ~(e < Degree)
      BY <1>1, <1>2, <3>1, <3>2
    <3>4. QED
      BY <3>3 DEF Up
  <2>2. ASSUME e \in up, ~(e < Degree) PROVE e \in Up(hi, Degree)
    <3>1. PICK x \in p : e = x + ByteBits
      BY <2>2 DEF Up
    <3>2. x >= Shift /\ e = (x - Shift) + Degree
      BY <1>1, <1>2, <2>2, <3>1
    <3>3. x - Shift \in hi
      BY <3>2 DEF Shr
    <3>4. QED
      BY <3>2, <3>3 DEF Up
  <2>3. QED
    BY <2>1, <2>2
<1>6. \A e \in up : e \in Nat /\ e >= ByteBits
  BY <1>1, <1>2 DEF Up
<1>7. Shl(p, ByteBits) = up \intersect Word /\ top = Up(hi, Degree) \intersect Word
  BY DEF Shl, Up
<1> HIDE DEF hi, up, top
<1>8. top \subseteq {Degree} /\ Shl(p, ByteBits) = lo \union top
  BY <1>1, <1>5, <1>6, <1>7
<1>9. up = Xor(lo, Up(hi, Degree))
  BY <1>5 DEF Xor
<1>10. lo \in SUBSET (0..Degree - 1) /\ lo \intersect m = {} /\ m \in SUBSET (0..Degree - 1)
  <2>1. \A e \in m : e \in 0..ByteBits - 1
    BY Sizes
  <2>2. QED
    BY <1>1, <1>6, <2>1
<1> DEFINE low == Xor(lo, m)
<1>11. low = lo \union m /\ low \in SUBSET (0..Degree - 1) /\ Degree \notin low
  <2>1. Degree \notin 0..Degree - 1
    BY <1>1
  <2>2. QED
    BY <1>10, <2>1 DEF Xor
<1>12. append8(p, m) = Xor(Shl(p, ByteBits) \union m, T[hi])
  BY DEF append8, hi
<1>13. append8(p, m) = Xor(low, r)
  <2>1. Degree \notin r
    BY <1>1, <1>4
  <2>2. append8(p, m) = Xor(low \union top, r \union top)
    BY <1>4, <1>8, <1>11, <1>12
  <2> HIDE DEF low, lo
  <2>3. QED
    BY <1>8, <1>11, <2>1, <2>2 DEF Xor
<1>14. Xor(up, m) = Xor(low, Up(hi, Degree))
  BY <1>9, XorFacts
<1> HIDE DEF lo, low
<1>15. low \in Polys /\ r \in Polys /\ Up(hi, Degree) \in Polys
  <2>1. low \in Polys /\ r \in Polys /\ hi \in Polys
    BY <1>3, <1>4, <1>11, WordFacts
  <2>2. QED
    BY <1>1, <2>1, PolysClosed
<1>16. Same(Xor(low, r), Xor(low, Up(hi, Degree)))
  BY <1>4, <1>15, SameFacts
<1>17. append8(p, m) \in SUBSET (0..Degree - 1)
  BY <1>4, <1>11, <1>13, WordFacts
<1>18. QED
  BY <1>13, <1>14, <1>16, <1>17 DEF up

\* The power of x by which a byte has moved when it leaves the window.
LEMMA SizeShiftIs ==
    SizeShift \in SUBSET (0..Degree - 1) /\ Same(SizeShift, {ByteBits * (WindowSize - 1)})
<1> DEFINE Js == Down(WindowSize - 1, 1)
           n == WindowSize - 1
           S == SUBSET (0..Degree - 1)
           F == [q \in (1..n) \X S |-> append8(q[2], {})]
           Iterates(it) == it = [s \in SUBSET DOMAIN Js |->
                IF s = {} THEN {0} ELSE LET x == Max(s) IN append8(it[s \ {x}], {})]
           iter == CHOOSE it : it = [s \in SUBSET DOMAIN Js |->
                IF s = {} THEN {0} ELSE LET x == Max(s) IN append8(it[s \ {x}], {})]
<1>1. n \in Nat /\ DOMAIN Js = 1..n
  BY SizesAssumption DEF Down
<1>2. SizeShift = iter[DOMAIN Js]
  BY Zenon DEF SizeShift, FoldLeft, MapThenFoldSet
<1>3. {0} \in S /\ F \in [(1..n) \X S -> S]
  <2>1. {0} \in S
    BY Sizes
  <2>2. {} \in Bytes
    BY DEF Bytes
  <2>3. \A q \in (1..n) \X S : append8(q[2], {}) \in S
    BY <2>2, Append8Is
  <2>4. QED
    BY <2>1, <2>3
<1>4. Iterates(iter)
  <2>1. PICK g : FoldsBy(g, F, S, {0}, n)
    <3> HIDE DEF F, n
    <3>1. QED
      BY <1>1, <1>3, FoldExists
  <2>2. Iterates(g)
    <3>1. ASSUME NEW s \in SUBSET (1..n), s # {}
          PROVE  F[<<Max(s), g[s \ {Max(s)}]>>] = append8(g[s \ {Max(s)}], {})
      <4>1. Max(s) \in 1..n
        BY <1>1, <3>1, Largest
      <4>2. g[s \ {Max(s)}] \in S
        BY <2>1 DEF FoldsBy
      <4>3. QED
        BY <4>1, <4>2
    <3> HIDE DEF F, n, S
    <3>2. \A s \in SUBSET (1..n) :
            g[s] = IF s = {} THEN {0} ELSE append8(g[s \ {Max(s)}], {})
      BY <2>1, <3>1 DEF FoldsBy
    <3>3. g = [s \in SUBSET (1..n) |-> g[s]]
      BY <2>1 DEF FoldsBy
    <3>4. QED
      BY <1>1, <3>2, <3>3
  <2> HIDE DEF Iterates
  <2>3. Iterates(CHOOSE it : Iterates(it))
    BY <2>2, Zenon
  <2>4. QED
    BY <2>3 DEF Iterates
<1> HIDE DEF iter
<1>5. \A s \in SUBSET (1..n) :
        iter[s] = IF s = {} THEN {0} ELSE append8(iter[s \ {Max(s)}], {})
  BY <1>1, <1>4
<1>6. PICK f : Trace(f, F, S, {0}, n) /\ f[n] = iter[1..n]
  <2>1. \A s \in SUBSET (1..n) :
           s # {} /\ iter[s \ {Max(s)}] \in S
              => iter[s] = F[<<Max(s), iter[s \ {Max(s)}]>>]
    <3> SUFFICES ASSUME NEW s \in SUBSET (1..n), s # {}, iter[s \ {Max(s)}] \in S
                 PROVE  iter[s] = F[<<Max(s), iter[s \ {Max(s)}]>>]
      OBVIOUS
    <3>1. Max(s) \in 1..n
      BY <1>1, Largest
    <3>2. QED
      BY <1>5, <3>1
  <2>2. iter[{}] = {0}
    BY <1>5
  <2>3. n \in Nat
    BY <1>1
  <2> HIDE DEF F, n, S
  <2>4. Recurs(iter, F, S, {0}, n)
    BY <1>3, <2>1, <2>2 DEF Recurs
  <2>5. QED
    BY <2>3, <2>4, FoldTrace
<1>7. f[0] = {0} /\ \A i \in 1..n : f[i-1] \in S /\ f[i] \in S /\ f[i] = append8(f[i-1], {})
  <2>1. f[0] = {0} /\ \A i \in 0..n : f[i] \in S
    BY <1>6 DEF Trace
  <2>2. \A i \in 1..n : i - 1 \in 0..n /\ i \in 0..n
    BY <1>1
  <2>3. \A i \in 1..n : f[i] = F[<<i, f[i-1]>>]
    BY <1>6 DEF Trace
  <2>4. QED
    BY <2>1, <2>2, <2>3
<1> HIDE DEF F, n, Js
<1>8. \A i \in 0..n : Same(f[i], {ByteBits * i})
  <2> DEFINE D == {i \in 0..n : ~Same(f[i], {ByteBits * i})}
  <2> SUFFICES ASSUME D # {} PROVE FALSE
    OBVIOUS
  <2>1. 0 \notin D /\ D \in SUBSET (0..n)
    <3>1. ByteBits * 0 = 0 /\ {0} \in Polys
      BY Sizes, PolysClosed
    <3>2. QED
      BY <1>7, <3>1, SameFacts
  <2>2. PICK i \in 1..n : i \in D /\ i-1 \in 0..n /\ i-1 \notin D
    <3> HIDE DEF D
    <3>1. QED
      BY <1>1, <2>1, FirstFailure
  <2>3. Same(f[i-1], {ByteBits * (i-1)})
    BY <2>2
  <2>4. i - 1 \in Nat /\ ByteBits \in Nat /\ ByteBits * (i-1) \in Nat /\ ByteBits * (i-1) + ByteBits = ByteBits * i
    BY <1>1, Sizes
  <2> DEFINE q == f[i-1]
             a == ByteBits * (i-1)
  <2>5. q \in SUBSET (0..Degree - 1) /\ f[i] = append8(q, {}) /\ {} \in Bytes
    BY <1>7, <2>2 DEF Bytes
  <2>6. a \in Nat /\ ByteBits \in Nat /\ Same(q, {a}) /\ f[i] \in SUBSET (0..Degree - 1)
    BY <1>7, <2>2, <2>3, <2>4
  <2> HIDE DEF q, a, S
  <2>7. Same(append8(q, {}), Up(q, ByteBits))
    BY <2>5, Append8Is, XorFacts
  <2>8. q \in Polys /\ {a} \in Polys /\ f[i] \in Polys
    BY <2>5, <2>6, WordFacts, PolysClosed
  <2>9. Same(Up(q, ByteBits), {a + ByteBits})
    <3>1. Same(Up(q, ByteBits), Up({a}, ByteBits))
      BY <2>6, <2>8, SameFacts
    <3>2. Up({a}, ByteBits) = {a + ByteBits}
      BY <2>6, UpFacts
    <3>3. QED
      BY <3>1, <3>2
  <2>10. Up(q, ByteBits) \in Polys /\ {a + ByteBits} \in Polys
    BY <2>6, <2>8, PolysClosed
  <2>11. Same(f[i], {a + ByteBits})
    BY <2>5, <2>7, <2>8, <2>9, <2>10, SameFacts
  <2>12. QED
    BY <2>2, <2>4, <2>11 DEF a
<1>9. SizeShift = f[n] /\ n \in 0..n
  BY <1>1, <1>2, <1>6
<1>10. f[n] \in S
  BY <1>6, <1>9 DEF Trace
<1>11. QED
  BY <1>8, <1>9, <1>10 DEF n

\* The table of what leaves the window.
LEMMA TableU ==
    ASSUME NEW i \in Bytes
    PROVE  /\ U[i] \in SUBSET (0..Degree - 1)
           /\ Same(U[i], Up(i, ByteBits * (WindowSize - 1)))
<1>1. U[i] = polymmult(i, SizeShift, Poly)
  BY DEF U
<1>2. SizeShift \in SUBSET Word /\ i \in SUBSET Word
  BY SizeShiftIs, WordFacts
<1>3. ByteBits * (WindowSize - 1) \in Nat
  BY Sizes, SizesAssumption
<1>4. QED
  BY <1>1, <1>2, <1>3, SizeShiftIs, PolymmultIs

-----------------------------------------------------------------------------
(* The window.                                                             *)

\* The byte of a position, zero before the first one.
At(f, i) == IF i \in 1..Len(f) THEN f[i] ELSE {}

\* The last WindowSize bytes as a polynomial.
WindowPoly(f) == UNION {Up(At(f, Len(f) - t), ByteBits * t) : t \in 0..WindowSize - 1}

\* Where the byte is that was fed t bytes ago.
Slot(pos, t) == IF pos >= t THEN pos - t ELSE pos - t + WindowSize

Registers ==
    [fingerprint : SUBSET (0..Degree - 1), bufpos : -1..WindowSize - 1,
     cur_seg_size : Nat, buf : [0..WindowSize - 1 -> Bytes]]

\* The fingerprint and its buffer after the bytes f.
Rolled(rp, f) ==
    /\ rp \in Registers /\ f \in Seq(Bytes)
    /\ \A t \in 0..WindowSize - 1 : rp.buf[Slot(rp.bufpos, t)] = At(f, Len(f) - t)
    /\ Same(rp.fingerprint, WindowPoly(f))

\* Multiples of ByteBits.
LEMMA TimesFacts ==
    /\ \A t \in Nat : ByteBits * t \in Nat /\ ByteBits * (t + 1) = ByteBits * t + ByteBits
    /\ \A t, u \in Nat : t <= u => ByteBits * t <= ByteBits * u
    /\ ByteBits * 0 = 0
<1>1. ByteBits \in Nat
  BY Sizes
<1>2. \A t \in Nat : ByteBits * t \in Nat /\ ByteBits * (t + 1) = ByteBits * t + ByteBits
  BY <1>1
<1>3. ASSUME NEW t \in Nat, NEW u \in Nat, t <= u
      PROVE  ByteBits * t <= ByteBits * u
  <2>1. PICK d \in Nat : u = t + d
    <3>1. u - t \in Nat /\ u = t + (u - t)
      BY <1>3
    <3>2. QED
      BY <3>1
  <2>2. ByteBits * u = ByteBits * t + ByteBits * d
    BY <1>1, <2>1
  <2>3. ByteBits * d \in Nat /\ ByteBits * t \in Nat
    BY <1>1
  <2>4. QED
    BY <2>2, <2>3
<1>4. ByteBits * 0 = 0
  BY <1>1
<1>5. QED
  BY <1>2, <1>3, <1>4

\* A byte is one also before the first.
LEMMA AtFacts ==
    ASSUME NEW f \in Seq(Bytes), NEW i
    PROVE  At(f, i) \in Bytes
<1>1. {} \in Bytes
  BY DEF Bytes
<1>2. QED
  BY <1>1, ElementOfSeq DEF At

\* A window is a polynomial of WindowSize bytes.
LEMMA WindowPolyType ==
    ASSUME NEW f \in Seq(Bytes)
    PROVE  /\ WindowPoly(f) \in SUBSET (0..ByteBits * WindowSize - 1)
           /\ WindowPoly(f) \in Polys
<1> DEFINE n == ByteBits * WindowSize
<1>1. n \in Nat /\ WindowSize \in Nat /\ WindowSize - 1 \in Nat
  BY Sizes, SizesAssumption
<1>2. ASSUME NEW t \in 0..WindowSize - 1, NEW x \in Up(At(f, Len(f) - t), ByteBits * t)
      PROVE  x \in 0..n - 1
  <2>1. PICK e \in At(f, Len(f) - t) : x = e + ByteBits * t
    BY DEF Up
  <2>2. e \in 0..ByteBits - 1
    BY AtFacts, Sizes
  <2> DEFINE a == ByteBits * t
  <2>3. t \in Nat /\ t + 1 \in Nat /\ t + 1 <= WindowSize
    BY <1>1
  <2>4. a + ByteBits <= n /\ a \in Nat /\ ByteBits \in Nat
    <3>1. a + ByteBits = ByteBits * (t + 1) /\ a \in Nat
      BY <2>3, TimesFacts
    <3>2. ByteBits * (t + 1) <= n
      BY <1>1, <2>3, TimesFacts
    <3>3. QED
      BY <3>1, <3>2, Sizes
  <2> HIDE DEF a, n
  <2>5. x = e + a
    BY <2>1 DEF a
  <2>6. QED
    BY <1>1, <2>2, <2>4, <2>5
<1>3. WindowPoly(f) \in SUBSET (0..n - 1)
  BY <1>2 DEF WindowPoly
<1> HIDE DEF n
<1>4. WindowPoly(f) \in Polys
  <2>1. n - 1 \in Int
    BY <1>1
  <2>2. QED
    BY <2>1, <1>3, PolysClosed
<1>5. QED
  BY <1>3, <1>4 DEF n

\* A new byte moves the others and pushes the oldest one out.
LEMMA WindowStep ==
    ASSUME NEW f \in Seq(Bytes), NEW m \in Bytes
    PROVE  \E lo \in Polys :
              /\ WindowPoly(f) = Xor(lo, Up(At(f, Len(f) - (WindowSize - 1)), ByteBits * (WindowSize - 1)))
              /\ WindowPoly(Append(f, m)) = Xor(Up(lo, ByteBits), m)
<1> DEFINE n == Len(f)
           W == WindowSize
           g == Append(f, m)
           B == ByteBits
           Part(t) == Up(At(f, n - t), B * t)
           lo == UNION {Part(t) : t \in 0..W - 2}
           old == Up(At(f, n - (W - 1)), B * (W - 1))
<1>1. n \in Nat /\ W \in Nat /\ W - 1 \in Nat /\ B \in Nat
  BY Sizes, SizesAssumption
<1>2. /\ g \in Seq(Bytes) /\ Len(g) = n + 1 /\ At(g, n + 1) = m
      /\ \A t \in 0..W - 2 : At(g, (n + 1) - (t + 1)) = At(f, n - t)
  <2>1. g \in Seq(Bytes) /\ Len(g) = n + 1 /\ g[n + 1] = m /\ \A i \in 1..n : g[i] = f[i]
    BY AppendFacts
  <2>2. At(g, n + 1) = m
    BY <1>1, <2>1 DEF At
  <2>3. ASSUME NEW t \in 0..W - 2
        PROVE  At(g, (n + 1) - (t + 1)) = At(f, n - t)
    <3>1. (n + 1) - (t + 1) = n - t /\ n - t \in Int /\ n - t <= n
      BY <1>1
    <3>2. n - t \in 1..n + 1 <=> n - t \in 1..n
      BY <1>1, <3>1
    <3> HIDE DEF g, n
    <3>3. QED
      BY <2>1, <3>1, <3>2 DEF At, n
  <2>4. QED
    BY <2>1, <2>2, <2>3
<1>3. WindowPoly(f) = lo \union old
  <2>1. 0..W - 1 = (0..W - 2) \union {W - 1}
    BY <1>1
  <2>2. QED
    BY <2>1 DEF WindowPoly
<1>4. \A x \in lo : x \in Nat /\ x < B * (W - 1)
  <2> SUFFICES ASSUME NEW t \in 0..W - 2, NEW x \in Part(t)
               PROVE  x \in Nat /\ x < B * (W - 1)
    OBVIOUS
  <2>1. PICK e \in At(f, n - t) : x = e + B * t
    BY DEF Up
  <2>2. e \in 0..B - 1
    BY AtFacts, Sizes
  <2>3. t \in Nat /\ t + 1 \in Nat /\ t + 1 <= W - 1
    BY <1>1
  <2> DEFINE a == B * t
             b == B * (W - 1)
  <2>4. a \in Nat /\ b \in Nat /\ a + B <= b
    <3>1. a + B = B * (t + 1) /\ a \in Nat
      BY <2>3, TimesFacts
    <3>2. B * (t + 1) <= b /\ b \in Nat
      BY <1>1, <2>3, TimesFacts
    <3>3. QED
      BY <3>1, <3>2
  <2>5. x = e + a
    BY <2>1
  <2> HIDE DEF a, b
  <2>6. x \in Nat /\ x < b
    BY <1>1, <2>2, <2>4, <2>5
  <2>7. QED
    BY <2>6 DEF b
<1>5. \A x \in old : x >= B * (W - 1) /\ x \in Nat
  <2> DEFINE b == B * (W - 1)
  <2>1. b \in Nat
    BY <1>1, TimesFacts
  <2>2. \A e \in At(f, n - (W - 1)) : e \in Nat
    BY AtFacts, Sizes
  <2>3. old = {e + b : e \in At(f, n - (W - 1))}
    BY DEF Up
  <2> HIDE DEF b, old
  <2>4. \A x \in old : x >= b /\ x \in Nat
    BY <2>1, <2>2, <2>3
  <2>5. QED
    BY <2>4 DEF b
<1>6. lo \in Polys
  <2>1. lo \subseteq WindowPoly(f) /\ WindowPoly(f) \in SUBSET (0..B * W - 1) /\ B * W - 1 \in Int
    BY <1>1, <1>3, WindowPolyType
  <2>2. lo \in SUBSET (0..B * W - 1)
    BY <2>1
  <2>3. QED
    BY <2>1, <2>2, PolysClosed
<1>7. WindowPoly(f) = Xor(lo, old)
  <2>1. lo \intersect old = {}
    <3> DEFINE b == B * (W - 1)
    <3>1. b \in Nat /\ (\A x \in lo : x \in Nat /\ x < b) /\ \A x \in old : x >= b /\ x \in Nat
      BY <1>1, <1>4, <1>5, TimesFacts
    <3> HIDE DEF b, lo, old
    <3>2. QED
      BY <3>1
  <2> HIDE DEF lo, old
  <2>2. QED
    BY <1>3, <2>1, XorFacts
<1>8. WindowPoly(g) = Up(lo, B) \union m
  <2> DEFINE New(t) == Up(At(g, (n + 1) - t), B * t)
  <2>1. WindowPoly(g) = UNION {New(t) : t \in 0..W - 1}
    BY <1>2 DEF WindowPoly
  <2>2. New(0) = m
    <3>1. (n + 1) - 0 = n + 1 /\ B * 0 = 0 /\ m \in SUBSET Nat
      BY <1>1, TimesFacts DEF Bytes
    <3>2. QED
      BY <1>2, <3>1, UpFacts
  <2>3. ASSUME NEW t \in 0..W - 2
        PROVE  New(t + 1) = Up(Part(t), B)
    <3>1. At(g, (n + 1) - (t + 1)) = At(f, n - t) /\ At(f, n - t) \in SUBSET Nat
      BY <1>2, AtFacts DEF Bytes
    <3>2. t \in Nat /\ B * (t + 1) = B * t + B /\ B * t \in Nat
      BY <1>1, TimesFacts
    <3>3. Up(Up(At(f, n - t), B * t), B) = Up(At(f, n - t), B * t + B)
      BY <1>1, <3>1, <3>2, UpFacts
    <3>4. QED
      BY <3>1, <3>2, <3>3
  <2>4. Up(lo, B) = UNION {Up(Part(t), B) : t \in 0..W - 2}
    <3> HIDE DEF Part, B
    <3>1. QED
      BY DEF Up
  <2> HIDE DEF New, Part, g, lo
  <2>5. \A t \in 0..W - 1 : t = 0 \/ (t - 1 \in 0..W - 2 /\ t = (t - 1) + 1)
    BY <1>1
  <2>6. 0 \in 0..W - 1 /\ \A t \in 0..W - 2 : t + 1 \in 0..W - 1
    BY <1>1
  <2>7. WindowPoly(g) \subseteq Up(lo, B) \union m
    <3> SUFFICES ASSUME NEW t \in 0..W - 1, NEW x \in New(t)
                 PROVE  x \in Up(lo, B) \union m
      BY <2>1
    <3>1. CASE t = 0
      BY <2>2, <3>1
    <3>2. CASE t # 0
      <4>1. t - 1 \in 0..W - 2 /\ New(t) = Up(Part(t - 1), B)
        BY <2>3, <2>5, <3>2
      <4>2. QED
        BY <2>4, <4>1
    <3>3. QED
      BY <3>1, <3>2
  <2>8. Up(lo, B) \union m \subseteq WindowPoly(g)
    BY <2>1, <2>2, <2>3, <2>4, <2>6
  <2>9. QED
    BY <2>7, <2>8
<1>9. Up(lo, B) \intersect m = {}
  <2>1. \A e \in m : e \in 0..B - 1
    BY Sizes
  <2>2. \A e \in Up(lo, B) : e >= B /\ e \in Nat
    <3>1. \A x \in lo : x \in Nat
      BY <1>4
    <3> HIDE DEF lo
    <3>2. QED
      BY <1>1, <3>1 DEF Up
  <2> HIDE DEF lo
  <2>3. QED
    BY <1>1, <2>1, <2>2
<1>10. WindowPoly(g) = Xor(Up(lo, B), m)
  <2> HIDE DEF lo, g
  <2>1. QED
    BY <1>8, <1>9, XorFacts
<1>11. QED
  <2> HIDE DEF lo
  <2>1. QED
    BY <1>6, <1>7, <1>10

\* Nothing has been fed to a fresh fingerprint.
LEMMA FreshIs == Rolled(Fresh, <<>>) /\ Fresh.cur_seg_size = 0
<1>1. WindowSize \in Nat /\ WindowSize > 0
  BY SizesAssumption
<1>2. {} \in Bytes /\ <<>> \in Seq(Bytes) /\ \A i : At(<<>>, i) = {}
  BY DEF Bytes, At
<1>3. Fresh \in Registers
  <2>1. -1 \in -1..WindowSize - 1 /\ {} \in SUBSET (0..Degree - 1) /\ 0 \in Nat
    BY <1>1
  <2>2. [j \in 0..WindowSize - 1 |-> {}] \in [0..WindowSize - 1 -> Bytes]
    BY <1>2
  <2>3. QED
    BY <2>1, <2>2 DEF Fresh, Registers
<1>4. \A t \in 0..WindowSize - 1 : Fresh.buf[Slot(Fresh.bufpos, t)] = At(<<>>, Len(<<>>) - t)
  <2> SUFFICES ASSUME NEW t \in 0..WindowSize - 1
               PROVE  Fresh.buf[Slot(-1, t)] = At(<<>>, Len(<<>>) - t)
    BY DEF Fresh
  <2>1. Slot(-1, t) \in 0..WindowSize - 1
    BY <1>1 DEF Slot
  <2>2. QED
    BY <1>2, <2>1 DEF Fresh
<1>5. WindowPoly(<<>>) = {}
  <2>1. \A t \in 0..WindowSize - 1 : Up(At(<<>>, Len(<<>>) - t), ByteBits * t) = {}
    BY <1>2 DEF Up
  <2>2. QED
    BY <2>1 DEF WindowPoly
<1>6. Same(Fresh.fingerprint, WindowPoly(<<>>))
  BY <1>5, SameFacts, PolysClosed DEF Fresh
<1>7. QED
  BY <1>2, <1>3, <1>4, <1>6 DEF Rolled, Fresh

\* slide8 feeds a byte.
LEMMA SlideIs ==
    ASSUME NEW rp, NEW f, Rolled(rp, f), NEW m \in Bytes
    PROVE  Rolled(slide8(rp, m), Append(f, m)) /\ slide8(rp, m).cur_seg_size = rp.cur_seg_size
<1> DEFINE W == WindowSize
           n == Len(f)
           g == Append(f, m)
           pos == rp.bufpos
           next == NextPos(rp)
           old == rp.buf[next]
           x == Xor(rp.fingerprint, U[old])
           sl == slide8(rp, m)
<1>1. W \in Nat /\ W > 0
  BY SizesAssumption
<1>2. /\ f \in Seq(Bytes) /\ rp \in Registers /\ n \in Nat
      /\ pos \in -1..W - 1 /\ rp.fingerprint \in SUBSET (0..Degree - 1)
      /\ rp.cur_seg_size \in Nat /\ rp.buf \in [0..W - 1 -> Bytes]
  BY DEF Rolled, Registers
<1>3. next \in 0..W - 1 /\ next = Slot(pos, W - 1)
  BY <1>1, <1>2 DEF NextPos, Slot
<1>4. old = At(f, n - (W - 1)) /\ old \in Bytes
  <2>1. W - 1 \in 0..W - 1
    BY <1>1
  <2>2. QED
    BY <1>2, <1>3, <2>1 DEF Rolled
<1>5. x \in SUBSET (0..Degree - 1) /\ Same(U[old], Up(old, ByteBits * (W - 1)))
      /\ U[old] \in SUBSET (0..Degree - 1)
  <2> HIDE DEF old
  <2>1. QED
    BY <1>2, <1>4, TableU, WordFacts
<1>6. append8(x, m) \in SUBSET (0..Degree - 1) /\ Same(append8(x, m), Xor(Up(x, ByteBits), m))
  <2> HIDE DEF x
  <2>1. QED
    BY <1>5, Append8Is
<1>7. sl = [rp EXCEPT !.bufpos = next, !.buf = [rp.buf EXCEPT ![next] = m],
                      !.fingerprint = append8(x, m)]
  BY DEF slide8
<1> HIDE DEF next, old, x, sl
<1>8. /\ sl.bufpos = next /\ sl.buf = [rp.buf EXCEPT ![next] = m]
      /\ sl.fingerprint = append8(x, m) /\ sl.cur_seg_size = rp.cur_seg_size
      /\ sl \in Registers
  <2>1. [rp.buf EXCEPT ![next] = m] \in [0..W - 1 -> Bytes]
    BY <1>2, <1>3
  <2>2. next \in -1..W - 1
    BY <1>1, <1>3
  <2>3. QED
    BY <1>2, <1>6, <1>7, <2>1, <2>2 DEF Registers
<1>9. g \in Seq(Bytes) /\ Len(g) = n + 1 /\ g[n + 1] = m /\ \A i \in 1..n : g[i] = f[i]
  BY <1>2, AppendFacts
<1>10. \A t \in 0..W - 1 : sl.buf[Slot(sl.bufpos, t)] = At(g, Len(g) - t)
  <2> SUFFICES ASSUME NEW t \in 0..W - 1
               PROVE  sl.buf[Slot(next, t)] = At(g, (n + 1) - t)
    BY <1>8, <1>9
  <2>1. CASE t = 0
    <3>1. Slot(next, t) = next /\ (n + 1) - t = n + 1 /\ n + 1 \in 1..n + 1
      BY <1>2, <1>3, <2>1 DEF Slot
    <3>2. sl.buf[next] = m
      BY <1>2, <1>3, <1>8
    <3>3. At(g, n + 1) = m
      BY <1>9, <3>1 DEF At
    <3>4. QED
      BY <3>1, <3>2, <3>3
  <2>2. CASE t # 0
    <3>1. t - 1 \in 0..W - 1 /\ t - 1 <= W - 2
      BY <1>1, <2>2
    <3>2. next = IF pos + 1 >= W THEN 0 ELSE pos + 1
      BY DEF next, NextPos
    <3>3. /\ Slot(next, t) = Slot(pos, t - 1) /\ Slot(next, t) \in 0..W - 1
          /\ Slot(next, t) # next
      <4>1. pos \in Int /\ -1 <= pos /\ pos <= W - 1 /\ t \in Nat /\ t >= 1 /\ t <= W - 1
        BY <1>1, <1>2, <2>2
      <4> HIDE DEF pos
      <4>2. CASE pos + 1 >= W
        BY <1>1, <3>2, <4>1, <4>2 DEF Slot
      <4>3. CASE ~(pos + 1 >= W)
        BY <1>1, <3>2, <4>1, <4>3 DEF Slot
      <4>4. QED
        BY <4>2, <4>3
    <3>4. sl.buf[Slot(next, t)] = rp.buf[Slot(pos, t - 1)]
      BY <1>2, <1>3, <1>8, <3>3
    <3>5. rp.buf[Slot(pos, t - 1)] = At(f, n - (t - 1))
      BY <3>1 DEF Rolled
    <3>6. At(f, n - (t - 1)) = At(g, (n + 1) - t)
      <4>1. n - (t - 1) = (n + 1) - t /\ n - (t - 1) <= n /\ n - (t - 1) \in Int
        BY <1>2, <2>2
      <4>2. n - (t - 1) \in 1..n + 1 <=> n - (t - 1) \in 1..n
        BY <1>2, <4>1
      <4> HIDE DEF g
      <4>3. QED
        BY <1>9, <4>1, <4>2 DEF At
    <3>7. QED
      BY <3>4, <3>5, <3>6
  <2>3. QED
    BY <2>1, <2>2
<1>11. Same(sl.fingerprint, WindowPoly(g))
  <2> DEFINE out == Up(old, ByteBits * (W - 1))
             a == rp.fingerprint
             u == U[old]
  <2>1. PICK lo \in Polys : /\ WindowPoly(f) = Xor(lo, out)
                            /\ WindowPoly(g) = Xor(Up(lo, ByteBits), m)
    BY <1>2, <1>4, WindowStep
  <2>2. a \in Polys /\ u \in Polys /\ x \in Polys /\ m \in Polys /\ append8(x, m) \in Polys
    BY <1>2, <1>5, <1>6, WordFacts
  <2>3. out \in Polys /\ WindowPoly(f) \in Polys
    <3>1. old \in Polys
      BY <1>4, WordFacts
    <3>2. W - 1 \in Nat
      BY <1>1
    <3>3. ByteBits * (W - 1) \in Nat
      BY <3>2, TimesFacts
    <3>4. QED
      BY <1>2, <3>1, <3>3, PolysClosed, WindowPolyType
  <2>4. Same(a, WindowPoly(f)) /\ Same(u, out)
    BY <1>5 DEF Rolled
  <2>5. x = Xor(a, u)
    BY DEF x
  <2> HIDE DEF out, a, u
  <2>6. Same(x, Xor(WindowPoly(f), out))
    BY <2>2, <2>3, <2>4, <2>5, SameFacts
  <2>7. Xor(WindowPoly(f), out) = lo
    BY <2>1 DEF Xor
  <2>8. Same(x, lo) /\ ByteBits \in Nat
    BY <2>6, <2>7, Sizes
  <2>9. Same(Up(x, ByteBits), Up(lo, ByteBits)) /\ Same(m, m)
    BY <2>2, <2>8, SameFacts
  <2>10. Up(x, ByteBits) \in Polys /\ Up(lo, ByteBits) \in Polys
    BY <2>2, <2>8, PolysClosed
  <2>11. Same(Xor(Up(x, ByteBits), m), WindowPoly(g))
    BY <2>1, <2>2, <2>9, <2>10, SameFacts
  <2>12. Xor(Up(x, ByteBits), m) \in Polys /\ WindowPoly(g) \in Polys
    BY <2>1, <2>2, <2>10, PolysClosed
  <2>13. Same(append8(x, m), WindowPoly(g))
    BY <1>6, <2>2, <2>11, <2>12, SameFacts
  <2>14. QED
    BY <1>8, <2>13
<1>12. QED
  BY <1>8, <1>9, <1>10, <1>11 DEF Rolled, sl

\* The window, read as one polynomial.
LEMMA WindowIs ==
    ASSUME NEW f \in Seq(Bytes)
    PROVE  PolyOf(Window(f)) = WindowPoly(f)
<1> DEFINE n == Len(f)
           W == WindowSize
           a == Max({1, n - W + 1})
           w == Window(f)
<1>1. n \in Nat /\ W \in Nat /\ W > 0 /\ ByteBits \in Nat
  BY Sizes, SizesAssumption
<1>2. a = IF n - W + 1 >= 1 THEN n - W + 1 ELSE 1
  <2>1. \A y \in {1, n - W + 1} : y \in Int
    BY <1>1
  <2> DEFINE b == IF n - W + 1 >= 1 THEN n - W + 1 ELSE 1
  <2>2. b \in {1, n - W + 1} /\ \A y \in {1, n - W + 1} : b >= y
    BY <1>1
  <2>3. \A c \in {1, n - W + 1} : (\A y \in {1, n - W + 1} : c >= y) => c = b
    BY <2>1, <2>2
  <2> HIDE DEF b
  <2>4. Max({1, n - W + 1}) = b
    BY <2>2, <2>3 DEF Max
  <2>5. QED
    BY <2>4 DEF b
<1> HIDE DEF a
<1>3. a \in 1..n + 1 /\ a \in Int /\ n \in Int /\ n - a + 1 >= 0 /\ n - a + 1 <= W
  BY <1>1, <1>2
<1>4. w = SubSeq(f, a, n)
  BY DEF Window, a
<1>5. /\ w \in Seq(Bytes) /\ Len(w) = n - a + 1
      /\ \A j \in 1..n - a + 1 : w[j] = f[a + j - 1]
  <2>1. \A i \in a..n : f[i] \in Bytes
    BY <1>3, ElementOfSeq
  <2>2. /\ SubSeq(f, a, n) \in Seq(Bytes)
        /\ Len(SubSeq(f, a, n)) = IF a <= n THEN n - a + 1 ELSE 0
        /\ \A j \in 1..n - a + 1 : SubSeq(f, a, n)[j] = f[a + j - 1]
    BY <1>3, <2>1, SubSeqProperties
  <2>3. (IF a <= n THEN n - a + 1 ELSE 0) = n - a + 1
    BY <1>3
  <2>4. QED
    BY <1>4, <2>2, <2>3
<1> HIDE DEF w
<1>6. PolyOf(w) = UNION {Up(w[j], ByteBits * (Len(w) - j)) : j \in 1..n - a + 1}
  <2>1. DOMAIN w = 1..n - a + 1
    BY <1>5
  <2>2. QED
    BY <2>1 DEF PolyOf, Up
<1>7. ASSUME NEW j \in 1..n - a + 1
      PROVE  /\ Len(w) - j \in 0..W - 1
             /\ w[j] = At(f, n - (Len(w) - j))
  <2>1. n - (Len(w) - j) = a + j - 1 /\ a + j - 1 \in 1..n
    BY <1>3, <1>5
  <2>2. Len(w) - j \in 0..W - 1
    BY <1>1, <1>3, <1>5
  <2>3. w[j] = f[a + j - 1]
    BY <1>5
  <2>4. At(f, n - (Len(w) - j)) = f[a + j - 1]
    BY <2>1 DEF At
  <2>5. QED
    BY <2>2, <2>3, <2>4
<1>8. ASSUME NEW t \in 0..W - 1, At(f, n - t) # {}
      PROVE  Len(w) - t \in 1..n - a + 1 /\ Len(w) - (Len(w) - t) = t
  <2>1. n - t \in 1..n
    BY <1>8 DEF At
  <2>2. t \in Int /\ t <= W - 1 /\ t >= 0 /\ n - t >= 1
    BY <1>1, <2>1
  <2>3. Len(w) = n - a + 1 /\ a \in Int /\ n - t >= a
    BY <1>1, <1>2, <1>3, <1>5, <2>2
  <2>4. QED
    BY <1>1, <2>2, <2>3
<1>9. \A k : Up({}, k) = {}
  BY DEF Up
<1>10. PolyOf(w) \subseteq WindowPoly(f)
  BY <1>6, <1>7 DEF WindowPoly
<1>11. WindowPoly(f) \subseteq PolyOf(w)
  <2> SUFFICES ASSUME NEW t \in 0..W - 1, NEW x \in Up(At(f, n - t), ByteBits * t)
               PROVE  x \in PolyOf(w)
    BY DEF WindowPoly
  <2>1. At(f, n - t) # {}
    BY <1>9
  <2> DEFINE j == Len(w) - t
  <2>2. j \in 1..n - a + 1 /\ Len(w) - j = t
    BY <1>8, <2>1
  <2>3. w[j] = At(f, n - t)
    BY <1>7, <2>2
  <2> HIDE DEF j
  <2>4. QED
    BY <1>6, <2>2, <2>3
<1>12. QED
  BY <1>10, <1>11 DEF w

\* The fingerprint by its definition is the rolling one.
LEMMA FingerprintIs ==
    ASSUME NEW rp, NEW f, Rolled(rp, f)
    PROVE  rp.fingerprint = Fingerprint(f)
<1>1. f \in Seq(Bytes) /\ rp.fingerprint \in SUBSET (0..Degree - 1) /\ Same(rp.fingerprint, WindowPoly(f))
  BY DEF Rolled, Registers
<1>2. WindowPoly(f) \in SUBSET (0..ByteBits * WindowSize - 1) /\ WindowPoly(f) \in Polys
  BY <1>1, WindowPolyType
<1>3. Same(WindowPoly(f), rp.fingerprint)
  BY <1>1, <1>2, SameFacts, WordFacts
<1>4. Residue(WindowPoly(f)) = rp.fingerprint
  BY <1>1, <1>2, <1>3, ResidueIs
<1>5. QED
  BY <1>1, <1>4, WindowIs DEF Fingerprint

\* It does not depend on what is before the window.
LEMMA FingerprintOfEnd ==
    ASSUME NEW f \in Seq(Bytes), NEW g \in Seq(Bytes), Len(g) >= WindowSize
    PROVE  Fingerprint(f \o g) = Fingerprint(g)
<1> DEFINE h == f \o g
<1>1. WindowSize \in Nat /\ Len(f) \in Nat /\ Len(g) \in Nat
  BY SizesAssumption
<1>2. /\ h \in Seq(Bytes) /\ Len(h) = Len(f) + Len(g)
      /\ \A i \in 1..Len(f) + Len(g) : h[i] = IF i <= Len(f) THEN f[i] ELSE g[i - Len(f)]
  BY ConcatProperties
<1> HIDE DEF h
<1>3. \A t \in 0..WindowSize - 1 : At(h, Len(h) - t) = At(g, Len(g) - t)
  <2> SUFFICES ASSUME NEW t \in 0..WindowSize - 1
               PROVE  At(h, Len(h) - t) = At(g, Len(g) - t)
    OBVIOUS
  <2>1. /\ Len(h) - t \in 1..Len(f) + Len(g) /\ ~(Len(h) - t <= Len(f))
        /\ (Len(h) - t) - Len(f) = Len(g) - t /\ Len(g) - t \in 1..Len(g)
    BY <1>1, <1>2
  <2>2. QED
    BY <1>2, <2>1 DEF At
<1>4. WindowPoly(h) = WindowPoly(g)
  BY <1>3 DEF WindowPoly
<1>5. PolyOf(Window(h)) = PolyOf(Window(g))
  BY <1>2, <1>4, WindowIs
<1>6. QED
  BY <1>5 DEF Fingerprint, h

-----------------------------------------------------------------------------
(* Chunks.                                                                 *)

\* The bytes of the first chunks.
Keys(cs, n) == FlattenSeq([j \in 1..n |-> cs[j].key])

\* Each chunk starts where the ones before it end.
Tiles(cs, from) ==
    \A c \in DOMAIN cs : /\ cs[c].start = from + Len(Keys(cs, c - 1))
                         /\ cs[c].len = Len(cs[c].key)

\* Each one is cut by its own bytes, at its end only.
CutByOwnBytes(cs) == \A c \in DOMAIN cs : Uncut(Front(cs[c].key)) /\ IsCut(cs[c].key)

States ==
    [rp : Registers, start : Nat, len : 0..MaxSize - 1, md : Seq(Bytes), chunks : Seq(Chunk)]

\* Before a segment that is full is cut.
Held == [rp : Registers, start : Nat, len : 0..MaxSize, md : Seq(Bytes), chunks : Seq(Chunk)]

\* What the splitter has made of the bytes f, the first of them at from.
Fed(s, f, from) ==
    /\ s \in States
    /\ Rolled(s.rp, f)
    /\ s.rp.cur_seg_size = s.len /\ s.len = Len(s.md)
    /\ Keys(s.chunks, Len(s.chunks)) \o s.md = f
    /\ s.start = from + Len(Keys(s.chunks, Len(s.chunks)))
    /\ Tiles(s.chunks, from)
    /\ CutByOwnBytes(s.chunks) /\ Uncut(s.md)

\* One more chunk adds its bytes.
LEMMA KeysFacts ==
    ASSUME NEW cs \in Seq(Chunk)
    PROVE  /\ \A n \in 0..Len(cs) : Keys(cs, n) \in Seq(Bytes)
           /\ \A c \in Chunk : \A n \in 0..Len(cs) : Keys(Append(cs, c), n) = Keys(cs, n)
           /\ \A c \in Chunk : Keys(Append(cs, c), Len(cs) + 1) = Keys(cs, Len(cs)) \o c.key
<1>1. Len(cs) \in Nat /\ \A j \in 1..Len(cs) : cs[j] \in Chunk
  BY ElementOfSeq
<1>2. \A j \in 1..Len(cs) : cs[j].key \in Seq(Bytes)
  BY <1>1 DEF Chunk
<1>3. ASSUME NEW n \in 0..Len(cs)
      PROVE  [j \in 1..n |-> cs[j].key] \in Seq(Seq(Bytes)) /\ Len([j \in 1..n |-> cs[j].key]) = n
  <2>1. n \in Nat /\ \A j \in 1..n : cs[j].key \in Seq(Bytes)
    BY <1>1, <1>2
  <2>2. QED
    BY <2>1, IsASeq
<1>4. \A n \in 0..Len(cs) : Keys(cs, n) \in Seq(Bytes)
  BY <1>3, FlattenType DEF Keys
<1>5. ASSUME NEW c \in Chunk
      PROVE  /\ Append(cs, c) \in Seq(Chunk) /\ Len(Append(cs, c)) = Len(cs) + 1
             /\ Append(cs, c)[Len(cs) + 1] = c /\ \A j \in 1..Len(cs) : Append(cs, c)[j] = cs[j]
  BY AppendFacts
<1>6. ASSUME NEW c \in Chunk, NEW n \in 0..Len(cs)
      PROVE  Keys(Append(cs, c), n) = Keys(cs, n)
  <2>1. \A j \in 1..n : j \in 1..Len(cs)
    BY <1>1
  <2>2. [j \in 1..n |-> Append(cs, c)[j].key] = [j \in 1..n |-> cs[j].key]
    BY <1>5, <2>1
  <2>3. QED
    BY <2>2 DEF Keys
<1>7. ASSUME NEW c \in Chunk
      PROVE  Keys(Append(cs, c), Len(cs) + 1) = Keys(cs, Len(cs)) \o c.key
  <2> DEFINE n == Len(cs)
             d == Append(cs, c)
             a == [j \in 1..n |-> cs[j].key]
             b == [j \in 1..n + 1 |-> d[j].key]
  <2>1. n \in Nat /\ n \in 0..n /\ c.key \in Seq(Bytes)
    BY <1>1 DEF Chunk
  <2>2. /\ d[n + 1] = c /\ (\A j \in 1..n : d[j] = cs[j])
    BY <1>5
  <2>3. a \in Seq(Seq(Bytes)) /\ Len(a) = n /\ \A j \in 1..n : a[j] = cs[j].key
    BY <1>3, <2>1
  <2> HIDE DEF d, a, n
  <2>4. \A j \in 1..n + 1 : b[j] = IF j = n + 1 THEN c.key ELSE a[j]
    <3>1. \A j \in 1..n + 1 : j = n + 1 \/ j \in 1..n
      BY <2>1
    <3>2. QED
      BY <2>2, <2>3, <3>1
  <2>5. \A j \in 1..n + 1 : b[j] \in Seq(Bytes)
    <3>1. \A j \in 1..n : a[j] \in Seq(Bytes)
      BY <2>3, ElementOfSeq
    <3>2. \A j \in 1..n + 1 : j = n + 1 \/ j \in 1..n
      BY <2>1
    <3> HIDE DEF b
    <3>3. QED
      BY <2>1, <2>4, <3>1, <3>2
  <2>6. b \in Seq(Seq(Bytes)) /\ Len(b) = n + 1
    <3>1. n + 1 \in Nat /\ \A j \in 1..n + 1 : d[j].key \in Seq(Bytes)
      BY <2>1, <2>5
    <3>2. QED
      BY <3>1, IsASeq
  <2> HIDE DEF b
  <2>7. /\ Append(a, c.key) \in Seq(Seq(Bytes)) /\ Len(Append(a, c.key)) = n + 1
        /\ Append(a, c.key)[n + 1] = c.key /\ \A j \in 1..n : Append(a, c.key)[j] = a[j]
    BY <2>1, <2>3, AppendFacts
  <2>8. b = Append(a, c.key)
    <3>1. \A j \in 1..n + 1 : j = n + 1 \/ (j \in 1..n /\ j # n + 1)
      BY <2>1
    <3>2. \A j \in 1..Len(b) : b[j] = Append(a, c.key)[j]
      BY <2>4, <2>6, <2>7, <3>1
    <3>3. QED
      BY <2>6, <2>7, <3>2, SeqEqual
  <2>9. FlattenSeq(b) = FlattenSeq(a) \o c.key
    BY <2>1, <2>3, <2>8, FlattenAppend
  <2>10. QED
    BY <2>9 DEF Keys, a, b, d, n
<1>8. QED
  BY <1>4, <1>6, <1>7

\* No chunks, no bytes.
LEMMA NoKeys == Keys(<<>>, 0) = <<>> /\ Keys(<<>>, Len(<<>>)) = <<>>
<1>1. [j \in 1..0 |-> <<>>[j].key] = <<>>
  OBVIOUS
<1>2. Len(<<>>) = 0
  OBVIOUS
<1>3. QED
  BY <1>1, <1>2, FlattenEmpty DEF Keys

\* A chunk that starts where the others end tiles on.
LEMMA TilesAppend ==
    ASSUME NEW cs \in Seq(Chunk), NEW from \in Nat, Tiles(cs, from), NEW c \in Chunk,
           c.start = from + Len(Keys(cs, Len(cs))), c.len = Len(c.key)
    PROVE  Tiles(Append(cs, c), from)
<1> DEFINE n == Len(cs)
           d == Append(cs, c)
<1>1. /\ n \in Nat /\ d \in Seq(Chunk) /\ Len(d) = n + 1 /\ d[n + 1] = c
      /\ \A j \in 1..n : d[j] = cs[j]
  BY AppendFacts
<1>2. \A j \in 0..n : Keys(d, j) = Keys(cs, j)
  BY KeysFacts
<1>3. DOMAIN d = 1..n + 1 /\ DOMAIN cs = 1..n
  BY <1>1
<1> HIDE DEF d
<1>4. ASSUME NEW j \in 1..n + 1
      PROVE  d[j].start = from + Len(Keys(d, j - 1)) /\ d[j].len = Len(d[j].key)
  <2>1. j - 1 \in 0..n
    BY <1>1
  <2>2. Keys(d, j - 1) = Keys(cs, j - 1)
    BY <1>2, <2>1
  <2>3. CASE j = n + 1
    <3>1. j - 1 = n
      BY <1>1, <2>3
    <3>2. QED
      BY <1>1, <2>2, <2>3, <3>1
  <2>4. CASE j # n + 1
    <3>1. j \in 1..n
      BY <1>1, <2>4
    <3>2. cs[j].start = from + Len(Keys(cs, j - 1)) /\ cs[j].len = Len(cs[j].key)
      BY <1>3, <3>1 DEF Tiles
    <3>3. QED
      BY <1>1, <2>2, <3>1, <3>2
  <2>5. QED
    BY <2>3, <2>4
<1>5. QED
  BY <1>3, <1>4 DEF Tiles, d

\* A beginning of what is nowhere cut is nowhere cut.
LEMMA UncutFacts ==
    ASSUME NEW md \in Seq(Bytes), Uncut(md), NEW b \in Bytes
    PROVE  /\ Front(Append(md, b)) = md
           /\ ~IsCut(Append(md, b)) => Uncut(Append(md, b))
           /\ Len(md) > 0 => Uncut(Front(md))
<1> DEFINE n == Len(md)
           e == Append(md, b)
<1>1. n \in Nat /\ e \in Seq(Bytes) /\ Len(e) = n + 1 /\ SubSeq(e, 1, n) = md
  BY AppendFacts
<1>2. Front(e) = md
  <2>1. (n + 1) - 1 = n
    BY <1>1
  <2> HIDE DEF e
  <2>2. QED
    BY <1>1, <2>1 DEF Front
<1>3. ASSUME NEW s \in Seq(Bytes), NEW i \in 0..Len(s), NEW j \in 0..i
      PROVE  SubSeq(SubSeq(s, 1, i), 1, j) = SubSeq(s, 1, j)
  <2> DEFINE t == SubSeq(s, 1, i)
             u == SubSeq(t, 1, j)
             v == SubSeq(s, 1, j)
  <2>1. Len(s) \in Nat /\ i \in Nat /\ j \in Nat /\ j \in 0..Len(s)
    OBVIOUS
  <2>2. t \in Seq(Bytes) /\ Len(t) = i /\ \A k \in 1..i : t[k] = s[k]
    <3>1. 1 \in Int /\ i \in Int /\ \A k \in 1..i : s[k] \in Bytes
      BY <2>1, ElementOfSeq
    <3>2. /\ t \in Seq(Bytes) /\ Len(t) = IF 1 <= i THEN i-1+1 ELSE 0
          /\ \A k \in 1..i-1+1 : t[k] = s[1+k-1]
      BY <3>1, SubSeqProperties
    <3>3. QED
      BY <2>1, <3>2
  <2>3. v \in Seq(Bytes) /\ Len(v) = j /\ \A k \in 1..j : v[k] = s[k]
    <3>1. 1 \in Int /\ j \in Int /\ \A k \in 1..j : s[k] \in Bytes
      BY <2>1, ElementOfSeq
    <3>2. /\ v \in Seq(Bytes) /\ Len(v) = IF 1 <= j THEN j-1+1 ELSE 0
          /\ \A k \in 1..j-1+1 : v[k] = s[1+k-1]
      BY <3>1, SubSeqProperties
    <3>3. QED
      BY <2>1, <3>2
  <2> HIDE DEF t, v
  <2>4. u \in Seq(Bytes) /\ Len(u) = j /\ \A k \in 1..j : u[k] = t[k]
    <3>1. 1 \in Int /\ j \in Int /\ \A k \in 1..j : t[k] \in Bytes
      BY <2>1, <2>2, ElementOfSeq
    <3>2. /\ u \in Seq(Bytes) /\ Len(u) = IF 1 <= j THEN j-1+1 ELSE 0
          /\ \A k \in 1..j-1+1 : u[k] = t[1+k-1]
      BY <3>1, SubSeqProperties
    <3>3. QED
      BY <2>1, <3>2
  <2> HIDE DEF u
  <2>5. ASSUME NEW k \in 1..Len(u)
        PROVE  u[k] = v[k]
    <3>1. k \in 1..j /\ k \in 1..i
      BY <2>1, <2>4
    <3>2. QED
      BY <2>2, <2>3, <2>4, <3>1
  <2>6. u = v
    BY <2>3, <2>4, <2>5, SeqEqual
  <2>7. QED
    BY <2>6 DEF u, v, t
<1>4. ~IsCut(e) => Uncut(e)
  <2> SUFFICES ASSUME ~IsCut(e), NEW k \in 1..Len(e)
               PROVE  ~IsCut(SubSeq(e, 1, k))
    BY DEF Uncut
  <2>1. CASE k = n + 1
    <3>1. SubSeq(e, 1, k) = e
      <4> HIDE DEF e
      <4>1. QED
        BY <1>1, <2>1, SubSeqFull
    <3>2. QED
      BY <3>1
  <2>2. CASE k # n + 1
    <3>1. k \in 1..n /\ k \in 0..n /\ n \in 0..Len(e)
      BY <1>1, <2>2
    <3>2. SubSeq(SubSeq(e, 1, n), 1, k) = SubSeq(e, 1, k)
      <4> HIDE DEF e
      <4>1. QED
        BY <1>1, <1>3, <3>1
    <3>3. SubSeq(e, 1, k) = SubSeq(md, 1, k)
      BY <1>1, <3>2
    <3>4. QED
      BY <3>1, <3>3 DEF Uncut
  <2>3. QED
    BY <2>1, <2>2
<1>5. Len(md) > 0 => Uncut(Front(md))
  <2> SUFFICES ASSUME n > 0, NEW k \in 1..Len(Front(md))
               PROVE  ~IsCut(SubSeq(Front(md), 1, k))
    BY DEF Uncut
  <2>1. n - 1 \in 0..Len(md)
    BY <1>1
  <2>2. Len(Front(md)) = n - 1
    BY <2>1, PrefixFacts DEF Front
  <2>3. k \in 0..n - 1 /\ k \in 1..n
    BY <1>1, <2>2
  <2>4. SubSeq(Front(md), 1, k) = SubSeq(md, 1, k)
    BY <1>3, <2>1, <2>3 DEF Front
  <2>5. QED
    BY <2>3, <2>4 DEF Uncut
<1>6. QED
  BY <1>2, <1>4, <1>5

\* The code cuts where the bytes held say so.
LEMMA CutIs ==
    ASSUME NEW rp, NEW f \in Seq(Bytes), NEW md \in Seq(Bytes), Rolled(rp, f \o md),
           rp.cur_seg_size = Len(md)
    PROVE  IsSegment(rp) <=> IsCut(md)
<1>1. MinSize \in Nat /\ WindowSize \in Nat /\ WindowSize <= MinSize
  BY SizesAssumption, WindowAssumption
<1>2. rp.fingerprint = Fingerprint(f \o md)
  BY FingerprintIs
<1>3. Len(md) \in Nat
  OBVIOUS
<1>4. CASE Len(md) >= MinSize
  <2>1. Len(md) >= WindowSize
    BY <1>1, <1>3, <1>4
  <2>2. Fingerprint(f \o md) = Fingerprint(md)
    BY <2>1, FingerprintOfEnd
  <2>3. QED
    BY <1>2, <2>2 DEF IsSegment, IsCut
<1>5. CASE ~(Len(md) >= MinSize)
  BY <1>5 DEF IsSegment, IsCut
<1>6. QED
  BY <1>4, <1>5

\* Consume takes a byte.
LEMMA ConsumeKeeps ==
    ASSUME NEW s, NEW f, NEW from \in Nat, Fed(s, f, from), NEW b \in Bytes
    PROVE  Fed(Consume(s, b), Append(f, b), from)
<1> DEFINE rp == Counted(s.rp, b)
           md == Append(s.md, b)
           g == Append(f, b)
           n == [s EXCEPT !.rp = rp, !.len = @ + 1, !.md = md]
           k == Keys(s.chunks, Len(s.chunks))
           c == [start |-> s.start, len |-> n.len, key |-> md]
<1>1. MaxSize \in Nat /\ MinSize \in Nat /\ MinSize <= MaxSize /\ MinSize > 0
  BY SizesAssumption
<1>2. /\ s \in States /\ s.rp \in Registers /\ s.start \in Nat /\ s.len \in 0..MaxSize - 1
      /\ s.md \in Seq(Bytes) /\ s.chunks \in Seq(Chunk) /\ s.rp.cur_seg_size = s.len
      /\ s.len = Len(s.md) /\ k \o s.md = f /\ s.start = from + Len(k)
      /\ Tiles(s.chunks, from) /\ CutByOwnBytes(s.chunks) /\ Uncut(s.md) /\ Rolled(s.rp, f)
      /\ f \in Seq(Bytes)
  BY DEF Fed, States, Rolled
<1>3. k \in Seq(Bytes) /\ Len(k) \in Nat
  <2>1. Len(s.chunks) \in 0..Len(s.chunks)
    BY <1>2
  <2>2. QED
    BY <1>2, <2>1, KeysFacts
<1>4. /\ md \in Seq(Bytes) /\ Len(md) = s.len + 1 /\ s.len + 1 \in 1..MaxSize
      /\ k \o md = g
  <2>1. md \in Seq(Bytes) /\ Len(md) = Len(s.md) + 1
    BY <1>2, AppendFacts
  <2>2. k \o md = g
    <3>1. s.md \in Seq(Bytes) /\ k \in Seq(Bytes) /\ k \o s.md = f
      BY <1>2, <1>3
    <3> HIDE DEF k
    <3>2. \A x, y \in Seq(Bytes) : x \o Append(y, b) = Append(x \o y, b)
      BY ConcatAppend
    <3>3. QED
      BY <3>1, <3>2
  <2>3. QED
    BY <1>1, <1>2, <2>1, <2>2
<1>5. Rolled(rp, g) /\ rp.cur_seg_size = s.len + 1
  <2> DEFINE sl == slide8(s.rp, b)
  <2>1. Rolled(sl, g) /\ sl.cur_seg_size = s.len
    BY <1>2, SlideIs
  <2>2. rp = [sl EXCEPT !.cur_seg_size = @ + 1] /\ s.len + 1 \in Nat
    BY <1>2 DEF Counted
  <2> HIDE DEF sl, rp
  <2>3. sl \in Registers
    BY <2>1 DEF Rolled
  <2>4. /\ rp \in Registers /\ rp.fingerprint = sl.fingerprint /\ rp.bufpos = sl.bufpos
        /\ rp.buf = sl.buf /\ rp.cur_seg_size = s.len + 1
    BY <2>1, <2>2, <2>3 DEF Registers
  <2> HIDE DEF g
  <2>5. QED
    BY <2>1, <2>4 DEF Rolled
<1>6. IsSegment(rp) <=> IsCut(md)
  <2> HIDE DEF rp, md, k, g
  <2>1. QED
    BY <1>3, <1>4, <1>5, CutIs
<1>7. /\ n \in Held /\ n.rp = rp /\ n.start = s.start /\ n.len = s.len + 1
      /\ n.md = md /\ n.chunks = s.chunks
  <2> HIDE DEF rp, md
  <2>1. rp \in Registers /\ md \in Seq(Bytes) /\ s.len + 1 \in 0..MaxSize
    BY <1>1, <1>4, <1>5 DEF Rolled
  <2>2. QED
    BY <1>2, <2>1 DEF States, Held
<1>8. Consume(s, b) = IF IsSegment(n.rp) THEN Cut(n) ELSE n
  BY DEF Consume
<1>9. Front(md) = s.md /\ (~IsCut(md) => Uncut(md))
  BY <1>2, UncutFacts
<1> HIDE DEF rp, md, n, g, k
<1>10. CASE ~IsSegment(rp)
  <2>1. Consume(s, b) = n
    BY <1>7, <1>8, <1>10
  <2>2. Uncut(md)
    BY <1>6, <1>9, <1>10
  <2>3. s.len + 1 \in 0..MaxSize - 1
    <3>1. ~IsCut(md)
      BY <1>6, <1>10
    <3>2. Len(md) # MaxSize
      BY <1>1, <1>4, <3>1 DEF IsCut
    <3>3. QED
      BY <1>1, <1>4, <3>2
  <2>4. rp \in Registers
    BY <1>5 DEF Rolled
  <2>5. n \in States
    BY <1>7, <2>3 DEF States, Held
  <2>6. QED
    BY <1>2, <1>4, <1>5, <1>7, <2>1, <2>2, <2>5 DEF Fed, k, g
<1>11. CASE IsSegment(rp)
  <2> DEFINE d == Append(s.chunks, c)
             rq == [rp EXCEPT !.cur_seg_size = 0]
             m == Cut(n)
  <2>1. Consume(s, b) = m
    BY <1>7, <1>8, <1>11
  <2>2. c = [start |-> s.start, len |-> s.len + 1, key |-> md]
    BY <1>7
  <2>3. c \in Chunk /\ c.start = from + Len(k) /\ c.len = Len(c.key) /\ c.key = md
    <3>1. s.len + 1 \in 0..MaxSize
      BY <1>1, <1>4
    <3> HIDE DEF c
    <3>2. QED
      BY <1>2, <1>4, <2>2, <3>1 DEF Chunk, Offsets
  <2>4. /\ m.rp = rq /\ m.start = s.start + (s.len + 1) /\ m.len = 0 /\ m.md = <<>>
        /\ m.chunks = d /\ (d \in Seq(Chunk) => m \in States)
    <3>1. c = [start |-> n.start, len |-> n.len, key |-> n.md]
      BY <1>7
    <3> HIDE DEF c
    <3>2. m = [n EXCEPT !.chunks = Append(@, c), !.rp.cur_seg_size = 0,
                        !.start = @ + n.len, !.len = 0, !.md = <<>>]
      BY <3>1 DEF Cut
    <3> HIDE DEF m
    <3> HIDE DEF m, d
    <3>3. /\ m.start = n.start + n.len /\ m.len = 0 /\ m.md = <<>>
          /\ m.chunks = Append(n.chunks, c) /\ m.rp = [n.rp EXCEPT !.cur_seg_size = 0]
      BY <1>7, <3>2 DEF Held
    <3>4. ASSUME d \in Seq(Chunk)
          PROVE  m \in States
      <4>1. [n.rp EXCEPT !.cur_seg_size = 0] \in Registers
        BY <1>7 DEF Held, Registers
      <4>2. <<>> \in Seq(Bytes) /\ 0 \in 0..MaxSize - 1 /\ n.start + n.len \in Nat
        BY <1>1, <1>7 DEF Held
      <4>3. m = [n EXCEPT !.chunks = d, !.rp = [n.rp EXCEPT !.cur_seg_size = 0],
                          !.start = n.start + n.len, !.len = 0, !.md = <<>>]
        BY <1>7, <3>2 DEF d
      <4>4. QED
        BY <1>7, <3>4, <4>1, <4>2, <4>3 DEF States, Held
    <3>5. QED
      BY <1>7, <3>3, <3>4 DEF d
  <2> HIDE DEF c, m
  <2>5. rp \in Registers /\ Rolled(rp, g)
    BY <1>5 DEF Rolled
  <2>6. Rolled(rq, g) /\ rq.cur_seg_size = 0 /\ rq \in Registers
    <3>1. /\ rq \in Registers /\ rq.fingerprint = rp.fingerprint /\ rq.bufpos = rp.bufpos
          /\ rq.buf = rp.buf /\ rq.cur_seg_size = 0
      BY <2>5 DEF Registers
    <3> HIDE DEF rq
    <3>2. QED
      BY <2>5, <3>1 DEF Rolled
  <2> HIDE DEF rq
  <2>7. d \in Seq(Chunk) /\ Len(d) = Len(s.chunks) + 1 /\ Len(s.chunks) \in Nat
        /\ d[Len(s.chunks) + 1] = c /\ \A j \in 1..Len(s.chunks) : d[j] = s.chunks[j]
    BY <1>2, <2>3, AppendFacts
  <2>8. Keys(d, Len(d)) = g
    <3>1. Keys(d, Len(s.chunks) + 1) = k \o c.key
      BY <1>2, <2>3, KeysFacts DEF k
    <3>2. QED
      BY <1>4, <2>3, <2>7, <3>1
  <2>9. Tiles(d, from)
    BY <1>2, <2>3, TilesAppend DEF k
  <2>10. CutByOwnBytes(d)
    <3>1. DOMAIN d = 1..Len(s.chunks) + 1 /\ DOMAIN s.chunks = 1..Len(s.chunks)
      BY <1>2, <2>7
    <3>2. Uncut(Front(c.key)) /\ IsCut(c.key)
      BY <1>2, <1>6, <1>9, <1>11, <2>3
    <3>3. ASSUME NEW j \in 1..Len(s.chunks) + 1
          PROVE  Uncut(Front(d[j].key)) /\ IsCut(d[j].key)
      <4>1. CASE j = Len(s.chunks) + 1
        BY <2>7, <3>2, <4>1
      <4>2. CASE j # Len(s.chunks) + 1
        <5>1. j \in 1..Len(s.chunks)
          BY <2>7, <4>2
        <5>2. QED
          BY <1>2, <2>7, <3>1, <5>1 DEF CutByOwnBytes
      <4>3. QED
        BY <4>1, <4>2
    <3> HIDE DEF d
    <3>4. QED
      BY <3>1, <3>3 DEF CutByOwnBytes
  <2> HIDE DEF d
  <2>11. Uncut(<<>>) /\ Len(<<>>) = 0 /\ <<>> \in Seq(Bytes)
    BY DEF Uncut
  <2>12. m \in States
    BY <2>4, <2>7
  <2>13. m.start = from + Len(g)
    <3>1. Len(g) = Len(k) + Len(md)
      BY <1>3, <1>4, ConcatProperties
    <3>2. s.start = from + Len(k) /\ Len(md) = s.len + 1
      BY <1>2, <1>4 DEF k
    <3>3. Len(k) \in Nat /\ s.len + 1 \in Nat
      BY <1>1, <1>3, <1>4
    <3>4. QED
      BY <2>4, <3>1, <3>2, <3>3
  <2>14. g \in Seq(Bytes) /\ g \o <<>> = g
    <3>1. g \in Seq(Bytes)
      BY <1>5 DEF Rolled
    <3>2. QED
      BY <3>1
  <2>15. Fed(m, g, from)
    BY <2>4, <2>6, <2>8, <2>9, <2>10, <2>11, <2>12, <2>13, <2>14 DEF Fed
  <2>16. QED
    BY <2>1, <2>15 DEF g
<1>12. QED
  BY <1>10, <1>11

-----------------------------------------------------------------------------
(* Buffers.                                                                *)

\* What the splitter can have made of some bytes.
Reached == {s \in States : \E f \in Seq(Bytes) : \E from \in Nat : Fed(s, f, from)}

\* A buffer is consumed byte by byte.
LEMMA BufferTrace ==
    ASSUME NEW base \in Reached, NEW buf \in Seq(Bytes)
    PROVE  \E g \in [0..Len(buf) -> Reached] :
              /\ g[0] = base /\ g[Len(buf)] = FoldLeft(Consume, base, buf)
              /\ \A i \in 1..Len(buf) : g[i] = Consume(g[i-1], buf[i])
<1> DEFINE n == Len(buf)
           S == Reached
           F == [q \in (1..n) \X S |-> Consume(q[2], buf[q[1]])]
           Iterates(it) == it = [s \in SUBSET DOMAIN buf |->
                IF s = {} THEN base ELSE LET x == Max(s) IN Consume(it[s \ {x}], buf[x])]
           iter == CHOOSE it : it = [s \in SUBSET DOMAIN buf |->
                IF s = {} THEN base ELSE LET x == Max(s) IN Consume(it[s \ {x}], buf[x])]
<1>1. n \in Nat /\ DOMAIN buf = 1..n /\ \A i \in 1..n : buf[i] \in Bytes
  BY ElementOfSeq
<1>2. FoldLeft(Consume, base, buf) = iter[DOMAIN buf]
  BY Zenon DEF FoldLeft, MapThenFoldSet
<1>3. F \in [(1..n) \X S -> S]
  <2>1. ASSUME NEW s \in S, NEW b \in Bytes
        PROVE  Consume(s, b) \in S
    <3>1. PICK f \in Seq(Bytes), from \in Nat : Fed(s, f, from)
      BY DEF Reached
    <3>2. Fed(Consume(s, b), Append(f, b), from) /\ Append(f, b) \in Seq(Bytes)
      BY <3>1, ConsumeKeeps, AppendFacts
    <3>3. Consume(s, b) \in States
      BY <3>2 DEF Fed
    <3>4. QED
      BY <3>2, <3>3 DEF Reached
  <2>2. \A q \in (1..n) \X S : Consume(q[2], buf[q[1]]) \in S
    BY <1>1, <2>1
  <2>3. QED
    BY <2>2
<1>4. Iterates(iter)
  <2>1. PICK g : FoldsBy(g, F, S, base, n)
    <3> HIDE DEF F, n
    <3>1. QED
      BY <1>1, <1>3, FoldExists
  <2>2. Iterates(g)
    <3>1. ASSUME NEW s \in SUBSET (1..n), s # {}
          PROVE  F[<<Max(s), g[s \ {Max(s)}]>>] = Consume(g[s \ {Max(s)}], buf[Max(s)])
      <4>1. Max(s) \in 1..n
        BY <1>1, <3>1, Largest
      <4>2. g[s \ {Max(s)}] \in S
        BY <2>1 DEF FoldsBy
      <4>3. QED
        BY <4>1, <4>2
    <3> HIDE DEF F, n, S
    <3>2. \A s \in SUBSET (1..n) :
            g[s] = IF s = {} THEN base ELSE Consume(g[s \ {Max(s)}], buf[Max(s)])
      BY <2>1, <3>1 DEF FoldsBy
    <3>3. g = [s \in SUBSET (1..n) |-> g[s]]
      BY <2>1 DEF FoldsBy
    <3>4. QED
      BY <1>1, <3>2, <3>3
  <2> HIDE DEF Iterates
  <2>3. Iterates(CHOOSE it : Iterates(it))
    BY <2>2, Zenon
  <2>4. QED
    BY <2>3 DEF Iterates
<1> HIDE DEF iter
<1>5. \A s \in SUBSET (1..n) :
        iter[s] = IF s = {} THEN base ELSE Consume(iter[s \ {Max(s)}], buf[Max(s)])
  BY <1>1, <1>4
<1>6. PICK g : Trace(g, F, S, base, n) /\ g[n] = iter[1..n]
  <2>1. \A s \in SUBSET (1..n) :
           s # {} /\ iter[s \ {Max(s)}] \in S
              => iter[s] = F[<<Max(s), iter[s \ {Max(s)}]>>]
    <3> SUFFICES ASSUME NEW s \in SUBSET (1..n), s # {}, iter[s \ {Max(s)}] \in S
                 PROVE  iter[s] = F[<<Max(s), iter[s \ {Max(s)}]>>]
      OBVIOUS
    <3>1. Max(s) \in 1..n
      BY <1>1, Largest
    <3>2. QED
      BY <1>5, <3>1
  <2>2. iter[{}] = base
    BY <1>5
  <2>3. n \in Nat
    BY <1>1
  <2> HIDE DEF F, n, S
  <2>4. Recurs(iter, F, S, base, n)
    BY <1>3, <2>1, <2>2 DEF Recurs, S
  <2>5. QED
    BY <2>3, <2>4, FoldTrace
<1>7. g \in [0..n -> S] /\ g[0] = base /\ g[n] = FoldLeft(Consume, base, buf)
  BY <1>1, <1>2, <1>6 DEF Trace
<1>8. \A i \in 1..n : g[i] = Consume(g[i-1], buf[i])
  <2> SUFFICES ASSUME NEW i \in 1..n
               PROVE  g[i] = Consume(g[i-1], buf[i])
    OBVIOUS
  <2>1. i - 1 \in 0..n
    BY <1>1
  <2>2. g[i] = F[<<i, g[i-1]>>] /\ g[i-1] \in S
    BY <1>6, <2>1 DEF Trace
  <2>3. QED
    BY <2>2
<1>9. QED
  BY <1>7, <1>8

\* All its bytes.
LEMMA BufferKeeps ==
    ASSUME NEW s, NEW f, NEW from \in Nat, Fed(s, f, from), NEW buf \in Seq(Bytes)
    PROVE  Fed(FoldLeft(Consume, s, buf), f \o buf, from)
<1> DEFINE n == Len(buf)
<1>1. f \in Seq(Bytes) /\ s \in States
  BY DEF Fed, Rolled
<1>2. PICK g \in [0..n -> Reached] : /\ g[0] = s /\ g[n] = FoldLeft(Consume, s, buf)
                                     /\ \A i \in 1..n : g[i] = Consume(g[i-1], buf[i])
  <2>1. s \in Reached
    BY <1>1 DEF Reached
  <2>2. QED
    BY <2>1, BufferTrace
<1>3. n \in Nat /\ \A i \in 1..n : buf[i] \in Bytes
  BY ElementOfSeq
<1>4. /\ SubSeq(buf, 1, 0) = <<>> /\ SubSeq(buf, 1, n) = buf
      /\ \A i \in 0..n : SubSeq(buf, 1, i) \in Seq(Bytes)
      /\ \A i \in 1..n : SubSeq(buf, 1, i) = Append(SubSeq(buf, 1, i-1), buf[i])
  BY PrefixFacts
<1> HIDE DEF n
<1> DEFINE P(i) == f \o SubSeq(buf, 1, i)
           D == {i \in 0..n : ~Fed(g[i], P(i), from)}
<1>5. ~ D # {}
  <2> SUFFICES ASSUME D # {} PROVE FALSE
    OBVIOUS
  <2>1. 0 \notin D /\ D \in SUBSET (0..n)
    <3>1. P(0) = f
      BY <1>1, <1>4
    <3>2. QED
      BY <1>2, <3>1
  <2>2. PICK i \in 1..n : i \in D /\ i-1 \in 0..n /\ i-1 \notin D
    <3> HIDE DEF D
    <3>1. QED
      BY <1>3, <2>1, FirstFailure
  <2>3. Fed(g[i-1], P(i-1), from)
    BY <2>2
  <2>4. g[i] = Consume(g[i-1], buf[i]) /\ buf[i] \in Bytes
    BY <1>2, <1>3
  <2>5. P(i) = Append(P(i-1), buf[i])
    <3>1. SubSeq(buf, 1, i) = Append(SubSeq(buf, 1, i-1), buf[i]) /\ SubSeq(buf, 1, i-1) \in Seq(Bytes)
      BY <1>4, <2>2
    <3>2. \A x \in Seq(Bytes) : f \o Append(x, buf[i]) = Append(f \o x, buf[i])
      BY <1>1, <2>4, ConcatAppend
    <3>3. QED
      BY <3>1, <3>2
  <2> HIDE DEF P
  <2>6. Fed(g[i], P(i), from)
    BY <2>3, <2>4, <2>5, ConsumeKeeps
  <2>7. QED
    BY <2>2, <2>6
<1>6. Fed(g[n], P(n), from)
  <2>1. n \in 0..n
    BY <1>3
  <2> HIDE DEF P
  <2>2. QED
    BY <1>5, <2>1
<1>7. QED
  BY <1>2, <1>4, <1>6

\* A buffer is a sequence of bytes.
LEMMA BuffersAre == \A buf \in Buffers : buf \in Seq(Bytes)
<1> SUFFICES ASSUME NEW n \in 1..MaxBuf, NEW buf \in [1..n -> Bytes]
             PROVE  buf \in Seq(Bytes)
  BY DEF Buffers
<1>1. n \in Nat
  BY CallsAssumption
<1>2. QED
  BY <1>1, SeqDef

\* Nothing has been fed to a new splitter.
LEMMA NothingFed ==
    ASSUME NEW from \in Nat
    PROVE  Fed([rp |-> Fresh, start |-> from, len |-> 0, md |-> <<>>, chunks |-> <<>>],
               <<>>, from)
<1> DEFINE s == [rp |-> Fresh, start |-> from, len |-> 0, md |-> <<>>, chunks |-> <<>>]
<1>1. /\ s.rp = Fresh /\ s.start = from /\ s.len = 0 /\ s.md = <<>> /\ s.chunks = <<>>
  OBVIOUS
<1>2. Rolled(Fresh, <<>>) /\ Fresh.cur_seg_size = 0 /\ Fresh \in Registers
  BY FreshIs DEF Rolled
<1>3. 0 \in 0..MaxSize - 1
  BY SizesAssumption
<1>4. s \in States
  BY <1>2, <1>3 DEF States
<1>5. Tiles(<<>>, from) /\ CutByOwnBytes(<<>>) /\ Uncut(<<>>)
  <2>1. Len(<<>>) = 0 /\ DOMAIN <<>> = {}
    OBVIOUS
  <2>2. QED
    BY <2>1 DEF Tiles, CutByOwnBytes, Uncut
<1>6. Len(<<>>) = 0 /\ <<>> \o <<>> = <<>>
  OBVIOUS
<1>7. from = from + Len(Keys(<<>>, Len(<<>>)))
  BY NoKeys
<1> HIDE DEF s
<1>8. Fed(s, <<>>, from)
  BY <1>1, <1>2, <1>4, <1>5, <1>6, <1>7, NoKeys DEF Fed
<1>9. QED
  BY <1>8 DEF s

-----------------------------------------------------------------------------
(* The invariant.                                                          *)

\* The last chunk is the bytes that were held.
Rest == [start |-> chunk_start_, len |-> chunk_len_, key |-> mdctx_]
StateBefore(cs) ==
    [rp |-> rp_, start |-> chunk_start_, len |-> chunk_len_, md |-> mdctx_, chunks |-> cs]

IInv ==
    /\ start \in Starts /\ final \in BOOLEAN
    /\ ~final => Fed(State, fed, start)
    /\ final => /\ chunk_len_ > 0
                /\ \E cs : Fed(StateBefore(cs), fed, start) /\ chunks = Append(cs, Rest)

\* State is a state before the last chunk.
LEMMA StateIs == State = StateBefore(chunks)
  BY DEF State, StateBefore

\* A new splitter, the first one or another.
LEMMA BecomesIs ==
    ASSUME NEW s \in States, Becomes(s)
    PROVE  State' = s
<1>1. s = [rp |-> s.rp, start |-> s.start, len |-> s.len, md |-> s.md, chunks |-> s.chunks]
  BY DEF States
<1>2. QED
  BY <1>1, Zenon DEF Becomes, State

\* The invariant holds and is kept.
THEOREM IInvHolds == Spec => []IInv
<1>1. Init => IInv
  <2> SUFFICES ASSUME Init PROVE IInv
    OBVIOUS
  <2>1. start \in Starts /\ start \in Nat
    BY CallsAssumption DEF Init
  <2>2. State = [rp |-> Fresh, start |-> start, len |-> 0, md |-> <<>>, chunks |-> <<>>]
    BY DEF Init, State
  <2>3. fed = <<>> /\ final = FALSE
    BY DEF Init
  <2>4. QED
    BY <2>1, <2>2, <2>3, NothingFed DEF IInv
<1>2. IInv /\ [Next]_vars => IInv'
  <2> SUFFICES ASSUME IInv, [Next]_vars PROVE IInv'
    OBVIOUS
  <2>0. start \in Nat
    BY CallsAssumption DEF IInv
  <2>1. ASSUME NEW from \in Starts, init(from)
        PROVE  IInv'
    <3> DEFINE s == [rp |-> Fresh, start |-> from, len |-> 0, md |-> <<>>, chunks |-> <<>>]
    <3>1. Fed(s, <<>>, from)
      BY CallsAssumption, NothingFed
    <3>2. s \in States /\ Becomes(s) /\ fed' = <<>> /\ start' = from /\ final' = FALSE
      BY <2>1, <3>1 DEF Fed, init
    <3> HIDE DEF s
    <3>3. State' = s
      BY <3>2, BecomesIs
    <3>4. QED
      BY <3>1, <3>2, <3>3 DEF IInv
  <2>2. ASSUME NEW buf \in Buffers, get_chunks_next(buf)
        PROVE  IInv'
    <3> DEFINE s == FoldLeft(Consume, State, buf)
    <3>1. ~final /\ Becomes(s) /\ fed' = fed \o buf /\ final' = final /\ start' = start
      BY <2>2 DEF get_chunks_next
    <3>2. Fed(State, fed, start)
      BY <3>1 DEF IInv
    <3>3. Fed(s, fed \o buf, start)
      <4>1. \A r, f : Fed(r, f, start) => Fed(FoldLeft(Consume, r, buf), f \o buf, start)
        BY <2>0, BuffersAre, BufferKeeps
      <4>2. QED
        BY <3>2, <4>1
    <3> HIDE DEF s
    <3>4. State' = s
      BY <3>1, <3>3, BecomesIs DEF Fed
    <3>5. QED
      BY <3>1, <3>3, <3>4 DEF IInv
  <2>3. ASSUME get_chunk_last
        PROVE  IInv'
    <3>1. /\ ~final /\ chunk_len_ # 0 /\ chunks' = Append(chunks, Rest) /\ final' = TRUE
          /\ UNCHANGED <<rp_, chunk_start_, chunk_len_, mdctx_, start, fed>>
      BY <2>3 DEF get_chunk_last, Rest
    <3>2. Fed(StateBefore(chunks), fed, start)
      BY <3>1, StateIs DEF IInv
    <3>3. chunk_len_ > 0
      <4>1. StateBefore(chunks).len \in 0..MaxSize - 1
        BY <3>2 DEF Fed, States
      <4>2. StateBefore(chunks).len = chunk_len_ /\ MaxSize \in Nat
        BY SizesAssumption DEF StateBefore
      <4>3. QED
        BY <3>1, <4>1, <4>2
    <3>4. Rest' = Rest
      BY <3>1 DEF Rest
    <3>5. \A cs : StateBefore(cs)' = StateBefore(cs)
      BY <3>1 DEF StateBefore
    <3>6. (\E cs : Fed(StateBefore(cs), fed, start) /\ chunks = Append(cs, Rest))'
      <4>1. Fed([rp |-> rp_', start |-> chunk_start_', len |-> chunk_len_', md |-> mdctx_',
                 chunks |-> chunks], fed', start')
        BY <3>1, <3>2 DEF StateBefore
      <4>2. QED
        BY <3>1, <3>4, <4>1 DEF StateBefore
    <3>7. QED
      BY <3>1, <3>3, <3>6 DEF IInv
  <2>4. CASE UNCHANGED vars
    <3>1. /\ State' = State /\ fed' = fed /\ start' = start /\ final' = final
          /\ Rest' = Rest /\ chunks' = chunks /\ chunk_len_' = chunk_len_
      BY <2>4 DEF vars, State, Rest
    <3>2. /\ rp_' = rp_ /\ chunk_start_' = chunk_start_ /\ chunk_len_' = chunk_len_
          /\ mdctx_' = mdctx_
      BY <2>4 DEF vars
    <3>3. QED
      BY <3>1, <3>2 DEF IInv, StateBefore
  <2>5. QED
    BY <2>1, <2>2, <2>3, <2>4 DEF Next
<1>3. QED
  BY <1>1, <1>2, PTL DEF Spec

\* What the invariant says of the chunks, the last one included.
LEMMA ChunksAre ==
    ASSUME IInv
    PROVE  /\ rp_ \in Registers /\ rp_.cur_seg_size = chunk_len_ /\ Rolled(rp_, fed)
           /\ chunk_start_ \in Nat /\ chunk_len_ \in 0..MaxSize - 1
           /\ mdctx_ \in Seq(Bytes) /\ chunks \in Seq(Chunk)
           /\ Tiles(chunks, start)
           /\ \A c \in DOMAIN chunks :
                 /\ Uncut(Front(chunks[c].key))
                 /\ IsCut(chunks[c].key) \/ (c = Len(chunks) /\ final)
           /\ ~final => /\ Uncut(mdctx_) /\ chunk_len_ = Len(mdctx_)
                        /\ Keys(chunks, Len(chunks)) \o mdctx_ = fed
                        /\ chunk_start_ = start + Len(Keys(chunks, Len(chunks)))
           /\ final => Keys(chunks, Len(chunks)) = fed
<1>0. start \in Nat
  BY CallsAssumption DEF IInv
<1>1. ASSUME NEW cs, Fed(StateBefore(cs), fed, start)
      PROVE  /\ rp_ \in Registers /\ rp_.cur_seg_size = chunk_len_ /\ Rolled(rp_, fed)
             /\ chunk_start_ \in Nat /\ chunk_len_ \in 0..MaxSize - 1
             /\ mdctx_ \in Seq(Bytes) /\ cs \in Seq(Chunk)
             /\ Tiles(cs, start) /\ CutByOwnBytes(cs) /\ Uncut(mdctx_)
             /\ chunk_len_ = Len(mdctx_) /\ Keys(cs, Len(cs)) \o mdctx_ = fed
             /\ chunk_start_ = start + Len(Keys(cs, Len(cs)))
  <2> DEFINE s == StateBefore(cs)
  <2>1. /\ s.rp = rp_ /\ s.start = chunk_start_ /\ s.len = chunk_len_ /\ s.md = mdctx_
        /\ s.chunks = cs
    BY DEF StateBefore
  <2> HIDE DEF s
  <2>2. /\ s.rp \in Registers /\ s.start \in Nat /\ s.len \in 0..MaxSize - 1
        /\ s.md \in Seq(Bytes) /\ s.chunks \in Seq(Chunk)
    BY <1>1 DEF Fed, States, s
  <2>3. Fed(s, fed, start)
    BY <1>1 DEF s
  <2>4. QED
    BY <2>1, <2>2, <2>3 DEF Fed
<1>2. CASE ~final
  <2>1. Fed(StateBefore(chunks), fed, start)
    BY <1>2, StateIs DEF IInv
  <2>2. QED
    BY <1>1, <1>2, <2>1 DEF CutByOwnBytes
<1>3. CASE final
  <2>1. PICK cs : Fed(StateBefore(cs), fed, start) /\ chunks = Append(cs, Rest)
    BY <1>3 DEF IInv
  <2>2. chunk_len_ > 0
    BY <1>3 DEF IInv
  <2> DEFINE n == Len(cs)
  <2>3. Rest \in Chunk /\ Rest.start = chunk_start_ /\ Rest.len = chunk_len_ /\ Rest.key = mdctx_
    <3>1. chunk_len_ \in 0..MaxSize
      <4>1. chunk_len_ \in 0..MaxSize - 1 /\ MaxSize \in Nat
        BY <1>1, <2>1, SizesAssumption
      <4>2. QED
        BY <4>1
    <3>2. QED
      BY <1>1, <2>1, <3>1 DEF Rest, Chunk, Offsets
  <2>4. /\ cs \in Seq(Chunk) /\ Tiles(cs, start) /\ CutByOwnBytes(cs) /\ Uncut(mdctx_)
        /\ chunk_len_ = Len(mdctx_) /\ Keys(cs, n) \o mdctx_ = fed
        /\ chunk_start_ = start + Len(Keys(cs, n)) /\ mdctx_ \in Seq(Bytes)
    BY <1>1, <2>1
  <2>5. /\ chunks \in Seq(Chunk) /\ Len(chunks) = n + 1 /\ n \in Nat /\ chunks[n + 1] = Rest
        /\ \A j \in 1..n : chunks[j] = cs[j]
    BY <2>1, <2>3, <2>4, AppendFacts
  <2>6. Keys(chunks, Len(chunks)) = fed
    <3>1. Keys(Append(cs, Rest), n + 1) = Keys(cs, n) \o Rest.key
      BY <2>3, <2>4, KeysFacts
    <3>2. QED
      BY <2>1, <2>3, <2>4, <2>5, <3>1
  <2>7. Tiles(chunks, start)
    <3>1. Tiles(Append(cs, Rest), start)
      BY <1>0, <2>3, <2>4, TilesAppend
    <3>2. QED
      BY <2>1, <3>1
  <2>8. Uncut(Front(mdctx_))
    <3>1. {} \in Bytes
      BY DEF Bytes
    <3>2. Len(mdctx_) > 0
      BY <2>2, <2>4
    <3>3. QED
      BY <2>4, <3>1, <3>2, UncutFacts
  <2>9. ASSUME NEW c \in DOMAIN chunks
        PROVE  /\ Uncut(Front(chunks[c].key))
               /\ IsCut(chunks[c].key) \/ (c = Len(chunks) /\ final)
    <3>1. c \in 1..n + 1 /\ DOMAIN cs = 1..n
      BY <2>4, <2>5
    <3>2. CASE c = n + 1
      BY <1>3, <2>3, <2>5, <2>8, <3>2
    <3>3. CASE c # n + 1
      <4>1. c \in 1..n
        BY <2>5, <3>1, <3>3
      <4>2. QED
        BY <2>4, <2>5, <3>1, <4>1 DEF CutByOwnBytes
    <3>4. QED
      BY <3>2, <3>3
  <2>10. QED
    BY <1>1, <1>3, <2>1, <2>5, <2>6, <2>7, <2>9
<1>4. QED
  BY <1>2, <1>3 DEF IInv

\* The registers, the sizes, the digest and the chunks have their types.
THEOREM TypesHold == Spec => []TypeOK
<1>1. IInv => TypeOK
  <2> SUFFICES ASSUME IInv PROVE TypeOK
    OBVIOUS
  <2>1. rp_.fingerprint \subseteq 0..Degree - 1 /\ rp_.bufpos \in -1..WindowSize - 1
        /\ rp_.buf \in [0..WindowSize - 1 -> Bytes] /\ rp_.cur_seg_size \in 0..MaxSize - 1
    BY ChunksAre DEF Registers
  <2>2. start \in Starts /\ final \in BOOLEAN /\ fed \in Seq(Bytes)
    BY ChunksAre DEF IInv, Rolled
  <2>3. QED
    BY <2>1, <2>2, ChunksAre DEF TypeOK, Offsets
<1>2. QED
  BY <1>1, IInvHolds, PTL

(***************************************************************************)
(* The rolling fingerprint is the residue modulo Poly of the window, for   *)
(* every polynomial, byte and window (slide8, append8, calcT).             *)
(***************************************************************************)
THEOREM FingerprintHolds == Spec => []FingerprintIsResidue
<1>1. IInv => FingerprintIsResidue
  BY ChunksAre, FingerprintIs DEF FingerprintIsResidue
<1>2. QED
  BY <1>1, IInvHolds, PTL

(***************************************************************************)
(* Segments end where their own bytes say so, whatever was fed before and  *)
(* however it was split into buffers (rabin_segment_next,                  *)
(* get_chunks_next, get_chunk_last).                                       *)
(***************************************************************************)
THEOREM CutsHold == Spec => []ChunksDependOnOwnBytes
<1>1. IInv => ChunksDependOnOwnBytes
  BY ChunksAre DEF ChunksDependOnOwnBytes
<1>2. QED
  BY <1>1, IInvHolds, PTL

\* The chunks and the bytes still held are the input, without gap or overlap
\* (get_chunks_next, get_chunk_last).
THEOREM TilingHolds == Spec => []ChunksTileTheInput
<1>1. IInv => ChunksTileTheInput
  <2> SUFFICES ASSUME IInv PROVE ChunksTileTheInput
    OBVIOUS
  <2> DEFINE n == Len(chunks)
             held == IF final THEN <<>> ELSE mdctx_
  <2>1. n \in Nat /\ (n + 1) - 1 = n /\ fed \in Seq(Bytes)
    BY ChunksAre DEF Rolled
  <2>2. Keys(chunks, (n + 1) - 1) \o held = fed
    <3>1. CASE final
      <4>1. Keys(chunks, n) = fed /\ held = <<>>
        BY <3>1, ChunksAre
      <4>2. fed \o <<>> = fed
        BY <2>1
      <4>3. QED
        BY <2>1, <4>1, <4>2
    <3>2. CASE ~final
      BY <2>1, <3>2, ChunksAre
    <3>3. QED
      BY <3>1, <3>2
  <2>3. \A c \in DOMAIN chunks : /\ chunks[c].start = start + Len(Keys(chunks, c - 1))
                                 /\ chunks[c].len = Len(chunks[c].key)
    BY ChunksAre DEF Tiles
  <2>4. ~final => /\ chunk_start_ = start + Len(Keys(chunks, (n + 1) - 1))
                  /\ chunk_len_ = Len(held)
    BY <2>1, ChunksAre
  <2>5. QED
    BY <2>2, <2>3, <2>4, Zenon DEF ChunksTileTheInput, Keys
<1>2. QED
  BY <1>1, IInvHolds, PTL
=============================================================================
