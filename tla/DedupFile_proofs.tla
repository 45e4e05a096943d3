-------------------------- MODULE DedupFile_proofs --------------------------
(***************************************************************************)
(* Proofs about DedupFile, for any contents, boundaries, segment sizes,    *)
(* threshold and descriptors: until a descriptor uses a chunk list that    *)
(* another one has made out of date, and no truncation misplaces a chunk,  *)
(* the chunk list is the content, the table counts it, reads return what   *)
(* was written and no handler fails.                                       *)
(***************************************************************************)
EXTENDS DedupFile, FiniteSetTheorems, SequenceTheorems, WellFoundedInduction, TLAPS

-----------------------------------------------------------------------------
(* Sequences.                                                              *)

\* A set of numbers has a least one (by well-foundedness).
LEMMA Smallest ==
    ASSUME NEW I \in SUBSET Nat, I # {}
    PROVE  \E i \in I : \A j \in I : i <= j
<1> DEFINE Less == {p \in Nat \X Nat : p[1] < p[2]}
<1>1. IsWellFoundedOn(Less, Nat)
  BY NatLessThanWellFounded, Zenon DEF OpToRel
<1>2. PICK i \in I : \A j \in I : ~(<<j, i>> \in Less)
  BY <1>1, WFMin
<1>3. \A j \in I : i <= j
  <2> SUFFICES ASSUME NEW j \in I, j < i PROVE FALSE
    OBVIOUS
  <2>1. <<j, i>> \in Less
    OBVIOUS
  <2>2. QED
    BY <1>2, <2>1
<1>4. QED
  BY <1>3

\* What is false somewhere up to n, and not of 0, is false of a first number.
LEMMA FirstFailure ==
    ASSUME NEW n \in Nat, NEW D \in SUBSET (0..n), 0 \notin D, D # {}
    PROVE  \E i \in 1..n : i \in D /\ i - 1 \in 0..n /\ i - 1 \notin D
<1>1. PICK i \in D : \A j \in D : i <= j
  <2>1. D \in SUBSET Nat
    OBVIOUS
  <2>2. QED
    BY <2>1, Smallest
<1>2. i \in 1..n /\ i - 1 \in 0..n /\ ~(i <= i - 1)
  OBVIOUS
<1>3. QED
  BY <1>1, <1>2

\* The beginnings of a sequence, one element longer each.
LEMMA PrefixFacts ==
    ASSUME NEW S, NEW t \in Seq(S)
    PROVE  /\ SubSeq(t, 1, 0) = <<>> /\ SubSeq(t, 1, Len(t)) = t
           /\ \A i \in 0..Len(t) : SubSeq(t, 1, i) \in Seq(S) /\ Len(SubSeq(t, 1, i)) = i
           /\ \A i \in 1..Len(t) : SubSeq(t, 1, i) = Append(SubSeq(t, 1, i-1), t[i])
<1>1. Len(t) \in Nat /\ \A i \in 1..Len(t) : t[i] \in S
  BY ElementOfSeq
<1>2. \A i \in 0..Len(t) : /\ SubSeq(t, 1, i) \in Seq(S) /\ Len(SubSeq(t, 1, i)) = i
                          /\ \A j \in 1..i : SubSeq(t, 1, i)[j] = t[j]
  <2> SUFFICES ASSUME NEW i \in 0..Len(t)
               PROVE  /\ SubSeq(t, 1, i) \in Seq(S) /\ Len(SubSeq(t, 1, i)) = i
                      /\ \A j \in 1..i : SubSeq(t, 1, i)[j] = t[j]
    OBVIOUS
  <2>1. 1 \in Int /\ i \in Int /\ \A j \in 1..i : t[j] \in S
    BY <1>1
  <2>2. /\ SubSeq(t, 1, i) \in Seq(S)
        /\ Len(SubSeq(t, 1, i)) = IF 1 <= i THEN i-1+1 ELSE 0
        /\ \A j \in 1..i-1+1 : SubSeq(t, 1, i)[j] = t[1+j-1]
    BY <2>1, SubSeqProperties
  <2>3. QED
    BY <2>2
<1>3. ASSUME NEW i \in 1..Len(t)
      PROVE  SubSeq(t, 1, i) = Append(SubSeq(t, 1, i-1), t[i])
  <2> DEFINE a == SubSeq(t, 1, i)
             b == SubSeq(t, 1, i-1)
  <2>1. a \in Seq(S) /\ Len(a) = i /\ \A j \in 1..i : a[j] = t[j]
    BY <1>2
  <2>2. i-1 \in 0..Len(t)
    BY <1>1
  <2>3. b \in Seq(S) /\ Len(b) = i-1 /\ \A j \in 1..i-1 : b[j] = t[j]
    BY <2>2, <1>2
  <2> HIDE DEF a, b
  <2>4. /\ Append(b, t[i]) \in Seq(S) /\ Len(Append(b, t[i])) = i
        /\ \A j \in 1..i : Append(b, t[i])[j] = IF j = i THEN t[i] ELSE b[j]
    BY <1>1, <2>3
  <2>5. \A j \in 1..Len(a) : a[j] = Append(b, t[i])[j]
    BY <2>1, <2>3, <2>4, <1>1
  <2>6. a = Append(b, t[i])
    BY <2>1, <2>4, <2>5, SeqEqual
  <2>7. QED
    BY <2>6 DEF a, b
<1>4. SubSeq(t, 1, 0) = <<>>
  BY SubSeqEmpty
<1>5. SubSeq(t, 1, Len(t)) = t
  BY SubSeqFull
<1>6. QED
  BY <1>2, <1>3, <1>4, <1>5

\* Appending and concatenating.
LEMMA AppendFacts ==
    ASSUME NEW S, NEW s \in Seq(S), NEW x \in S
    PROVE  /\ Append(s, x) \in Seq(S) /\ Len(Append(s, x)) = Len(s) + 1
           /\ SubSeq(Append(s, x), 1, Len(s)) = s /\ Append(s, x)[Len(s) + 1] = x
           /\ \A i \in 1..Len(s) : Append(s, x)[i] = s[i]
<1>1. /\ Append(s, x) \in Seq(S) /\ Len(Append(s, x)) = Len(s) + 1 /\ Len(s) \in Nat
      /\ Append(s, x)[Len(s) + 1] = x /\ \A i \in 1..Len(s) : Append(s, x)[i] = s[i]
  OBVIOUS
<1> DEFINE r == Append(s, x)
<1>2. SubSeq(r, 1, Len(s)) = s
  <2>1. \A j \in 1..Len(s) : r[j] \in S
    BY <1>1, ElementOfSeq
  <2>2. 1 \in Int /\ Len(s) \in Int
    BY <1>1
  <2>3. /\ SubSeq(r, 1, Len(s)) \in Seq(S)
        /\ Len(SubSeq(r, 1, Len(s))) = IF 1 <= Len(s) THEN Len(s)-1+1 ELSE 0
        /\ \A j \in 1..Len(s)-1+1 : SubSeq(r, 1, Len(s))[j] = r[1+j-1]
    BY <2>1, <2>2, SubSeqProperties
  <2>4. /\ Len(SubSeq(r, 1, Len(s))) = Len(s)
        /\ \A j \in 1..Len(s) : SubSeq(r, 1, Len(s))[j] = s[j]
    BY <1>1, <2>3
  <2>5. QED
    BY <2>3, <2>4, SeqEqual
<1>3. QED
  BY <1>1, <1>2

\* Appending and concatenating can be exchanged.
LEMMA ConcatAppend ==
    ASSUME NEW S, NEW s \in Seq(S), NEW t \in Seq(S), NEW x \in S
    PROVE  s \o Append(t, x) = Append(s \o t, x)
<1>1. <<x>> \in Seq(S)
  OBVIOUS
<1>2. Append(t, x) = t \o <<x>> /\ Append(s \o t, x) = (s \o t) \o <<x>>
  OBVIOUS
<1>3. QED
  BY <1>1, <1>2, ConcatAssociative

-----------------------------------------------------------------------------
(* The bytes of a sequence of sequences.                                   *)

\* The recursion of FlattenSeq.
Flattens(f, s) ==
    f = [i \in 1..Len(s) |-> IF i = 1 THEN s[i] ELSE f[i-1] \o s[i]]

\* It has a solution.
LEMMA FlattenExists ==
    ASSUME NEW S, NEW s \in Seq(Seq(S))
    PROVE  \E f : Flattens(f, s)
<1> DEFINE Solves(f, n) == f = [i \in 1..n |-> IF i = 1 THEN s[i] ELSE f[i-1] \o s[i]]
           D == {n \in 0..Len(s) : ~ \E f : Solves(f, n)}
<1>1. Len(s) \in Nat
  OBVIOUS
<1>2. ~ D # {}
  <2> SUFFICES ASSUME D # {} PROVE FALSE
    OBVIOUS
  <2>1. 0 \notin D
    <3>1. Solves(<<>>, 0)
      OBVIOUS
    <3>2. QED
      BY <3>1
  <2>2. PICK n \in 1..Len(s) : n \in D /\ n-1 \in 0..Len(s) /\ n-1 \notin D
    <3>1. D \in SUBSET (0..Len(s))
      OBVIOUS
    <3> HIDE DEF D
    <3>2. QED
      BY <1>1, <2>1, <3>1, FirstFailure
  <2>3. PICK f : Solves(f, n-1)
    BY <2>2
  <2> DEFINE g == [i \in 1..n |-> IF i = n THEN (IF n = 1 THEN s[n] ELSE f[n-1] \o s[n]) ELSE f[i]]
  <2>4. Solves(g, n)
    <3> SUFFICES ASSUME NEW i \in 1..n
                 PROVE  g[i] = IF i = 1 THEN s[i] ELSE g[i-1] \o s[i]
      OBVIOUS
    <3>1. CASE i = n
      BY <3>1, <2>2
    <3>2. CASE i # n
      <4>1. i \in 1..n-1 /\ (i # 1 => i-1 \in 1..n-1 /\ i-1 # n)
        BY <3>2, <2>2
      <4>2. f[i] = IF i = 1 THEN s[i] ELSE f[i-1] \o s[i]
        BY <4>1, <2>3
      <4>3. g[i] = f[i] /\ (i # 1 => g[i-1] = f[i-1])
        BY <4>1, <3>2, <2>2
      <4>4. QED
        BY <4>2, <4>3
    <3>3. QED
      BY <3>1, <3>2
  <2>5. QED
    BY <2>2, <2>4
<1>3. Len(s) \in 0..Len(s)
  BY <1>1
<1>4. PICK f : Solves(f, Len(s))
  <2> HIDE DEF Solves
  <2>1. QED
    BY <1>2, <1>3
<1>5. Flattens(f, s)
  BY <1>4 DEF Flattens
<1>6. QED
  BY <1>5

\* The bytes of each beginning of the sequence.
LEMMA FlattenTrace ==
    ASSUME NEW S, NEW s \in Seq(Seq(S))
    PROVE  \E f \in [0..Len(s) -> Seq(S)] :
              /\ f[0] = <<>> /\ \A i \in 1..Len(s) : f[i] = f[i-1] \o s[i]
              /\ FlattenSeq(s) = f[Len(s)]
<1>1. Len(s) \in Nat /\ \A i \in 1..Len(s) : s[i] \in Seq(S)
  BY ElementOfSeq
<1> DEFINE flatten == CHOOSE flatten : flatten = [i \in 1..Len(s) |->
                          IF i = 1 THEN s[i] ELSE flatten[i-1] \o s[i]]
<1>2. Flattens(flatten, s)
  <2>1. \E f : Flattens(f, s)
    BY FlattenExists
  <2>2. Flattens(CHOOSE f : Flattens(f, s), s)
    BY <2>1, Zenon
  <2>3. QED
    BY <2>2 DEF Flattens
<1>3. FlattenSeq(s) = IF Len(s) = 0 THEN s ELSE flatten[Len(s)]
  BY Zenon DEF FlattenSeq
<1> HIDE DEF flatten
<1>4. \A i \in 1..Len(s) : flatten[i] = IF i = 1 THEN s[i] ELSE flatten[i-1] \o s[i]
  BY <1>2 DEF Flattens
<1> DEFINE f == [i \in 0..Len(s) |-> IF i = 0 THEN <<>> ELSE flatten[i]]
           D == {i \in 0..Len(s) : f[i] \notin Seq(S)}
<1>5. ~ D # {}
  <2> SUFFICES ASSUME D # {} PROVE FALSE
    OBVIOUS
  <2>1. 0 \notin D /\ D \in SUBSET (0..Len(s))
    BY <1>1
  <2>2. PICK i \in 1..Len(s) : i \in D /\ i-1 \in 0..Len(s) /\ i-1 \notin D
    <3> HIDE DEF D
    <3>1. QED
      BY <1>1, <2>1, FirstFailure
  <2>3. CASE i = 1
    BY <2>2, <2>3, <1>1, <1>4
  <2>4. CASE i # 1
    <3>0. i-1 # 0 /\ f[i-1] \in Seq(S)
      BY <2>2, <2>4
    <3>1. flatten[i-1] \in Seq(S) /\ flatten[i] = flatten[i-1] \o s[i]
      BY <3>0, <2>2, <2>4, <1>4
    <3>2. flatten[i] \in Seq(S)
      BY <3>1, <1>1
    <3>3. QED
      BY <2>2, <3>2
  <2>5. QED
    BY <2>3, <2>4
<1>6. f \in [0..Len(s) -> Seq(S)]
  BY <1>5
<1>7. \A i \in 1..Len(s) : f[i] = f[i-1] \o s[i]
  <2> SUFFICES ASSUME NEW i \in 1..Len(s) PROVE f[i] = f[i-1] \o s[i]
    OBVIOUS
  <2>1. i-1 \in 0..Len(s)
    BY <1>1
  <2>2. CASE i = 1
    BY <2>2, <1>1, <1>4
  <2>3. CASE i # 1
    <3>1. i-1 # 0 /\ i # 0 /\ i \in 0..Len(s)
      BY <2>1, <2>3
    <3>2. f[i] = flatten[i] /\ f[i-1] = flatten[i-1]
      BY <2>1, <3>1
    <3>3. QED
      BY <2>3, <3>2, <1>4
  <2>4. QED
    BY <2>2, <2>3
<1>8. f[0] = <<>> /\ FlattenSeq(s) = f[Len(s)]
  <2>1. CASE Len(s) = 0
    BY <2>1, <1>1, <1>3
  <2>2. CASE Len(s) # 0
    BY <2>2, <1>1, <1>3
  <2>3. QED
    BY <2>1, <2>2
<1> HIDE DEF f
<1>9. QED
  BY <1>6, <1>7, <1>8

\* One more sequence adds its elements at the end.
LEMMA FlattenAppend ==
    ASSUME NEW S, NEW s \in Seq(Seq(S)), NEW x \in Seq(S)
    PROVE  FlattenSeq(Append(s, x)) = FlattenSeq(s) \o x
<1> DEFINE r == Append(s, x)
<1>1. /\ r \in Seq(Seq(S)) /\ Len(r) = Len(s) + 1 /\ Len(s) \in Nat
      /\ r[Len(s) + 1] = x /\ \A i \in 1..Len(s) : r[i] = s[i]
  OBVIOUS
<1> HIDE DEF r
<1>2. PICK f \in [0..Len(s) -> Seq(S)] :
              /\ f[0] = <<>> /\ \A i \in 1..Len(s) : f[i] = f[i-1] \o s[i]
              /\ FlattenSeq(s) = f[Len(s)]
  BY FlattenTrace
<1>3. PICK g \in [0..Len(r) -> Seq(S)] :
              /\ g[0] = <<>> /\ \A i \in 1..Len(r) : g[i] = g[i-1] \o r[i]
              /\ FlattenSeq(r) = g[Len(r)]
  BY <1>1, FlattenTrace
<1> DEFINE D == {i \in 0..Len(s) : f[i] # g[i]}
<1>4. ~ D # {}
  <2> SUFFICES ASSUME D # {} PROVE FALSE
    OBVIOUS
  <2>1. 0 \notin D /\ D \in SUBSET (0..Len(s))
    BY <1>2, <1>3
  <2>2. PICK i \in 1..Len(s) : i \in D /\ i-1 \in 0..Len(s) /\ i-1 \notin D
    <3> HIDE DEF D
    <3>1. QED
      BY <1>1, <2>1, FirstFailure
  <2>3. f[i-1] = g[i-1]
    BY <2>2
  <2>a. i \in 1..Len(r) /\ r[i] = s[i]
    BY <1>1
  <2>4. f[i] = g[i]
    BY <2>3, <2>a, <1>2, <1>3
  <2>5. QED
    BY <2>2, <2>4
<1>5. f[Len(s)] = g[Len(s)]
  <2>1. \A i \in 0..Len(s) : f[i] = g[i]
    BY <1>4
  <2>2. Len(s) \in 0..Len(s)
    BY <1>1
  <2>3. QED
    BY <2>1, <2>2
<1>6. Len(r) \in 1..Len(r) /\ Len(r) - 1 = Len(s)
  BY <1>1
<1>7. FlattenSeq(r) = g[Len(s)] \o x
  BY <1>1, <1>3, <1>6
<1>8. QED
  BY <1>2, <1>5, <1>7 DEF r

\* No sequences, no elements.
LEMMA FlattenEmpty == FlattenSeq(<<>>) = <<>>
  BY DEF FlattenSeq

\* The concatenation of sequences is one.
LEMMA FlattenType ==
    ASSUME NEW S, NEW s \in Seq(Seq(S))
    PROVE  FlattenSeq(s) \in Seq(S)
<1>1. PICK f \in [0..Len(s) -> Seq(S)] : FlattenSeq(s) = f[Len(s)]
  BY FlattenTrace
<1>2. Len(s) \in 0..Len(s)
  OBVIOUS
<1>3. QED
  BY <1>1, <1>2

\* The elements of two sequences of sequences, one after the other.
LEMMA FlattenConcat ==
    ASSUME NEW S, NEW s \in Seq(Seq(S)), NEW t \in Seq(Seq(S))
    PROVE  FlattenSeq(s \o t) = FlattenSeq(s) \o FlattenSeq(t)
<1> DEFINE P(i) == SubSeq(t, 1, i)
           D == {i \in 0..Len(t) : FlattenSeq(s \o P(i)) # FlattenSeq(s) \o FlattenSeq(P(i))}
<1>1. /\ P(0) = <<>> /\ P(Len(t)) = t /\ Len(t) \in Nat
      /\ \A i \in 0..Len(t) : P(i) \in Seq(Seq(S))
      /\ \A i \in 1..Len(t) : P(i) = Append(P(i-1), t[i]) /\ t[i] \in Seq(S)
  BY PrefixFacts, ElementOfSeq
<1> HIDE DEF P
<1>2. FlattenSeq(s) \in Seq(S)
  BY FlattenType
<1>3. \A x, y, z \in Seq(S) : (x \o y) \o z = x \o (y \o z)
  <2> SUFFICES ASSUME NEW x \in Seq(S), NEW y \in Seq(S), NEW z \in Seq(S)
               PROVE  (x \o y) \o z = x \o (y \o z)
    OBVIOUS
  <2>1. QED
    BY SMTT(30)
<1>4. \A v \in Seq(Seq(S)), e \in Seq(S) : s \o Append(v, e) = Append(s \o v, e)
  BY ConcatAppend
<1>5. ~ D # {}
  <2> SUFFICES ASSUME D # {} PROVE FALSE
    OBVIOUS
  <2>1. 0 \notin D
    <3>1. FlattenSeq(s \o <<>>) = FlattenSeq(s) \o <<>>
      <4>1. s \o <<>> = s /\ FlattenSeq(s) \o <<>> = FlattenSeq(s)
        BY <1>2, ConcatEmptySeq
      <4>2. QED
        BY <4>1
    <3>2. QED
      BY <1>1, <3>1, FlattenEmpty
  <2>2. PICK i \in 1..Len(t) : i \in D /\ i-1 \in 0..Len(t) /\ i-1 \notin D
    <3>1. D \in SUBSET (0..Len(t))
      OBVIOUS
    <3> HIDE DEF D
    <3>2. QED
      BY <1>1, <2>1, <3>1, FirstFailure
  <2> DEFINE u == P(i-1)
  <2>3. u \in Seq(Seq(S)) /\ P(i) = Append(u, t[i]) /\ t[i] \in Seq(S)
    BY <1>1, <2>2
  <2>4. FlattenSeq(s \o u) = FlattenSeq(s) \o FlattenSeq(u)
    BY <2>2
  <2> HIDE DEF u
  <2>5. s \o P(i) = Append(s \o u, t[i]) /\ s \o u \in Seq(Seq(S))
    <3>0. u \in Seq(Seq(S)) /\ t[i] \in Seq(S)
      BY <2>3
    <3>1. s \o Append(u, t[i]) = Append(s \o u, t[i])
      BY <3>0, <1>4
    <3>2. s \o u \in Seq(Seq(S))
      BY <2>3, ConcatProperties
    <3>3. QED
      BY <2>3, <3>1, <3>2
  <2>6. FlattenSeq(s \o P(i)) = FlattenSeq(s \o u) \o t[i]
    BY <2>3, <2>5, FlattenAppend
  <2>7. FlattenSeq(P(i)) = FlattenSeq(u) \o t[i] /\ FlattenSeq(u) \in Seq(S)
    BY <2>3, FlattenAppend, FlattenType
  <2> DEFINE a == FlattenSeq(s)
             b == FlattenSeq(u)
             c == t[i]
  <2>8. (a \o b) \o c = a \o (b \o c)
    <3>1. a \in Seq(S) /\ b \in Seq(S) /\ c \in Seq(S)
      BY <1>2, <2>3, <2>7
    <3> HIDE DEF a, b, c
    <3>2. QED
      BY <3>1, <1>3
  <2>9. QED
    BY <2>2, <2>4, <2>6, <2>7, <2>8
<1>6. Len(t) \notin D
  BY <1>5
<1>7. QED
  BY <1>1, <1>6

-----------------------------------------------------------------------------
(* How often a sequence has an element.                                    *)

Count(s, k) == Cardinality({i \in DOMAIN s : s[i] = k})

\* A count is a number, and positive when the key occurs.
LEMMA CountFacts ==
    ASSUME NEW s \in Seq(ChunkKeys), NEW k
    PROVE  /\ IsFiniteSet({i \in DOMAIN s : s[i] = k}) /\ Count(s, k) \in Nat
           /\ Count(s, k) > 0 <=> \E i \in 1..Len(s) : s[i] = k
<1> DEFINE I == {i \in DOMAIN s : s[i] = k}
<1>1. Len(s) \in Nat /\ DOMAIN s = 1..Len(s)
  OBVIOUS
<1>2. IsFiniteSet(1..Len(s))
  <2>1. 1 \in Int /\ Len(s) \in Int
    BY <1>1
  <2>2. QED
    BY <2>1, FS_Interval
<1>3. IsFiniteSet(I)
  <2>1. I \subseteq 1..Len(s)
    BY <1>1
  <2> HIDE DEF I
  <2>2. QED
    BY <1>2, <2>1, FS_Subset
<1>4. Cardinality(I) \in Nat /\ (Cardinality(I) = 0 <=> I = {})
  <2> HIDE DEF I
  <2>1. QED
    BY <1>3, FS_CardinalityType, FS_EmptySet
<1>5. I # {} <=> \E i \in 1..Len(s) : s[i] = k
  BY <1>1
<1>6. Count(s, k) = Cardinality(I)
  BY DEF Count
<1> HIDE DEF I
<1>7. Cardinality(I) > 0 <=> I # {}
  BY <1>4
<1>8. QED
  BY <1>3, <1>4, <1>5, <1>6, <1>7 DEF I

\* Nothing occurs in the empty sequence.
LEMMA CountEmpty == \A k : Count(<<>>, k) = 0
<1> SUFFICES ASSUME NEW k PROVE Count(<<>>, k) = 0
  OBVIOUS
<1>1. {i \in DOMAIN <<>> : <<>>[i] = k} = {}
  OBVIOUS
<1>2. QED
  BY <1>1, FS_EmptySet DEF Count

\* An appended key counts once.
LEMMA CountAppend ==
    ASSUME NEW s \in Seq(ChunkKeys), NEW x \in ChunkKeys, NEW k
    PROVE  Count(Append(s, x), k) = Count(s, k) + (IF x = k THEN 1 ELSE 0)
<1> DEFINE r == Append(s, x)
           I == {i \in DOMAIN s : s[i] = k}
           J == {i \in DOMAIN r : r[i] = k}
           n == Len(s) + 1
<1>1. /\ DOMAIN s = 1..Len(s) /\ Len(s) \in Nat /\ n = Len(s) + 1
      /\ DOMAIN r = 1..n /\ r[n] = x /\ \A i \in 1..Len(s) : r[i] = s[i]
  OBVIOUS
<1>2. IsFiniteSet(I) /\ Cardinality(I) \in Nat
  BY CountFacts DEF Count
<1>3. n \notin I
  BY <1>1
<1>4. J = IF x = k THEN I \union {n} ELSE I
  <2> HIDE DEF r, n
  <2>1. \A i : i \in 1..n <=> i \in 1..Len(s) \/ i = n
    BY <1>1
  <2>2. QED
    BY <1>1, <2>1
<1>5. Count(s, k) = Cardinality(I) /\ Count(r, k) = Cardinality(J)
  BY DEF Count
<1> HIDE DEF I, J, n, r
<1>6. Cardinality(I \union {n}) = Cardinality(I) + 1
  BY <1>2, <1>3, FS_AddElement
<1>7. QED
  BY <1>2, <1>4, <1>5, <1>6 DEF r

\* Counts add up.
LEMMA CountConcat ==
    ASSUME NEW s \in Seq(ChunkKeys), NEW t \in Seq(ChunkKeys), NEW k
    PROVE  Count(s \o t, k) = Count(s, k) + Count(t, k)
<1> DEFINE P(i) == SubSeq(t, 1, i)
           D == {i \in 0..Len(t) : Count(s \o P(i), k) # Count(s, k) + Count(P(i), k)}
<1>1. /\ P(0) = <<>> /\ P(Len(t)) = t /\ Len(t) \in Nat
      /\ \A i \in 0..Len(t) : P(i) \in Seq(ChunkKeys)
      /\ \A i \in 1..Len(t) : P(i) = Append(P(i-1), t[i]) /\ t[i] \in ChunkKeys
  BY PrefixFacts, ElementOfSeq
<1> HIDE DEF P
<1>2. \A v \in Seq(ChunkKeys), e \in ChunkKeys : s \o Append(v, e) = Append(s \o v, e) /\ s \o v \in Seq(ChunkKeys)
  BY ConcatAppend, ConcatProperties
<1>3. \A v \in Seq(ChunkKeys) : Count(v, k) \in Nat
  BY CountFacts
<1>4. ~ D # {}
  <2> SUFFICES ASSUME D # {} PROVE FALSE
    OBVIOUS
  <2>1. 0 \notin D
    <3>1. s \o <<>> = s
      OBVIOUS
    <3>2. Count(s, k) + 0 = Count(s, k)
      BY <1>3
    <3>3. QED
      BY <1>1, <3>1, <3>2, CountEmpty
  <2>2. PICK i \in 1..Len(t) : i \in D /\ i-1 \in 0..Len(t) /\ i-1 \notin D
    <3>1. D \in SUBSET (0..Len(t))
      OBVIOUS
    <3> HIDE DEF D
    <3>2. QED
      BY <1>1, <2>1, <3>1, FirstFailure
  <2> DEFINE u == P(i-1)
             e == t[i]
  <2>3. u \in Seq(ChunkKeys) /\ P(i) = Append(u, e) /\ e \in ChunkKeys
    BY <1>1, <2>2
  <2>4. Count(s \o u, k) = Count(s, k) + Count(u, k)
    BY <2>2
  <2> HIDE DEF u, e
  <2>5. s \o P(i) = Append(s \o u, e) /\ s \o u \in Seq(ChunkKeys)
    BY <2>3, <1>2
  <2>6. Count(s \o P(i), k) = Count(s \o u, k) + (IF e = k THEN 1 ELSE 0)
    <3> DEFINE w == s \o u
    <3>1. w \in Seq(ChunkKeys) /\ e \in ChunkKeys /\ s \o P(i) = Append(w, e)
      BY <2>3, <2>5
    <3> HIDE DEF w
    <3>2. Count(Append(w, e), k) = Count(w, k) + (IF e = k THEN 1 ELSE 0)
      BY <3>1, CountAppend
    <3>3. QED
      BY <3>1, <3>2 DEF w
  <2>7. Count(P(i), k) = Count(u, k) + (IF e = k THEN 1 ELSE 0)
    BY <2>3, CountAppend
  <2>8. Count(s, k) \in Nat /\ Count(u, k) \in Nat
    BY <1>3, <2>3
  <2>9. Count(s \o P(i), k) = Count(s, k) + Count(P(i), k)
    BY <2>4, <2>6, <2>7, <2>8
  <2>10. QED
    BY <2>2, <2>9
<1>5. Len(t) \in 0..Len(t) /\ Len(t) \notin D
  BY <1>1, <1>4
<1>6. QED
  BY <1>1, <1>5

-----------------------------------------------------------------------------
(* Chunks and lists of chunks.                                             *)

\* SeqsUpTo are the bounded sequences of units.
LEMMA SequencesUpTo ==
    ASSUME NEW n \in Nat, NEW s
    PROVE  s \in SeqsUpTo(n) <=> s \in Seq(Units) /\ Len(s) <= n
<1>1. s \in SeqsUpTo(n) <=> \E m \in 0..n : s \in [1..m -> Units]
  BY DEF SeqsUpTo
<1>2. ASSUME NEW m \in 0..n, s \in [1..m -> Units]
      PROVE  s \in Seq(Units) /\ Len(s) <= n
  BY <1>2
<1>3. ASSUME s \in Seq(Units), Len(s) <= n
      PROVE  \E m \in 0..n : s \in [1..m -> Units]
  <2>1. Len(s) \in 0..n /\ s \in [1..Len(s) -> Units]
    BY <1>3
  <2>2. QED
    BY <2>1
<1>4. QED
  BY <1>1, <1>2, <1>3

\* The key of a chunk is its content: not empty, no longer than a segment.
LEMMA ChunkKeyFacts ==
    \A k : k \in ChunkKeys <=> k \in Seq(Units) /\ Len(k) \in 1..MaxSeg
<1> SUFFICES ASSUME NEW k
             PROVE  k \in ChunkKeys <=> k \in Seq(Units) /\ Len(k) \in 1..MaxSeg
  OBVIOUS
<1>1. MaxSeg \in Nat
  BY SegmentAssumption
<1>2. k \in SeqsUpTo(MaxSeg) <=> k \in Seq(Units) /\ Len(k) <= MaxSeg
  BY <1>1, SequencesUpTo
<1>3. k \in Seq(Units) => Len(k) \in Nat /\ (k = <<>> <=> Len(k) = 0)
  OBVIOUS
<1>4. QED
  BY <1>1, <1>2, <1>3 DEF ChunkKeys

\* The keys and the bytes of a list.
LEMMA KeysOfFacts ==
    ASSUME NEW l \in Seq(Chunk)
    PROVE  /\ KeysOf(l) \in Seq(ChunkKeys) /\ KeysOf(l) \in Seq(Seq(Units))
           /\ Len(KeysOf(l)) = Len(l) /\ Len(l) \in Nat /\ DOMAIN l = 1..Len(l)
           /\ \A i \in 1..Len(l) : KeysOf(l)[i] = l[i].key /\ l[i] \in Chunk
           /\ Bytes(l) \in Seq(Units) /\ Len(Bytes(l)) \in Nat
<1>1. Len(l) \in Nat /\ DOMAIN l = 1..Len(l) /\ \A i \in 1..Len(l) : l[i] \in Chunk
  BY ElementOfSeq
<1>2. \A i \in 1..Len(l) : l[i].key \in ChunkKeys /\ l[i].key \in Seq(Units)
  BY <1>1, ChunkKeyFacts DEF Chunk
<1>3. KeysOf(l) = [i \in 1..Len(l) |-> l[i].key]
  BY <1>1 DEF KeysOf
<1>4. KeysOf(l) \in Seq(ChunkKeys) /\ KeysOf(l) \in Seq(Seq(Units)) /\ Len(KeysOf(l)) = Len(l)
  BY <1>1, <1>2, <1>3
<1>5. Bytes(l) \in Seq(Units)
  BY <1>4, FlattenType DEF Bytes
<1>6. Len(Bytes(l)) \in Nat
  BY <1>5
<1>7. QED
  BY <1>1, <1>3, <1>4, <1>5, <1>6

\* The occurrences of a key in a list.
LEMMA OccurrencesAre ==
    ASSUME NEW l \in Seq(Chunk), NEW k
    PROVE  /\ Occurrences(l, k) = Count(KeysOf(l), k) /\ Occurrences(l, k) \in Nat
           /\ Occurrences(l, k) > 0 <=> \E i \in 1..Len(l) : l[i].key = k
<1>1. {i \in DOMAIN l : l[i].key = k} = {i \in DOMAIN KeysOf(l) : KeysOf(l)[i] = k}
  BY DEF KeysOf
<1>2. Occurrences(l, k) = Count(KeysOf(l), k)
  BY <1>1 DEF Occurrences, Count
<1>3. /\ KeysOf(l) \in Seq(ChunkKeys) /\ Len(KeysOf(l)) = Len(l)
      /\ \A i \in 1..Len(l) : KeysOf(l)[i] = l[i].key
  BY KeysOfFacts
<1>4. /\ Count(KeysOf(l), k) \in Nat
      /\ Count(KeysOf(l), k) > 0 <=> \E i \in 1..Len(KeysOf(l)) : KeysOf(l)[i] = k
  BY <1>3, CountFacts
<1>5. QED
  BY <1>2, <1>3, <1>4

\* The empty chunk list.
LEMMA EmptyList == KeysOf(<<>>) = <<>> /\ Bytes(<<>>) = <<>> /\ \A k : Occurrences(<<>>, k) = 0
<1>1. KeysOf(<<>>) = <<>>
  BY DEF KeysOf
<1>2. <<>> \in Seq(Chunk)
  OBVIOUS
<1>3. Bytes(<<>>) = <<>>
  BY <1>1, FlattenEmpty DEF Bytes
<1>4. \A k : Occurrences(<<>>, k) = Count(KeysOf(<<>>), k)
  BY <1>2, OccurrencesAre
<1>5. \A k : Occurrences(<<>>, k) = 0
  BY <1>1, <1>4, CountEmpty, Zenon
<1>6. QED
  BY <1>1, <1>3, <1>5

\* Two lists, one after the other.
LEMMA ListConcat ==
    ASSUME NEW l \in Seq(Chunk), NEW m \in Seq(Chunk)
    PROVE  /\ l \o m \in Seq(Chunk) /\ Len(l \o m) = Len(l) + Len(m)
           /\ KeysOf(l \o m) = KeysOf(l) \o KeysOf(m)
           /\ Bytes(l \o m) = Bytes(l) \o Bytes(m)
           /\ Len(Bytes(l \o m)) = Len(Bytes(l)) + Len(Bytes(m))
           /\ \A k : Occurrences(l \o m, k) = Occurrences(l, k) + Occurrences(m, k)
<1> DEFINE r == l \o m
<1>1. /\ r \in Seq(Chunk) /\ Len(r) = Len(l) + Len(m)
      /\ \A i \in 1..Len(r) : r[i] = IF i <= Len(l) THEN l[i] ELSE m[i - Len(l)]
  BY ConcatProperties
<1>2. /\ Len(KeysOf(l)) = Len(l) /\ Len(KeysOf(m)) = Len(m) /\ Len(KeysOf(r)) = Len(r)
      /\ Len(l) \in Nat /\ Len(m) \in Nat
      /\ KeysOf(l) \in Seq(ChunkKeys) /\ KeysOf(m) \in Seq(ChunkKeys) /\ KeysOf(r) \in Seq(ChunkKeys)
  BY <1>1, KeysOfFacts
<1> HIDE DEF r
<1>3. KeysOf(r) = KeysOf(l) \o KeysOf(m)
  <2> DEFINE a == KeysOf(l)
             b == KeysOf(m)
             c == KeysOf(r)
  <2>1. \A i \in 1..Len(r) : c[i] = r[i].key
    BY <1>1, KeysOfFacts
  <2>2. \A i \in 1..Len(l) : a[i] = l[i].key
    BY KeysOfFacts
  <2>3. \A i \in 1..Len(m) : b[i] = m[i].key
    BY KeysOfFacts
  <2> HIDE DEF a, b, c
  <2>4. /\ a \o b \in Seq(ChunkKeys) /\ Len(a \o b) = Len(l) + Len(m)
        /\ \A i \in 1..Len(l) + Len(m) : (a \o b)[i] = IF i <= Len(l) THEN a[i] ELSE b[i - Len(l)]
    <3>1. a \in Seq(ChunkKeys) /\ b \in Seq(ChunkKeys) /\ Len(a) = Len(l) /\ Len(b) = Len(m)
      BY <1>2 DEF a, b
    <3>2. \A v, w \in Seq(ChunkKeys) :
            /\ v \o w \in Seq(ChunkKeys) /\ Len(v \o w) = Len(v) + Len(w)
            /\ \A i \in 1..Len(v) + Len(w) : (v \o w)[i] = IF i <= Len(v) THEN v[i] ELSE w[i - Len(v)]
      BY ConcatProperties
    <3>3. /\ a \o b \in Seq(ChunkKeys) /\ Len(a \o b) = Len(a) + Len(b)
          /\ \A i \in 1..Len(a) + Len(b) : (a \o b)[i] = IF i <= Len(a) THEN a[i] ELSE b[i - Len(a)]
      BY <3>1, <3>2, Zenon
    <3>4. QED
      BY <3>1, <3>3, Zenon
  <2>5. ASSUME NEW i \in 1..Len(r)
        PROVE  c[i] = (a \o b)[i]
    <3>1. CASE i <= Len(l)
      <4>1. i \in 1..Len(l) /\ i \in 1..Len(l) + Len(m) /\ r[i] = l[i]
        BY <3>1, <1>1, <1>2
      <4>2. c[i] = l[i].key
        BY <4>1, <2>1
      <4>3. (a \o b)[i] = a[i]
        BY <3>1, <4>1, <2>4
      <4>4. QED
        BY <4>1, <4>2, <4>3, <2>2
    <3>2. CASE ~(i <= Len(l))
      <4>1. i - Len(l) \in 1..Len(m)
        BY <3>2, <1>1, <1>2
      <4>2. i \in 1..Len(l) + Len(m) /\ r[i] = m[i - Len(l)]
        BY <3>2, <1>1, <1>2
      <4>3. c[i] = m[i - Len(l)].key
        BY <4>2, <2>1
      <4>4. (a \o b)[i] = b[i - Len(l)]
        BY <3>2, <4>2, <2>4
      <4>5. QED
        BY <4>1, <4>3, <4>4, <2>3
    <3>3. QED
      BY <3>1, <3>2
  <2>6. c \in Seq(ChunkKeys) /\ Len(c) = Len(a \o b)
    BY <1>1, <1>2, <2>4 DEF c
  <2>7. c = a \o b
    BY <2>4, <2>5, <2>6, <1>2, SeqEqual DEF c
  <2>8. QED
    BY <2>7 DEF a, b, c
<1>4. Bytes(r) = Bytes(l) \o Bytes(m)
  <2>1. KeysOf(l) \in Seq(Seq(Units)) /\ KeysOf(m) \in Seq(Seq(Units))
    BY KeysOfFacts
  <2>2. QED
    BY <1>3, <2>1, FlattenConcat DEF Bytes
<1>5. Len(Bytes(l) \o Bytes(m)) = Len(Bytes(l)) + Len(Bytes(m))
  <2>1. Bytes(l) \in Seq(Units) /\ Bytes(m) \in Seq(Units)
    BY KeysOfFacts
  <2>2. QED
    BY <2>1, ConcatProperties
<1>6. \A k : Occurrences(r, k) = Occurrences(l, k) + Occurrences(m, k)
  <2>1. \A v \in Seq(Chunk) : \A k : Occurrences(v, k) = Count(KeysOf(v), k)
    BY OccurrencesAre
  <2>2. QED
    <3> SUFFICES ASSUME NEW k PROVE Occurrences(r, k) = Occurrences(l, k) + Occurrences(m, k)
      OBVIOUS
    <3>1. Count(KeysOf(l) \o KeysOf(m), k) = Count(KeysOf(l), k) + Count(KeysOf(m), k)
      BY <1>2, CountConcat
    <3>2. QED
      BY <1>1, <1>3, <2>1, <3>1
<1>7. QED
  BY <1>1, <1>3, <1>4, <1>5, <1>6 DEF r

-----------------------------------------------------------------------------
(* Folding over a sequence, from left to right.                            *)

\* A non-empty set of indices has a largest one.
LEMMA Largest ==
    ASSUME NEW n \in Nat, NEW s \in SUBSET (1..n), s # {}
    PROVE  Max(s) \in s /\ \A j \in s : Max(s) >= j
<1> DEFINE D == {n - i : i \in s}
<1>1. D \in SUBSET Nat /\ D # {}
  <2>1. \A i \in s : n - i \in Nat
    OBVIOUS
  <2>2. QED
    BY <2>1
<1>2. PICK d \in D : \A e \in D : d <= e
  <2> HIDE DEF D
  <2>1. QED
    BY <1>1, Smallest
<1>3. PICK m \in s : d = n - m
  BY <1>2
<1>4. \A j \in s : m >= j
  <2> SUFFICES ASSUME NEW j \in s PROVE m >= j
    OBVIOUS
  <2>1. n - m <= n - j
    BY <1>2, <1>3
  <2>2. QED
    BY <2>1
<1>5. QED
  BY <1>4 DEF Max

\* A fold over 1..i ends with i.
LEMMA LargestOfBeginning ==
    ASSUME NEW i \in Nat \ {0}
    PROVE  Max(1..i) = i /\ (1..i) \ {i} = 1..(i-1) /\ 1..i # {}
<1>1. 1..i \in SUBSET (1..i) /\ i \in 1..i
  OBVIOUS
<1>2. Max(1..i) \in 1..i /\ \A j \in 1..i : Max(1..i) >= j
  BY <1>1, Largest
<1>3. Max(1..i) >= i /\ Max(1..i) <= i
  BY <1>1, <1>2
<1>4. Max(1..i) = i
  <2>1. Max(1..i) \in Int
    BY <1>2
  <2>2. QED
    BY <1>3, <2>1
<1>5. (1..i) \ {i} = 1..(i-1)
  OBVIOUS
<1>6. QED
  BY <1>1, <1>4, <1>5

\* A recursion over the largest index of a set has a solution.
FoldsBy(g, F, S, base, n) ==
    /\ g \in [SUBSET (1..n) -> S]
    /\ \A s \in SUBSET (1..n) :
          g[s] = IF s = {} THEN base ELSE F[<<Max(s), g[s \ {Max(s)}]>>]

\* Every such recursion over subsets has a solution.
LEMMA FoldExists ==
    ASSUME NEW n \in Nat, NEW S, NEW base \in S, NEW F \in [(1..n) \X S -> S]
    PROVE  \E g : FoldsBy(g, F, S, base, n)
<1> DEFINE D == {m \in 0..n : ~ \E g : FoldsBy(g, F, S, base, m)}
<1>1. ~ D # {}
  <2> SUFFICES ASSUME D # {} PROVE FALSE
    OBVIOUS
  <2>1. 0 \notin D
    <3> DEFINE g == [s \in SUBSET (1..0) |-> base]
    <3>1. \A s \in SUBSET (1..0) : s = {}
      OBVIOUS
    <3>2. FoldsBy(g, F, S, base, 0)
      BY <3>1 DEF FoldsBy
    <3>3. QED
      BY <3>2
  <2>2. PICK m \in 1..n : m \in D /\ m-1 \in 0..n /\ m-1 \notin D
    <3>1. D \in SUBSET (0..n)
      OBVIOUS
    <3> HIDE DEF D
    <3>2. QED
      BY <2>1, <3>1, FirstFailure
  <2>3. PICK g : FoldsBy(g, F, S, base, m-1)
    BY <2>2
  <2> DEFINE h == [s \in SUBSET (1..m) |-> IF m \in s THEN F[<<m, g[s \ {m}]>>] ELSE g[s]]
  <2>4. \A s \in SUBSET (1..m) : /\ s \ {m} \in SUBSET (1..m-1)
                                 /\ m \notin s => s \in SUBSET (1..m-1)
    OBVIOUS
  <2>5. h \in [SUBSET (1..m) -> S]
    <3> SUFFICES ASSUME NEW s \in SUBSET (1..m)
                 PROVE  (IF m \in s THEN F[<<m, g[s \ {m}]>>] ELSE g[s]) \in S
      OBVIOUS
    <3>1. g[s \ {m}] \in S /\ (m \notin s => g[s] \in S)
      BY <2>3, <2>4 DEF FoldsBy
    <3>2. QED
      BY <3>1
  <2>6. ASSUME NEW s \in SUBSET (1..m)
        PROVE  h[s] = IF s = {} THEN base ELSE F[<<Max(s), h[s \ {Max(s)}]>>]
    <3>1. CASE m \in s
      <4>1. Max(s) \in s /\ Max(s) >= m
        <5>1. m \in Nat /\ s # {}
          BY <3>1
        <5>2. Max(s) \in s /\ \A j \in s : Max(s) >= j
          BY <5>1, Largest
        <5>3. QED
          BY <3>1, <5>2
      <4>2. Max(s) = m
        <5>1. Max(s) \in 1..m
          BY <4>1
        <5>2. QED
          BY <4>1, <5>1
      <4>3. h[s \ {m}] = g[s \ {m}]
        BY <2>4
      <4>4. QED
        BY <3>1, <4>2, <4>3
    <3>2. CASE m \notin s
      <4>1. s \in SUBSET (1..m-1) /\ h[s] = g[s]
        BY <3>2, <2>4
      <4>2. CASE s = {}
        BY <4>1, <4>2, <2>3 DEF FoldsBy
      <4>3. CASE s # {}
        <5>1. s \ {Max(s)} \in SUBSET (1..m-1) /\ s \ {Max(s)} \in SUBSET (1..m) /\ m \notin s \ {Max(s)}
          BY <4>1, <3>2
        <5>2. h[s \ {Max(s)}] = g[s \ {Max(s)}]
          BY <5>1
        <5>3. g[s] = F[<<Max(s), g[s \ {Max(s)}]>>]
          BY <4>1, <4>3, <2>3 DEF FoldsBy
        <5>4. QED
          BY <4>1, <4>3, <5>2, <5>3
      <4>4. QED
        BY <4>2, <4>3
    <3>3. QED
      BY <3>1, <3>2
  <2> HIDE DEF h
  <2>7. FoldsBy(h, F, S, base, m)
    BY <2>5, <2>6 DEF FoldsBy
  <2>8. QED
    BY <2>2, <2>7
<1>2. n \in 0..n
  OBVIOUS
<1>3. QED
  BY <1>1, <1>2

\* The store after each use.
LEMMA UseAllTrace ==
    ASSUME NEW S, NEW s0 \in S, NEW segs \in Seq(ChunkKeys),
           \A s \in S, k \in ChunkKeys : UseOf(s, k) \in S
    PROVE  \E f \in [0..Len(segs) -> S] :
              /\ f[0] = s0 /\ \A i \in 1..Len(segs) : f[i] = UseOf(f[i-1], segs[i])
              /\ UseAll(s0, segs) = f[Len(segs)]
<1> DEFINE n == Len(segs)
           F == [p \in (1..n) \X S |-> UseOf(p[2], segs[p[1]])]
           Iterates(it) == it = [s \in SUBSET DOMAIN segs |->
                IF s = {} THEN s0 ELSE LET x == Max(s) IN UseOf(it[s \ {x}], segs[x])]
           iter == CHOOSE it : it = [s \in SUBSET DOMAIN segs |->
                IF s = {} THEN s0 ELSE LET x == Max(s) IN UseOf(it[s \ {x}], segs[x])]
<1>1. n \in Nat /\ DOMAIN segs = 1..n /\ \A i \in 1..n : segs[i] \in ChunkKeys
  BY ElementOfSeq
<1>2. UseAll(s0, segs) = iter[DOMAIN segs]
  BY Zenon DEF UseAll, FoldLeft, MapThenFoldSet
<1>3. Iterates(iter)
  <2>1. F \in [(1..n) \X S -> S]
    BY <1>1
  <2>2. PICK g : FoldsBy(g, F, S, s0, n)
    <3> HIDE DEF F, n
    <3>1. QED
      BY <1>1, <2>1, FoldExists
  <2>3. Iterates(g)
    <3>1. ASSUME NEW s \in SUBSET (1..n), s # {}
          PROVE  F[<<Max(s), g[s \ {Max(s)}]>>] = UseOf(g[s \ {Max(s)}], segs[Max(s)])
      <4>1. Max(s) \in 1..n
        BY <1>1, <3>1, Largest
      <4>2. g[s \ {Max(s)}] \in S
        BY <2>2 DEF FoldsBy
      <4>3. QED
        BY <4>1, <4>2
    <3> HIDE DEF F, n
    <3>2. \A s \in SUBSET (1..n) :
            g[s] = IF s = {} THEN s0 ELSE UseOf(g[s \ {Max(s)}], segs[Max(s)])
      BY <2>2, <3>1 DEF FoldsBy
    <3>3. g = [s \in SUBSET (1..n) |-> g[s]]
      BY <2>2 DEF FoldsBy
    <3>4. QED
      BY <1>1, <3>2, <3>3
  <2> HIDE DEF Iterates
  <2>4. Iterates(CHOOSE it : Iterates(it))
    BY <2>3, Zenon
  <2>5. QED
    BY <2>4 DEF Iterates
<1> HIDE DEF iter, F, n
<1>4. \A s \in SUBSET (1..n) :
        iter[s] = IF s = {} THEN s0 ELSE UseOf(iter[s \ {Max(s)}], segs[Max(s)])
  BY <1>1, <1>3
<1>5. iter[1..0] = s0
  <2>1. 1..0 = {} /\ {} \in SUBSET (1..n)
    OBVIOUS
  <2>2. QED
    BY <1>4, <2>1
<1>6. ASSUME NEW i \in 1..n
      PROVE  iter[1..i] = UseOf(iter[1..(i-1)], segs[i])
  <2>1. Max(1..i) = i /\ (1..i) \ {i} = 1..(i-1) /\ 1..i # {}
    <3>1. i \in Nat \ {0}
      BY <1>1
    <3>2. QED
      BY <3>1, LargestOfBeginning
  <2>2. 1..i \in SUBSET (1..n)
    BY <1>1
  <2>3. QED
    BY <1>4, <2>1, <2>2
<1>7. \A i \in 0..n : iter[1..i] \in S
  <2> DEFINE D == {i \in 0..n : iter[1..i] \notin S}
  <2> SUFFICES ASSUME D # {} PROVE FALSE
    OBVIOUS
  <2>1. 0 \notin D /\ D \in SUBSET (0..n)
    BY <1>5
  <2>2. PICK i \in 1..n : i \in D /\ i-1 \in 0..n /\ i-1 \notin D
    <3> HIDE DEF D
    <3>1. QED
      BY <1>1, <2>1, FirstFailure
  <2>3. iter[1..i] \in S
    BY <1>1, <1>6, <2>2
  <2>4. QED
    BY <2>2, <2>3
<1> DEFINE f == [i \in 0..n |-> iter[1..i]]
<1>8. f \in [0..n -> S]
  BY <1>7
<1>9. f[0] = s0 /\ f[n] = UseAll(s0, segs)
  BY <1>1, <1>2, <1>5
<1>10. \A i \in 1..n : f[i] = UseOf(f[i-1], segs[i])
  <2>1. \A i \in 1..n : i \in 0..n /\ i-1 \in 0..n
    BY <1>1
  <2>2. QED
    BY <1>6, <2>1
<1> HIDE DEF f
<1>11. QED
  BY <1>8, <1>9, <1>10 DEF n
\* The store after each release.
LEMMA ReleaseAllTrace ==
    ASSUME NEW S, NEW s0 \in S, NEW l \in Seq(Chunk),
           \A s \in S, k \in ChunkKeys : ReleaseOf(s, k) \in S
    PROVE  \E f \in [0..Len(KeysOf(l)) -> S] :
              /\ f[0] = s0 /\ \A i \in 1..Len(KeysOf(l)) : f[i] = ReleaseOf(f[i-1], KeysOf(l)[i])
              /\ ReleaseAll(s0, l) = f[Len(KeysOf(l))]
<1> DEFINE n == Len(KeysOf(l))
           F == [p \in (1..n) \X S |-> ReleaseOf(p[2], KeysOf(l)[p[1]])]
           Iterates(it) == it = [s \in SUBSET DOMAIN KeysOf(l) |->
                IF s = {} THEN s0 ELSE LET x == Max(s) IN ReleaseOf(it[s \ {x}], KeysOf(l)[x])]
           iter == CHOOSE it : it = [s \in SUBSET DOMAIN KeysOf(l) |->
                IF s = {} THEN s0 ELSE LET x == Max(s) IN ReleaseOf(it[s \ {x}], KeysOf(l)[x])]
<1>1. n \in Nat /\ DOMAIN KeysOf(l) = 1..n /\ \A i \in 1..n : KeysOf(l)[i] \in ChunkKeys
  <2>1. KeysOf(l) \in Seq(ChunkKeys)
    BY KeysOfFacts
  <2>2. QED
    BY <2>1, ElementOfSeq
<1>2. ReleaseAll(s0, l) = iter[DOMAIN KeysOf(l)]
  BY Zenon DEF ReleaseAll, FoldLeft, MapThenFoldSet
<1>3. Iterates(iter)
  <2>1. F \in [(1..n) \X S -> S]
    BY <1>1
  <2>2. PICK g : FoldsBy(g, F, S, s0, n)
    <3> HIDE DEF F, n
    <3>1. QED
      BY <1>1, <2>1, FoldExists
  <2>3. Iterates(g)
    <3>1. ASSUME NEW s \in SUBSET (1..n), s # {}
          PROVE  F[<<Max(s), g[s \ {Max(s)}]>>] = ReleaseOf(g[s \ {Max(s)}], KeysOf(l)[Max(s)])
      <4>1. Max(s) \in 1..n
        BY <1>1, <3>1, Largest
      <4>2. g[s \ {Max(s)}] \in S
        BY <2>2 DEF FoldsBy
      <4>3. QED
        BY <4>1, <4>2
    <3> HIDE DEF F, n
    <3>2. \A s \in SUBSET (1..n) :
            g[s] = IF s = {} THEN s0 ELSE ReleaseOf(g[s \ {Max(s)}], KeysOf(l)[Max(s)])
      BY <2>2, <3>1 DEF FoldsBy
    <3>3. g = [s \in SUBSET (1..n) |-> g[s]]
      BY <2>2 DEF FoldsBy
    <3>4. QED
      BY <1>1, <3>2, <3>3
  <2> HIDE DEF Iterates
  <2>4. Iterates(CHOOSE it : Iterates(it))
    BY <2>3, Zenon
  <2>5. QED
    BY <2>4 DEF Iterates
<1> HIDE DEF iter, F, n
<1>4. \A s \in SUBSET (1..n) :
        iter[s] = IF s = {} THEN s0 ELSE ReleaseOf(iter[s \ {Max(s)}], KeysOf(l)[Max(s)])
  BY <1>1, <1>3
<1>5. iter[1..0] = s0
  <2>1. 1..0 = {} /\ {} \in SUBSET (1..n)
    OBVIOUS
  <2>2. QED
    BY <1>4, <2>1
<1>6. ASSUME NEW i \in 1..n
      PROVE  iter[1..i] = ReleaseOf(iter[1..(i-1)], KeysOf(l)[i])
  <2>1. Max(1..i) = i /\ (1..i) \ {i} = 1..(i-1) /\ 1..i # {}
    <3>1. i \in Nat \ {0}
      BY <1>1
    <3>2. QED
      BY <3>1, LargestOfBeginning
  <2>2. 1..i \in SUBSET (1..n)
    BY <1>1
  <2>3. QED
    BY <1>4, <2>1, <2>2
<1>7. \A i \in 0..n : iter[1..i] \in S
  <2> DEFINE D == {i \in 0..n : iter[1..i] \notin S}
  <2> SUFFICES ASSUME D # {} PROVE FALSE
    OBVIOUS
  <2>1. 0 \notin D /\ D \in SUBSET (0..n)
    BY <1>5
  <2>2. PICK i \in 1..n : i \in D /\ i-1 \in 0..n /\ i-1 \notin D
    <3> HIDE DEF D
    <3>1. QED
      BY <1>1, <2>1, FirstFailure
  <2>3. iter[1..i] \in S
    BY <1>1, <1>6, <2>2
  <2>4. QED
    BY <2>2, <2>3
<1> DEFINE f == [i \in 0..n |-> iter[1..i]]
<1>8. f \in [0..n -> S]
  BY <1>7
<1>9. f[0] = s0 /\ f[n] = ReleaseAll(s0, l)
  BY <1>1, <1>2, <1>5
<1>10. \A i \in 1..n : f[i] = ReleaseOf(f[i-1], KeysOf(l)[i])
  <2>1. \A i \in 1..n : i \in 0..n /\ i-1 \in 0..n
    BY <1>1
  <2>2. QED
    BY <1>6, <2>1
<1> HIDE DEF f
<1>11. QED
  BY <1>8, <1>9, <1>10 DEF n

\* Before the first unit.
Nothing == [segs |-> <<>>, rest |-> <<>>]

\* The segments and the rest after each unit.
LEMMA SplitTrace ==
    ASSUME NEW S, Nothing \in S, NEW bytes \in Seq(Units),
           \A s \in S, k \in Units : Consume(s, k) \in S
    PROVE  \E f \in [0..Len(bytes) -> S] :
              /\ f[0] = Nothing /\ \A i \in 1..Len(bytes) : f[i] = Consume(f[i-1], bytes[i])
              /\ Split(bytes) = f[Len(bytes)]
<1> DEFINE n == Len(bytes)
           F == [p \in (1..n) \X S |-> Consume(p[2], bytes[p[1]])]
           Iterates(it) == it = [s \in SUBSET DOMAIN bytes |->
                IF s = {} THEN Nothing ELSE LET x == Max(s) IN Consume(it[s \ {x}], bytes[x])]
           iter == CHOOSE it : it = [s \in SUBSET DOMAIN bytes |->
                IF s = {} THEN Nothing ELSE LET x == Max(s) IN Consume(it[s \ {x}], bytes[x])]
<1>1. n \in Nat /\ DOMAIN bytes = 1..n /\ \A i \in 1..n : bytes[i] \in Units
  BY ElementOfSeq
<1>2. Split(bytes) = iter[DOMAIN bytes]
  BY Zenon DEF Split, Nothing, FoldLeft, MapThenFoldSet
<1>3. Iterates(iter)
  <2>1. F \in [(1..n) \X S -> S]
    BY <1>1
  <2>2. PICK g : FoldsBy(g, F, S, Nothing, n)
    <3> HIDE DEF F, n
    <3>1. QED
      BY <1>1, <2>1, FoldExists
  <2>3. Iterates(g)
    <3>1. ASSUME NEW s \in SUBSET (1..n), s # {}
          PROVE  F[<<Max(s), g[s \ {Max(s)}]>>] = Consume(g[s \ {Max(s)}], bytes[Max(s)])
      <4>1. Max(s) \in 1..n
        BY <1>1, <3>1, Largest
      <4>2. g[s \ {Max(s)}] \in S
        BY <2>2 DEF FoldsBy
      <4>3. QED
        BY <4>1, <4>2
    <3> HIDE DEF F, n
    <3>2. \A s \in SUBSET (1..n) :
            g[s] = IF s = {} THEN Nothing ELSE Consume(g[s \ {Max(s)}], bytes[Max(s)])
      BY <2>2, <3>1 DEF FoldsBy
    <3>3. g = [s \in SUBSET (1..n) |-> g[s]]
      BY <2>2 DEF FoldsBy
    <3>4. QED
      BY <1>1, <3>2, <3>3
  <2> HIDE DEF Iterates
  <2>4. Iterates(CHOOSE it : Iterates(it))
    BY <2>3, Zenon
  <2>5. QED
    BY <2>4 DEF Iterates
<1> HIDE DEF iter, F, n
<1>4. \A s \in SUBSET (1..n) :
        iter[s] = IF s = {} THEN Nothing ELSE Consume(iter[s \ {Max(s)}], bytes[Max(s)])
  BY <1>1, <1>3
<1>5. iter[1..0] = Nothing
  <2>1. 1..0 = {} /\ {} \in SUBSET (1..n)
    OBVIOUS
  <2>2. QED
    BY <1>4, <2>1
<1>6. ASSUME NEW i \in 1..n
      PROVE  iter[1..i] = Consume(iter[1..(i-1)], bytes[i])
  <2>1. Max(1..i) = i /\ (1..i) \ {i} = 1..(i-1) /\ 1..i # {}
    <3>1. i \in Nat \ {0}
      BY <1>1
    <3>2. QED
      BY <3>1, LargestOfBeginning
  <2>2. 1..i \in SUBSET (1..n)
    BY <1>1
  <2>3. QED
    BY <1>4, <2>1, <2>2
<1>7. \A i \in 0..n : iter[1..i] \in S
  <2> DEFINE D == {i \in 0..n : iter[1..i] \notin S}
  <2> SUFFICES ASSUME D # {} PROVE FALSE
    OBVIOUS
  <2>1. 0 \notin D /\ D \in SUBSET (0..n)
    BY <1>5
  <2>2. PICK i \in 1..n : i \in D /\ i-1 \in 0..n /\ i-1 \notin D
    <3> HIDE DEF D
    <3>1. QED
      BY <1>1, <2>1, FirstFailure
  <2>3. iter[1..i] \in S
    BY <1>1, <1>6, <2>2
  <2>4. QED
    BY <2>2, <2>3
<1> DEFINE f == [i \in 0..n |-> iter[1..i]]
<1>8. f \in [0..n -> S]
  BY <1>7
<1>9. f[0] = Nothing /\ f[n] = Split(bytes)
  BY <1>1, <1>2, <1>5
<1>10. \A i \in 1..n : f[i] = Consume(f[i-1], bytes[i])
  <2>1. \A i \in 1..n : i \in 0..n /\ i-1 \in 0..n
    BY <1>1
  <2>2. QED
    BY <1>6, <2>1
<1> HIDE DEF f
<1>11. QED
  BY <1>8, <1>9, <1>10 DEF n

-----------------------------------------------------------------------------
(* The chunk store.                                                        *)

Stores ==
    [table : [ChunkKeys -> [listed : BOOLEAN, ref : Int, snap : Int]],
     objects : SUBSET ChunkKeys]

\* Without snapshots the map lists the chunks that are in use, and exactly
\* those are stored.
Proper(s) ==
    /\ s \in Stores
    /\ \A k \in ChunkKeys : /\ s.table[k].snap = 0 /\ s.table[k].ref \in Nat
                            /\ s.table[k].listed <=> s.table[k].ref > 0
                            /\ k \in s.objects <=> s.table[k].ref > 0

\* Using a chunk, written out.
LEMMA UseOfStore ==
    ASSUME NEW s \in Stores, NEW k \in ChunkKeys
    PROVE  /\ UseOf(s, k) \in Stores
           /\ UseOf(s, k).table = [s.table EXCEPT ![k] =
                [listed |-> TRUE, ref |-> s.table[k].ref + 1, snap |-> s.table[k].snap]]
           /\ UseOf(s, k).objects = IF s.table[k].ref = 0 /\ s.table[k].snap = 0
                                    THEN s.objects \union {k} ELSE s.objects
<1> DEFINE e == s.table[k]
           used == [listed |-> TRUE, ref |-> e.ref + 1, snap |-> e.snap]
<1>1. /\ s.table \in [ChunkKeys -> [listed : BOOLEAN, ref : Int, snap : Int]]
      /\ s.objects \subseteq ChunkKeys /\ e.ref \in Int /\ e.snap \in Int
  BY DEF Stores
<1>2. Table!Use(s.table, k) = [s.table EXCEPT ![k] = used]
  BY <1>1 DEF Table!Use
<1>3. used \in [listed : BOOLEAN, ref : Int, snap : Int]
  BY <1>1
<1>4. [s.table EXCEPT ![k] = used][k] = used
  BY <1>1
<1>5. Table!UseIsNew(s.table, k) <=> e.ref + 1 = 1 /\ e.snap = 0
  BY <1>2, <1>4 DEF Table!UseIsNew
<1>6. e.ref + 1 = 1 <=> e.ref = 0
  BY <1>1
<1> HIDE DEF e, used
<1>7. UseOf(s, k) = [table |-> [s.table EXCEPT ![k] = used],
                     objects |-> IF e.ref = 0 /\ e.snap = 0 THEN s.objects \union {k} ELSE s.objects]
  BY <1>2, <1>5, <1>6 DEF UseOf
<1>8. [s.table EXCEPT ![k] = used] \in [ChunkKeys -> [listed : BOOLEAN, ref : Int, snap : Int]]
  BY <1>1, <1>3
<1>9. (IF e.ref = 0 /\ e.snap = 0 THEN s.objects \union {k} ELSE s.objects) \in SUBSET ChunkKeys
  BY <1>1
<1>10. UseOf(s, k) \in Stores
  BY <1>7, <1>8, <1>9 DEF Stores
<1>11. QED
  BY <1>7, <1>10 DEF e, used

\* Releasing a chunk, written out.
LEMMA ReleaseOfStore ==
    ASSUME NEW s \in Stores, NEW k \in ChunkKeys
    PROVE  LET e == s.table[k]
               last == e.ref - 1 = 0 /\ e.snap = 0 IN
           /\ ReleaseOf(s, k) \in Stores
           /\ ReleaseOf(s, k).table = [s.table EXCEPT ![k] =
                IF last THEN [listed |-> FALSE, ref |-> 0, snap |-> 0]
                ELSE [listed |-> e.listed, ref |-> e.ref - 1, snap |-> e.snap]]
           /\ ReleaseOf(s, k).objects = IF last THEN s.objects \ {k} ELSE s.objects
<1> DEFINE e == s.table[k]
           last == e.ref - 1 = 0 /\ e.snap = 0
           rest == [listed |-> e.listed, ref |-> e.ref - 1, snap |-> e.snap]
           none == [listed |-> FALSE, ref |-> 0, snap |-> 0]
           left == IF last THEN none ELSE rest
<1>1. /\ s.table \in [ChunkKeys -> [listed : BOOLEAN, ref : Int, snap : Int]]
      /\ s.objects \subseteq ChunkKeys /\ e \in [listed : BOOLEAN, ref : Int, snap : Int]
  BY DEF Stores
<1>2. Table!Released(e) = rest
  BY <1>1 DEF Table!Released
<1>3. Table!ReleaseIsLast(s.table, k) <=> last
  BY <1>2 DEF Table!ReleaseIsLast, Table!Zero
<1>4. none \in [listed : BOOLEAN, ref : Int, snap : Int] /\ rest \in [listed : BOOLEAN, ref : Int, snap : Int]
  BY <1>1
<1>5. Table!Release(s.table, k) = [s.table EXCEPT ![k] = left]
  BY <1>2, <1>3 DEF Table!Release, Table!Absent
<1> HIDE DEF rest, none, last, e
<1>6. ReleaseOf(s, k) = [table |-> [s.table EXCEPT ![k] = left],
                         objects |-> IF last THEN s.objects \ {k} ELSE s.objects]
  BY <1>3, <1>5 DEF ReleaseOf
<1>7. [s.table EXCEPT ![k] = left] \in [ChunkKeys -> [listed : BOOLEAN, ref : Int, snap : Int]]
  BY <1>1, <1>4
<1>8. (IF last THEN s.objects \ {k} ELSE s.objects) \in SUBSET ChunkKeys
  BY <1>1
<1>9. ReleaseOf(s, k) \in Stores
  BY <1>6, <1>7, <1>8 DEF Stores
<1>10. QED
  BY <1>6, <1>9 DEF e, last, rest, none

\* Using a chunk keeps the store proper and counts it once more.
LEMMA UseOne ==
    ASSUME NEW s, Proper(s), NEW k \in ChunkKeys
    PROVE  /\ Proper(UseOf(s, k))
           /\ \A j \in ChunkKeys : UseOf(s, k).table[j].ref
                                     = s.table[j].ref + (IF k = j THEN 1 ELSE 0)
<1> DEFINE u == UseOf(s, k)
           e == [listed |-> TRUE, ref |-> s.table[k].ref + 1, snap |-> s.table[k].snap]
<1>1. /\ u \in Stores /\ u.table = [s.table EXCEPT ![k] = e]
      /\ u.objects = IF s.table[k].ref = 0 /\ s.table[k].snap = 0
                     THEN s.objects \union {k} ELSE s.objects
      /\ s \in Stores /\ s.table \in [ChunkKeys -> [listed : BOOLEAN, ref : Int, snap : Int]]
  BY UseOfStore DEF Proper, Stores
<1> HIDE DEF u
<1>2. /\ u.table[k] = e
      /\ \A j \in ChunkKeys : j # k => u.table[j] = s.table[j]
  BY <1>1
<1>3. \A j \in ChunkKeys : u.table[j].ref = s.table[j].ref + (IF k = j THEN 1 ELSE 0)
  BY <1>2 DEF Proper
<1>4. ASSUME NEW j \in ChunkKeys
      PROVE  /\ u.table[j].snap = 0 /\ u.table[j].ref \in Nat
             /\ u.table[j].listed <=> u.table[j].ref > 0
             /\ j \in u.objects <=> u.table[j].ref > 0
  <2>1. CASE j = k
    <3>1. s.table[k].snap = 0 /\ s.table[k].ref \in Nat /\ (k \in s.objects <=> s.table[k].ref > 0)
      BY DEF Proper
    <3>2. k \in u.objects
      BY <1>1, <3>1
    <3>3. QED
      BY <1>2, <2>1, <3>1, <3>2
  <2>2. CASE j # k
    <3>1. j \in u.objects <=> j \in s.objects
      BY <1>1, <2>2
    <3>2. QED
      BY <1>2, <2>2, <3>1 DEF Proper
  <2>3. QED
    BY <2>1, <2>2
<1>5. Proper(u)
  BY <1>1, <1>4 DEF Proper
<1>6. QED
  BY <1>3, <1>5 DEF u

\* Releasing a counted chunk keeps the store proper and counts it once less.
LEMMA ReleaseOne ==
    ASSUME NEW s, Proper(s), NEW k \in ChunkKeys, s.table[k].ref > 0
    PROVE  /\ Proper(ReleaseOf(s, k))
           /\ \A j \in ChunkKeys : ReleaseOf(s, k).table[j].ref
                                     = s.table[j].ref - (IF k = j THEN 1 ELSE 0)
<1> DEFINE u == ReleaseOf(s, k)
           last == s.table[k].ref - 1 = 0 /\ s.table[k].snap = 0
           e == IF last THEN [listed |-> FALSE, ref |-> 0, snap |-> 0]
                ELSE [listed |-> s.table[k].listed, ref |-> s.table[k].ref - 1, snap |-> s.table[k].snap]
<1>1. /\ u \in Stores /\ u.table = [s.table EXCEPT ![k] = e]
      /\ u.objects = IF last THEN s.objects \ {k} ELSE s.objects
      /\ s \in Stores /\ s.table \in [ChunkKeys -> [listed : BOOLEAN, ref : Int, snap : Int]]
  BY ReleaseOfStore DEF Proper, Stores
<1>2. /\ s.table[k].snap = 0 /\ s.table[k].ref \in Nat /\ s.table[k].listed
      /\ k \in s.objects
  BY DEF Proper
<1>3. /\ e.snap = 0 /\ e.ref = s.table[k].ref - 1 /\ e.ref \in Nat
      /\ (e.listed <=> e.ref > 0) /\ (last <=> e.ref = 0)
  BY <1>2
<1> HIDE DEF u, e, last
<1>4. /\ u.table[k] = e
      /\ \A j \in ChunkKeys : j # k => u.table[j] = s.table[j]
  BY <1>1
<1>5. \A j \in ChunkKeys : u.table[j].ref = s.table[j].ref - (IF k = j THEN 1 ELSE 0)
  BY <1>3, <1>4 DEF Proper
<1>6. ASSUME NEW j \in ChunkKeys
      PROVE  /\ u.table[j].snap = 0 /\ u.table[j].ref \in Nat
             /\ u.table[j].listed <=> u.table[j].ref > 0
             /\ j \in u.objects <=> u.table[j].ref > 0
  <2>1. CASE j = k
    <3>1. k \in u.objects <=> e.ref > 0
      BY <1>1, <1>2, <1>3
    <3>2. QED
      BY <1>3, <1>4, <2>1, <3>1
  <2>2. CASE j # k
    <3>1. j \in u.objects <=> j \in s.objects
      BY <1>1, <2>2
    <3>2. QED
      BY <1>4, <2>2, <3>1 DEF Proper
  <2>3. QED
    BY <2>1, <2>2
<1>7. Proper(u)
  BY <1>1, <1>6 DEF Proper
<1>8. QED
  BY <1>5, <1>7 DEF u

\* Using the chunks of a sequence counts each as often as it occurs.
LEMMA UseAllCounts ==
    ASSUME NEW s, Proper(s), NEW segs \in Seq(ChunkKeys)
    PROVE  /\ Proper(UseAll(s, segs))
           /\ \A k \in ChunkKeys : UseAll(s, segs).table[k].ref = s.table[k].ref + Count(segs, k)
<1>1. s \in Stores /\ \A v \in Stores, k \in ChunkKeys : UseOf(v, k) \in Stores
  BY UseOfStore DEF Proper
<1>2. PICK f \in [0..Len(segs) -> Stores] :
              /\ f[0] = s /\ \A i \in 1..Len(segs) : f[i] = UseOf(f[i-1], segs[i])
              /\ UseAll(s, segs) = f[Len(segs)]
  BY <1>1, UseAllTrace
<1> DEFINE P(i) == SubSeq(segs, 1, i)
           Counted(i) == /\ Proper(f[i])
                         /\ \A k \in ChunkKeys : f[i].table[k].ref = s.table[k].ref + Count(P(i), k)
           D == {i \in 0..Len(segs) : ~ Counted(i)}
<1>3. /\ P(0) = <<>> /\ P(Len(segs)) = segs /\ Len(segs) \in Nat
      /\ \A i \in 0..Len(segs) : P(i) \in Seq(ChunkKeys)
      /\ \A i \in 1..Len(segs) : P(i) = Append(P(i-1), segs[i]) /\ segs[i] \in ChunkKeys
  BY PrefixFacts, ElementOfSeq
<1> HIDE DEF P
<1>4. ~ D # {}
  <2> SUFFICES ASSUME D # {} PROVE FALSE
    OBVIOUS
  <2>1. Counted(0)
    <3>1. \A k \in ChunkKeys : s.table[k].ref \in Nat /\ Count(P(0), k) = 0
      BY <1>3, CountEmpty DEF Proper
    <3>2. QED
      BY <1>2, <3>1
  <2>2. PICK i \in 1..Len(segs) : i \in D /\ i-1 \in 0..Len(segs) /\ i-1 \notin D
    <3>1. D \in SUBSET (0..Len(segs)) /\ 0 \notin D
      BY <2>1
    <3> HIDE DEF D
    <3>2. QED
      BY <1>3, <3>1, FirstFailure
  <2> DEFINE v == f[i-1]
             e == segs[i]
  <2>3. /\ Proper(v) /\ e \in ChunkKeys
        /\ \A k \in ChunkKeys : v.table[k].ref = s.table[k].ref + Count(P(i-1), k)
    BY <2>2, <1>3
  <2>4. f[i] = UseOf(v, e)
    BY <1>2
  <2> HIDE DEF v, e
  <2>5. /\ Proper(f[i])
        /\ \A k \in ChunkKeys : f[i].table[k].ref = v.table[k].ref + (IF e = k THEN 1 ELSE 0)
    BY <2>3, <2>4, UseOne
  <2>6. ASSUME NEW k \in ChunkKeys
        PROVE  f[i].table[k].ref = s.table[k].ref + Count(P(i), k)
    <3>1. P(i-1) \in Seq(ChunkKeys) /\ P(i) = Append(P(i-1), e)
      BY <1>3, <2>2 DEF e
    <3>2. Count(P(i), k) = Count(P(i-1), k) + (IF e = k THEN 1 ELSE 0) /\ Count(P(i-1), k) \in Nat
      BY <2>3, <3>1, CountAppend, CountFacts
    <3>3. s.table[k].ref \in Nat
      BY DEF Proper
    <3>4. QED
      BY <2>3, <2>5, <3>2, <3>3
  <2>7. Counted(i)
    BY <2>5, <2>6
  <2>8. QED
    BY <2>2, <2>7
<1>5. Counted(Len(segs))
  <2>1. Len(segs) \in 0..Len(segs)
    BY <1>3
  <2> HIDE DEF Counted
  <2>2. QED
    BY <1>4, <2>1
<1>6. QED
  BY <1>2, <1>3, <1>5

\* Releasing the chunks of a list, none of which is counted less often than
\* it occurs.
LEMMA ReleaseAllCounts ==
    ASSUME NEW s, Proper(s), NEW l \in Seq(Chunk),
           \A k \in ChunkKeys : Occurrences(l, k) <= s.table[k].ref
    PROVE  /\ Proper(ReleaseAll(s, l))
           /\ \A k \in ChunkKeys :
                ReleaseAll(s, l).table[k].ref = s.table[k].ref - Occurrences(l, k)
<1> DEFINE keys == KeysOf(l)
           n == Len(keys)
           P(i) == SubSeq(keys, 1, i)
<1>1. s \in Stores /\ \A v \in Stores, k \in ChunkKeys : ReleaseOf(v, k) \in Stores
  BY ReleaseOfStore DEF Proper
<1>2. PICK f \in [0..n -> Stores] :
              /\ f[0] = s /\ \A i \in 1..n : f[i] = ReleaseOf(f[i-1], keys[i])
              /\ ReleaseAll(s, l) = f[n]
  BY <1>1, ReleaseAllTrace
<1>3. keys \in Seq(ChunkKeys) /\ n \in Nat
  BY KeysOfFacts
<1>4. /\ P(0) = <<>> /\ P(n) = keys
      /\ \A i \in 0..n : P(i) \in Seq(ChunkKeys)
      /\ \A i \in 1..n : P(i) = Append(P(i-1), keys[i]) /\ keys[i] \in ChunkKeys
  BY <1>3, PrefixFacts, ElementOfSeq
<1>5. \A k \in ChunkKeys : Count(keys, k) = Occurrences(l, k) /\ Count(keys, k) <= s.table[k].ref
  BY OccurrencesAre
<1> HIDE DEF keys, n, P
\* What is still to come of a key is counted.
<1>6. ASSUME NEW i \in 1..n
      PROVE  LET k == keys[i] IN Count(P(i-1), k) + 1 <= Count(keys, k)
  <2> DEFINE k == keys[i]
             R == SubSeq(keys, i+1, n)
  <2>1. P(i) \o R = keys /\ R \in Seq(ChunkKeys)
    <3>1. /\ 1 \in 1..Len(keys)+1 /\ i \in 1-1..Len(keys) /\ n \in i..Len(keys)
      BY <1>3 DEF n
    <3>2. SubSeq(keys, 1, i) \o SubSeq(keys, i+1, n) = SubSeq(keys, 1, n)
      BY <1>3, <3>1, ConcatAdjacentSubSeq
    <3>3. \A j \in i+1..n : keys[j] \in ChunkKeys
      BY <1>4, <1>3
    <3>4. i+1 \in Int /\ n \in Int
      BY <1>3
    <3>5. R \in Seq(ChunkKeys)
      BY <3>3, <3>4, SubSeqProperties
    <3>6. QED
      BY <1>4, <3>2, <3>5 DEF P
  <2>2. P(i) = Append(P(i-1), k) /\ k \in ChunkKeys /\ P(i-1) \in Seq(ChunkKeys) /\ P(i) \in Seq(ChunkKeys)
    <3>1. i \in 1..n /\ i \in 0..n /\ i-1 \in 0..n
      BY <1>3
    <3>2. QED
      BY <1>4, <3>1
  <2> HIDE DEF k, R
  <2>3. Count(keys, k) = Count(P(i), k) + Count(R, k)
    <3> DEFINE p == P(i)
    <3>1. p \in Seq(ChunkKeys) /\ R \in Seq(ChunkKeys) /\ p \o R = keys
      BY <2>1, <2>2
    <3> HIDE DEF p
    <3>2. Count(p \o R, k) = Count(p, k) + Count(R, k)
      BY <3>1, CountConcat
    <3>3. QED
      BY <3>1, <3>2 DEF p
  <2>4. Count(P(i), k) = Count(P(i-1), k) + 1
    BY <2>2, CountAppend
  <2>5. Count(P(i-1), k) \in Nat /\ Count(R, k) \in Nat
    BY <2>1, <2>2, CountFacts
  <2>6. QED
    BY <2>3, <2>4, <2>5 DEF k
<1> DEFINE Counted(i) == /\ Proper(f[i])
                         /\ \A k \in ChunkKeys : f[i].table[k].ref = s.table[k].ref - Count(P(i), k)
           D == {i \in 0..n : ~ Counted(i)}
<1>7. ~ D # {}
  <2> SUFFICES ASSUME D # {} PROVE FALSE
    OBVIOUS
  <2>1. Counted(0)
    <3>1. \A k \in ChunkKeys : s.table[k].ref \in Nat /\ Count(P(0), k) = 0
      BY <1>4, CountEmpty DEF Proper
    <3>2. QED
      BY <1>2, <3>1
  <2>2. PICK i \in 1..n : i \in D /\ i-1 \in 0..n /\ i-1 \notin D
    <3>1. D \in SUBSET (0..n) /\ 0 \notin D
      BY <2>1
    <3> HIDE DEF D
    <3>2. QED
      BY <1>3, <3>1, FirstFailure
  <2> DEFINE v == f[i-1]
             e == keys[i]
  <2>3. /\ Proper(v) /\ e \in ChunkKeys
        /\ \A k \in ChunkKeys : v.table[k].ref = s.table[k].ref - Count(P(i-1), k)
    BY <2>2, <1>4
  <2>4. f[i] = ReleaseOf(v, e)
    BY <1>2
  <2>5. v.table[e].ref > 0
    <3>1. Count(P(i-1), e) + 1 <= Count(keys, e)
      BY <1>6
    <3>2. Count(keys, e) <= s.table[e].ref /\ s.table[e].ref \in Nat
      BY <1>5, <2>3 DEF Proper
    <3>3. Count(P(i-1), e) \in Nat /\ Count(keys, e) \in Nat
      BY <1>3, <1>4, <2>2, CountFacts
    <3> HIDE DEF e, v
    <3>4. v.table[e].ref = s.table[e].ref - Count(P(i-1), e)
      BY <2>3
    <3>5. QED
      BY <3>1, <3>2, <3>3, <3>4
  <2> HIDE DEF v, e
  <2>6. /\ Proper(f[i])
        /\ \A k \in ChunkKeys : f[i].table[k].ref = v.table[k].ref - (IF e = k THEN 1 ELSE 0)
    BY <2>3, <2>4, <2>5, ReleaseOne
  <2>7. ASSUME NEW k \in ChunkKeys
        PROVE  f[i].table[k].ref = s.table[k].ref - Count(P(i), k)
    <3>1. P(i-1) \in Seq(ChunkKeys) /\ P(i) = Append(P(i-1), e)
      BY <1>4, <2>2 DEF e
    <3>2. Count(P(i), k) = Count(P(i-1), k) + (IF e = k THEN 1 ELSE 0) /\ Count(P(i-1), k) \in Nat
      <4> DEFINE p == P(i-1)
      <4>1. p \in Seq(ChunkKeys) /\ P(i) = Append(p, e) /\ e \in ChunkKeys
        BY <2>3, <3>1
      <4> HIDE DEF p
      <4>2. Count(p, k) \in Nat
        BY <4>1, CountFacts
      <4>3. Count(Append(p, e), k) = Count(p, k) + (IF e = k THEN 1 ELSE 0)
        BY <4>1, CountAppend
      <4>4. QED
        BY <4>1, <4>2, <4>3 DEF p
    <3>3. s.table[k].ref \in Nat
      BY DEF Proper
    <3>4. QED
      BY <2>3, <2>6, <3>2, <3>3
  <2>8. Counted(i)
    BY <2>6, <2>7
  <2>9. QED
    BY <2>2, <2>8
<1>8. Counted(n)
  <2>1. n \in 0..n
    BY <1>3
  <2> HIDE DEF Counted
  <2>2. QED
    BY <1>7, <2>1
<1>9. QED
  BY <1>2, <1>4, <1>5, <1>8

-----------------------------------------------------------------------------
(* The splitter.                                                           *)

\* No boundary before the last unit.
Uncut(key) == \A m \in 1..Len(key)-1 : ~IsBoundary(SubSeq(key, 1, m), key[m])

\* No boundary at all.
Unended(rest) == \A m \in 1..Len(rest) : ~IsBoundary(SubSeq(rest, 1, m), rest[m])

\* What the splitter has made of the bytes so far.
Splits(split, bytes) ==
    /\ split.segs \in Seq(ChunkKeys) /\ split.rest \in Seq(Units)
    /\ FlattenSeq(split.segs) \o split.rest = bytes
    /\ \A i \in 1..Len(split.segs) : Uncut(split.segs[i])
    /\ Unended(split.rest) /\ Len(split.rest) < MaxSeg

\* A sequence of keys is one of sequences of units.
LEMMA KeysAreSequences ==
    ASSUME NEW s \in Seq(ChunkKeys)
    PROVE  /\ s \in Seq(Seq(Units)) /\ Len(s) \in Nat /\ FlattenSeq(s) \in Seq(Units)
           /\ \A i \in 1..Len(s) : s[i] \in ChunkKeys /\ s[i] \in Seq(Units)
<1>1. Len(s) \in Nat /\ s \in [1..Len(s) -> ChunkKeys]
  OBVIOUS
<1>2. \A i \in 1..Len(s) : s[i] \in ChunkKeys /\ s[i] \in Seq(Units)
  BY <1>1, ChunkKeyFacts
<1>3. s \in [1..Len(s) -> Seq(Units)]
  BY <1>1, <1>2
<1>4. s \in Seq(Seq(Units))
  BY <1>1, <1>3
<1>5. QED
  BY <1>1, <1>2, <1>4, FlattenType

\* A unit more, read by the splitter.
LEMMA ConsumeOne ==
    ASSUME NEW split \in [segs : Seq(ChunkKeys), rest : Seq(Units)], NEW bytes \in Seq(Units),
           Splits(split, bytes), NEW unit \in Units
    PROVE  Splits(Consume(split, unit), Append(bytes, unit))
<1> DEFINE seg == Append(split.rest, unit)
           rest == split.rest
           segs == split.segs
<1>1. rest \in Seq(Units) /\ segs \in Seq(ChunkKeys) /\ Len(rest) \in Nat /\ Len(segs) \in Nat
  OBVIOUS
<1>2. /\ seg \in Seq(Units) /\ Len(seg) = Len(rest) + 1
      /\ SubSeq(seg, 1, Len(rest)) = rest /\ seg[Len(rest)+1] = unit
      /\ \A i \in 1..Len(rest) : seg[i] = rest[i]
  BY AppendFacts
<1>3. MaxSeg \in Nat /\ MinSeg \in Nat \ {0} /\ MinSeg <= MaxSeg /\ Len(rest) < MaxSeg
  BY SegmentAssumption DEF Splits
<1>4. Consume(split, unit) = IF IsBoundary(seg, unit) THEN [segs |-> Append(segs, seg), rest |-> <<>>]
                             ELSE [segs |-> segs, rest |-> seg]
  <2>1. split = [segs |-> segs, rest |-> rest]
    OBVIOUS
  <2> HIDE DEF segs, rest, seg
  <2>2. [split EXCEPT !.rest = seg] = [segs |-> segs, rest |-> seg]
    BY <2>1
  <2> USE DEF seg
  <2>3. QED
    BY <2>2, Zenon DEF Consume
<1>5. seg \in ChunkKeys
  <2>1. Len(seg) \in 1..MaxSeg
    BY <1>1, <1>2, <1>3
  <2>2. QED
    BY <1>2, <2>1, ChunkKeyFacts
<1>6. FlattenSeq(segs) \in Seq(Units) /\ segs \in Seq(Seq(Units))
  <2> HIDE DEF segs
  <2>1. segs \in Seq(ChunkKeys)
    BY <1>1
  <2>2. QED
    BY <2>1, KeysAreSequences
<1>7. FlattenSeq(segs) \o seg = Append(bytes, unit)
  <2>1. FlattenSeq(segs) \o rest = bytes
    BY DEF Splits
  <2> DEFINE a == FlattenSeq(segs)
  <2>2. a \in Seq(Units)
    BY <1>6
  <2> HIDE DEF a, rest
  <2>3. a \o Append(rest, unit) = Append(a \o rest, unit)
    BY <1>1, <2>2, ConcatAppend
  <2>4. QED
    BY <2>1, <2>3 DEF a, rest
<1>8. \A m \in 1..Len(rest) : SubSeq(seg, 1, m) = SubSeq(rest, 1, m)
  <2> SUFFICES ASSUME NEW m \in 1..Len(rest) PROVE SubSeq(seg, 1, m) = SubSeq(rest, 1, m)
    OBVIOUS
  <2>1. SubSeq(seg, 1, m) = [i \in 1..m |-> seg[i]] /\ SubSeq(rest, 1, m) = [i \in 1..m |-> rest[i]]
    OBVIOUS
  <2>2. \A i \in 1..m : seg[i] = rest[i]
    BY <1>1, <1>2
  <2> HIDE DEF seg, rest
  <2>3. QED
    BY <2>1, <2>2
<1>9. \A m \in 1..Len(rest) : ~IsBoundary(SubSeq(seg, 1, m), seg[m])
  BY <1>2, <1>8 DEF Splits, Unended
<1>10. Uncut(seg)
  BY <1>1, <1>2, <1>9 DEF Uncut
<1> HIDE DEF seg, rest, segs
<1>11. CASE IsBoundary(seg, unit)
  <2>1. Consume(split, unit) = [segs |-> Append(segs, seg), rest |-> <<>>]
    BY <1>4, <1>11
  <2>2. /\ Append(segs, seg) \in Seq(ChunkKeys) /\ Len(Append(segs, seg)) = Len(segs) + 1
        /\ Append(segs, seg)[Len(segs) + 1] = seg
        /\ \A i \in 1..Len(segs) : Append(segs, seg)[i] = segs[i]
    BY <1>1, <1>5
  <2>3. FlattenSeq(Append(segs, seg)) = FlattenSeq(segs) \o seg
    BY <1>2, <1>6, FlattenAppend
  <2>4. FlattenSeq(Append(segs, seg)) \o <<>> = Append(bytes, unit)
    <3>1. Append(bytes, unit) \in Seq(Units)
      OBVIOUS
    <3>2. QED
      BY <1>7, <2>3, <3>1
  <2>5. \A i \in 1..Len(segs) : Uncut(segs[i])
    BY DEF Splits, segs
  <2>6. \A i \in 1..Len(Append(segs, seg)) : Uncut(Append(segs, seg)[i])
    BY <1>1, <1>10, <2>2, <2>5
  <2>7. Len(<<>>) < MaxSeg /\ Unended(<<>>) /\ <<>> \in Seq(Units)
    BY <1>3 DEF Unended
  <2>8. QED
    BY <2>1, <2>2, <2>4, <2>6, <2>7 DEF Splits
<1>12. CASE ~IsBoundary(seg, unit)
  <2>1. Consume(split, unit) = [segs |-> segs, rest |-> seg]
    BY <1>4, <1>12
  <2>2. Unended(seg)
    <3>1. ~IsBoundary(SubSeq(seg, 1, Len(seg)), seg[Len(seg)])
      <4>1. SubSeq(seg, 1, Len(seg)) = seg /\ seg[Len(seg)] = unit
        BY <1>2, SubSeqFull
      <4>2. QED
        BY <1>12, <4>1
    <3>2. \A m \in 1..Len(seg) : m \in 1..Len(rest) \/ m = Len(seg)
      BY <1>1, <1>2
    <3>3. QED
      BY <1>9, <3>1, <3>2 DEF Unended
  <2>3. Len(seg) < MaxSeg
    BY <1>1, <1>2, <1>3, <1>12 DEF IsBoundary
  <2>4. \A i \in 1..Len(segs) : Uncut(segs[i])
    BY DEF Splits, segs
  <2>5. QED
    BY <1>1, <1>2, <1>7, <2>1, <2>2, <2>3, <2>4 DEF Splits
<1>13. QED
  BY <1>11, <1>12

\* The splitter only makes sequences of sequences.
LEMMA ConsumeTyped ==
    ASSUME NEW s \in [segs : Seq(Seq(Units)), rest : Seq(Units)], NEW k \in Units
    PROVE  Consume(s, k) \in [segs : Seq(Seq(Units)), rest : Seq(Units)]
<1> DEFINE seg == Append(s.rest, k)
           new == [segs |-> Append(s.segs, seg), rest |-> <<>>]
           old == [s EXCEPT !.rest = seg]
<1>1. s.segs \in Seq(Seq(Units)) /\ s.rest \in Seq(Units)
  OBVIOUS
<1>2. seg \in Seq(Units)
  BY <1>1
<1>3. old \in [segs : Seq(Seq(Units)), rest : Seq(Units)]
  <2> HIDE DEF seg
  <2>1. QED
    BY <1>2
<1>4. new \in [segs : Seq(Seq(Units)), rest : Seq(Units)]
  <2> HIDE DEF seg
  <2>1. QED
    BY <1>1, <1>2
<1>5. Consume(s, k) = IF IsBoundary(seg, k) THEN new ELSE old
  BY Zenon DEF Consume
<1> HIDE DEF seg, new, old
<1>6. QED
  BY <1>3, <1>4, <1>5

\* What the splitter has made of its input.
LEMMA SplitFacts ==
    ASSUME NEW bytes \in Seq(Units)
    PROVE  Splits(Split(bytes), bytes)
<1> DEFINE S == [segs : Seq(Seq(Units)), rest : Seq(Units)]
           n == Len(bytes)
           P(i) == SubSeq(bytes, 1, i)
<1>1. Nothing \in S
  BY DEF Nothing
<1>2. \A s \in S, k \in Units : Consume(s, k) \in S
  BY ConsumeTyped
<1> HIDE DEF S
<1>3. PICK f \in [0..n -> S] :
              /\ f[0] = Nothing /\ \A i \in 1..n : f[i] = Consume(f[i-1], bytes[i])
              /\ Split(bytes) = f[n]
  BY <1>1, <1>2, SplitTrace
<1>4. /\ n \in Nat /\ P(0) = <<>> /\ P(n) = bytes
      /\ \A i \in 0..n : P(i) \in Seq(Units)
      /\ \A i \in 1..n : P(i) = Append(P(i-1), bytes[i]) /\ bytes[i] \in Units
  BY PrefixFacts, ElementOfSeq
<1> HIDE DEF n, P
<1> DEFINE D == {i \in 0..n : ~ Splits(f[i], P(i))}
<1>5. ~ D # {}
  <2> SUFFICES ASSUME D # {} PROVE FALSE
    OBVIOUS
  <2>1. Splits(f[0], P(0))
    <3>1. FlattenSeq(<<>>) = <<>> /\ MaxSeg > 0
      BY FlattenEmpty, SegmentAssumption
    <3>2. Splits(Nothing, <<>>)
      BY <3>1 DEF Splits, Nothing, Unended
    <3>3. QED
      BY <1>3, <1>4, <3>2
  <2>2. PICK i \in 1..n : i \in D /\ i-1 \in 0..n /\ i-1 \notin D
    <3>1. D \in SUBSET (0..n) /\ 0 \notin D
      BY <2>1
    <3> HIDE DEF D
    <3>2. QED
      BY <1>4, <3>1, FirstFailure
  <2> DEFINE v == f[i-1]
             p == P(i-1)
             e == bytes[i]
  <2>3. v \in S /\ Splits(v, p) /\ p \in Seq(Units) /\ e \in Units
    BY <1>4, <2>2
  <2>4. f[i] = Consume(v, e) /\ P(i) = Append(p, e)
    BY <1>3, <1>4
  <2>5. i \in D
    BY <2>2
  <2>6. ~ Splits(f[i], P(i))
    BY <2>5
  <2> HIDE DEF v, p, e, D
  <2>7. v \in [segs : Seq(ChunkKeys), rest : Seq(Units)]
    BY <2>3 DEF S, Splits
  <2>8. Splits(Consume(v, e), Append(p, e))
    BY <2>3, <2>7, ConsumeOne
  <2>9. QED
    BY <2>4, <2>6, <2>8
<1>6. QED
  <2>1. n \in 0..n
    BY <1>4
  <2>2. Splits(f[n], P(n))
    BY <1>5, <2>1
  <2>3. QED
    BY <1>3, <1>4, <2>2

\* The chunks of a buffer make it up, and none could have been cut earlier.
LEMMA SegmentsFacts ==
    ASSUME NEW bytes \in Seq(Units)
    PROVE  /\ Segments(bytes) \in Seq(ChunkKeys) /\ FlattenSeq(Segments(bytes)) = bytes
           /\ \A i \in 1..Len(Segments(bytes)) : Uncut(Segments(bytes)[i])
           /\ Split(bytes).rest \in Seq(Units) /\ Len(Split(bytes).rest) <= Len(bytes)
<1> DEFINE segs == Split(bytes).segs
           rest == Split(bytes).rest
<1>1. /\ segs \in Seq(ChunkKeys) /\ rest \in Seq(Units) /\ FlattenSeq(segs) \o rest = bytes
      /\ \A i \in 1..Len(segs) : Uncut(segs[i])
      /\ Unended(rest) /\ Len(rest) < MaxSeg
  BY SplitFacts DEF Splits
<1>2. Segments(bytes) = IF rest = <<>> THEN segs ELSE Append(segs, rest)
  BY DEF Segments
<1> HIDE DEF segs, rest
<1>3. segs \in Seq(Seq(Units)) /\ FlattenSeq(segs) \in Seq(Units)
  BY <1>1, KeysAreSequences
<1>4. Len(rest) <= Len(bytes)
  <2> DEFINE a == FlattenSeq(segs)
  <2>1. a \in Seq(Units) /\ a \o rest = bytes
    BY <1>1, <1>3
  <2> HIDE DEF a
  <2>2. QED
    BY <1>1, <2>1
<1>5. CASE rest = <<>>
  <2>1. FlattenSeq(segs) = bytes
    <3> DEFINE a == FlattenSeq(segs)
    <3>1. a \in Seq(Units) /\ a \o <<>> = bytes
      BY <1>1, <1>3, <1>5
    <3> HIDE DEF a
    <3>2. a = bytes
      BY <3>1
    <3>3. QED
      BY <3>2 DEF a
  <2>2. QED
    BY <1>1, <1>2, <1>4, <1>5, <2>1 DEF segs, rest
<1>6. CASE rest # <<>>
  <2>1. rest \in ChunkKeys
    <3>1. Len(rest) \in 1..MaxSeg
      BY <1>1, <1>6, SegmentAssumption, EmptySeq
    <3>2. QED
      BY <1>1, <3>1, ChunkKeyFacts
  <2> DEFINE r == Append(segs, rest)
  <2>2. /\ r \in Seq(ChunkKeys) /\ Len(r) = Len(segs) + 1 /\ Len(segs) \in Nat
        /\ r[Len(segs) + 1] = rest /\ \A i \in 1..Len(segs) : r[i] = segs[i]
    BY <1>1, <2>1, AppendFacts
  <2>3. FlattenSeq(r) = FlattenSeq(segs) \o rest
    BY <1>1, <1>3, FlattenAppend
  <2>4. Uncut(rest)
    <3>1. \A m \in 1..Len(rest)-1 : m \in 1..Len(rest)
      BY <1>1
    <3>2. QED
      BY <1>1, <3>1 DEF Uncut, Unended
  <2>5. \A i \in 1..Len(r) : Uncut(r[i])
    <3> HIDE DEF r
    <3>1. \A i \in 1..Len(r) : i \in 1..Len(segs) \/ i = Len(segs) + 1
      BY <2>2
    <3>2. QED
      BY <1>1, <2>2, <2>4, <3>1
  <2>6. Segments(bytes) = r
    BY <1>2, <1>6
  <2> HIDE DEF r
  <2>7. QED
    BY <1>1, <1>4, <2>2, <2>3, <2>5, <2>6 DEF rest
<1>7. QED
  BY <1>5, <1>6

\* Bytes in which no chunk ends are left over as they are.
LEMMA SplitUnended ==
    ASSUME NEW bytes \in Seq(Units), Unended(bytes)
    PROVE  /\ Split(bytes).rest = bytes
           /\ Segments(bytes) = IF bytes = <<>> THEN <<>> ELSE <<bytes>>
<1> DEFINE S == [segs : Seq(Seq(Units)), rest : Seq(Units)]
           n == Len(bytes)
           P(i) == SubSeq(bytes, 1, i)
<1>1. Nothing \in S
  BY DEF Nothing
<1>2. \A s \in S, k \in Units : Consume(s, k) \in S
  BY ConsumeTyped
<1> HIDE DEF S
<1>3. PICK f \in [0..n -> S] :
              /\ f[0] = Nothing /\ \A i \in 1..n : f[i] = Consume(f[i-1], bytes[i])
              /\ Split(bytes) = f[n]
  BY <1>1, <1>2, SplitTrace
<1>4. /\ n \in Nat /\ P(0) = <<>> /\ P(n) = bytes
      /\ \A i \in 0..n : P(i) \in Seq(Units)
      /\ \A i \in 1..n : P(i) = Append(P(i-1), bytes[i]) /\ ~IsBoundary(P(i), bytes[i])
  BY PrefixFacts DEF Unended
<1> HIDE DEF n, P
<1> DEFINE D == {i \in 0..n : f[i] # [segs |-> <<>>, rest |-> P(i)]}
<1>5. ~ D # {}
  <2> SUFFICES ASSUME D # {} PROVE FALSE
    OBVIOUS
  <2>1. PICK i \in 1..n : i \in D /\ i-1 \in 0..n /\ i-1 \notin D
    <3>1. D \in SUBSET (0..n) /\ 0 \notin D
      BY <1>3, <1>4 DEF Nothing
    <3> HIDE DEF D
    <3>2. QED
      BY <1>4, <3>1, FirstFailure
  <2> DEFINE v == f[i-1]
             p == P(i-1)
             e == bytes[i]
  <2>2. v = [segs |-> <<>>, rest |-> p]
    BY <2>1
  <2>3. f[i] = Consume(v, e) /\ P(i) = Append(p, e) /\ ~IsBoundary(Append(p, e), e)
    BY <1>3, <1>4
  <2>4. f[i] # [segs |-> <<>>, rest |-> P(i)]
    BY <2>1
  <2> HIDE DEF v, p, e, D
  <2> DEFINE seg == Append(p, e)
  <2>5. Consume(v, e) = [v EXCEPT !.rest = seg]
    <3>1. v.rest = p
      BY <2>2
    <3>2. QED
      BY <2>3, <3>1 DEF Consume
  <2> HIDE DEF seg
  <2>6. [v EXCEPT !.rest = seg] = [segs |-> <<>>, rest |-> seg]
    BY <2>2
  <2>7. QED
    BY <2>3, <2>4, <2>5, <2>6 DEF seg
<1>6. Split(bytes) = [segs |-> <<>>, rest |-> bytes]
  <2>1. n \in 0..n
    BY <1>4
  <2>2. f[n] = [segs |-> <<>>, rest |-> P(n)]
    BY <1>5, <2>1
  <2>3. QED
    BY <1>3, <1>4, <2>2
<1>7. QED
  <2>1. Append(<<>>, bytes) = <<bytes>>
    OBVIOUS
  <2>2. QED
    BY <1>6, <2>1 DEF Segments

-----------------------------------------------------------------------------
(* Parts of a list and the offsets of its chunks.                          *)

\* A part of a chunk list.
LEMMA PartOfList ==
    ASSUME NEW l \in Seq(Chunk), NEW i \in Nat \ {0}, NEW j \in Nat, j <= Len(l)
    PROVE  /\ SubSeq(l, i, j) \in Seq(Chunk)
           /\ Len(SubSeq(l, i, j)) = IF i <= j THEN j - i + 1 ELSE 0
           /\ \A m \in 1..j-i+1 : SubSeq(l, i, j)[m] = l[i+m-1]
<1>1. \A m \in i..j : l[m] \in Chunk
  OBVIOUS
<1>2. i \in Int /\ j \in Int
  OBVIOUS
<1>3. QED
  BY <1>1, <1>2, SubSeqProperties

\* Offsets are numbers.
LEMMA OffsetTyped ==
    ASSUME NEW l \in Seq(Chunk), NEW i \in 1..Len(l)+1
    PROVE  OffsetOf(l, i) \in Nat
<1>1. i-1 \in Nat /\ i-1 <= Len(l) /\ 1 \in Nat \ {0}
  OBVIOUS
<1>2. SubSeq(l, 1, i-1) \in Seq(Chunk)
  BY <1>1, PartOfList
<1>3. QED
  BY <1>2, KeysOfFacts DEF OffsetOf

\* The beginnings of a list that is put together.
LEMMA BeginningOfConcat ==
    ASSUME NEW S, NEW l \in Seq(S), NEW m \in Seq(S)
    PROVE  /\ \A i \in 0..Len(l) : SubSeq(l \o m, 1, i) = SubSeq(l, 1, i)
           /\ \A i \in 0..Len(m) : SubSeq(l \o m, 1, Len(l) + i) = l \o SubSeq(m, 1, i)
<1> DEFINE r == l \o m
<1>1. /\ r \in Seq(S) /\ Len(r) = Len(l) + Len(m) /\ Len(l) \in Nat /\ Len(m) \in Nat
      /\ \A i \in 1..Len(r) : r[i] = IF i <= Len(l) THEN l[i] ELSE m[i - Len(l)]
  BY ConcatProperties
<1> HIDE DEF r
<1>2. ASSUME NEW i \in 0..Len(l)
      PROVE  SubSeq(r, 1, i) = SubSeq(l, 1, i)
  <2>1. SubSeq(r, 1, i) = [j \in 1..i |-> r[j]] /\ SubSeq(l, 1, i) = [j \in 1..i |-> l[j]]
    BY <1>1
  <2>2. \A j \in 1..i : r[j] = l[j]
    BY <1>1
  <2>3. QED
    BY <2>1, <2>2
<1>3. ASSUME NEW i \in 0..Len(m)
      PROVE  SubSeq(r, 1, Len(l) + i) = l \o SubSeq(m, 1, i)
  <2> DEFINE a == SubSeq(r, 1, Len(l) + i)
             b == SubSeq(m, 1, i)
  <2>1. b \in Seq(S) /\ Len(b) = i /\ \A j \in 1..i : b[j] = m[j]
    <3>1. \A j \in 1..i : m[j] \in S
      BY <1>1
    <3>2. QED
      BY <1>1, <3>1
  <2>2. a \in Seq(S) /\ Len(a) = Len(l) + i /\ \A j \in 1..Len(l)+i : a[j] = r[j]
    <3>1. \A j \in 1..Len(l)+i : r[j] \in S
      BY <1>1
    <3>2. QED
      BY <1>1, <3>1
  <2> HIDE DEF a, b
  <2> DEFINE c == l \o b
  <2>3. /\ c \in Seq(S) /\ Len(c) = Len(l) + i
        /\ \A j \in 1..Len(l)+i : c[j] = IF j <= Len(l) THEN l[j] ELSE b[j - Len(l)]
    BY <2>1, ConcatProperties
  <2> HIDE DEF c
  <2>4. ASSUME NEW j \in 1..Len(l)+i PROVE a[j] = c[j]
    <3>1. j \in 1..Len(r) /\ a[j] = r[j]
      BY <1>1, <2>2
    <3>2. CASE j <= Len(l)
      BY <1>1, <2>3, <3>1, <3>2
    <3>3. CASE ~(j <= Len(l))
      <4>1. j - Len(l) \in 1..i
        BY <1>1, <3>3
      <4>2. r[j] = m[j - Len(l)] /\ c[j] = b[j - Len(l)]
        BY <1>1, <2>3, <3>1, <3>3
      <4>3. QED
        BY <2>1, <3>1, <4>1, <4>2
    <3>4. QED
      BY <3>2, <3>3
  <2>5. a = c
    BY <1>1, <2>2, <2>3, <2>4, SeqEqual
  <2>6. QED
    BY <2>5 DEF a, b, c
<1>4. QED
  BY <1>2, <1>3 DEF r

\* The second of two lists is offset by the bytes of the first.
LEMMA OffsetsOfConcat ==
    ASSUME NEW l \in Seq(Chunk), NEW m \in Seq(Chunk)
    PROVE  /\ \A i \in 1..Len(l)+1 : OffsetOf(l \o m, i) = OffsetOf(l, i)
           /\ \A i \in 1..Len(m)+1 : OffsetOf(l \o m, Len(l) + i) = Len(Bytes(l)) + OffsetOf(m, i)
<1>1. Len(l) \in Nat /\ Len(m) \in Nat
  OBVIOUS
<1>2. /\ \A i \in 0..Len(l) : SubSeq(l \o m, 1, i) = SubSeq(l, 1, i)
      /\ \A i \in 0..Len(m) : SubSeq(l \o m, 1, Len(l) + i) = l \o SubSeq(m, 1, i)
  BY BeginningOfConcat
<1>3. ASSUME NEW i \in 1..Len(l)+1
      PROVE  OffsetOf(l \o m, i) = OffsetOf(l, i)
  <2>1. i-1 \in 0..Len(l)
    BY <1>1
  <2>2. SubSeq(l \o m, 1, i-1) = SubSeq(l, 1, i-1)
    BY <1>2, <2>1
  <2>3. QED
    BY <2>2, Zenon DEF OffsetOf
<1>4. ASSUME NEW i \in 1..Len(m)+1
      PROVE  OffsetOf(l \o m, Len(l) + i) = Len(Bytes(l)) + OffsetOf(m, i)
  <2> DEFINE b == SubSeq(m, 1, i-1)
  <2>1. i-1 \in 0..Len(m) /\ Len(l) + i - 1 = Len(l) + (i-1)
    BY <1>1
  <2>2. SubSeq(l \o m, 1, Len(l) + i - 1) = l \o b
    BY <1>2, <2>1
  <2>3. b \in Seq(Chunk)
    <3>1. 1 \in Nat \ {0} /\ i-1 \in Nat /\ i-1 <= Len(m)
      BY <1>1
    <3>2. QED
      BY <3>1, PartOfList
  <2>4. Len(Bytes(l \o b)) = Len(Bytes(l)) + Len(Bytes(b))
    BY <2>3, ListConcat
  <2>5. OffsetOf(m, i) = Len(Bytes(b))
    BY Zenon DEF OffsetOf
  <2> HIDE DEF b
  <2> DEFINE x == Len(l) + i
  <2>6. SubSeq(l \o m, 1, x - 1) = l \o b
    BY <2>2
  <2> HIDE DEF x
  <2>7. OffsetOf(l \o m, x) = Len(Bytes(l \o b))
    BY <2>6 DEF OffsetOf
  <2>8. QED
    BY <2>4, <2>5, <2>7 DEF x
<1>5. QED
  BY <1>3, <1>4

-----------------------------------------------------------------------------
(* Chunks at their places.                                                 *)

\* The chunks follow each other from the base on.
PlacedFrom(base, l) == \A i \in 1..Len(l) : l[i].start = base + OffsetOf(l, i)

\* Two lists are at their offsets together when each is after the other.
LEMMA PlacedConcat ==
    ASSUME NEW l \in Seq(Chunk), NEW m \in Seq(Chunk), NEW base \in Nat
    PROVE  PlacedFrom(base, l \o m)
              <=> PlacedFrom(base, l) /\ PlacedFrom(base + Len(Bytes(l)), m)
<1> DEFINE r == l \o m
           len == Len(Bytes(l))
<1>1. /\ Len(r) = Len(l) + Len(m) /\ Len(l) \in Nat /\ Len(m) \in Nat
      /\ \A i \in 1..Len(r) : r[i] = IF i <= Len(l) THEN l[i] ELSE m[i - Len(l)]
  BY ConcatProperties
<1>2. /\ \A i \in 1..Len(l)+1 : OffsetOf(r, i) = OffsetOf(l, i)
      /\ \A i \in 1..Len(m)+1 : OffsetOf(r, Len(l) + i) = len + OffsetOf(m, i)
      /\ \A i \in 1..Len(m)+1 : OffsetOf(m, i) \in Nat
      /\ len \in Nat
  BY OffsetsOfConcat, OffsetTyped, KeysOfFacts
<1> HIDE DEF r, len
<1>3. ASSUME PlacedFrom(base, r)
      PROVE  PlacedFrom(base, l) /\ PlacedFrom(base + len, m)
  <2>1. \A i \in 1..Len(l) : l[i].start = base + OffsetOf(l, i)
    <3>1. ASSUME NEW i \in 1..Len(l) PROVE l[i].start = base + OffsetOf(l, i)
      <4>1. i \in 1..Len(r) /\ i \in 1..Len(l)+1 /\ r[i] = l[i]
        BY <1>1
      <4>2. QED
        BY <1>2, <1>3, <4>1 DEF PlacedFrom
    <3>2. QED
      BY <3>1
  <2>2. ASSUME NEW i \in 1..Len(m) PROVE m[i].start = base + len + OffsetOf(m, i)
    <3>1. Len(l)+i \in 1..Len(r) /\ i \in 1..Len(m)+1
      BY <1>1
    <3>2. r[Len(l)+i] = m[i]
      <4>1. ~(Len(l)+i <= Len(l)) /\ Len(l)+i-Len(l) = i
        BY <1>1
      <4>2. QED
        BY <1>1, <3>1, <4>1
    <3>3. m[i].start = base + OffsetOf(r, Len(l)+i)
      BY <1>3, <3>1, <3>2 DEF PlacedFrom
    <3>4. QED
      BY <1>2, <3>1, <3>3
  <2>3. QED
    BY <2>1, <2>2 DEF PlacedFrom
<1>4. ASSUME PlacedFrom(base, l), PlacedFrom(base + len, m)
      PROVE  PlacedFrom(base, r)
  <2>1. ASSUME NEW i \in 1..Len(r), i <= Len(l)
        PROVE  r[i].start = base + OffsetOf(r, i)
    <3>1. i \in 1..Len(l) /\ i \in 1..Len(l)+1 /\ r[i] = l[i]
      BY <1>1, <2>1
    <3>2. QED
      BY <1>2, <1>4, <3>1 DEF PlacedFrom
  <2>2. ASSUME NEW i \in 1..Len(r), ~(i <= Len(l))
        PROVE  r[i].start = base + OffsetOf(r, i)
    <3> DEFINE j == i - Len(l)
    <3>1. j \in 1..Len(m) /\ j \in 1..Len(m)+1 /\ i = Len(l) + j /\ r[i] = m[j]
      BY <1>1, <2>2
    <3> HIDE DEF j
    <3>2. m[j].start = base + len + OffsetOf(m, j) /\ OffsetOf(r, Len(l) + j) = len + OffsetOf(m, j)
      BY <1>2, <1>4, <3>1 DEF PlacedFrom
    <3>3. r[i].start = base + len + OffsetOf(m, j) /\ OffsetOf(r, i) = len + OffsetOf(m, j)
      BY <3>1, <3>2
    <3>4. OffsetOf(m, j) \in Nat
      BY <1>2, <3>1
    <3>5. QED
      BY <1>2, <3>3, <3>4
  <2>3. QED
    BY <2>1, <2>2 DEF PlacedFrom
<1>5. QED
  BY <1>3, <1>4 DEF r, len

\* A list is what comes before a part of it, that part and what comes after.
LEMMA CutList ==
    ASSUME NEW l \in Seq(Chunk), NEW first \in 1..Len(l)+1, NEW last \in first-1..Len(l)
    PROVE  LET a == SubSeq(l, 1, first-1)
               b == SubSeq(l, first, last)
               c == SubSeq(l, last+1, Len(l)) IN
           /\ a \in Seq(Chunk) /\ b \in Seq(Chunk) /\ c \in Seq(Chunk)
           /\ a \o b \in Seq(Chunk) /\ l = (a \o b) \o c
           /\ Len(a) = first-1 /\ Len(b) = last-first+1 /\ Len(c) = Len(l)-last
           /\ OffsetOf(l, first) = Len(Bytes(a))
           /\ OffsetOf(l, last+1) = Len(Bytes(a)) + Len(Bytes(b))
<1> DEFINE a == SubSeq(l, 1, first-1)
           b == SubSeq(l, first, last)
           c == SubSeq(l, last+1, Len(l))
<1>1. Len(l) \in Nat /\ first \in Nat \ {0} /\ last \in Nat /\ first-1 \in Nat
      /\ first <= Len(l)+1 /\ first-1 <= last /\ last <= Len(l)
  OBVIOUS
<1>2. /\ a \in Seq(Chunk) /\ b \in Seq(Chunk) /\ c \in Seq(Chunk)
      /\ Len(a) = first-1 /\ Len(b) = last-first+1 /\ Len(c) = Len(l)-last
  <2>1. 1 \in Nat \ {0} /\ last+1 \in Nat \ {0} /\ first-1 <= Len(l)
    BY <1>1
  <2>2. a \in Seq(Chunk) /\ Len(a) = first-1
    BY <1>1, <2>1, PartOfList
  <2>3. b \in Seq(Chunk) /\ Len(b) = last-first+1
    BY <1>1, <2>1, PartOfList
  <2>4. c \in Seq(Chunk) /\ Len(c) = Len(l)-last
    BY <1>1, <2>1, PartOfList
  <2>5. QED
    BY <2>2, <2>3, <2>4
<1>3. a \o b = SubSeq(l, 1, last)
  <2>1. 1 \in 1..Len(l)+1 /\ first-1 \in 1-1..Len(l) /\ last \in first-1..Len(l) /\ first-1+1 = first
    BY <1>1
  <2>2. QED
    BY <2>1, ConcatAdjacentSubSeq
<1>4. SubSeq(l, 1, last) \o c = l
  <2>1. 1 \in 1..Len(l)+1 /\ last \in 1-1..Len(l) /\ Len(l) \in last..Len(l)
    BY <1>1
  <2>2. SubSeq(l, 1, last) \o c = SubSeq(l, 1, Len(l))
    BY <2>1, ConcatAdjacentSubSeq
  <2>3. SubSeq(l, 1, Len(l)) = l
    BY SubSeqFull
  <2>4. QED
    BY <2>2, <2>3
<1>5. OffsetOf(l, first) = Len(Bytes(a))
  BY DEF OffsetOf
<1>6. OffsetOf(l, last+1) = Len(Bytes(a)) + Len(Bytes(b))
  <2>1. last+1-1 = last
    BY <1>1
  <2>2. OffsetOf(l, last+1) = Len(Bytes(SubSeq(l, 1, last)))
    <3> DEFINE x == last+1
    <3>1. x-1 = last
      BY <2>1
    <3> HIDE DEF x
    <3>2. OffsetOf(l, x) = Len(Bytes(SubSeq(l, 1, last)))
      BY <3>1 DEF OffsetOf
    <3>3. QED
      BY <3>2 DEF x
  <2>3. Len(Bytes(a \o b)) = Len(Bytes(a)) + Len(Bytes(b))
    BY <1>2, ListConcat
  <2>4. QED
    BY <1>3, <2>2, <2>3
<1> HIDE DEF a, b, c
<1>7. a \o b \in Seq(Chunk)
  BY <1>2, ListConcat
<1>8. QED
  BY <1>2, <1>3, <1>4, <1>5, <1>6, <1>7 DEF a, b, c

\* The larger of two numbers.
LEMMA TwoMax ==
    ASSUME NEW a \in Int, NEW b \in Int
    PROVE  Max({a, b}) = IF b <= a THEN a ELSE b
<1>1. \E m \in {a, b} : \A j \in {a, b} : m >= j
  OBVIOUS
<1>2. Max({a, b}) \in {a, b} /\ \A j \in {a, b} : Max({a, b}) >= j
  BY <1>1 DEF Max
<1>3. QED
  BY <1>2

\* The smaller of two numbers.
LEMMA TwoMin ==
    ASSUME NEW a \in Int, NEW b \in Int
    PROVE  Min({a, b}) = IF a <= b THEN a ELSE b
<1>1. \E m \in {a, b} : \A j \in {a, b} : m <= j
  OBVIOUS
<1>2. Min({a, b}) \in {a, b} /\ \A j \in {a, b} : Min({a, b}) <= j
  BY <1>1 DEF Min
<1>3. QED
  BY <1>2

\* The first offset is 0, and the last the number of bytes.
LEMMA OffsetEnds ==
    ASSUME NEW l \in Seq(Chunk)
    PROVE  OffsetOf(l, 1) = 0 /\ OffsetOf(l, Len(l)+1) = Len(Bytes(l))
<1>1. OffsetOf(l, 1) = 0
  <2>1. SubSeq(l, 1, 1-1) = <<>>
    BY PrefixFacts
  <2>2. Bytes(<<>>) = <<>>
    BY EmptyList
  <2> DEFINE none == SubSeq(l, 1, 1-1)
  <2>3. OffsetOf(l, 1) = Len(Bytes(none))
    BY DEF OffsetOf
  <2>4. none = <<>>
    BY <2>1
  <2> HIDE DEF none
  <2>5. QED
    BY <2>2, <2>3, <2>4
<1>2. OffsetOf(l, Len(l)+1) = Len(Bytes(l))
  <2>1. Len(l)+1-1 = Len(l) /\ SubSeq(l, 1, Len(l)) = l
    BY SubSeqFull
  <2> DEFINE x == Len(l)+1
  <2>2. x-1 = Len(l)
    BY <2>1
  <2> HIDE DEF x
  <2>3. OffsetOf(l, x) = Len(Bytes(l))
    BY <2>1, <2>2 DEF OffsetOf
  <2>4. QED
    BY <2>3 DEF x
<1>3. QED
  BY <1>1, <1>2

\* Offsets grow along the list.
LEMMA OffsetsGrow ==
    ASSUME NEW l \in Seq(Chunk), NEW i \in 1..Len(l)+1, NEW j \in i..Len(l)+1
    PROVE  OffsetOf(l, i) <= OffsetOf(l, j)
<1> DEFINE last == j-1
           a == SubSeq(l, 1, i-1)
           b == SubSeq(l, i, last)
<1>1. last \in i-1..Len(l) /\ last+1 = j
  OBVIOUS
<1> HIDE DEF last
<1>2. OffsetOf(l, i) = Len(Bytes(a)) /\ OffsetOf(l, last+1) = Len(Bytes(a)) + Len(Bytes(b))
      /\ a \in Seq(Chunk) /\ b \in Seq(Chunk)
  BY <1>1, CutList
<1>3. Len(Bytes(a)) \in Nat /\ Len(Bytes(b)) \in Nat
  BY <1>2, KeysOfFacts
<1> HIDE DEF a, b
<1>4. QED
  BY <1>1, <1>2, <1>3

\* A list of one chunk.
LEMMA OneChunk ==
    ASSUME NEW c \in Chunk
    PROVE  <<c>> \in Seq(Chunk) /\ KeysOf(<<c>>) = <<c.key>> /\ Bytes(<<c>>) = c.key
<1>1. <<c>> \in Seq(Chunk) /\ <<c>> = Append(<<>>, c)
  OBVIOUS
<1>2. KeysOf(<<c>>) = <<c.key>>
  BY DEF KeysOf
<1>3. c.key \in Seq(Units)
  BY ChunkKeyFacts DEF Chunk
<1>4. FlattenSeq(<<c.key>>) = c.key
  <2> DEFINE k == c.key
  <2> HIDE DEF k
  <2>1. k \in Seq(Units) /\ <<>> \in Seq(Seq(Units))
    BY <1>3 DEF k
  <2>2. FlattenSeq(Append(<<>>, k)) = FlattenSeq(<<>>) \o k
    BY <2>1, FlattenAppend
  <2>3. Append(<<>>, k) = <<k>> /\ FlattenSeq(<<>>) = <<>> /\ <<>> \o k = k
    BY <2>1, FlattenEmpty
  <2>4. FlattenSeq(<<k>>) = k
    BY <2>2, <2>3
  <2>5. QED
    BY <2>4 DEF k
<1>5. QED
  BY <1>1, <1>2, <1>4 DEF Bytes

\* The next offset is behind the chunk.
LEMMA OffsetStep ==
    ASSUME NEW l \in Seq(Chunk), NEW i \in 1..Len(l)
    PROVE  /\ OffsetOf(l, i+1) = OffsetOf(l, i) + Len(l[i].key)
           /\ Len(l[i].key) \in Nat \ {0}
<1>1. i \in 1..Len(l)+1 /\ i \in i-1..Len(l) /\ i \in Nat \ {0} /\ i \in Nat /\ i <= Len(l) /\ l[i] \in Chunk
  OBVIOUS
<1> DEFINE a == SubSeq(l, 1, i-1)
           b == SubSeq(l, i, i)
<1>2. OffsetOf(l, i) = Len(Bytes(a)) /\ OffsetOf(l, i+1) = Len(Bytes(a)) + Len(Bytes(b))
  BY <1>1, CutList
<1>3. b = <<l[i]>>
  <2>1. b \in Seq(Chunk) /\ Len(b) = i-i+1 /\ \A m \in 1..i-i+1 : b[m] = l[i+m-1]
    <3>1. Len(b) = IF i <= i THEN i-i+1 ELSE 0
      BY <1>1, PartOfList
    <3>2. b \in Seq(Chunk) /\ \A m \in 1..i-i+1 : b[m] = l[i+m-1]
      BY <1>1, PartOfList
    <3>3. QED
      BY <1>1, <3>1, <3>2
  <2>2. i-i+1 = 1 /\ i+1-1 = i
    BY <1>1
  <2> HIDE DEF b
  <2>3. Len(b) = 1 /\ b[1] = l[i]
    BY <2>1, <2>2
  <2>4. QED
    BY <2>1, <2>3
<1>4. Bytes(b) = l[i].key
  BY <1>1, <1>3, OneChunk
<1>5. Len(l[i].key) \in Nat \ {0}
  BY <1>1, ChunkKeyFacts, SegmentAssumption DEF Chunk
<1>6. QED
  BY <1>2, <1>4, <1>5

\* The lists the code builds.
WellPlaced(l) ==
    /\ l \in Seq(Chunk) /\ PlacedFrom(0, l)
    /\ \A i \in 1..Len(l) : Uncut(l[i].key)
    /\ Len(Bytes(l)) <= MaxSize

\* Where a well placed list ends is how long it is.
LEMMA EndIsLength ==
    ASSUME NEW l, WellPlaced(l), l # <<>>
    PROVE  End(l) = Len(Bytes(l)) /\ End(l) \in Nat
<1>1. l \in Seq(Chunk) /\ Len(l) \in 1..Len(l) /\ Len(l) \in Nat
  BY EmptySeq DEF WellPlaced
<1> DEFINE n == Len(l)
<1>2. l[n].start = 0 + OffsetOf(l, n)
  BY <1>1 DEF WellPlaced, PlacedFrom
<1>3. OffsetOf(l, n+1) = OffsetOf(l, n) + Len(l[n].key) /\ OffsetOf(l, n+1) = Len(Bytes(l))
  BY <1>1, OffsetStep, OffsetEnds
<1>4. n \in 1..Len(l)+1
  BY <1>1
<1>5. OffsetOf(l, n) \in Nat /\ Len(Bytes(l)) \in Nat
  BY <1>1, <1>4, OffsetTyped, KeysOfFacts
<1>6. End(l) = l[n].start + Len(l[n].key)
  BY DEF End, Last
<1> HIDE DEF n
<1>7. QED
  BY <1>2, <1>3, <1>5, <1>6

-----------------------------------------------------------------------------
(* Finding chunks.                                                         *)

\* get_chunk_idx finds the chunk around an offset, if there is one.
LEMMA ChunkAtFacts ==
    ASSUME NEW l \in Seq(Chunk), NEW offset \in Nat
    PROVE  /\ ChunkAt(l, offset) = 0 => Len(Bytes(l)) <= offset
           /\ ChunkAt(l, offset) # 0 =>
                /\ ChunkAt(l, offset) \in 1..Len(l)
                /\ OffsetOf(l, ChunkAt(l, offset)) <= offset
                /\ offset < OffsetOf(l, ChunkAt(l, offset) + 1)
<1> DEFINE ends == [i \in DOMAIN l |-> OffsetOf(l, i+1)]
           I == {i \in 1..Len(ends) : offset < ends[i]}
           at == ChunkAt(l, offset)
<1>1. Len(l) \in Nat /\ DOMAIN l = 1..Len(l)
  OBVIOUS
<1>2. ASSUME NEW i \in 1..Len(l)+1 PROVE OffsetOf(l, i) \in Nat
  BY OffsetTyped
<1>3. Len(ends) = Len(l) /\ \A i \in 1..Len(l) : ends[i] = OffsetOf(l, i+1)
  <2> HIDE DEF OffsetOf
  <2>1. ends = [i \in 1..Len(l) |-> OffsetOf(l, i+1)]
    BY <1>1
  <2>2. QED
    BY <1>1, <2>1
<1>4. at = IF I # {} THEN Min(I) ELSE 0
  BY Zenon DEF ChunkAt, SelectInSeq
<1>5. I = {i \in 1..Len(l) : offset < OffsetOf(l, i+1)}
  BY <1>3
<1> HIDE DEF ends, I, at
<1>6. CASE I = {}
  <2>1. at = 0
    BY <1>4, <1>6
  <2>2. Len(Bytes(l)) <= offset
    <3>1. CASE Len(l) = 0
      <4>1. l = <<>>
        BY <3>1, EmptySeq
      <4>2. Bytes(l) = <<>>
        BY <4>1, EmptyList
      <4>3. QED
        BY <4>2
    <3>2. CASE Len(l) # 0
      <4>1. Len(l) \in 1..Len(l) /\ Len(l)+1 \in 1..Len(l)+1
        BY <1>1, <3>2
      <4>2. ~(offset < OffsetOf(l, Len(l)+1)) /\ OffsetOf(l, Len(l)+1) \in Nat
        BY <1>2, <1>5, <1>6, <4>1
      <4>3. OffsetOf(l, Len(l)+1) = Len(Bytes(l))
        BY OffsetEnds
      <4> HIDE DEF OffsetOf
      <4>4. QED
        BY <4>2, <4>3
    <3>3. QED
      BY <3>1, <3>2
  <2>3. QED
    BY <2>1, <2>2 DEF at
<1>7. CASE I # {}
  <2>1. I \in SUBSET Nat
    BY <1>5
  <2>2. \E i \in I : \A j \in I : i <= j
    BY <1>7, <2>1, Smallest
  <2>3. Min(I) \in I /\ \A j \in I : Min(I) <= j
    BY <2>2 DEF Min
  <2>4. at \in I /\ \A j \in I : at <= j
    BY <1>4, <1>7, <2>3
  <2>5. at \in 1..Len(l) /\ offset < OffsetOf(l, at+1)
    BY <1>5, <2>4
  <2>6. OffsetOf(l, at) <= offset
    <3>1. CASE at = 1
      BY <3>1, OffsetEnds
    <3>2. CASE at # 1
      <4> DEFINE p == at-1
      <4>1. p \in 1..Len(l) /\ p < at /\ p+1 = at /\ at \in 1..Len(l)+1
        BY <1>1, <2>5, <3>2
      <4>2. p \notin I
        BY <2>4, <2>5, <4>1
      <4> HIDE DEF p
      <4>3. ~(offset < OffsetOf(l, p+1))
        BY <1>5, <4>1, <4>2
      <4>4. OffsetOf(l, at) \in Nat /\ ~(offset < OffsetOf(l, at))
        BY <1>2, <4>1, <4>3
      <4>5. QED
        BY <4>4
    <3>3. QED
      BY <3>1, <3>2
  <2>7. at # 0
    BY <2>5
  <2>8. QED
    BY <2>5, <2>6, <2>7 DEF at
<1>8. QED
  BY <1>6, <1>7

\* The chunks first..last cover what of the range lies in the list.
Covers(l, first, last, offset, n) ==
    /\ first \in 1..Len(l) /\ last \in first..Len(l)
    /\ OffsetOf(l, first) <= offset
    /\ last = Len(l) \/ offset + n <= OffsetOf(l, last+1)

\* The last chunk loaded covers the end of a range, or is the last of all.
LEMMA LastOfRange ==
    ASSUME NEW l \in Seq(Chunk), NEW offset \in Nat, NEW n \in Nat \ {0}, l # <<>>,
           NEW first \in 1..Len(l), OffsetOf(l, first) <= offset
    PROVE  Covers(l, first, ChunkAtOrLast(l, offset + n - 1), offset, n)
<1> DEFINE o == offset + n - 1
           at == ChunkAt(l, o)
<1>1. o \in Nat /\ offset <= o /\ Len(l) \in Nat
  OBVIOUS
<1>2. /\ at = 0 => Len(Bytes(l)) <= o
      /\ at # 0 => at \in 1..Len(l) /\ OffsetOf(l, at) <= o /\ o < OffsetOf(l, at + 1)
  BY <1>1, ChunkAtFacts
<1>3. ChunkAtOrLast(l, o) = IF at = 0 THEN Len(l) ELSE at
  BY DEF ChunkAtOrLast
<1> HIDE DEF at
<1>4. CASE at = 0
  <2>1. Len(l) \in first..Len(l)
    BY <1>1
  <2>2. QED
    BY <1>3, <1>4, <2>1 DEF Covers, o
<1>5. CASE at # 0
  <2>1. at \in 1..Len(l) /\ at+1 \in 1..Len(l)+1 /\ o < OffsetOf(l, at + 1)
    BY <1>1, <1>2, <1>5
  <2>2. OffsetOf(l, at + 1) \in Nat
    BY <2>1, OffsetTyped
  <2>3. offset + n <= OffsetOf(l, at + 1)
    <3> HIDE DEF OffsetOf
    <3>1. QED
      BY <2>1, <2>2
  <2>4. first <= at
    <3> SUFFICES ASSUME ~(first <= at) PROVE FALSE
      OBVIOUS
    <3>1. first \in at+1..Len(l)+1 /\ first \in 1..Len(l)+1
      BY <1>1, <2>1
    <3>2. OffsetOf(l, at+1) <= OffsetOf(l, first)
      BY <2>1, <3>1, OffsetsGrow
    <3>3. OffsetOf(l, first) \in Nat
      BY <3>1, OffsetTyped
    <3> HIDE DEF OffsetOf
    <3>4. QED
      BY <1>1, <2>1, <2>2, <3>2, <3>3
  <2>5. at \in first..Len(l)
    BY <1>1, <2>1, <2>4
  <2>6. QED
    BY <1>3, <1>5, <2>3, <2>5 DEF Covers, o
<1>6. QED
  BY <1>4, <1>5

\* The chunks a read loads cover its range.
LEMMA ReadRange ==
    ASSUME NEW l, WellPlaced(l), l # <<>>, NEW offset \in Nat, NEW n \in Nat \ {0},
           offset < End(l)
    PROVE  Covers(l, ChunkAt(l, offset), ChunkAtOrLast(l, offset + n - 1), offset, n)
<1>1. l \in Seq(Chunk) /\ End(l) = Len(Bytes(l)) /\ End(l) \in Nat
  BY EndIsLength DEF WellPlaced
<1>2. ChunkAt(l, offset) # 0
  BY <1>1, ChunkAtFacts
<1>3. ChunkAt(l, offset) \in 1..Len(l) /\ OffsetOf(l, ChunkAt(l, offset)) <= offset
  BY <1>1, <1>2, ChunkAtFacts
<1>4. QED
  BY <1>1, <1>3, LastOfRange

\* The chunks a write loads cover its range.
LEMMA WriteRange ==
    ASSUME NEW l, WellPlaced(l), l # <<>>, NEW offset \in Nat, NEW n \in Nat \ {0}
    PROVE  Covers(l, WriteFirst(l, offset), WriteLast(l, offset, n), offset, n)
<1>1. l \in Seq(Chunk) /\ End(l) = Len(Bytes(l)) /\ End(l) \in Nat
      /\ Len(l) \in Nat /\ Len(l) \in 1..Len(l)
  BY EndIsLength, EmptySeq DEF WellPlaced
<1>2. CASE offset >= End(l)
  <2>1. WriteFirst(l, offset) = Len(l) /\ WriteLast(l, offset, n) = Len(l)
    BY <1>2 DEF WriteFirst, WriteLast
  <2>2. OffsetOf(l, Len(l)) <= offset
    <3>1. Len(l) \in 1..Len(l)+1 /\ Len(l)+1 \in Len(l)..Len(l)+1
      BY <1>1
    <3>2. OffsetOf(l, Len(l)) <= OffsetOf(l, Len(l)+1)
      BY <1>1, <3>1, OffsetsGrow
    <3>3. OffsetOf(l, Len(l)+1) = Len(Bytes(l)) /\ OffsetOf(l, Len(l)) \in Nat
      BY <1>1, <3>1, OffsetEnds, OffsetTyped
    <3> HIDE DEF OffsetOf
    <3>4. QED
      BY <1>1, <1>2, <3>2, <3>3
  <2>3. Len(l) \in Len(l)..Len(l)
    BY <1>1
  <2>4. QED
    BY <1>1, <2>1, <2>2, <2>3 DEF Covers
<1>3. CASE ~(offset >= End(l))
  <2> DEFINE at == ChunkAt(l, offset)
  <2>1. at # 0
    BY <1>1, <1>3, ChunkAtFacts
  <2>2. at \in 1..Len(l) /\ OffsetOf(l, at) <= offset
    BY <1>1, <2>1, ChunkAtFacts
  <2> HIDE DEF at
  <2>3. WriteFirst(l, offset) = Max({1, at-1}) /\ WriteLast(l, offset, n) = ChunkAtOrLast(l, offset + n - 1)
    BY <1>3 DEF WriteFirst, WriteLast, at
  <2> DEFINE first == Max({1, at-1})
  <2>4. first \in 1..at
    <3>1. first = IF at-1 <= 1 THEN 1 ELSE at-1
      BY <2>2, TwoMax
    <3> HIDE DEF first
    <3>2. QED
      BY <2>2, <3>1
  <2>5. first \in 1..Len(l) /\ first \in 1..Len(l)+1 /\ at \in first..Len(l)+1 /\ at \in 1..Len(l)+1
    BY <1>1, <2>2, <2>4
  <2>6. OffsetOf(l, first) <= OffsetOf(l, at)
    BY <1>1, <2>5, OffsetsGrow
  <2>7. OffsetOf(l, first) \in Nat /\ OffsetOf(l, at) \in Nat
    BY <1>1, <2>5, OffsetTyped
  <2>8. OffsetOf(l, first) <= offset
    <3> HIDE DEF OffsetOf, first
    <3>1. QED
      BY <2>2, <2>6, <2>7
  <2>9. Covers(l, first, ChunkAtOrLast(l, offset + n - 1), offset, n)
    BY <1>1, <2>5, <2>8, LastOfRange
  <2>10. QED
    BY <2>3, <2>9
<1>4. QED
  BY <1>2, <1>3

-----------------------------------------------------------------------------
(* Reading and writing a part of the content.                              *)

\* What pread returns.
LEMMA SliceFacts ==
    ASSUME NEW s \in Seq(Units), NEW offset \in Nat, NEW n \in Nat
    PROVE  LET hi == IF offset + n <= Len(s) THEN offset + n ELSE Len(s) IN
           /\ Slice(s, offset, n) \in Seq(Units)
           /\ Len(Slice(s, offset, n)) = IF offset < hi THEN hi - offset ELSE 0
           /\ \A i \in 1..hi-offset : Slice(s, offset, n)[i] = s[offset+i]
<1> DEFINE hi == IF offset + n <= Len(s) THEN offset + n ELSE Len(s)
<1>1. Len(s) \in Nat /\ offset + n \in Int /\ Len(s) \in Int
  OBVIOUS
<1>2. Min({offset + n, Len(s)}) = hi
  BY <1>1, TwoMin
<1>3. hi \in Nat /\ hi <= Len(s)
  BY <1>1
<1>4. Slice(s, offset, n) = SubSeq(s, offset + 1, hi)
  BY <1>2 DEF Slice
<1> HIDE DEF hi
<1>5. \A i \in offset+1..hi : s[i] \in Units
  BY <1>1, <1>3
<1>6. offset + 1 \in Int /\ hi \in Int
  BY <1>3
<1>7. /\ SubSeq(s, offset + 1, hi) \in Seq(Units)
      /\ Len(SubSeq(s, offset + 1, hi)) = IF offset + 1 <= hi THEN hi - (offset + 1) + 1 ELSE 0
      /\ \A i \in 1..hi-(offset+1)+1 : SubSeq(s, offset + 1, hi)[i] = s[offset+1+i-1]
  BY <1>5, <1>6, SubSeqProperties
<1>8. \A i \in 1..hi-offset : i \in 1..hi-(offset+1)+1 /\ offset+1+i-1 = offset+i
  BY <1>3
<1>9. QED
  <2>1. \A i \in 1..hi-offset : SubSeq(s, offset + 1, hi)[i] = s[offset+i]
    BY <1>7, <1>8
  <2>2. Len(SubSeq(s, offset + 1, hi)) = IF offset < hi THEN hi - offset ELSE 0
    BY <1>3, <1>7
  <2>3. QED
    BY <1>4, <1>7, <2>1, <2>2 DEF hi

\* What pwrite leaves.
LEMMA OverwriteFacts ==
    ASSUME NEW s \in Seq(Units), NEW offset \in Nat, NEW data \in Seq(Units)
    PROVE  LET end == offset + Len(data)
               n == IF end <= Len(s) THEN Len(s) ELSE end IN
           /\ Overwrite(s, offset, data) \in Seq(Units)
           /\ Len(Overwrite(s, offset, data)) = n
           /\ \A i \in 1..n : Overwrite(s, offset, data)[i] =
                IF i > offset /\ i <= end THEN data[i - offset]
                ELSE IF i <= Len(s) THEN s[i] ELSE Hole
<1> DEFINE end == offset + Len(data)
           n == IF end <= Len(s) THEN Len(s) ELSE end
           At(i) == IF i > offset /\ i <= end THEN data[i - offset]
                    ELSE IF i <= Len(s) THEN s[i] ELSE Hole
<1>1. Len(s) \in Nat /\ Len(data) \in Nat /\ end \in Nat /\ n \in Nat
  OBVIOUS
<1>2. Max({Len(s), end}) = n
  BY <1>1, TwoMax
<1>3. Overwrite(s, offset, data) = [i \in 1..n |-> At(i)]
  BY <1>2 DEF Overwrite
<1>4. \A i \in 1..n : At(i) \in Units
  <2> SUFFICES ASSUME NEW i \in 1..n PROVE At(i) \in Units
    OBVIOUS
  <2>1. CASE i > offset /\ i <= end
    <3>1. i - offset \in 1..Len(data)
      BY <1>1, <2>1
    <3>2. QED
      BY <2>1, <3>1
  <2>2. CASE ~(i > offset /\ i <= end) /\ i <= Len(s)
    BY <1>1, <2>2
  <2>3. CASE ~(i > offset /\ i <= end) /\ ~(i <= Len(s))
    BY <2>3, UnitsAssumption
  <2>4. QED
    BY <2>1, <2>2, <2>3
<1> HIDE DEF n, At
<1>5. [i \in 1..n |-> At(i)] \in Seq(Units)
  BY <1>1, <1>4
<1>6. QED
  BY <1>1, <1>3, <1>5 DEF n, At

\* A sequence of three parts.
LEMMA ThreeParts ==
    ASSUME NEW A \in Seq(Units), NEW L \in Seq(Units), NEW R \in Seq(Units)
    PROVE  LET X == (A \o L) \o R IN
           /\ X \in Seq(Units) /\ Len(X) = Len(A) + Len(L) + Len(R)
           /\ \A i \in 1..Len(X) : X[i] = IF i <= Len(A) THEN A[i]
                                          ELSE IF i <= Len(A) + Len(L) THEN L[i - Len(A)]
                                          ELSE R[i - Len(A) - Len(L)]
<1> DEFINE B == A \o L
<1>1. /\ B \in Seq(Units) /\ Len(B) = Len(A) + Len(L) /\ Len(A) \in Nat /\ Len(L) \in Nat /\ Len(R) \in Nat
      /\ \A i \in 1..Len(A)+Len(L) : B[i] = IF i <= Len(A) THEN A[i] ELSE L[i - Len(A)]
  BY ConcatProperties
<1> HIDE DEF B
<1> DEFINE X == B \o R
<1>2. /\ X \in Seq(Units) /\ Len(X) = Len(B) + Len(R)
      /\ \A i \in 1..Len(B)+Len(R) : X[i] = IF i <= Len(B) THEN B[i] ELSE R[i - Len(B)]
  <2>1. B \in Seq(Units) /\ R \in Seq(Units)
    BY <1>1
  <2>2. QED
    BY <2>1, ConcatProperties
<1> HIDE DEF X
<1>3. ASSUME NEW i \in 1..Len(X)
      PROVE  X[i] = IF i <= Len(A) THEN A[i] ELSE IF i <= Len(A) + Len(L) THEN L[i - Len(A)]
                    ELSE R[i - Len(A) - Len(L)]
  <2>1. i \in 1..Len(B)+Len(R)
    BY <1>2
  <2>2. CASE i <= Len(B)
    <3>1. i \in 1..Len(A)+Len(L)
      BY <1>1, <2>2
    <3>2. X[i] = B[i]
      BY <1>2, <2>1, <2>2
    <3>3. QED
      BY <1>1, <3>1, <3>2
  <2>3. CASE ~(i <= Len(B))
    <3>1. X[i] = R[i - Len(B)]
      BY <1>2, <2>1, <2>3
    <3>2. i - Len(B) = i - Len(A) - Len(L) /\ ~(i <= Len(A) + Len(L)) /\ ~(i <= Len(A))
      BY <1>1, <2>3
    <3>3. QED
      BY <3>1, <3>2
  <2>4. QED
    BY <2>2, <2>3
<1>4. Len(X) = Len(A) + Len(L) + Len(R)
  BY <1>1, <1>2
<1>5. QED
  BY <1>2, <1>3, <1>4 DEF X, B

\* A read is answered by the part of the file that covers its range.
LEMMA SliceWithin ==
    ASSUME NEW A \in Seq(Units), NEW L \in Seq(Units), NEW R \in Seq(Units),
           NEW offset \in Nat, NEW n \in Nat, Len(A) <= offset,
           R = <<>> \/ offset + n <= Len(A) + Len(L)
    PROVE  Slice((A \o L) \o R, offset, n) = Slice(L, offset - Len(A), n)
<1> DEFINE X == (A \o L) \o R
           a == Len(A)
           o == offset - a
           hi == IF offset + n <= Len(X) THEN offset + n ELSE Len(X)
           hl == IF o + n <= Len(L) THEN o + n ELSE Len(L)
           x == Slice(X, offset, n)
           y == Slice(L, o, n)
<1>1. /\ X \in Seq(Units) /\ Len(X) = a + Len(L) + Len(R)
      /\ a \in Nat /\ Len(L) \in Nat /\ Len(R) \in Nat /\ o \in Nat /\ offset = a + o
      /\ R = <<>> => Len(R) = 0
  BY ThreeParts
<1>2. \A i \in 1..Len(L) : X[a+i] = L[i]
  <2> SUFFICES ASSUME NEW i \in 1..Len(L) PROVE X[a+i] = L[i]
    OBVIOUS
  <2>1. a+i \in 1..Len(X) /\ ~(a+i <= a) /\ a+i <= a+Len(L) /\ a+i-a = i
    BY <1>1
  <2> HIDE DEF a, X
  <2>2. X[a+i] = IF a+i <= a THEN A[a+i] ELSE IF a+i <= a+Len(L) THEN L[a+i-a] ELSE R[a+i-a-Len(L)]
    BY <2>1, ThreeParts DEF a, X
  <2>3. QED
    BY <2>1, <2>2
<1> HIDE DEF X, a, o
<1>3. hi = a + hl /\ hl \in Nat /\ hl <= Len(L)
  BY <1>1 DEF a
<1>4. /\ x \in Seq(Units) /\ Len(x) = IF offset < hi THEN hi - offset ELSE 0
      /\ \A i \in 1..hi-offset : x[i] = X[offset+i]
  <2>1. X \in Seq(Units)
    BY <1>1
  <2>2. QED
    BY <2>1, SliceFacts
<1>5. /\ y \in Seq(Units) /\ Len(y) = IF o < hl THEN hl - o ELSE 0
      /\ \A i \in 1..hl-o : y[i] = L[o+i]
  <2>1. o \in Nat
    BY <1>1
  <2>2. QED
    BY <2>1, SliceFacts
<1> HIDE DEF hi, hl, x, y
<1>6. Len(x) = Len(y)
  BY <1>1, <1>3, <1>4, <1>5
<1>7. ASSUME NEW i \in 1..Len(x) PROVE x[i] = y[i]
  <2>1. i \in 1..hl-o /\ i \in 1..hi-offset /\ o+i \in 1..Len(L) /\ offset+i = a+(o+i)
    BY <1>1, <1>3, <1>4
  <2>2. X[a+(o+i)] = L[o+i]
    BY <1>2, <2>1
  <2>3. x[i] = X[offset+i] /\ y[i] = L[o+i]
    BY <1>4, <1>5, <2>1
  <2>4. QED
    BY <2>1, <2>2, <2>3
<1>8. x = y
  BY <1>4, <1>5, <1>6, <1>7, SeqEqual
<1>9. QED
  BY <1>8 DEF x, y, X, o, a

\* A write that starts in the middle part L and stays in it when R follows.
WrittenWithin(A, L, R, offset, data) ==
    Len(A) <= offset /\ (R = <<>> \/ offset + Len(data) <= Len(A) + Len(L))

\* A write changes the part of the file that covers its range.
LEMMA OverwriteWithin ==
    ASSUME NEW A \in Seq(Units), NEW L \in Seq(Units), NEW R \in Seq(Units),
           NEW offset \in Nat, NEW data \in Seq(Units), WrittenWithin(A, L, R, offset, data)
    PROVE  Overwrite((A \o L) \o R, offset, data)
               = (A \o Overwrite(L, offset - Len(A), data)) \o R
<1> DEFINE X == (A \o L) \o R
           a == Len(A)
           o == offset - a
           d == Len(data)
           new == Overwrite(L, o, data)
           x == Overwrite(X, offset, data)
           y == (A \o new) \o R
           nx == IF offset + d <= Len(X) THEN Len(X) ELSE offset + d
           nl == IF o + d <= Len(L) THEN Len(L) ELSE o + d
<1>w. Len(A) <= offset /\ (R = <<>> \/ offset + Len(data) <= Len(A) + Len(L))
  BY DEF WrittenWithin
<1>1. /\ X \in Seq(Units) /\ Len(X) = a + Len(L) + Len(R)
      /\ a \in Nat /\ Len(L) \in Nat /\ Len(R) \in Nat /\ o \in Nat /\ offset = a + o /\ d \in Nat
      /\ R = <<>> <=> Len(R) = 0
  BY <1>w, ThreeParts, EmptySeq
<1>2. \A i \in 1..Len(X) : X[i] = IF i <= a THEN A[i] ELSE IF i <= a + Len(L) THEN L[i - a]
                                  ELSE R[i - a - Len(L)]
  BY ThreeParts
<1>3. /\ new \in Seq(Units) /\ Len(new) = nl
      /\ \A i \in 1..nl : new[i] = IF i > o /\ i <= o + d THEN data[i - o]
                                   ELSE IF i <= Len(L) THEN L[i] ELSE Hole
  <2>1. o \in Nat
    BY <1>1
  <2> HIDE DEF o
  <2>2. QED
    BY <2>1, OverwriteFacts
<1>4. /\ x \in Seq(Units) /\ Len(x) = nx
      /\ \A i \in 1..nx : x[i] = IF i > offset /\ i <= offset + d THEN data[i - offset]
                                 ELSE IF i <= Len(X) THEN X[i] ELSE Hole
  <2>1. X \in Seq(Units)
    BY <1>1
  <2> HIDE DEF X, o
  <2>2. QED
    BY <2>1, OverwriteFacts
<1> HIDE DEF X, o, d, new, x
<1>5. /\ y \in Seq(Units) /\ Len(y) = a + Len(new) + Len(R)
      /\ \A i \in 1..Len(y) : y[i] = IF i <= a THEN A[i] ELSE IF i <= a + Len(new) THEN new[i - a]
                                     ELSE R[i - a - Len(new)]
  <2>1. new \in Seq(Units)
    BY <1>3
  <2>2. QED
    BY <2>1, ThreeParts
<1> HIDE DEF a, y
<1>6. R = <<>> \/ offset + d <= a + Len(L)
  BY <1>w DEF a, d
<1>7. nx = a + nl + Len(R) /\ nl \in Nat /\ nx \in Nat /\ (R # <<>> => nl = Len(L))
  <2>1. /\ Len(X) = a + Len(L) + Len(R) /\ offset = a + o
        /\ a \in Nat /\ Len(L) \in Nat /\ Len(R) \in Nat /\ o \in Nat /\ d \in Nat
        /\ Len(R) = 0 \/ offset + d <= a + Len(L)
    BY <1>1, <1>6
  <2>2. R # <<>> => Len(R) # 0
    BY <1>1
  <2>3. (offset + d <= Len(X) <=> o + d <= Len(L) + Len(R)) /\ offset + d = a + (o + d)
    BY <2>1
  <2>4. nx = a + nl + Len(R)
    <3>1. CASE Len(R) = 0
      <4>1. offset + d <= Len(X) <=> o + d <= Len(L)
        BY <2>1, <2>3, <3>1
      <4>2. CASE o + d <= Len(L)
        BY <2>1, <3>1, <4>1, <4>2
      <4>3. CASE ~(o + d <= Len(L))
        BY <2>1, <3>1, <4>1, <4>3
      <4>4. QED
        BY <4>2, <4>3
    <3>2. CASE Len(R) # 0
      <4>1. offset + d <= Len(X) /\ o + d <= Len(L)
        BY <2>1, <3>2
      <4>2. QED
        BY <2>1, <4>1
    <3>3. QED
      BY <3>1, <3>2
  <2>5. nl \in Nat /\ nx \in Nat
    BY <2>1
  <2>6. R # <<>> => nl = Len(L)
    BY <2>1, <2>2
  <2>7. QED
    BY <2>4, <2>5, <2>6
<1> HIDE DEF nx, nl
<1>8. ASSUME NEW i \in 1..nx PROVE x[i] = y[i]
  <2>1. i \in 1..Len(y)
    BY <1>3, <1>5, <1>7
  <2>2. CASE i <= a
    <3>a. i \in 1..Len(X) /\ ~(i > offset) /\ i <= Len(X)
      BY <1>1, <2>2
    <3>1. x[i] = X[i] /\ i \in 1..Len(X)
      BY <1>4, <3>a
    <3>2. X[i] = A[i]
      BY <1>2, <2>2, <3>1
    <3>3. y[i] = A[i]
      BY <1>5, <2>1, <2>2
    <3>4. QED
      BY <3>1, <3>2, <3>3
  <2>3. CASE ~(i <= a) /\ i <= a + nl
    <3> DEFINE j == i - a
    <3>1. j \in 1..nl /\ i = a + j
      BY <1>1, <1>7, <2>3
    <3>2. y[i] = new[j]
      BY <1>3, <1>5, <2>1, <2>3
    <3> HIDE DEF j
    <3>3. CASE j > o /\ j <= o + d
      <4>1. i > offset /\ i <= offset + d /\ i - offset = j - o
        BY <1>1, <3>1, <3>3
      <4>2. x[i] = data[j - o] /\ new[j] = data[j - o]
        BY <1>3, <1>4, <3>1, <3>3, <4>1
      <4>3. QED
        BY <3>2, <4>2
    <3>4. CASE ~(j > o /\ j <= o + d) /\ j <= Len(L)
      <4>1. ~(i > offset /\ i <= offset + d) /\ i \in 1..Len(X) /\ i <= Len(X) /\ ~(i <= a) /\ i <= a + Len(L) /\ i - a = j
        BY <1>1, <3>1, <3>4
      <4>2. x[i] = X[i]
        BY <1>4, <4>1
      <4>3. X[i] = L[j]
        BY <1>2, <4>1
      <4>4. new[j] = L[j]
        BY <1>3, <3>1, <3>4
      <4>5. QED
        BY <3>2, <4>2, <4>3, <4>4
    <3>5. CASE ~(j > o /\ j <= o + d) /\ ~(j <= Len(L))
      <4>1. new[j] = Hole
        BY <1>3, <3>1, <3>5
      <4>2. nl # Len(L)
        BY <1>1, <3>1, <3>5
      <4>3. Len(R) = 0
        BY <1>1, <1>7, <4>2
      <4>4. ~(i > offset /\ i <= offset + d) /\ ~(i <= Len(X))
        BY <1>1, <3>1, <3>5, <4>3
      <4>5. x[i] = Hole
        BY <1>4, <4>4
      <4>6. QED
        BY <3>2, <4>1, <4>5
    <3>6. QED
      BY <3>3, <3>4, <3>5
  <2>4. CASE ~(i <= a + nl)
    <3>1. Len(R) # 0 /\ R # <<>>
      BY <1>1, <1>7, <2>4
    <3>2. nl = Len(L) /\ offset + d <= a + Len(L)
      BY <1>6, <1>7, <3>1
    <3>3. ~(i > offset /\ i <= offset + d) /\ i \in 1..Len(X) /\ i <= Len(X) /\ ~(i <= a) /\ ~(i <= a + Len(L))
      BY <1>1, <1>7, <2>4, <3>2
    <3>4. x[i] = X[i]
      BY <1>4, <3>3
    <3>5. X[i] = R[i - a - Len(L)]
      BY <1>2, <3>3
    <3>6. y[i] = R[i - a - Len(new)]
      BY <1>3, <1>5, <2>1, <2>4, <3>2, <3>3
    <3>7. QED
      BY <1>3, <3>2, <3>4, <3>5, <3>6
  <2>5. QED
    BY <2>2, <2>3, <2>4
<1>9. x = y
  <2>1. Len(x) = nx /\ Len(y) = nx
    BY <1>3, <1>4, <1>5, <1>7
  <2>2. QED
    BY <1>4, <1>5, <1>8, <2>1, SeqEqual
<1>10. QED
  BY <1>3, <1>7, <1>9 DEF X, x, y, new, o, a

\* What is left of a file that is cut in its second part.
LEMMA SliceAcross ==
    ASSUME NEW A \in Seq(Units), NEW L \in Seq(Units), NEW R \in Seq(Units),
           NEW n \in Nat, Len(A) <= n, n <= Len(A) + Len(L)
    PROVE  /\ Slice((A \o L) \o R, 0, n) = A \o Slice(L, 0, n - Len(A))
           /\ Len(Slice((A \o L) \o R, 0, n)) = n
<1> DEFINE X == (A \o L) \o R
           a == Len(A)
           m == n - a
           x == Slice(X, 0, n)
           l == Slice(L, 0, m)
           y == A \o l
<1>1. /\ X \in Seq(Units) /\ Len(X) = a + Len(L) + Len(R)
      /\ a \in Nat /\ Len(L) \in Nat /\ Len(R) \in Nat /\ m \in Nat /\ n = a + m /\ m <= Len(L)
      /\ n <= Len(X) /\ 0 \in Nat
  BY ThreeParts
<1>2. \A i \in 1..Len(X) : X[i] = IF i <= a THEN A[i] ELSE IF i <= a + Len(L) THEN L[i - a]
                                  ELSE R[i - a - Len(L)]
  BY ThreeParts
<1> HIDE DEF X, m
<1>3. x \in Seq(Units) /\ Len(x) = n /\ \A i \in 1..n : x[i] = X[i]
  <2> DEFINE hi == IF 0 + n <= Len(X) THEN 0 + n ELSE Len(X)
  <2>1. hi = n
    BY <1>1
  <2>2. X \in Seq(Units) /\ 0 \in Nat
    BY <1>1
  <2>3. /\ x \in Seq(Units) /\ Len(x) = IF 0 < hi THEN hi - 0 ELSE 0
        /\ \A i \in 1..hi-0 : x[i] = X[0+i]
    BY <2>2, SliceFacts
  <2> HIDE DEF hi, x
  <2>4. QED
    BY <2>1, <2>3
<1>4. l \in Seq(Units) /\ Len(l) = m /\ \A i \in 1..m : l[i] = L[i]
  <2> DEFINE hi == IF 0 + m <= Len(L) THEN 0 + m ELSE Len(L)
  <2>1. hi = m
    BY <1>1
  <2>2. m \in Nat /\ 0 \in Nat
    BY <1>1
  <2>3. /\ l \in Seq(Units) /\ Len(l) = IF 0 < hi THEN hi - 0 ELSE 0
        /\ \A i \in 1..hi-0 : l[i] = L[0+i]
    BY <2>2, SliceFacts
  <2> HIDE DEF hi, l
  <2>4. QED
    BY <1>1, <2>1, <2>3
<1> HIDE DEF x, l
<1>5. /\ y \in Seq(Units) /\ Len(y) = a + m
      /\ \A i \in 1..a+m : y[i] = IF i <= a THEN A[i] ELSE l[i - a]
  BY <1>4, ConcatProperties
<1> HIDE DEF y, a
<1>6. ASSUME NEW i \in 1..n PROVE x[i] = y[i]
  <2>1. i \in 1..Len(X) /\ i \in 1..a+m /\ x[i] = X[i]
    BY <1>1, <1>3
  <2>2. CASE i <= a
    BY <1>2, <1>5, <2>1, <2>2
  <2>3. CASE ~(i <= a)
    <3>1. i - a \in 1..m /\ i <= a + Len(L)
      BY <1>1, <2>1, <2>3
    <3>2. X[i] = L[i - a] /\ y[i] = l[i - a]
      BY <1>2, <1>5, <2>1, <2>3, <3>1
    <3>3. QED
      BY <1>4, <2>1, <3>1, <3>2
  <2>4. QED
    BY <2>2, <2>3
<1>7. x = y
  <2>1. Len(y) = n
    BY <1>1, <1>5
  <2>2. QED
    BY <1>3, <1>5, <1>6, <2>1, SeqEqual
<1>8. QED
  BY <1>3, <1>7 DEF x, y, l, X, m, a

\* What ftruncate to a smaller size leaves.
LEMMA ResizedFacts ==
    ASSUME NEW s \in Seq(Units), NEW n \in Nat
    PROVE  Resized(s, n) \in Seq(Units) /\ (n <= Len(s) => Resized(s, n) = Slice(s, 0, n))
<1> DEFINE At(i) == IF i <= Len(s) THEN s[i] ELSE Hole
<1>1. \A i \in 1..n : At(i) \in Units
  <2> SUFFICES ASSUME NEW i \in 1..n PROVE At(i) \in Units
    OBVIOUS
  <2>1. CASE i <= Len(s)
    BY <2>1
  <2>2. CASE ~(i <= Len(s))
    BY <2>2, UnitsAssumption
  <2>3. QED
    BY <2>1, <2>2
<1>2. Resized(s, n) = [i \in 1..n |-> At(i)]
  BY DEF Resized
<1> HIDE DEF At
<1>3. [i \in 1..n |-> At(i)] \in Seq(Units) /\ Len([i \in 1..n |-> At(i)]) = n
  BY <1>1
<1>4. ASSUME n <= Len(s) PROVE Resized(s, n) = Slice(s, 0, n)
  <2> DEFINE hi == IF 0 + n <= Len(s) THEN 0 + n ELSE Len(s)
             x == Slice(s, 0, n)
             y == [i \in 1..n |-> At(i)]
  <2>1. hi = n /\ 0 \in Nat
    BY <1>4
  <2>2. /\ x \in Seq(Units) /\ Len(x) = IF 0 < hi THEN hi - 0 ELSE 0
        /\ \A i \in 1..hi-0 : x[i] = s[0+i]
    BY <2>1, SliceFacts
  <2> HIDE DEF hi, x
  <2>3. Len(x) = n /\ \A i \in 1..n : x[i] = s[i]
    BY <2>1, <2>2
  <2>4. \A i \in 1..n : y[i] = s[i]
    BY <1>4 DEF At
  <2>5. y \in Seq(Units) /\ Len(y) = n
    BY <1>3
  <2> HIDE DEF y
  <2>6. \A i \in 1..Len(x) : x[i] = y[i]
    BY <2>3, <2>4
  <2>7. x = y
    BY <2>2, <2>3, <2>5, <2>6, SeqEqual
  <2>8. QED
    BY <1>2, <2>7 DEF x, y
<1>5. QED
  BY <1>2, <1>3, <1>4

\* A file grows by what is written past its end.
LEMMA Growth ==
    ASSUME NEW x \in Nat, NEW d \in Nat, NEW a \in Nat, NEW l \in Nat, NEW r \in Nat,
           x = a + l + r, r = 0 \/ d <= a + l
    PROVE  (IF d <= x THEN x ELSE d) = x + (IF d - a - l <= 0 THEN 0 ELSE d - a - l)
  OBVIOUS

\* The file grows by what is written past the loaded bytes.
LEMMA GrowthIsExact ==
    ASSUME NEW A \in Seq(Units), NEW L \in Seq(Units), NEW R \in Seq(Units),
           NEW offset \in Nat, NEW data \in Seq(Units), Len(A) <= offset,
           R = <<>> \/ offset + Len(data) <= Len(A) + Len(L)
    PROVE  LET X == (A \o L) \o R IN
           Len(Overwrite(X, offset, data))
              = Len(X) + Max({0, offset + Len(data) - Len(A) - Len(L)})
<1> DEFINE X == (A \o L) \o R
           d == offset + Len(data)
           g == d - Len(A) - Len(L)
<1>1. /\ X \in Seq(Units) /\ Len(X) = Len(A) + Len(L) + Len(R)
      /\ Len(A) \in Nat /\ Len(L) \in Nat /\ Len(R) \in Nat /\ d \in Nat /\ g \in Int
      /\ R = <<>> => Len(R) = 0
  BY ThreeParts
<1> HIDE DEF X
<1>2. Len(Overwrite(X, offset, data)) = IF d <= Len(X) THEN Len(X) ELSE d
  BY <1>1, OverwriteFacts
<1>3. Max({0, g}) = IF g <= 0 THEN 0 ELSE g
  <2>1. g \in Int /\ 0 \in Int
    BY <1>1
  <2> HIDE DEF g
  <2>2. QED
    BY <2>1, TwoMax
<1>4. Len(R) = 0 \/ d <= Len(A) + Len(L)
  BY <1>1
<1>5. (IF d <= Len(X) THEN Len(X) ELSE d) = Len(X) + (IF g <= 0 THEN 0 ELSE g)
  <2> HIDE DEF d
  <2>1. /\ d \in Nat /\ Len(X) \in Nat /\ Len(A) \in Nat /\ Len(L) \in Nat /\ Len(R) \in Nat
        /\ Len(X) = Len(A) + Len(L) + Len(R)
    BY <1>1
  <2> DEFINE x == Len(X)
             a == Len(A)
             l == Len(L)
             r == Len(R)
  <2>2. x \in Nat /\ a \in Nat /\ l \in Nat /\ r \in Nat /\ x = a + l + r /\ (r = 0 \/ d <= a + l)
    BY <1>4, <2>1
  <2> HIDE DEF x, a, l, r
  <2>3. (IF d <= x THEN x ELSE d) = x + (IF d - a - l <= 0 THEN 0 ELSE d - a - l)
    BY <2>1, <2>2, Growth
  <2>4. QED
    BY <2>3 DEF x, a, l
<1> HIDE DEF g
<1>6. Len(Overwrite(X, offset, data)) = Len(X) + Max({0, g})
  BY <1>2, <1>3, <1>5
<1>7. QED
  BY <1>6 DEF X, g

\* Cut short, a chunk has no boundary.
LEMMA UnendedSlice ==
    ASSUME NEW key \in ChunkKeys, Uncut(key), NEW m \in Nat, m < Len(key)
    PROVE  Unended(Slice(key, 0, m)) /\ Slice(key, 0, m) \in Seq(Units)
           /\ Len(Slice(key, 0, m)) = m /\ (Slice(key, 0, m) = <<>> <=> m = 0)
<1> DEFINE hi == IF 0 + m <= Len(key) THEN 0 + m ELSE Len(key)
           x == Slice(key, 0, m)
<1>1. hi = m /\ 0 \in Nat /\ key \in Seq(Units) /\ Len(key) \in Nat
  BY ChunkKeyFacts
<1>2. /\ x \in Seq(Units) /\ Len(x) = IF 0 < hi THEN hi - 0 ELSE 0
      /\ \A i \in 1..hi-0 : x[i] = key[0+i]
  BY <1>1, SliceFacts
<1> HIDE DEF hi, x
<1>3. x \in Seq(Units) /\ Len(x) = m /\ \A i \in 1..m : x[i] = key[i]
  BY <1>1, <1>2
<1>4. ASSUME NEW j \in 1..m
      PROVE  ~IsBoundary(SubSeq(x, 1, j), x[j])
  <2>1. SubSeq(x, 1, j) = [i \in 1..j |-> x[i]] /\ SubSeq(key, 1, j) = [i \in 1..j |-> key[i]]
    BY <1>1, <1>3
  <2>2. SubSeq(x, 1, j) = SubSeq(key, 1, j) /\ x[j] = key[j]
    BY <1>3, <2>1
  <2>3. j \in 1..Len(key)-1
    BY <1>1
  <2>4. QED
    BY <2>2, <2>3 DEF Uncut
<1>5. x = <<>> <=> m = 0
  BY <1>3, EmptySeq
<1>6. QED
  BY <1>3, <1>4, <1>5 DEF Unended, x

-----------------------------------------------------------------------------
(* Placing the chunks of new bytes.                                        *)

\* The chunks made of a buffer, placed from a base on.
LEMMA PlacedFacts ==
    ASSUME NEW base \in Nat, NEW segs \in Seq(ChunkKeys), base + Len(FlattenSeq(segs)) <= MaxSize
    PROVE  LET l == Placed(base, segs) IN
           /\ l \in Seq(Chunk) /\ Len(l) = Len(segs) /\ KeysOf(l) = segs
           /\ Bytes(l) = FlattenSeq(segs) /\ PlacedFrom(base, l)
           /\ \A i \in 1..Len(l) : l[i].key = segs[i]
<1> DEFINE n == Len(segs)
           Start(i) == base + Len(FlattenSeq(SubSeq(segs, 1, i-1)))
           l == Placed(base, segs)
<1>1. segs \in Seq(Seq(Units)) /\ n \in Nat /\ DOMAIN segs = 1..n /\ \A i \in 1..n : segs[i] \in ChunkKeys
  BY KeysAreSequences
<1>2. ASSUME NEW i \in 1..n PROVE Start(i) \in 0..MaxSize
  <2> DEFINE a == SubSeq(segs, 1, i-1)
             b == SubSeq(segs, i, n)
  <2>1. a \o b = segs /\ a \in Seq(ChunkKeys) /\ b \in Seq(ChunkKeys)
    <3>1. 1 \in 1..Len(segs)+1 /\ i-1 \in 1-1..Len(segs) /\ n \in i-1..Len(segs) /\ i-1+1 = i
      BY <1>1
    <3>2. SubSeq(segs, 1, i-1) \o SubSeq(segs, i-1+1, n) = SubSeq(segs, 1, n)
      BY <3>1, ConcatAdjacentSubSeq
    <3>3. SubSeq(segs, 1, n) = segs
      BY SubSeqFull
    <3>4. (\A j \in 1..i-1 : segs[j] \in ChunkKeys) /\ (\A j \in i..n : segs[j] \in ChunkKeys)
      BY <1>1
    <3>5. 1 \in Int /\ i-1 \in Int /\ i \in Int /\ n \in Int
      BY <1>1
    <3>6. a \in Seq(ChunkKeys)
      BY <3>4, <3>5, SubSeqProperties
    <3>7. b \in Seq(ChunkKeys)
      BY <3>4, <3>5, SubSeqProperties
    <3>8. QED
      BY <3>1, <3>2, <3>3, <3>6, <3>7
  <2> HIDE DEF a, b
  <2>2. a \in Seq(Seq(Units)) /\ b \in Seq(Seq(Units)) /\ FlattenSeq(a) \in Seq(Units) /\ FlattenSeq(b) \in Seq(Units)
    BY <2>1, KeysAreSequences
  <2> DEFINE fa == FlattenSeq(a)
             fb == FlattenSeq(b)
  <2>3. FlattenSeq(segs) = fa \o fb
    BY <2>1, <2>2, FlattenConcat
  <2>4. fa \in Seq(Units) /\ fb \in Seq(Units)
    BY <2>2
  <2> HIDE DEF fa, fb
  <2>5. Len(fa \o fb) = Len(fa) + Len(fb) /\ Len(fa) \in Nat /\ Len(fb) \in Nat
    BY <2>4
  <2>6. base + Len(fa) \in 0..MaxSize
    BY <2>3, <2>5, SizesAssumption
  <2>7. QED
    BY <2>6 DEF fa, a
<1>3. l = [i \in 1..n |-> [start |-> Start(i), key |-> segs[i]]]
  BY <1>1 DEF Placed
<1> HIDE DEF Start, l, n
<1>4. \A i \in 1..n : [start |-> Start(i), key |-> segs[i]] \in Chunk
  BY <1>1, <1>2 DEF Chunk
<1>5. l \in Seq(Chunk) /\ Len(l) = n /\ DOMAIN l = 1..n
      /\ \A i \in 1..n : l[i].start = Start(i) /\ l[i].key = segs[i]
  <2> HIDE DEF Chunk
  <2>1. l \in [1..n -> Chunk]
    BY <1>3, <1>4
  <2>2. l \in Seq(Chunk) /\ Len(l) = n /\ DOMAIN l = 1..n
    BY <1>1, <2>1
  <2>3. \A i \in 1..n : l[i].start = Start(i) /\ l[i].key = segs[i]
    BY <1>3
  <2>4. QED
    BY <2>2, <2>3
<1>6. KeysOf(l) = segs
  <2>1. KeysOf(l) = [i \in 1..n |-> l[i].key]
    BY <1>5 DEF KeysOf
  <2>2. segs = [i \in 1..n |-> segs[i]]
    BY <1>1
  <2>3. QED
    BY <1>5, <2>1, <2>2
<1>7. Bytes(l) = FlattenSeq(segs)
  BY <1>6 DEF Bytes
<1>8. ASSUME NEW i \in 1..n PROVE l[i].start = base + OffsetOf(l, i)
  <2> DEFINE b == SubSeq(l, 1, i-1)
             k == SubSeq(segs, 1, i-1)
  <2>1. b \in Seq(Chunk) /\ Len(b) = i-1 /\ \A j \in 1..i-1 : b[j] = l[j]
    <3>1. i-1 \in 0..Len(l) /\ Len(l) \in Nat
      BY <1>1, <1>5
    <3>2. \A j \in 1..i-1 : l[j] \in Chunk
      BY <1>5, <3>1
    <3>3. 1 \in Int /\ i-1 \in Int
      BY <1>1
    <3>4. b \in Seq(Chunk) /\ Len(b) = (IF 1 <= i-1 THEN i-1-1+1 ELSE 0) /\ \A j \in 1..i-1-1+1 : b[j] = l[1+j-1]
      BY <3>2, <3>3, SubSeqProperties
    <3> HIDE DEF b
    <3>5. \A j \in 1..i-1 : j \in 1..i-1-1+1 /\ 1+j-1 = j
      BY <3>1
    <3>6. \A j \in 1..i-1 : b[j] = l[j]
      BY <3>4, <3>5
    <3>7. Len(b) = i-1
      BY <3>1, <3>4
    <3>8. QED
      BY <3>4, <3>6, <3>7
  <2>2. KeysOf(b) = [j \in 1..i-1 |-> b[j].key]
    <3> HIDE DEF b
    <3>1. DOMAIN b = 1..i-1
      BY <2>1
    <3>2. QED
      BY <3>1 DEF KeysOf
  <2>3. k = [j \in 1..i-1 |-> segs[j]]
    BY <1>1 DEF n
  <2>4. \A j \in 1..i-1 : b[j].key = segs[j]
    <3>1. \A j \in 1..i-1 : j \in 1..n
      BY <1>1
    <3> HIDE DEF b
    <3>2. QED
      BY <1>5, <2>1, <3>1
  <2>5. OffsetOf(l, i) = Len(FlattenSeq(KeysOf(b)))
    BY DEF OffsetOf, Bytes
  <2> HIDE DEF b
  <2>6. KeysOf(b) = k
    BY <2>2, <2>3, <2>4
  <2>7. l[i].start = base + Len(FlattenSeq(k))
    BY <1>5 DEF Start
  <2> HIDE DEF k
  <2>8. QED
    BY <2>5, <2>6, <2>7
<1>9. PlacedFrom(base, l)
  BY <1>5, <1>8 DEF PlacedFrom
<1>10. QED
  BY <1>5, <1>6, <1>7, <1>9 DEF l, n

-----------------------------------------------------------------------------
(* Replacing chunks of a list.                                             *)

Spliced(list, first, last, base, bytes) ==
    SubSeq(list, 1, first - 1) \o Placed(base, Segments(bytes))
        \o SubSeq(list, last + 1, Len(list))

\* The chunks of two lists are those of both.
LEMMA UncutParts ==
    ASSUME NEW l \in Seq(Chunk), NEW m \in Seq(Chunk)
    PROVE  (\A i \in 1..Len(l \o m) : Uncut((l \o m)[i].key)) <=>
              (\A i \in 1..Len(l) : Uncut(l[i].key)) /\ (\A i \in 1..Len(m) : Uncut(m[i].key))
<1> DEFINE r == l \o m
<1>1. /\ Len(r) = Len(l) + Len(m) /\ Len(l) \in Nat /\ Len(m) \in Nat
      /\ \A i \in 1..Len(r) : r[i] = IF i <= Len(l) THEN l[i] ELSE m[i - Len(l)]
  BY ConcatProperties
<1> HIDE DEF r
<1>2. ASSUME \A i \in 1..Len(r) : Uncut(r[i].key)
      PROVE  (\A i \in 1..Len(l) : Uncut(l[i].key)) /\ (\A i \in 1..Len(m) : Uncut(m[i].key))
  <2>1. ASSUME NEW i \in 1..Len(l) PROVE Uncut(l[i].key)
    <3>1. i \in 1..Len(r) /\ r[i] = l[i]
      BY <1>1
    <3>2. QED
      BY <1>2, <3>1
  <2>2. ASSUME NEW i \in 1..Len(m) PROVE Uncut(m[i].key)
    <3>1. Len(l)+i \in 1..Len(r) /\ ~(Len(l)+i <= Len(l)) /\ Len(l)+i-Len(l) = i
      BY <1>1
    <3>2. r[Len(l)+i] = m[i]
      BY <1>1, <3>1
    <3>3. QED
      BY <1>2, <3>1, <3>2
  <2>3. QED
    BY <2>1, <2>2
<1>3. ASSUME \A i \in 1..Len(l) : Uncut(l[i].key), \A i \in 1..Len(m) : Uncut(m[i].key),
             NEW i \in 1..Len(r)
      PROVE  Uncut(r[i].key)
  <2>1. CASE i <= Len(l)
    <3>1. i \in 1..Len(l) /\ r[i] = l[i]
      BY <1>1, <2>1
    <3>2. QED
      BY <1>3, <3>1
  <2>2. CASE ~(i <= Len(l))
    <3>1. i - Len(l) \in 1..Len(m) /\ r[i] = m[i - Len(l)]
      BY <1>1, <2>2
    <3>2. QED
      BY <1>3, <3>1
  <2>3. QED
    BY <2>1, <2>2
<1>4. QED
  BY <1>2, <1>3 DEF r

\* The bytes take the place of chunks first..last of the list.
Replaceable(l, first, last, base, bytes) ==
    /\ first \in 1..Len(l)+1 /\ last \in first-1..Len(l)
    /\ base = OffsetOf(l, first)
    /\ last = Len(l) \/ base + Len(bytes) = OffsetOf(l, last+1)
    /\ base + Len(bytes) <= MaxSize

\* r is the list with the chunks of the bytes in their place.
IsReplaced(r, l, first, last, bytes) ==
    LET a == SubSeq(l, 1, first-1)
        b == SubSeq(l, first, last)
        c == SubSeq(l, last+1, Len(l)) IN
    /\ WellPlaced(r) /\ Bytes(r) = (Bytes(a) \o bytes) \o Bytes(c)
    /\ \A k \in ChunkKeys :
         Occurrences(r, k) = Occurrences(l, k) + Count(Segments(bytes), k) - Occurrences(b, k)

\* Replacing the covering chunks by those of the new bytes keeps a list well placed.
LEMMA SplicedFacts ==
    ASSUME NEW l, WellPlaced(l), NEW first, NEW last, NEW bytes \in Seq(Units), NEW base,
           Replaceable(l, first, last, base, bytes)
    PROVE  IsReplaced(Spliced(l, first, last, base, bytes), l, first, last, bytes)
<1> DEFINE a == SubSeq(l, 1, first-1)
           b == SubSeq(l, first, last)
           c == SubSeq(l, last+1, Len(l))
           segs == Segments(bytes)
           p == Placed(base, segs)
           r == (a \o p) \o c
<1>a. /\ first \in 1..Len(l)+1 /\ last \in first-1..Len(l) /\ base = OffsetOf(l, first)
      /\ last = Len(l) \/ base + Len(bytes) = OffsetOf(l, last+1)
      /\ base + Len(bytes) <= MaxSize
  BY DEF Replaceable
<1>0. l \in Seq(Chunk) /\ PlacedFrom(0, l) /\ (\A i \in 1..Len(l) : Uncut(l[i].key))
      /\ Len(Bytes(l)) <= MaxSize /\ Len(l) \in Nat
  BY DEF WellPlaced
<1>1. /\ a \in Seq(Chunk) /\ b \in Seq(Chunk) /\ c \in Seq(Chunk)
      /\ a \o b \in Seq(Chunk) /\ l = (a \o b) \o c
      /\ Len(c) = Len(l)-last
      /\ OffsetOf(l, first) = Len(Bytes(a))
      /\ OffsetOf(l, last+1) = Len(Bytes(a)) + Len(Bytes(b))
  BY <1>a, <1>0, CutList
<1>2. /\ segs \in Seq(ChunkKeys) /\ FlattenSeq(segs) = bytes
      /\ \A i \in 1..Len(segs) : Uncut(segs[i])
  BY SegmentsFacts
<1>3. base \in Nat /\ base = Len(Bytes(a)) /\ Bytes(a) \in Seq(Units)
  BY <1>a, <1>1, KeysOfFacts
<1>4. /\ p \in Seq(Chunk) /\ Len(p) = Len(segs) /\ KeysOf(p) = segs
      /\ Bytes(p) = bytes /\ PlacedFrom(base, p)
      /\ \A i \in 1..Len(p) : p[i].key = segs[i]
  <2>1. base + Len(FlattenSeq(segs)) <= MaxSize
    BY <1>a, <1>2
  <2>2. QED
    BY <1>2, <1>3, <2>1, PlacedFacts
<1>5. Spliced(l, first, last, base, bytes) = r
  BY DEF Spliced
<1> HIDE DEF a, b, c, segs, p
<1>6. a \o p \in Seq(Chunk) /\ Bytes(a \o p) = Bytes(a) \o Bytes(p)
      /\ Len(Bytes(a \o p)) = Len(Bytes(a)) + Len(Bytes(p))
      /\ \A k : Occurrences(a \o p, k) = Occurrences(a, k) + Occurrences(p, k)
  BY <1>1, <1>4, ListConcat
<1>7. r \in Seq(Chunk) /\ Bytes(r) = Bytes(a \o p) \o Bytes(c)
      /\ Len(Bytes(r)) = Len(Bytes(a \o p)) + Len(Bytes(c))
      /\ \A k : Occurrences(r, k) = Occurrences(a \o p, k) + Occurrences(c, k)
  BY <1>1, <1>6, ListConcat
<1>8. Len(Bytes(a \o b)) = Len(Bytes(a)) + Len(Bytes(b))
      /\ \A k : Occurrences(a \o b, k) = Occurrences(a, k) + Occurrences(b, k)
  BY <1>1, ListConcat
<1>9. Len(Bytes(l)) = Len(Bytes(a \o b)) + Len(Bytes(c))
      /\ \A k : Occurrences(l, k) = Occurrences(a \o b, k) + Occurrences(c, k)
  <2> DEFINE ab == a \o b
  <2>1. ab \in Seq(Chunk) /\ c \in Seq(Chunk) /\ l = ab \o c
    BY <1>1
  <2> HIDE DEF ab
  <2>2. /\ Len(Bytes(ab \o c)) = Len(Bytes(ab)) + Len(Bytes(c))
        /\ \A k : Occurrences(ab \o c, k) = Occurrences(ab, k) + Occurrences(c, k)
    BY <2>1, ListConcat
  <2>3. QED
    BY <2>1, <2>2 DEF ab
<1>10. Len(Bytes(a)) \in Nat /\ Len(Bytes(b)) \in Nat /\ Len(Bytes(c)) \in Nat /\ Len(bytes) \in Nat
  BY <1>1, KeysOfFacts
<1>11. c = <<>> \/ base + Len(bytes) = Len(Bytes(a)) + Len(Bytes(b))
  <2>1. CASE last = Len(l)
    BY <1>0, <1>1, <2>1, EmptySeq
  <2>2. CASE base + Len(bytes) = OffsetOf(l, last+1)
    BY <1>1, <2>2
  <2>3. QED
    BY <1>a, <2>1, <2>2
<1>12. PlacedFrom(0, a) /\ PlacedFrom(Len(Bytes(a)) + Len(Bytes(b)), c)
  <2>1. PlacedFrom(0, a \o b) /\ PlacedFrom(0 + Len(Bytes(a \o b)), c)
    <3>1. PlacedFrom(0, (a \o b) \o c) /\ 0 \in Nat
      BY <1>0, <1>1
    <3>2. QED
      BY <1>1, <3>1, PlacedConcat
  <2>2. PlacedFrom(0, a)
    BY <1>1, <2>1, PlacedConcat
  <2>3. 0 + Len(Bytes(a \o b)) = Len(Bytes(a)) + Len(Bytes(b))
    BY <1>8, <1>10
  <2>4. QED
    BY <2>1, <2>2, <2>3
<1>13. PlacedFrom(0, r)
  <2>1. 0 + Len(Bytes(a)) = base /\ 0 \in Nat
    BY <1>3
  <2>2. PlacedFrom(0, a \o p)
    BY <1>1, <1>4, <1>12, <2>1, PlacedConcat
  <2>3. PlacedFrom(0 + Len(Bytes(a \o p)), c)
    <3>1. CASE c = <<>>
      BY <3>1 DEF PlacedFrom
    <3>2. CASE c # <<>>
      <4>1. 0 + Len(Bytes(a \o p)) = Len(Bytes(a)) + Len(Bytes(b))
        BY <1>3, <1>4, <1>6, <1>10, <1>11, <3>2
      <4>2. QED
        BY <1>12, <4>1
    <3>3. QED
      BY <3>1, <3>2
  <2>4. QED
    BY <1>1, <1>6, <2>1, <2>2, <2>3, PlacedConcat
<1>14. \A i \in 1..Len(r) : Uncut(r[i].key)
  <2>1. \A i \in 1..Len((a \o b) \o c) : Uncut(((a \o b) \o c)[i].key)
    BY <1>0, <1>1
  <2>2. (\A i \in 1..Len(a \o b) : Uncut((a \o b)[i].key)) /\ (\A i \in 1..Len(c) : Uncut(c[i].key))
    BY <1>1, <2>1, UncutParts
  <2>3. \A i \in 1..Len(a) : Uncut(a[i].key)
    BY <1>1, <2>2, UncutParts
  <2>4. \A i \in 1..Len(p) : Uncut(p[i].key)
    BY <1>2, <1>4
  <2>5. \A i \in 1..Len(a \o p) : Uncut((a \o p)[i].key)
    BY <1>1, <1>4, <2>3, <2>4, UncutParts
  <2>6. QED
    BY <1>1, <1>6, <2>2, <2>5, UncutParts
<1>15. Len(Bytes(r)) <= MaxSize
  <2>1. Len(Bytes(r)) = base + Len(bytes) + Len(Bytes(c))
    BY <1>3, <1>4, <1>6, <1>7
  <2>2. CASE c = <<>>
    <3>1. Len(Bytes(c)) = 0
      BY <2>2, EmptyList
    <3> HIDE DEF r
    <3>2. QED
      BY <1>a, <1>3, <1>10, <2>1, <3>1
  <2>3. CASE c # <<>>
    <3> HIDE DEF r
    <3>1. QED
      BY <1>0, <1>3, <1>8, <1>9, <1>10, <1>11, <2>1, <2>3
  <2>4. QED
    BY <2>2, <2>3
<1>16. ASSUME NEW k \in ChunkKeys
       PROVE  Occurrences(r, k) = Occurrences(l, k) + Count(segs, k) - Occurrences(b, k)
  <2>1. Occurrences(p, k) = Count(segs, k)
    BY <1>4, OccurrencesAre
  <2>2. Occurrences(a, k) \in Nat /\ Occurrences(b, k) \in Nat /\ Occurrences(c, k) \in Nat /\ Occurrences(p, k) \in Nat
    BY <1>1, <1>4, OccurrencesAre
  <2> HIDE DEF r
  <2>3. Occurrences(r, k) = Occurrences(a, k) + Occurrences(p, k) + Occurrences(c, k)
    BY <1>6, <1>7
  <2>4. Occurrences(l, k) = Occurrences(a, k) + Occurrences(b, k) + Occurrences(c, k)
    BY <1>8, <1>9
  <2>5. QED
    BY <2>1, <2>2, <2>3, <2>4
<1>17. WellPlaced(r)
  BY <1>7, <1>13, <1>14, <1>15 DEF WellPlaced
<1>18. Bytes(r) = (Bytes(a) \o bytes) \o Bytes(c)
  BY <1>4, <1>6, <1>7
<1>19. QED
  BY <1>5, <1>16, <1>17, <1>18 DEF IsReplaced, a, b, c, segs

\* Counting the new chunks before the old ones are released.
LEMMA Exchange ==
    ASSUME NEW s, Proper(s), NEW segs \in Seq(ChunkKeys), NEW b \in Seq(Chunk)
    PROVE  LET used == UseAll(s, segs) IN
           /\ Proper(used)
           /\ ~Throws(used, b) =>
                /\ Proper(ReleaseAll(used, b))
                /\ \A k \in ChunkKeys : ReleaseAll(used, b).table[k].ref
                                          = s.table[k].ref + Count(segs, k) - Occurrences(b, k)
           /\ (\A k \in ChunkKeys : Occurrences(b, k) <= s.table[k].ref) => ~Throws(used, b)
<1> DEFINE used == UseAll(s, segs)
<1>1. Proper(used) /\ \A k \in ChunkKeys : used.table[k].ref = s.table[k].ref + Count(segs, k)
  BY UseAllCounts
<1>2. \A k \in ChunkKeys : Count(segs, k) \in Nat /\ Occurrences(b, k) \in Nat
                           /\ s.table[k].ref \in Nat /\ used.table[k].ref \in Nat
  BY <1>1, CountFacts, OccurrencesAre DEF Proper
<1> HIDE DEF used
<1>3. ASSUME ~Throws(used, b)
      PROVE  /\ Proper(ReleaseAll(used, b))
             /\ \A k \in ChunkKeys : ReleaseAll(used, b).table[k].ref
                                       = s.table[k].ref + Count(segs, k) - Occurrences(b, k)
  <2>1. \A k \in ChunkKeys : Occurrences(b, k) <= used.table[k].ref
    BY <1>2, <1>3 DEF Throws
  <2>2. Proper(ReleaseAll(used, b))
        /\ \A k \in ChunkKeys : ReleaseAll(used, b).table[k].ref = used.table[k].ref - Occurrences(b, k)
    BY <1>1, <2>1, ReleaseAllCounts
  <2> DEFINE left == ReleaseAll(used, b)
  <2>3. Proper(left) /\ \A k \in ChunkKeys : left.table[k].ref = used.table[k].ref - Occurrences(b, k)
    BY <2>2
  <2> HIDE DEF left
  <2>4. ASSUME NEW k \in ChunkKeys
        PROVE  left.table[k].ref = s.table[k].ref + Count(segs, k) - Occurrences(b, k)
    <3>1. left.table[k].ref = used.table[k].ref - Occurrences(b, k)
          /\ used.table[k].ref = s.table[k].ref + Count(segs, k)
      BY <1>1, <2>3
    <3>2. s.table[k].ref \in Nat /\ Count(segs, k) \in Nat /\ Occurrences(b, k) \in Nat
      BY <1>2
    <3>3. QED
      BY <3>1, <3>2
  <2>5. QED
    BY <2>3, <2>4 DEF left
<1>4. ASSUME \A k \in ChunkKeys : Occurrences(b, k) <= s.table[k].ref
      PROVE  ~Throws(used, b)
  <2>1. ASSUME NEW k \in ChunkKeys PROVE ~(Occurrences(b, k) > used.table[k].ref)
    <3>1. used.table[k].ref = s.table[k].ref + Count(segs, k) /\ Occurrences(b, k) <= s.table[k].ref
      BY <1>1, <1>4
    <3>2. QED
      BY <1>2, <3>1
  <2>2. QED
    BY <2>1 DEF Throws
<1>5. QED
  BY <1>1, <1>3, <1>4 DEF used

\* Where the splitter is left.
LEMMA SplitterTyped ==
    ASSUME NEW base \in Nat, NEW bytes \in Seq(Units), base + Len(bytes) <= MaxSize
    PROVE  SplitterAfter(base, bytes) \in [start : 0..MaxSize, digest : {"none", "fresh", "final"}]
<1> DEFINE rest == Split(bytes).rest
<1>1. rest \in Seq(Units) /\ Len(rest) <= Len(bytes)
  BY SegmentsFacts
<1>2. SplitterAfter(base, bytes) = [start |-> base + Len(bytes) - Len(rest),
                                    digest |-> IF rest = <<>> THEN "fresh" ELSE "final"]
  BY DEF SplitterAfter
<1> HIDE DEF rest
<1>3. base + Len(bytes) - Len(rest) \in 0..MaxSize
  <2>1. Len(rest) \in Nat /\ Len(bytes) \in Nat /\ MaxSize \in Nat
    BY <1>1, SizesAssumption
  <2>2. QED
    BY <1>1, <2>1
<1>4. QED
  BY <1>2, <1>3

-----------------------------------------------------------------------------
(* The invariant.                                                          *)

OpenFile == [open : BOOLEAN, chunks : Seq(Chunk)]
Splitter == [start : 0..MaxSize, digest : {"none", "fresh", "final"}]

Typed ==
    /\ exists \in BOOLEAN /\ truncated \in BOOLEAN /\ misread \in BOOLEAN
    /\ size \in 0..MaxSize
    /\ chunkinfo \in Seq(Chunk)
    /\ buffer \in Seq(Units) /\ content \in Seq(Units)
    /\ open_files_ \in [Fds -> OpenFile]
    /\ store \in [table : [ChunkKeys -> Table!Entry], objects : SUBSET ChunkKeys]
    /\ chunk_splitter_ \in Splitter
    /\ fault \in {"none", "throw", "undefined", "missing"}
    /\ behind \subseteq Fds /\ past \subseteq Events

\* As long as nobody used an outdated list: every list is well placed, the
\* chunk list is the content, and the table counts it.
ListsAreWellPlaced ==
    WellPlaced(chunkinfo) /\ \A fd \in Fds : WellPlaced(Chunks(fd))
ListIsCounted ==
    Proper(store) /\ \A k \in ChunkKeys : store.table[k].ref = Occurrences(chunkinfo, k)
ListIsContent ==
    /\ size = Len(content)
    /\ Bytes(chunkinfo) = IF IsLarge THEN content ELSE <<>>
    /\ exists /\ ~IsLarge => buffer = content
    /\ ~exists => content = <<>>
Sound ==
    /\ fault = "none" /\ ~misread
    /\ \A fd \in Fds : IsOpen(fd) => exists
    /\ ListsAreWellPlaced /\ ListIsCounted /\ ListIsContent

IInv == Typed /\ (past = {} => Sound)

\* A proper store is well typed.
LEMMA ProperTyped ==
    ASSUME NEW s, Proper(s)
    PROVE  s \in [table : [ChunkKeys -> Table!Entry], objects : SUBSET ChunkKeys]
<1> DEFINE t == s.table
<1>1. /\ s = [table |-> t, objects |-> s.objects] /\ s.objects \in SUBSET ChunkKeys
      /\ t \in [ChunkKeys -> [listed : BOOLEAN, ref : Int, snap : Int]]
  BY DEF Proper, Stores
<1>2. \A k \in ChunkKeys : t[k].ref \in Nat /\ t[k].snap = 0
  BY DEF Proper
<1> HIDE DEF t
<1>3. ASSUME NEW k \in ChunkKeys PROVE t[k] \in [listed : BOOLEAN, ref : Nat, snap : Nat]
  <2>1. t[k] \in [listed : BOOLEAN, ref : Int, snap : Int] /\ t[k].ref \in Nat /\ t[k].snap \in Nat
    BY <1>1, <1>2
  <2>2. QED
    BY <2>1
<1>4. t \in [ChunkKeys -> [listed : BOOLEAN, ref : Nat, snap : Nat]]
  BY <1>1, <1>3
<1>5. QED
  BY <1>1, <1>4 DEF Table!Entry

\* A descriptor gets another list.
LEMMA OpenFilesUpdate ==
    ASSUME NEW f \in [Fds -> OpenFile], NEW fd \in Fds, NEW l \in Seq(Chunk)
    PROVE  LET g == [f EXCEPT ![fd].chunks = l] IN
           /\ g \in [Fds -> OpenFile]
           /\ \A e \in Fds : g[e].open = f[e].open
           /\ \A e \in Fds : g[e].chunks = IF e = fd THEN l ELSE f[e].chunks
<1> DEFINE g == [f EXCEPT ![fd].chunks = l]
           r == [f[fd] EXCEPT !.chunks = l]
<1>1. f[fd] \in OpenFile
  OBVIOUS
<1>2. r \in OpenFile /\ r.open = f[fd].open /\ r.chunks = l
  BY <1>1 DEF OpenFile
<1>3. g = [f EXCEPT ![fd] = r]
  OBVIOUS
<1> HIDE DEF g, r
<1>4. g \in [Fds -> OpenFile] /\ \A e \in Fds : g[e] = IF e = fd THEN r ELSE f[e]
  BY <1>2, <1>3
<1>5. QED
  BY <1>2, <1>4 DEF g

\* The empty list is well placed.
LEMMA EmptyWellPlaced == WellPlaced(<<>>)
<1>1. <<>> \in Seq(Chunk) /\ Len(<<>>) = 0 /\ Bytes(<<>>) = <<>>
  BY EmptyList
<1>2. MaxSize \in Nat
  BY SizesAssumption
<1>3. QED
  BY <1>1, <1>2 DEF WellPlaced, PlacedFrom

\* The invariant's typing implies the type invariant.
LEMMA TypedImplies == Typed => TypeOK
<1> SUFFICES ASSUME Typed PROVE TypeOK
  OBVIOUS
<1>1. \A fd \in Fds : open_files_[fd].open \in BOOLEAN /\ open_files_[fd].chunks \in Seq(Chunk)
  <2>1. \A fd \in Fds : open_files_[fd] \in OpenFile
    BY DEF Typed
  <2>2. QED
    BY <2>1 DEF OpenFile
<1>2. store.table \in [ChunkKeys -> Table!Entry] /\ store.objects \subseteq ChunkKeys
  BY DEF Typed
<1>3. chunk_splitter_.start \in 0..MaxSize /\ chunk_splitter_.digest \in {"none", "fresh", "final"}
  BY DEF Typed, Splitter
<1>4. QED
  BY <1>1, <1>2, <1>3 DEF Typed, TypeOK

\* A file that does not exist satisfies the invariant.
LEMMA InitInv == Init => IInv
<1> SUFFICES ASSUME Init PROVE IInv
  OBVIOUS
<1> USE DEF Init
<1>1. Proper(store)
  <2>1. store.table = [k \in ChunkKeys |-> [listed |-> FALSE, ref |-> 0, snap |-> 0]] /\ store.objects = {}
    BY DEF Table!EmptyTable, Table!Absent
  <2>2. store = [table |-> [k \in ChunkKeys |-> [listed |-> FALSE, ref |-> 0, snap |-> 0]], objects |-> {}]
    BY DEF Table!EmptyTable, Table!Absent
  <2> DEFINE t == [k \in ChunkKeys |-> [listed |-> FALSE, ref |-> 0, snap |-> 0]]
  <2>3. t \in [ChunkKeys -> [listed : BOOLEAN, ref : Int, snap : Int]]
        /\ \A k \in ChunkKeys : t[k].snap = 0 /\ t[k].ref = 0 /\ t[k].listed = FALSE
    OBVIOUS
  <2> HIDE DEF t
  <2>4. store \in Stores
    <3>1. store = [table |-> t, objects |-> {}]
      BY <2>2 DEF t
    <3> HIDE DEF Init
    <3>2. QED
      BY <2>3, <3>1 DEF Stores
  <2>5. \A k \in ChunkKeys : /\ store.table[k].snap = 0 /\ store.table[k].ref = 0
                             /\ store.table[k].listed = FALSE /\ k \notin store.objects
    <3>1. store.table = t
      BY <2>1 DEF t
    <3>2. QED
      BY <2>1, <2>3, <3>1
  <2>6. QED
    BY <2>4, <2>5 DEF Proper
<1>2. Typed
  <2>1. store \in [table : [ChunkKeys -> Table!Entry], objects : SUBSET ChunkKeys]
    BY <1>1, ProperTyped
  <2>2. size \in 0..MaxSize /\ chunk_splitter_ \in Splitter
    BY SizesAssumption DEF Splitter
  <2>3. open_files_ \in [Fds -> OpenFile]
    BY DEF Closed, OpenFile
  <2>4. <<>> \in Seq(Chunk) /\ <<>> \in Seq(Units)
    OBVIOUS
  <2>5. QED
    BY <2>1, <2>2, <2>3, <2>4 DEF Typed
<1>3. \A fd \in Fds : ~IsOpen(fd) /\ Chunks(fd) = <<>>
  BY DEF IsOpen, Chunks, Closed
<1>4. ListsAreWellPlaced
  BY <1>3, EmptyWellPlaced DEF ListsAreWellPlaced
<1>5. ListIsCounted
  <2>1. \A k \in ChunkKeys : Occurrences(chunkinfo, k) = 0
    BY EmptyList
  <2>2. \A k \in ChunkKeys : store.table[k].ref = 0
    BY DEF Table!EmptyTable, Table!Absent
  <2>3. QED
    BY <1>1, <2>1, <2>2 DEF ListIsCounted
<1>6. ListIsContent
  <2>1. Bytes(chunkinfo) = <<>> /\ Len(<<>>) = 0
    BY EmptyList
  <2>2. QED
    BY <2>1 DEF ListIsContent
<1>7. QED
  BY <1>2, <1>3, <1>4, <1>5, <1>6 DEF IInv, Sound

\* What a write to the chunk list does, whatever list it uses; with a list
\* that the table counts it does not fail.
LEMMA RechunkStep ==
    ASSUME Typed, Proper(store), fault = "none",
           NEW fd \in Fds, NEW l, WellPlaced(l),
           NEW first \in 1..Len(l)+1, NEW last \in first-1..Len(l),
           NEW bytes \in Seq(Units), NEW base, base = OffsetOf(l, first),
           last = Len(l) \/ base + Len(bytes) = OffsetOf(l, last+1),
           base + Len(bytes) <= MaxSize,
           NEW r, r = Spliced(l, first, last, base, bytes),
           Rechunk(fd, l, first, last, base, bytes)
    PROVE  /\ chunk_splitter_' \in Splitter /\ Proper(store') /\ fault' \in {"none", "throw"}
           /\ chunkinfo' \in Seq(Chunk)
           /\ \E m \in Seq(Chunk) : open_files_' = [open_files_ EXCEPT ![fd].chunks = m]
           /\ (\A k \in ChunkKeys : store.table[k].ref = Occurrences(l, k)) =>
                /\ fault' = "none" /\ chunkinfo' = r
                /\ open_files_' = [open_files_ EXCEPT ![fd].chunks = r]
                /\ \A k \in ChunkKeys : store'.table[k].ref = Occurrences(r, k)
<1> DEFINE segs == Segments(bytes)
           used == UseAll(store, segs)
           b == SubSeq(l, first, last)
           t == Throws(used, b)
<1>0. l \in Seq(Chunk) /\ chunkinfo \in Seq(Chunk)
  BY DEF WellPlaced, Typed
<1>1. /\ chunk_splitter_' = SplitterAfter(base, bytes)
      /\ IF t THEN fault' = "throw" /\ store' = used ELSE fault' = fault /\ store' = ReleaseAll(used, b)
      /\ open_files_' = [open_files_ EXCEPT ![fd].chunks = IF t THEN l ELSE r]
      /\ chunkinfo' = IF t THEN chunkinfo ELSE r
  BY Zenon DEF Rechunk, Release, Spliced
<1>2. segs \in Seq(ChunkKeys)
  BY SegmentsFacts
<1>3. b \in Seq(Chunk)
  BY <1>0, CutList
<1>4. /\ Proper(used)
      /\ ~t => /\ Proper(ReleaseAll(used, b))
               /\ \A k \in ChunkKeys : ReleaseAll(used, b).table[k].ref
                                         = store.table[k].ref + Count(segs, k) - Occurrences(b, k)
      /\ (\A k \in ChunkKeys : Occurrences(b, k) <= store.table[k].ref) => ~t
  BY <1>2, <1>3, Exchange
<1>5. /\ WellPlaced(r) /\ r \in Seq(Chunk)
      /\ \A k \in ChunkKeys : Occurrences(r, k) = Occurrences(l, k) + Count(segs, k) - Occurrences(b, k)
  <2>1. WellPlaced(r)
        /\ \A k \in ChunkKeys : Occurrences(r, k) = Occurrences(l, k) + Count(segs, k) - Occurrences(b, k)
    <3>1. Replaceable(l, first, last, base, bytes)
      BY DEF Replaceable
    <3>2. IsReplaced(r, l, first, last, bytes)
      BY <3>1, SplicedFacts
    <3>3. QED
      BY <3>2 DEF IsReplaced
  <2>2. QED
    BY <2>1 DEF WellPlaced
<1>6. \A k \in ChunkKeys : Occurrences(b, k) <= Occurrences(l, k)
  <2> SUFFICES ASSUME NEW k \in ChunkKeys PROVE Occurrences(b, k) <= Occurrences(l, k)
    OBVIOUS
  <2> DEFINE a == SubSeq(l, 1, first-1)
             c == SubSeq(l, last+1, Len(l))
  <2>1. a \in Seq(Chunk) /\ b \in Seq(Chunk) /\ c \in Seq(Chunk) /\ a \o b \in Seq(Chunk) /\ l = (a \o b) \o c
    BY <1>0, CutList
  <2> HIDE DEF a, b, c
  <2>2. Occurrences(a \o b, k) = Occurrences(a, k) + Occurrences(b, k)
    BY <2>1, ListConcat
  <2> DEFINE ab == a \o b
  <2>3. ab \in Seq(Chunk) /\ l = ab \o c
    BY <2>1
  <2> HIDE DEF ab
  <2>4. Occurrences(ab \o c, k) = Occurrences(ab, k) + Occurrences(c, k)
    BY <2>1, <2>3, ListConcat
  <2>5. Occurrences(a, k) \in Nat /\ Occurrences(b, k) \in Nat /\ Occurrences(c, k) \in Nat
    BY <2>1, OccurrencesAre
  <2>6. Occurrences(l, k) = Occurrences(a, k) + Occurrences(b, k) + Occurrences(c, k)
    BY <2>2, <2>3, <2>4 DEF ab
  <2>7. QED
    BY <2>5, <2>6
<1>7. chunk_splitter_' \in Splitter
  <2>1. base \in Nat
    BY <1>0, OffsetTyped
  <2>2. SplitterAfter(base, bytes) \in Splitter
    BY <2>1, SplitterTyped DEF Splitter
  <2>3. QED
    BY <1>1, <2>2
<1> HIDE DEF segs, used, b, t
<1>8. Proper(store') /\ fault' \in {"none", "throw"} /\ chunkinfo' \in Seq(Chunk)
      /\ \E m \in Seq(Chunk) : open_files_' = [open_files_ EXCEPT ![fd].chunks = m]
  <2>1. CASE t
    BY <1>0, <1>1, <1>4, <2>1
  <2>2. CASE ~t
    BY <1>1, <1>4, <1>5, <2>2
  <2>3. QED
    BY <2>1, <2>2
<1>9. ASSUME \A k \in ChunkKeys : store.table[k].ref = Occurrences(l, k)
      PROVE  /\ fault' = "none" /\ chunkinfo' = r
             /\ open_files_' = [open_files_ EXCEPT ![fd].chunks = r]
             /\ \A k \in ChunkKeys : store'.table[k].ref = Occurrences(r, k)
  <2>1. ~t
    BY <1>4, <1>6, <1>9
  <2>2. fault' = "none" /\ chunkinfo' = r /\ store' = ReleaseAll(used, b)
        /\ open_files_' = [open_files_ EXCEPT ![fd].chunks = r]
    BY <1>1, <2>1
  <2>3. \A k \in ChunkKeys : store'.table[k].ref = Occurrences(r, k)
    BY <1>4, <1>5, <1>9, <2>1, <2>2
  <2>4. QED
    BY <2>2, <2>3
<1>10. QED
  BY <1>7, <1>8, <1>9

\* RechunkStep for a list that the table counts.
LEMMA RechunkCounted ==
    ASSUME Typed, Proper(store), fault = "none",
           NEW fd \in Fds, NEW l, WellPlaced(l),
           NEW first \in 1..Len(l)+1, NEW last \in first-1..Len(l),
           NEW bytes \in Seq(Units), NEW base, base = OffsetOf(l, first),
           last = Len(l) \/ base + Len(bytes) = OffsetOf(l, last+1),
           base + Len(bytes) <= MaxSize,
           NEW r, r = Spliced(l, first, last, base, bytes),
           Rechunk(fd, l, first, last, base, bytes),
           \A k \in ChunkKeys : store.table[k].ref = Occurrences(l, k)
    PROVE  /\ fault' = "none" /\ chunkinfo' = r
           /\ open_files_' = [open_files_ EXCEPT ![fd].chunks = r]
           /\ \A k \in ChunkKeys : store'.table[k].ref = Occurrences(r, k)
BY RechunkStep

-----------------------------------------------------------------------------
(* Opening, closing, creating, unlinking.                                  *)

\* What a handler finds when it starts.
LEMMA IdleSound == IInv /\ Idle => Typed /\ Sound /\ past = {} /\ fault = "none"
  BY DEF IInv, Idle

\* Only the empty list has no bytes, because chunks are not empty.
LEMMA BytelessList ==
    ASSUME NEW l \in Seq(Chunk), Bytes(l) = <<>>
    PROVE  l = <<>>
<1> SUFFICES ASSUME l # <<>> PROVE FALSE
  OBVIOUS
<1>1. Len(l) \in Nat /\ Len(l) # 0
  BY EmptySeq
<1>2. 1 \in 1..Len(l) /\ 1 \in 1..Len(l)+1 /\ 1+1 = 2 /\ 2 \in 1..Len(l)+1 /\ Len(l)+1 \in 2..Len(l)+1
  BY <1>1
<1>3. OffsetOf(l, 1+1) = OffsetOf(l, 1) + Len(l[1].key) /\ Len(l[1].key) \in Nat \ {0}
  BY <1>2, OffsetStep
<1>4. OffsetOf(l, 1) = 0 /\ OffsetOf(l, Len(l)+1) = Len(Bytes(l)) /\ Len(Bytes(l)) = 0
  BY OffsetEnds
<1>5. OffsetOf(l, 2) <= OffsetOf(l, Len(l)+1)
  BY <1>2, OffsetsGrow
<1> HIDE DEF OffsetOf
<1>6. OffsetOf(l, 2) = Len(l[1].key)
  BY <1>2, <1>3, <1>4
<1>7. QED
  BY <1>3, <1>4, <1>5, <1>6

\* create_file starts with an empty list and an empty buffer.
LEMMA CreateStep == IInv /\ Create => IInv'
<1> SUFFICES ASSUME IInv, Create PROVE IInv'
  OBVIOUS
<1>1. Typed /\ Sound /\ past = {} /\ ~exists
  BY IdleSound DEF Create
<1>2. /\ exists' = TRUE /\ size' = 0 /\ chunkinfo' = <<>> /\ truncated' = FALSE
      /\ buffer' = <<>> /\ content' = <<>>
      /\ open_files_' = open_files_ /\ store' = store /\ chunk_splitter_' = chunk_splitter_
      /\ fault' = fault /\ misread' = misread /\ behind' = behind /\ past' = past
  BY DEF Create, storeVars, pastVars
<1>3. Typed'
  <2>1. 0 \in 0..MaxSize /\ <<>> \in Seq(Chunk) /\ <<>> \in Seq(Units)
    BY SizesAssumption
  <2>2. QED
    BY <1>1, <1>2, <2>1 DEF Typed
<1>4. ListsAreWellPlaced'
  BY <1>1, <1>2, EmptyWellPlaced DEF Sound, ListsAreWellPlaced, Chunks
<1>5. Bytes(<<>>) = <<>> /\ \A k \in ChunkKeys : Occurrences(<<>>, k) = 0
  BY EmptyList
<1>6. chunkinfo = <<>>
  <2>1. Bytes(chunkinfo) = <<>>
    BY <1>1, SizesAssumption DEF Sound, ListIsContent, IsLarge
  <2>2. QED
    BY <1>1, <2>1, BytelessList DEF Typed
<1>7. ListIsCounted'
  BY <1>1, <1>2, <1>6 DEF Sound, ListIsCounted
<1>8. ListIsContent'
  <2>1. ~(0 > Threshold) /\ Len(<<>>) = 0
    BY SizesAssumption
  <2>2. QED
    BY <1>2, <1>5, <2>1 DEF ListIsContent, IsLarge
<1>9. QED
  BY <1>1, <1>2, <1>3, <1>4, <1>7, <1>8 DEF IInv, Sound, IsOpen

\* open_file copies the chunk list.
LEMMA OpenStep == \A fd \in Fds : IInv /\ Open(fd) => IInv'
<1> SUFFICES ASSUME NEW fd \in Fds, IInv, Open(fd) PROVE IInv'
  OBVIOUS
<1> DEFINE o == [open |-> TRUE, chunks |-> chunkinfo]
<1>1. Typed /\ Sound /\ past = {} /\ exists
  BY IdleSound DEF Open
<1>2. /\ open_files_' = [open_files_ EXCEPT ![fd] = o]
      /\ exists' = exists /\ size' = size /\ chunkinfo' = chunkinfo /\ truncated' = truncated
      /\ buffer' = buffer /\ content' = content
      /\ store' = store /\ chunk_splitter_' = chunk_splitter_
      /\ fault' = fault /\ misread' = misread /\ behind' = behind /\ past' = past
  BY DEF Open, fileVars, storeVars, pastVars
<1>3. o \in OpenFile /\ o.chunks = chunkinfo
  BY <1>1 DEF OpenFile, Typed
<1> HIDE DEF o
<1>4. open_files_' \in [Fds -> OpenFile] /\ \A e \in Fds : open_files_'[e] = IF e = fd THEN o ELSE open_files_[e]
  BY <1>1, <1>2, <1>3 DEF Typed
<1>5. Typed'
  BY <1>1, <1>2, <1>4 DEF Typed
<1>6. ListsAreWellPlaced'
  BY <1>1, <1>2, <1>3, <1>4 DEF Sound, ListsAreWellPlaced, Chunks
<1>7. ListIsCounted' /\ ListIsContent'
  BY <1>1, <1>2 DEF Sound, ListIsCounted, ListIsContent, IsLarge
<1>8. QED
  BY <1>1, <1>2, <1>5, <1>6, <1>7 DEF IInv, Sound

\* close_file forgets it.
LEMMA CloseStep == \A fd \in Fds : IInv /\ Close(fd) => IInv'
<1> SUFFICES ASSUME NEW fd \in Fds, IInv, Close(fd) PROVE IInv'
  OBVIOUS
<1>1. Typed /\ Sound /\ past = {}
  BY IdleSound DEF Close
<1>2. /\ open_files_' = [open_files_ EXCEPT ![fd] = Closed]
      /\ exists' = exists /\ size' = size /\ chunkinfo' = chunkinfo /\ truncated' = truncated
      /\ buffer' = buffer /\ content' = content
      /\ store' = store /\ chunk_splitter_' = chunk_splitter_
      /\ fault' = fault /\ misread' = misread /\ behind' = behind \ {fd} /\ past' = past
  BY DEF Close, fileVars, storeVars
<1>3. Closed \in OpenFile /\ Closed.chunks = <<>> /\ Closed.open = FALSE
  BY DEF OpenFile, Closed
<1>4. open_files_' \in [Fds -> OpenFile] /\ \A e \in Fds : open_files_'[e] = IF e = fd THEN Closed ELSE open_files_[e]
  BY <1>1, <1>2, <1>3 DEF Typed
<1>5. Typed'
  BY <1>1, <1>2, <1>4 DEF Typed
<1>6. ListsAreWellPlaced'
  BY <1>1, <1>2, <1>3, <1>4, EmptyWellPlaced DEF Sound, ListsAreWellPlaced, Chunks
<1>7. ListIsCounted' /\ ListIsContent'
  BY <1>1, <1>2 DEF Sound, ListIsCounted, ListIsContent, IsLarge
<1>8. \A e \in Fds : IsOpen(e)' => exists'
  BY <1>1, <1>2, <1>3, <1>4 DEF Sound, IsOpen
<1>9. QED
  BY <1>1, <1>2, <1>5, <1>6, <1>7, <1>8 DEF IInv, Sound

\* unlink_file releases every chunk of the list, and each is counted.
LEMMA UnlinkStep == IInv /\ Unlink => IInv'
<1> SUFFICES ASSUME IInv, Unlink PROVE IInv'
  OBVIOUS
<1>1. Typed /\ Sound /\ past = {} /\ fault = "none" /\ \A fd \in Fds : ~IsOpen(fd)
  BY IdleSound DEF Unlink
<1>2. /\ exists' = FALSE /\ size' = 0 /\ chunkinfo' = <<>> /\ truncated' = FALSE
      /\ buffer' = <<>> /\ content' = <<>>
      /\ open_files_' = open_files_ /\ chunk_splitter_' = chunk_splitter_
      /\ misread' = misread /\ behind' = behind /\ past' = past
      /\ Release(store, chunkinfo)
  BY DEF Unlink, pastVars
<1>3. Proper(store) /\ (\A k \in ChunkKeys : store.table[k].ref = Occurrences(chunkinfo, k))
      /\ chunkinfo \in Seq(Chunk)
  BY <1>1 DEF Sound, ListIsCounted, Typed
<1>4. \A k \in ChunkKeys : Occurrences(chunkinfo, k) \in Nat
  BY <1>3, OccurrencesAre
<1>5. \A k \in ChunkKeys : Occurrences(chunkinfo, k) <= store.table[k].ref /\ ~(Occurrences(chunkinfo, k) > store.table[k].ref)
  BY <1>3, <1>4
<1>6. fault' = "none" /\ store' = ReleaseAll(store, chunkinfo)
  BY <1>1, <1>2, <1>5 DEF Release, Throws
<1>7. Proper(store') /\ \A k \in ChunkKeys : store'.table[k].ref = store.table[k].ref - Occurrences(chunkinfo, k)
  <2> DEFINE s == ReleaseAll(store, chunkinfo)
  <2>1. Proper(s) /\ \A k \in ChunkKeys : s.table[k].ref = store.table[k].ref - Occurrences(chunkinfo, k)
    BY <1>3, <1>5, ReleaseAllCounts
  <2> HIDE DEF s
  <2>2. store' = s
    BY <1>6 DEF s
  <2>3. QED
    BY <2>1, <2>2
<1>8. Typed'
  <2>1. 0 \in 0..MaxSize /\ <<>> \in Seq(Chunk) /\ <<>> \in Seq(Units)
    BY SizesAssumption
  <2>2. store' \in [table : [ChunkKeys -> Table!Entry], objects : SUBSET ChunkKeys]
    BY <1>7, ProperTyped
  <2>3. QED
    BY <1>1, <1>2, <1>6, <2>1, <2>2 DEF Typed
<1>9. ListsAreWellPlaced'
  BY <1>1, <1>2, EmptyWellPlaced DEF Sound, ListsAreWellPlaced, Chunks
<1>10. Bytes(<<>>) = <<>> /\ \A k \in ChunkKeys : Occurrences(<<>>, k) = 0
  BY EmptyList
<1>11. ListIsCounted'
  <2>1. \A k \in ChunkKeys : store'.table[k].ref = 0
    BY <1>3, <1>4, <1>7
  <2>2. QED
    BY <1>2, <1>7, <1>10, <2>1 DEF ListIsCounted
<1>12. ListIsContent'
  <2>1. ~(0 > Threshold) /\ Len(<<>>) = 0
    BY SizesAssumption
  <2>2. QED
    BY <1>2, <1>10, <2>1 DEF ListIsContent, IsLarge
<1>13. QED
  BY <1>1, <1>2, <1>6, <1>8, <1>9, <1>11, <1>12 DEF IInv, Sound, IsOpen

-----------------------------------------------------------------------------
(* Reading.                                                                *)

\* What a step that only reads, and that uses the chunk list, must answer.
LEMMA ReadKeeps ==
    ASSUME IInv, Idle, NEW b, NEW answer,
           b \in Seq(Units), buffer' = b, b = buffer \/ IsLarge,
           /\ exists' = exists /\ size' = size /\ chunkinfo' = chunkinfo /\ truncated' = truncated
           /\ content' = content /\ open_files_' = open_files_
           /\ store' = store /\ chunk_splitter_' = chunk_splitter_ /\ behind' = behind,
           misread' = (misread \/ answer),
           fault' \in {"none", "throw", "undefined", "missing"},
           past' \subseteq Events, past' = {} => ~answer /\ fault' = fault
    PROVE  IInv'
<1>1. Typed /\ Sound /\ past = {}
  BY IdleSound
<1>2. Typed'
  <2>1. misread' \in BOOLEAN
    BY <1>1 DEF Typed
  <2>2. QED
    BY <1>1, <2>1 DEF Typed
<1>3. ASSUME past' = {} PROVE Sound'
  <2>1. fault' = "none" /\ ~misread'
    BY <1>1, <1>3 DEF Sound
  <2>2. ListsAreWellPlaced' /\ ListIsCounted'
    BY <1>1 DEF Sound, ListsAreWellPlaced, ListIsCounted, Chunks
  <2>3. ListIsContent'
    BY <1>1 DEF Sound, ListIsContent, IsLarge
  <2>4. QED
    BY <1>1, <2>1, <2>2, <2>3 DEF Sound, IsOpen
<1>4. QED
  BY <1>2, <1>3 DEF IInv

\* A large file is its chunks.
LEMMA LargeFile ==
    ASSUME IInv, Idle, IsLarge
    PROVE  /\ WellPlaced(chunkinfo) /\ chunkinfo # <<>> /\ Bytes(chunkinfo) = content
           /\ content \in Seq(Units) /\ size = Len(content) /\ End(chunkinfo) = Len(content)
           /\ \A i \in 1..Len(chunkinfo) : chunkinfo[i].key \in store.objects
<1>1. Typed /\ Sound
  BY IdleSound
<1>2. WellPlaced(chunkinfo) /\ Bytes(chunkinfo) = content /\ content \in Seq(Units) /\ size = Len(content)
      /\ chunkinfo \in Seq(Chunk)
  BY <1>1 DEF Sound, Typed, ListsAreWellPlaced, ListIsContent
<1>3. chunkinfo # <<>>
  <2> SUFFICES ASSUME chunkinfo = <<>> PROVE FALSE
    OBVIOUS
  <2>1. Bytes(chunkinfo) = <<>>
    BY EmptyList
  <2>2. Len(content) = 0
    BY <1>2, <2>1
  <2>3. QED
    BY <1>2, <2>2, SizesAssumption DEF IsLarge
<1>4. End(chunkinfo) = Len(content)
  BY <1>2, <1>3, EndIsLength
<1>5. ASSUME NEW i \in 1..Len(chunkinfo)
      PROVE  chunkinfo[i].key \in store.objects
  <2> DEFINE k == chunkinfo[i].key
  <2>1. k \in ChunkKeys
    BY <1>2, KeysOfFacts, ElementOfSeq DEF Chunk
  <2>2. Occurrences(chunkinfo, k) > 0
    BY <1>2, OccurrencesAre
  <2> HIDE DEF k
  <2>3. Proper(store) /\ store.table[k].ref = Occurrences(chunkinfo, k)
    BY <1>1, <2>1 DEF Sound, ListIsCounted
  <2>4. k \in store.objects
    BY <2>1, <2>2, <2>3 DEF Proper
  <2>5. QED
    BY <2>4 DEF k
<1>6. QED
  BY <1>2, <1>3, <1>4, <1>5

\* Loading a part of the chunk list finds every object.
LEMMA NothingMissing ==
    ASSUME IInv, Idle, IsLarge, NEW i \in Nat \ {0}, NEW j \in Nat, j <= Len(chunkinfo)
    PROVE  ~Missing(SubSeq(chunkinfo, i, j))
<1> DEFINE b == SubSeq(chunkinfo, i, j)
<1>1. chunkinfo \in Seq(Chunk) /\ Len(chunkinfo) \in Nat
  BY LargeFile DEF WellPlaced
<1>2. /\ b \in Seq(Chunk) /\ Len(b) = IF i <= j THEN j - i + 1 ELSE 0
      /\ \A m \in 1..j-i+1 : b[m] = chunkinfo[i+m-1]
  BY <1>1, PartOfList
<1> HIDE DEF b
<1>3. ASSUME NEW m \in DOMAIN b PROVE b[m].key \in store.objects
  <2>1. m \in 1..j-i+1 /\ i+m-1 \in 1..Len(chunkinfo)
    BY <1>1, <1>2
  <2>2. QED
    BY <1>2, <2>1, LargeFile
<1>4. QED
  BY <1>3 DEF Missing, b

\* The part of the content that a range of chunks is.
LEMMA PartOfContent ==
    ASSUME NEW l \in Seq(Chunk), NEW first \in 1..Len(l)+1, NEW last \in first-1..Len(l)
    PROVE  LET A == Bytes(SubSeq(l, 1, first-1))
               L == Bytes(SubSeq(l, first, last))
               R == Bytes(SubSeq(l, last+1, Len(l))) IN
           /\ A \in Seq(Units) /\ L \in Seq(Units) /\ R \in Seq(Units)
           /\ Bytes(l) = (A \o L) \o R
           /\ OffsetOf(l, first) = Len(A) /\ OffsetOf(l, last+1) = Len(A) + Len(L)
           /\ last = Len(l) => R = <<>>
<1> DEFINE a == SubSeq(l, 1, first-1)
           b == SubSeq(l, first, last)
           c == SubSeq(l, last+1, Len(l))
<1>1. /\ a \in Seq(Chunk) /\ b \in Seq(Chunk) /\ c \in Seq(Chunk)
      /\ a \o b \in Seq(Chunk) /\ l = (a \o b) \o c
      /\ Len(c) = Len(l)-last
      /\ OffsetOf(l, first) = Len(Bytes(a))
      /\ OffsetOf(l, last+1) = Len(Bytes(a)) + Len(Bytes(b))
  BY CutList
<1> HIDE DEF a, b, c
<1>2. Bytes(a) \in Seq(Units) /\ Bytes(b) \in Seq(Units) /\ Bytes(c) \in Seq(Units)
  BY <1>1, KeysOfFacts
<1>3. Bytes(l) = (Bytes(a) \o Bytes(b)) \o Bytes(c)
  <2>1. Bytes(a \o b) = Bytes(a) \o Bytes(b)
    BY <1>1, ListConcat
  <2> DEFINE ab == a \o b
  <2>2. ab \in Seq(Chunk) /\ l = ab \o c
    BY <1>1
  <2> HIDE DEF ab
  <2>3. Bytes(ab \o c) = Bytes(ab) \o Bytes(c)
    BY <1>1, <2>2, ListConcat
  <2>4. QED
    BY <2>1, <2>2, <2>3 DEF ab
<1>4. last = Len(l) => Bytes(c) = <<>>
  <2> SUFFICES ASSUME last = Len(l) PROVE Bytes(c) = <<>>
    OBVIOUS
  <2>1. c = <<>>
    BY <1>1, EmptySeq
  <2>2. QED
    BY <2>1, EmptyList
<1>5. QED
  BY <1>1, <1>2, <1>3, <1>4 DEF a, b, c

\* A small file is read from its buffer file.
LEMMA ReadLocalStep ==
    \A fd \in Fds, offset \in Offsets, n \in 1..MaxSize :
        IInv /\ ReadLocal(fd, offset, n) => IInv'
<1> SUFFICES ASSUME NEW fd \in Fds, NEW offset \in Offsets, NEW n \in 1..MaxSize,
                    IInv, ReadLocal(fd, offset, n)
             PROVE  IInv'
  OBVIOUS
<1>1. Idle /\ IsOpen(fd) /\ ~IsLarge
  BY DEF ReadLocal
<1>2. Typed /\ Sound /\ past = {} /\ fault = "none"
  BY <1>1, IdleSound
<1>3. buffer = content
  BY <1>1, <1>2 DEF Sound, ListIsContent
<1> DEFINE answer == Slice(buffer, offset, n) # Slice(content, offset, n)
<1>4. /\ exists' = exists /\ size' = size /\ chunkinfo' = chunkinfo /\ truncated' = truncated
      /\ content' = content /\ open_files_' = open_files_
      /\ store' = store /\ chunk_splitter_' = chunk_splitter_ /\ behind' = behind
      /\ buffer' = buffer /\ fault' = fault /\ past' = past
      /\ misread' = (misread \/ answer)
  BY DEF ReadLocal, Answered, fileVars, storeVars
<1>5. ~answer
  BY <1>3
<1> HIDE DEF answer
<1>6. buffer \in Seq(Units) /\ past' \subseteq Events /\ fault' \in {"none", "throw", "undefined", "missing"}
  BY <1>2, <1>4 DEF Typed
<1>7. QED
  BY <1>1, <1>4, <1>5, <1>6, ReadKeeps

\* A read that is not noted was by the chunk list of the file.
LEMMA NoteReadStep ==
    ASSUME Idle, NEW fd \in Fds, NoteRead(fd)
    PROVE  past' \subseteq Events /\ (past' = {} => Chunks(fd) = chunkinfo)
  BY DEF Idle, NoteRead, Events

\* A large file is read from the chunks that cover the range.
LEMMA ReadLargeStep ==
    \A fd \in Fds, offset \in Offsets, n \in 1..MaxSize :
        IInv /\ ReadLarge(fd, offset, n) => IInv'
<1> SUFFICES ASSUME NEW fd \in Fds, NEW offset \in Offsets, NEW n \in 1..MaxSize,
                    IInv, ReadLarge(fd, offset, n)
             PROVE  IInv'
  OBVIOUS
<1> DEFINE l == Chunks(fd)
           first == ReadFirst(fd, offset)
           last == ChunkAtOrLast(l, offset + n - 1)
           loaded == SubSeq(l, first, last)
           got == Slice(Bytes(loaded), offset - loaded[1].start, n)
           answer == got # Slice(content, offset, n)
<1>1. /\ Idle /\ IsOpen(fd) /\ IsLarge /\ l # <<>> /\ offset < End(l)
      /\ buffer' = Bytes(loaded) /\ misread' = (misread \/ answer) /\ NoteRead(fd)
      /\ exists' = exists /\ size' = size /\ chunkinfo' = chunkinfo /\ truncated' = truncated
      /\ content' = content /\ open_files_' = open_files_
      /\ store' = store /\ chunk_splitter_' = chunk_splitter_ /\ behind' = behind /\ fault' = fault
  BY DEF ReadLarge, Answered, ReadChunks, fileVars, storeVars
<1>2. Typed /\ Sound /\ past = {} /\ fault = "none"
  BY <1>1, IdleSound
<1>3. offset \in Nat /\ n \in Nat \ {0}
  BY SizesAssumption DEF Offsets
<1>4. WellPlaced(l) /\ l \in Seq(Chunk) /\ PlacedFrom(0, l)
  BY <1>2 DEF Sound, ListsAreWellPlaced, WellPlaced
<1> HIDE DEF l
<1>5. Covers(l, first, last, offset, n)
  BY <1>1, <1>3, <1>4, ReadRange DEF ReadFirst, l
<1> HIDE DEF first, last
<1>6. /\ first \in 1..Len(l) /\ last \in first..Len(l) /\ OffsetOf(l, first) <= offset
      /\ last = Len(l) \/ offset + n <= OffsetOf(l, last+1)
      /\ first \in 1..Len(l)+1 /\ last \in first-1..Len(l)
  BY <1>5 DEF Covers
<1>7. loaded[1].start = OffsetOf(l, first) /\ loaded \in Seq(Chunk)
  <2>1. first \in Nat \ {0} /\ last \in Nat /\ last <= Len(l) /\ first <= last
    BY <1>6
  <2>2. loaded \in Seq(Chunk) /\ \A m \in 1..last-first+1 : loaded[m] = l[first+m-1]
    BY <1>4, <2>1, PartOfList
  <2>3. 1 \in 1..last-first+1 /\ first+1-1 = first
    BY <2>1
  <2>4. loaded[1] = l[first]
    <3> HIDE DEF loaded
    <3>1. loaded[1] = l[first+1-1]
      BY <2>2, <2>3
    <3>2. QED
      BY <2>3, <3>1
  <2>5. l[first].start = 0 + OffsetOf(l, first) /\ OffsetOf(l, first) \in Nat
    BY <1>4, <1>6, OffsetTyped DEF PlacedFrom
  <2> HIDE DEF OffsetOf, loaded
  <2>6. QED
    BY <2>2, <2>4, <2>5
<1>8. ASSUME l = chunkinfo PROVE ~answer
  <2> DEFINE A == Bytes(SubSeq(l, 1, first-1))
             L == Bytes(loaded)
             R == Bytes(SubSeq(l, last+1, Len(l)))
  <2>1. /\ A \in Seq(Units) /\ L \in Seq(Units) /\ R \in Seq(Units)
        /\ Bytes(l) = (A \o L) \o R
        /\ OffsetOf(l, first) = Len(A) /\ OffsetOf(l, last+1) = Len(A) + Len(L)
        /\ last = Len(l) => R = <<>>
    BY <1>4, <1>6, PartOfContent
  <2>2. content = Bytes(l)
    BY <1>1, <1>8, LargeFile
  <2> HIDE DEF A, L, R
  <2>3. Slice((A \o L) \o R, offset, n) = Slice(L, offset - Len(A), n)
    <3>1. Len(A) <= offset /\ (R = <<>> \/ offset + n <= Len(A) + Len(L)) /\ n \in Nat
      BY <1>3, <1>6, <2>1
    <3>2. QED
      BY <1>3, <2>1, <3>1, SliceWithin
  <2>4. got = Slice(L, offset - Len(A), n)
    BY <1>7, <2>1 DEF L
  <2>5. QED
    BY <2>1, <2>2, <2>3, <2>4
<1>9. past' \subseteq Events /\ (past' = {} => l = chunkinfo)
  BY <1>1, NoteReadStep DEF l
<1>10. Bytes(loaded) \in Seq(Units)
  BY <1>7, KeysOfFacts
<1> DEFINE b == Bytes(loaded)
<1> HIDE DEF answer, b, loaded
<1>11. b \in Seq(Units) /\ buffer' = b /\ fault' \in {"none", "throw", "undefined", "missing"}
       /\ (past' = {} => ~answer /\ fault' = fault)
  BY <1>1, <1>2, <1>8, <1>9, <1>10 DEF b
<1>12. QED
  BY <1>1, <1>9, <1>11, ReadKeeps

\* Nothing is read past the end of the list, which is the end of the file.
LEMMA ReadPastEndStep ==
    \A fd \in Fds, offset \in Offsets, n \in 1..MaxSize :
        IInv /\ ReadPastEnd(fd, offset, n) => IInv'
<1> SUFFICES ASSUME NEW fd \in Fds, NEW offset \in Offsets, NEW n \in 1..MaxSize,
                    IInv, ReadPastEnd(fd, offset, n)
             PROVE  IInv'
  OBVIOUS
<1> DEFINE answer == <<>> # Slice(content, offset, n)
<1>1. /\ Idle /\ IsLarge /\ offset >= End(Chunks(fd))
      /\ buffer' = <<>> /\ misread' = (misread \/ answer) /\ NoteRead(fd)
      /\ exists' = exists /\ size' = size /\ chunkinfo' = chunkinfo /\ truncated' = truncated
      /\ content' = content /\ open_files_' = open_files_
      /\ store' = store /\ chunk_splitter_' = chunk_splitter_ /\ behind' = behind /\ fault' = fault
  BY DEF ReadPastEnd, Answered, fileVars, storeVars
<1>2. Typed /\ Sound /\ past = {} /\ fault = "none"
  BY <1>1, IdleSound
<1>3. offset \in Nat /\ n \in Nat
  BY SizesAssumption DEF Offsets
<1>4. ASSUME Chunks(fd) = chunkinfo PROVE ~answer
  <2>1. content \in Seq(Units) /\ Len(content) <= offset /\ Len(content) \in Nat
    BY <1>1, <1>4, LargeFile
  <2> DEFINE hi == IF offset + n <= Len(content) THEN offset + n ELSE Len(content)
             x == Slice(content, offset, n)
  <2>2. x \in Seq(Units) /\ Len(x) = IF offset < hi THEN hi - offset ELSE 0
    BY <1>3, <2>1, SliceFacts
  <2> HIDE DEF x
  <2>3. Len(x) = 0
    BY <1>3, <2>1, <2>2
  <2>4. x = <<>>
    BY <2>2, <2>3, EmptySeq
  <2>5. QED
    BY <2>4 DEF x
<1>5. past' \subseteq Events /\ (past' = {} => Chunks(fd) = chunkinfo)
  BY <1>1, NoteReadStep
<1> HIDE DEF answer
<1>6. <<>> \in Seq(Units) /\ fault' \in {"none", "throw", "undefined", "missing"}
      /\ (past' = {} => ~answer /\ fault' = fault)
  BY <1>1, <1>2, <1>4, <1>5
<1>7. QED
  BY <1>1, <1>5, <1>6, ReadKeeps

\* A read fails only by an outdated list.
LEMMA ReadFailsStep ==
    \A fd \in Fds, offset \in Offsets, n \in 1..MaxSize :
        IInv /\ ReadFails(fd, offset, n) => IInv'
<1> SUFFICES ASSUME NEW fd \in Fds, NEW offset \in Offsets, NEW n \in 1..MaxSize,
                    IInv, ReadFails(fd, offset, n)
             PROVE  IInv'
  OBVIOUS
<1> DEFINE l == Chunks(fd)
<1>1. /\ Idle /\ IsLarge
      /\ \/ l = <<>> /\ fault' = "undefined"
         \/ l # <<>> /\ offset < End(l) /\ Missing(ReadChunks(fd, offset, n)) /\ fault' = "missing"
      /\ buffer' = <<>> /\ misread' = misread /\ NoteRead(fd)
      /\ exists' = exists /\ size' = size /\ chunkinfo' = chunkinfo /\ truncated' = truncated
      /\ content' = content /\ open_files_' = open_files_
      /\ store' = store /\ chunk_splitter_' = chunk_splitter_ /\ behind' = behind
  BY DEF ReadFails, fileVars, storeVars
<1>2. offset \in Nat /\ n \in Nat \ {0}
  BY SizesAssumption DEF Offsets
<1>3. ASSUME l = chunkinfo PROVE FALSE
  <2>1. WellPlaced(l) /\ l # <<>> /\ offset < End(l) /\ Missing(ReadChunks(fd, offset, n))
    BY <1>1, <1>3, LargeFile
  <2>2. Covers(l, ChunkAt(l, offset), ChunkAtOrLast(l, offset + n - 1), offset, n)
    BY <1>2, <2>1, ReadRange
  <2> DEFINE first == ChunkAt(l, offset)
             last == ChunkAtOrLast(l, offset + n - 1)
  <2>3. first \in Nat \ {0} /\ last \in Nat /\ last <= Len(l)
    BY <2>1, <2>2 DEF Covers, WellPlaced
  <2>4. ReadChunks(fd, offset, n) = SubSeq(l, first, last)
    BY DEF ReadChunks, ReadFirst
  <2> HIDE DEF first, last
  <2>5. ~Missing(SubSeq(l, first, last))
    BY <1>1, <1>3, <2>3, NothingMissing
  <2>6. QED
    BY <2>1, <2>4, <2>5
<1>4. past' \subseteq Events /\ past' # {}
  BY <1>1, <1>3, NoteReadStep
<1>5. <<>> \in Seq(Units) /\ fault' \in {"none", "throw", "undefined", "missing"}
      /\ misread' = (misread \/ FALSE)
  BY <1>1, IdleSound DEF Typed
<1>6. QED
  BY <1>1, <1>4, <1>5, ReadKeeps

-----------------------------------------------------------------------------
(* Writing.                                                                *)

\* A write has at least one unit.
LEMMA DataFacts ==
    \A data \in Data : data \in Seq(Units) /\ Len(data) \in Nat \ {0}
<1> SUFFICES ASSUME NEW data \in Data PROVE data \in Seq(Units) /\ Len(data) \in Nat \ {0}
  OBVIOUS
<1>1. data \in SeqsUpTo(MaxWrite) /\ data # <<>> /\ MaxWrite \in Nat
  BY SizesAssumption DEF Data
<1>2. data \in Seq(Units)
  BY <1>1, SequencesUpTo
<1>3. QED
  BY <1>1, <1>2, EmptySeq

\* The list a write uses is well placed, outdated or not.
LEMMA ListForFacts ==
    ASSUME IInv, Idle, NEW fd \in Fds
    PROVE  WellPlaced(ListFor(fd)) /\ ListFor(fd) \in Seq(Chunk)
<1>1. Sound
  BY IdleSound
<1>2. QED
  BY <1>1 DEF Sound, ListsAreWellPlaced, ListFor, WellPlaced

\* The recorded size of a small file grows as its buffer file does.
LEMMA LocalGrowth ==
    ASSUME NEW offset \in Nat, NEW data \in Seq(Units), NEW s \in Seq(Units), NEW len
    PROVE  size = Len(s) => SizeAfter(s, 0, offset, Len(data)) = Len(Overwrite(s, offset, data))
<1> SUFFICES ASSUME size = Len(s)
             PROVE  SizeAfter(s, 0, offset, Len(data)) = Len(Overwrite(s, offset, data))
  OBVIOUS
<1> DEFINE d == offset + Len(data)
<1>1. d \in Nat /\ Len(s) \in Nat /\ d - 0 - Len(s) \in Int /\ d - 0 - Len(s) = d - Len(s)
  OBVIOUS
<1>2. Len(Overwrite(s, offset, data)) = IF d <= Len(s) THEN Len(s) ELSE d
  BY OverwriteFacts
<1>3. SizeAfter(s, 0, offset, Len(data)) = Len(s) + Max({0, d - 0 - Len(s)})
  BY DEF SizeAfter
<1> HIDE DEF d
<1>4. Max({0, d - 0 - Len(s)}) = IF d - 0 - Len(s) <= 0 THEN 0 ELSE d - 0 - Len(s)
  BY <1>1, TwoMax
<1>5. CASE d <= Len(s)
  <2>1. d - 0 - Len(s) <= 0
    BY <1>1, <1>5
  <2>2. QED
    BY <1>1, <1>2, <1>3, <1>4, <1>5, <2>1
<1>6. CASE ~(d <= Len(s))
  <2>1. ~(d - 0 - Len(s) <= 0)
    BY <1>1, <1>6
  <2>2. Max({0, d - 0 - Len(s)}) = d - Len(s)
    BY <1>1, <1>4, <2>1
  <2>3. QED
    BY <1>1, <1>2, <1>3, <1>6, <2>2
<1>7. QED
  BY <1>5, <1>6

\* A file that stays small is written to its buffer file.
LEMMA WriteLocalStep ==
    \A fd \in Fds, offset \in Offsets, data \in Data :
        IInv /\ WriteLocal(fd, offset, data) => IInv'
<1> SUFFICES ASSUME NEW fd \in Fds, NEW offset \in Offsets, NEW data \in Data,
                    IInv, WriteLocal(fd, offset, data)
             PROVE  IInv'
  OBVIOUS
<1> DEFINE l == ListFor(fd)
           newSize == SizeAfter(buffer, 0, offset, Len(data))
<1>1. /\ Idle /\ IsOpen(fd) /\ ~IsLarge /\ newSize <= Threshold
      /\ buffer' = Overwrite(buffer, offset, data) /\ content' = Overwrite(content, offset, data)
      /\ size' = newSize /\ open_files_' = [open_files_ EXCEPT ![fd].chunks = l]
      /\ truncated' = FALSE
      /\ behind' = IF truncated THEN behind \ {fd} ELSE behind
      /\ exists' = exists /\ chunkinfo' = chunkinfo
      /\ store' = store /\ chunk_splitter_' = chunk_splitter_
      /\ fault' = fault /\ misread' = misread /\ past' = past
  BY DEF WriteLocal, storeVars
<1>2. Typed /\ Sound /\ past = {} /\ fault = "none"
  BY <1>1, IdleSound
<1>3. exists /\ buffer = content /\ content \in Seq(Units) /\ size = Len(content)
  BY <1>1, <1>2 DEF Sound, ListIsContent, Typed
<1>4. offset \in Nat /\ data \in Seq(Units) /\ l \in Seq(Chunk) /\ WellPlaced(l)
  BY <1>1, DataFacts, ListForFacts, SizesAssumption DEF Offsets
<1> HIDE DEF l
<1>5. newSize = Len(Overwrite(buffer, offset, data))
  BY <1>3, <1>4, LocalGrowth
<1>6. content' \in Seq(Units) /\ buffer' = content' /\ size' = Len(content') /\ size' \in 0..MaxSize
  <2> DEFINE o == Overwrite(content, offset, data)
  <2>1. o \in Seq(Units)
    BY <1>3, <1>4, OverwriteFacts
  <2> HIDE DEF newSize, o
  <2>2. content' = o /\ buffer' = o /\ size' = Len(o) /\ Len(o) <= Threshold
    BY <1>1, <1>3, <1>5 DEF o
  <2>3. QED
    BY <2>1, <2>2, SizesAssumption
<1> HIDE DEF newSize
<1>7. open_files_' \in [Fds -> OpenFile] /\ \A e \in Fds : IsOpen(e)' = IsOpen(e)
      /\ Chunks(e)' = IF e = fd THEN l ELSE Chunks(e)
  <2>1. open_files_ \in [Fds -> OpenFile]
    BY <1>2 DEF Typed
  <2> DEFINE g == [open_files_ EXCEPT ![fd].chunks = l]
  <2>2. g \in [Fds -> OpenFile] /\ (\A e \in Fds : g[e].open = open_files_[e].open)
        /\ \A e \in Fds : g[e].chunks = IF e = fd THEN l ELSE open_files_[e].chunks
    BY <1>4, <2>1, OpenFilesUpdate
  <2> HIDE DEF g
  <2>3. open_files_' = g
    BY <1>1 DEF g
  <2>4. QED
    BY <2>2, <2>3 DEF IsOpen, Chunks
<1>8. Typed'
  <2>1. behind' \subseteq Fds
    BY <1>1, <1>2 DEF Typed
  <2>2. QED
    BY <1>1, <1>2, <1>6, <1>7, <2>1 DEF Typed
<1>9. ListsAreWellPlaced'
  BY <1>1, <1>2, <1>4, <1>7 DEF Sound, ListsAreWellPlaced
<1>10. ListIsCounted'
  BY <1>1, <1>2 DEF Sound, ListIsCounted
<1>11. ListIsContent'
  <2>1. ~IsLarge' /\ exists'
    BY <1>1, <1>3, <1>6, SizesAssumption DEF IsLarge
  <2>2. Bytes(chunkinfo) = <<>>
    BY <1>1, <1>2 DEF Sound, ListIsContent
  <2>3. QED
    BY <1>1, <1>6, <2>1, <2>2 DEF ListIsContent
<1>12. QED
  BY <1>1, <1>2, <1>3, <1>7, <1>8, <1>9, <1>10, <1>11 DEF IInv, Sound

\* A write that is not noted was by the chunk list of the file.
LEMMA NoteWriteStep ==
    ASSUME Idle, Typed, NEW fd \in Fds, NoteWrite(fd)
    PROVE  past' \subseteq Events /\ behind' \subseteq Fds /\ (past' = {} <=> ListFor(fd) = chunkinfo)
<1>1. past = {} /\ behind \subseteq Fds
  BY DEF Idle, Typed
<1>2. /\ past' = past \union (IF ListFor(fd) # chunkinfo THEN {"stale"} ELSE {})
                    \union (IF ListFor(fd) # chunkinfo /\ fd \in behind THEN {"unreloaded"} ELSE {})
      /\ behind' = IF truncated THEN behind \ {fd} ELSE behind
  BY DEF NoteWrite
<1>3. past' \subseteq Events
  BY <1>1, <1>2 DEF Events
<1>4. behind' \subseteq Fds
  BY <1>1, <1>2
<1>5. past' = {} <=> ListFor(fd) = chunkinfo
  BY <1>1, <1>2
<1>6. QED
  BY <1>3, <1>4, <1>5

\* What is left to show of a write that rechunks a part of a list.
LEMMA RechunkKeeps ==
    ASSUME IInv, Idle, NEW fd \in Fds, IsOpen(fd), NEW l, l = ListFor(fd),
           NEW first \in 1..Len(l)+1, NEW last \in first-1..Len(l),
           NEW bytes \in Seq(Units), NEW base, base = OffsetOf(l, first),
           last = Len(l) \/ base + Len(bytes) = OffsetOf(l, last+1),
           base + Len(bytes) <= MaxSize,
           Rechunk(fd, l, first, last, base, bytes),
           NoteWrite(fd),
           buffer' = bytes, content' \in Seq(Units), size' \in 0..MaxSize, truncated' = FALSE,
           exists' = exists, misread' = misread,
           l = chunkinfo =>
               /\ content' = (Bytes(SubSeq(l, 1, first-1)) \o bytes) \o Bytes(SubSeq(l, last+1, Len(l)))
               /\ size' = Len(content') /\ size' > Threshold
    PROVE  IInv'
<1>1. Typed /\ Sound /\ past = {} /\ fault = "none" /\ exists
  BY IdleSound DEF Sound
<1>2. WellPlaced(l)
  BY ListForFacts
<1>3. Proper(store) /\ \A k \in ChunkKeys : store.table[k].ref = Occurrences(chunkinfo, k)
  BY <1>1 DEF Sound, ListIsCounted
<1> DEFINE r == Spliced(l, first, last, base, bytes)
<1>r. r = Spliced(l, first, last, base, bytes)
  OBVIOUS
<1> HIDE DEF r
<1>4. /\ chunk_splitter_' \in Splitter /\ Proper(store') /\ fault' \in {"none", "throw"}
      /\ chunkinfo' \in Seq(Chunk)
      /\ \E m \in Seq(Chunk) : open_files_' = [open_files_ EXCEPT ![fd].chunks = m]
      /\ (\A k \in ChunkKeys : store.table[k].ref = Occurrences(l, k)) =>
           /\ fault' = "none" /\ chunkinfo' = r
           /\ open_files_' = [open_files_ EXCEPT ![fd].chunks = r]
           /\ \A k \in ChunkKeys : store'.table[k].ref = Occurrences(r, k)
  <2>1. Typed /\ Proper(store) /\ fault = "none"
    BY <1>1, <1>3
  <2>2. /\ chunk_splitter_' \in Splitter /\ Proper(store') /\ fault' \in {"none", "throw"}
        /\ chunkinfo' \in Seq(Chunk)
        /\ \E m \in Seq(Chunk) : open_files_' = [open_files_ EXCEPT ![fd].chunks = m]
    BY <1>2, <1>r, <2>1, RechunkStep
  <2>3. ASSUME \A k \in ChunkKeys : store.table[k].ref = Occurrences(l, k)
        PROVE  /\ fault' = "none" /\ chunkinfo' = r
               /\ open_files_' = [open_files_ EXCEPT ![fd].chunks = r]
               /\ \A k \in ChunkKeys : store'.table[k].ref = Occurrences(r, k)
    BY <1>2, <1>r, <2>1, <2>3, RechunkCounted
  <2>4. QED
    BY <2>2, <2>3
<1>5. WellPlaced(r) /\ Bytes(r) = (Bytes(SubSeq(l, 1, first-1)) \o bytes) \o Bytes(SubSeq(l, last+1, Len(l)))
  <2>1. Replaceable(l, first, last, base, bytes)
    BY DEF Replaceable
  <2>2. IsReplaced(r, l, first, last, bytes)
    BY <1>2, <1>r, <2>1, SplicedFacts
  <2>3. QED
    BY <2>2 DEF IsReplaced
<1>6. open_files_ \in [Fds -> OpenFile]
  BY <1>1 DEF Typed
<1>7. open_files_' \in [Fds -> OpenFile]
  <2>1. PICK m \in Seq(Chunk) : open_files_' = [open_files_ EXCEPT ![fd].chunks = m]
    BY <1>4
  <2> DEFINE g == [open_files_ EXCEPT ![fd].chunks = m]
  <2>2. g \in [Fds -> OpenFile]
    BY <1>6, OpenFilesUpdate
  <2> HIDE DEF g
  <2>3. QED
    BY <2>1, <2>2 DEF g
<1>8. past' \subseteq Events /\ behind' \subseteq Fds /\ (past' = {} <=> l = chunkinfo)
  BY <1>1, NoteWriteStep
<1>9. Typed'
  <2>1. store' \in [table : [ChunkKeys -> Table!Entry], objects : SUBSET ChunkKeys]
    BY <1>4, ProperTyped
  <2>2. fault' \in {"none", "throw", "undefined", "missing"}
    BY <1>4
  <2>3. QED
    BY <1>1, <1>4, <1>7, <1>8, <2>1, <2>2 DEF Typed
<1>10. ASSUME past' = {} PROVE Sound'
  <2>1. /\ l = chunkinfo
        /\ fault' = "none" /\ chunkinfo' = r
        /\ open_files_' = [open_files_ EXCEPT ![fd].chunks = r]
        /\ \A k \in ChunkKeys : store'.table[k].ref = Occurrences(r, k)
    BY <1>3, <1>4, <1>8, <1>10
  <2>2. r \in Seq(Chunk)
    BY <1>5 DEF WellPlaced
  <2>3. \A e \in Fds : IsOpen(e)' = IsOpen(e) /\ Chunks(e)' = IF e = fd THEN r ELSE Chunks(e)
    <3> DEFINE g == [open_files_ EXCEPT ![fd].chunks = r]
    <3>1. (\A e \in Fds : g[e].open = open_files_[e].open)
          /\ \A e \in Fds : g[e].chunks = IF e = fd THEN r ELSE open_files_[e].chunks
      BY <1>6, <2>2, OpenFilesUpdate
    <3> HIDE DEF g
    <3>2. open_files_' = g
      BY <2>1 DEF g
    <3>3. QED
      BY <3>1, <3>2 DEF IsOpen, Chunks
  <2>4. ListsAreWellPlaced'
    BY <1>1, <1>5, <2>1, <2>3 DEF Sound, ListsAreWellPlaced
  <2>5. ListIsCounted'
    BY <1>4, <2>1 DEF ListIsCounted
  <2>6. Bytes(chunkinfo') = content' /\ size' = Len(content') /\ IsLarge' /\ exists'
    BY <1>1, <1>5, <2>1 DEF IsLarge
  <2>7. ListIsContent'
    BY <2>6 DEF ListIsContent
  <2>8. QED
    BY <1>1, <2>1, <2>3, <2>4, <2>5, <2>7 DEF Sound
<1>11. QED
  BY <1>9, <1>10 DEF IInv

\* A file that outgrows the threshold is chunked as a whole.
LEMMA WriteGrowStep ==
    \A fd \in Fds, offset \in Offsets, data \in Data :
        IInv /\ WriteGrow(fd, offset, data) => IInv'
<1> SUFFICES ASSUME NEW fd \in Fds, NEW offset \in Offsets, NEW data \in Data,
                    IInv, WriteGrow(fd, offset, data)
             PROVE  IInv'
  OBVIOUS
<1> DEFINE l == ListFor(fd)
           bytes == Overwrite(buffer, offset, data)
           newSize == SizeAfter(buffer, 0, offset, Len(data))
<1>1. /\ Idle /\ IsOpen(fd) /\ ~IsLarge /\ newSize > Threshold /\ newSize <= MaxSize
      /\ buffer' = bytes /\ content' = Overwrite(content, offset, data)
      /\ size' = newSize /\ truncated' = FALSE
      /\ Rechunk(fd, l, 1, Len(l), 0, bytes) /\ NoteWrite(fd)
      /\ exists' = exists /\ misread' = misread
  BY DEF WriteGrow
<1>2. Typed /\ Sound /\ past = {} /\ fault = "none"
  BY <1>1, IdleSound
<1>3. exists /\ buffer = content /\ content \in Seq(Units) /\ size = Len(content)
      /\ Bytes(chunkinfo) = <<>> /\ chunkinfo \in Seq(Chunk)
  BY <1>1, <1>2 DEF Sound, ListIsContent, Typed
<1>4. offset \in Nat /\ data \in Seq(Units) /\ l \in Seq(Chunk) /\ WellPlaced(l)
  BY <1>1, DataFacts, ListForFacts, SizesAssumption DEF Offsets
<1>5. newSize = Len(bytes)
  BY <1>3, <1>4, LocalGrowth
<1>6. bytes \in Seq(Units)
  BY <1>3, <1>4, OverwriteFacts
<1> DEFINE len == Len(l)
<1>7. 1 \in 1..Len(l)+1 /\ len \in 1-1..Len(l) /\ 0 = OffsetOf(l, 1) /\ len = Len(l)
  BY <1>4, OffsetEnds
<1>8. content' = bytes
  BY <1>1, <1>3
<1>9. (Bytes(SubSeq(l, 1, 1-1)) \o bytes) \o Bytes(SubSeq(l, len+1, Len(l))) = bytes
  <2>1. SubSeq(l, 1, 1-1) = <<>> /\ SubSeq(l, len+1, Len(l)) = <<>>
    <3>1. 1-1 < 1 /\ len < len+1 /\ len+1 \in Int /\ len \in Int /\ 1 \in Int /\ 1-1 \in Int
      BY <1>4
    <3>2. QED
      BY <3>1, SubSeqEmpty
  <2> HIDE DEF bytes
  <2>2. Bytes(<<>>) = <<>> /\ (<<>> \o bytes) \o <<>> = bytes
    BY <1>6, EmptyList
  <2>3. QED
    BY <2>1, <2>2
<1> HIDE DEF l, bytes, newSize, len
<1>10. 0 + Len(bytes) <= MaxSize /\ size' = Len(bytes) /\ size' \in 0..MaxSize /\ size' > Threshold
       /\ content' \in Seq(Units)
  BY <1>1, <1>5, <1>6, <1>8, SizesAssumption
<1>11. Rechunk(fd, l, 1, len, 0, bytes) /\ l = ListFor(fd)
  BY <1>1, <1>7 DEF l
<1>12. QED
  BY <1>1, <1>6, <1>7, <1>8, <1>9, <1>10, <1>11, RechunkKeeps

\* A write to a large file replaces the chunks that cover its range.
LEMMA WriteLargeStep ==
    \A fd \in Fds, offset \in Offsets, data \in Data :
        IInv /\ WriteLarge(fd, offset, data) => IInv'
<1> SUFFICES ASSUME NEW fd \in Fds, NEW offset \in Offsets, NEW data \in Data,
                    IInv, WriteLarge(fd, offset, data)
             PROVE  IInv'
  OBVIOUS
<1> DEFINE l == ListFor(fd)
           n == Len(data)
           first == WriteFirst(l, offset)
           last == WriteLast(l, offset, n)
           L == Bytes(SubSeq(l, first, last))
           base == l[first].start
           bytes == Overwrite(L, offset - base, data)
           newSize == SizeAfter(L, base, offset, n)
           A == Bytes(SubSeq(l, 1, first-1))
           R == Bytes(SubSeq(l, last+1, Len(l)))
<1>1. /\ Idle /\ IsOpen(fd) /\ IsLarge /\ l # <<>> /\ newSize <= MaxSize /\ offset + n <= MaxSize
      /\ buffer' = bytes /\ content' = Overwrite(content, offset, data)
      /\ size' = newSize /\ truncated' = FALSE
      /\ Rechunk(fd, l, first, last, base, bytes) /\ NoteWrite(fd)
      /\ exists' = exists /\ misread' = misread
  BY DEF WriteLarge
<1>2. Typed /\ Sound /\ past = {} /\ fault = "none"
  BY <1>1, IdleSound
<1>3. offset \in Nat /\ data \in Seq(Units) /\ n \in Nat \ {0} /\ l \in Seq(Chunk) /\ WellPlaced(l)
  BY <1>1, DataFacts, ListForFacts, SizesAssumption DEF Offsets
<1>4. l = ListFor(fd)
  OBVIOUS
<1> HIDE DEF l, n
<1>5. Covers(l, first, last, offset, n)
  BY <1>1, <1>3, WriteRange
<1> HIDE DEF first, last
<1>6. /\ first \in 1..Len(l) /\ last \in first..Len(l) /\ OffsetOf(l, first) <= offset
      /\ last = Len(l) \/ offset + n <= OffsetOf(l, last+1)
      /\ first \in 1..Len(l)+1 /\ last \in first-1..Len(l)
  BY <1>5 DEF Covers
<1>7. base = OffsetOf(l, first) /\ base \in Nat
  <2>1. l[first].start = 0 + OffsetOf(l, first)
    BY <1>3, <1>6 DEF WellPlaced, PlacedFrom
  <2>2. OffsetOf(l, first) \in Nat
    BY <1>3, <1>6, OffsetTyped
  <2> HIDE DEF OffsetOf
  <2>3. QED
    BY <2>1, <2>2
<1> HIDE DEF base
<1>8. /\ A \in Seq(Units) /\ L \in Seq(Units) /\ R \in Seq(Units)
      /\ Bytes(l) = (A \o L) \o R
      /\ OffsetOf(l, first) = Len(A) /\ OffsetOf(l, last+1) = Len(A) + Len(L)
      /\ last = Len(l) => R = <<>>
  BY <1>3, <1>6, PartOfContent
<1>9. Len(Bytes(l)) = Len(A) + Len(L) + Len(R) /\ Len(Bytes(l)) <= MaxSize
  <2> HIDE DEF A, L, R
  <2>1. Len((A \o L) \o R) = Len(A) + Len(L) + Len(R)
    BY <1>8, ThreeParts
  <2>2. QED
    BY <1>3, <1>8, <2>1 DEF WellPlaced
<1> HIDE DEF A, R
<1>10. /\ bytes \in Seq(Units)
       /\ Len(bytes) = IF offset - base + n <= Len(L) THEN Len(L) ELSE offset - base + n
  <2> HIDE DEF L
  <2>1. offset - base \in Nat
    BY <1>3, <1>6, <1>7
  <2>2. QED
    BY <1>3, <1>8, <2>1, OverwriteFacts DEF n
<1>11. base = Len(A) /\ Len(A) \in Nat /\ Len(L) \in Nat /\ Len(R) \in Nat /\ MaxSize \in Nat
  BY <1>7, <1>8, SizesAssumption
<1> HIDE DEF L
<1> HIDE DEF bytes
<1>12. base + Len(bytes) <= MaxSize
  <2>1. CASE offset - base + n <= Len(L)
    BY <1>9, <1>10, <1>11, <2>1
  <2>2. CASE ~(offset - base + n <= Len(L))
    <3>1. Len(bytes) = offset - base + n
      BY <1>10, <2>2
    <3>2. QED
      BY <1>1, <1>3, <1>11, <3>1
  <2>3. QED
    BY <2>1, <2>2
<1>13. last = Len(l) \/ base + Len(bytes) = OffsetOf(l, last+1)
  <2> SUFFICES ASSUME last # Len(l) PROVE base + Len(bytes) = OffsetOf(l, last+1)
    OBVIOUS
  <2>1. offset + n <= Len(A) + Len(L)
    BY <1>6, <1>8
  <2>2. offset - base + n <= Len(L)
    BY <1>3, <1>11, <2>1
  <2>3. QED
    BY <1>8, <1>10, <1>11, <2>2
<1>14. newSize = size + Max({0, offset + n - Len(A) - Len(L)})
  BY <1>11 DEF newSize, SizeAfter
<1> DEFINE g == offset + n - Len(A) - Len(L)
<1>15. Max({0, g}) \in Nat
  <2>1. g \in Int /\ 0 \in Int
    BY <1>3, <1>11
  <2> HIDE DEF g
  <2>2. Max({0, g}) = IF g <= 0 THEN 0 ELSE g
    BY <2>1, TwoMax
  <2>3. QED
    BY <2>1, <2>2
<1>16. size' \in 0..MaxSize /\ size' > Threshold
  <2> DEFINE m == Max({0, g})
  <2>1. m \in Nat /\ size' = size + m /\ size + m <= MaxSize
    BY <1>1, <1>14, <1>15
  <2>2. size \in Nat /\ size > Threshold /\ Threshold \in Nat
    BY <1>1, <1>2, SizesAssumption DEF IsLarge, Typed
  <2> HIDE DEF m
  <2>3. QED
    BY <1>11, <2>1, <2>2
<1>17. content' \in Seq(Units)
  <2>1. content \in Seq(Units)
    BY <1>2 DEF Typed
  <2>2. QED
    BY <1>1, <1>3, <2>1, OverwriteFacts
<1>18. ASSUME l = chunkinfo
       PROVE  content' = (A \o bytes) \o R /\ size' = Len(content')
  <2>1. content = (A \o L) \o R /\ size = Len(content)
    BY <1>1, <1>8, <1>18, LargeFile
  <2>2. Len(A) <= offset /\ (R = <<>> \/ offset + Len(data) <= Len(A) + Len(L))
    BY <1>6, <1>8 DEF n
  <2>3. Overwrite((A \o L) \o R, offset, data) = (A \o Overwrite(L, offset - Len(A), data)) \o R
    <3>1. A \in Seq(Units) /\ L \in Seq(Units) /\ R \in Seq(Units) /\ offset \in Nat /\ data \in Seq(Units)
      BY <1>3, <1>8
    <3>2. WrittenWithin(A, L, R, offset, data)
      BY <2>2 DEF WrittenWithin
    <3>3. QED
      BY <3>1, <3>2, OverwriteWithin
  <2>4. bytes = Overwrite(L, offset - Len(A), data)
    BY <1>11 DEF bytes
  <2>5. Len(Overwrite((A \o L) \o R, offset, data))
           = Len((A \o L) \o R) + Max({0, offset + Len(data) - Len(A) - Len(L)})
    BY <1>3, <1>8, <2>2, GrowthIsExact
  <2> DEFINE X == (A \o L) \o R
  <2>6. content = X /\ size = Len(X) /\ content' = Overwrite(X, offset, data)
    BY <1>1, <2>1
  <2>7. Len(Overwrite(X, offset, data)) = Len(X) + Max({0, g})
    BY <2>5 DEF n
  <2>8. content' = (A \o bytes) \o R
    BY <2>3, <2>4, <2>6
  <2> HIDE DEF X, g
  <2>9. size' = Len(content')
    <3>1. size' = size + Max({0, g})
      BY <1>1, <1>14 DEF g
    <3>2. QED
      BY <2>6, <2>7, <3>1
  <2>10. QED
    BY <2>8, <2>9
<1> HIDE DEF newSize, g
<1>19. l = chunkinfo =>
               /\ content' = (Bytes(SubSeq(l, 1, first-1)) \o bytes) \o Bytes(SubSeq(l, last+1, Len(l)))
               /\ size' = Len(content') /\ size' > Threshold
  BY <1>16, <1>18 DEF A, R
<1>20. QED
  BY <1>1, <1>4, <1>6, <1>7, <1>10, <1>12, <1>13, <1>16, <1>17, <1>19, RechunkKeeps

\* A write fails only by an outdated list.
LEMMA WriteFailsStep ==
    \A fd \in Fds, offset \in Offsets, data \in Data :
        IInv /\ WriteFails(fd, offset, data) => IInv'
<1> SUFFICES ASSUME NEW fd \in Fds, NEW offset \in Offsets, NEW data \in Data,
                    IInv, WriteFails(fd, offset, data)
             PROVE  IInv'
  OBVIOUS
<1> DEFINE l == ListFor(fd)
           n == Len(data)
           first == WriteFirst(l, offset)
           last == WriteLast(l, offset, n)
<1>1. /\ Idle /\ IsLarge
      /\ \/ l = <<>> /\ fault' = "undefined"
         \/ l # <<>> /\ Missing(SubSeq(l, first, last)) /\ fault' = "missing"
      /\ buffer' = <<>> /\ open_files_' = [open_files_ EXCEPT ![fd].chunks = l]
      /\ truncated' = FALSE /\ NoteWrite(fd)
      /\ exists' = exists /\ size' = size /\ chunkinfo' = chunkinfo /\ content' = content
      /\ store' = store /\ chunk_splitter_' = chunk_splitter_ /\ misread' = misread
  BY DEF WriteFails, storeVars
<1>2. Typed /\ Sound /\ past = {} /\ fault = "none"
  BY <1>1, IdleSound
<1>3. offset \in Nat /\ n \in Nat \ {0} /\ l \in Seq(Chunk)
  BY <1>1, DataFacts, ListForFacts, SizesAssumption DEF Offsets
<1>4. ASSUME l = chunkinfo PROVE FALSE
  <2>1. WellPlaced(l) /\ l # <<>> /\ Missing(SubSeq(l, first, last))
    BY <1>1, <1>4, LargeFile
  <2> HIDE DEF l, n
  <2>2. Covers(l, first, last, offset, n)
    BY <1>3, <2>1, WriteRange
  <2> HIDE DEF first, last
  <2>3. first \in Nat \ {0} /\ last \in Nat /\ last <= Len(l)
    BY <1>3, <2>2 DEF Covers
  <2>4. ~Missing(SubSeq(l, first, last))
    BY <1>1, <1>4, <2>3, NothingMissing
  <2>5. QED
    BY <2>1, <2>4
<1>5. past' \subseteq Events /\ behind' \subseteq Fds /\ past' # {}
  BY <1>1, <1>2, <1>4, NoteWriteStep
<1>6. open_files_' \in [Fds -> OpenFile]
  <2>1. open_files_ \in [Fds -> OpenFile]
    BY <1>2 DEF Typed
  <2> DEFINE g == [open_files_ EXCEPT ![fd].chunks = l]
  <2> HIDE DEF l
  <2>2. g \in [Fds -> OpenFile]
    BY <1>3, <2>1, OpenFilesUpdate
  <2> HIDE DEF g
  <2>3. QED
    BY <1>1, <2>2 DEF g
<1>7. fault' \in {"none", "throw", "undefined", "missing"} /\ <<>> \in Seq(Units)
  BY <1>1
<1>8. Typed'
  BY <1>1, <1>2, <1>5, <1>6, <1>7 DEF Typed
<1>9. QED
  BY <1>5, <1>8 DEF IInv

-----------------------------------------------------------------------------
(* Truncating.                                                             *)

\* The invariant is about the variables only.
LEMMA StutterStep == IInv /\ UNCHANGED vars => IInv'
<1> SUFFICES ASSUME IInv, UNCHANGED vars PROVE IInv'
  OBVIOUS
<1>1. /\ exists' = exists /\ size' = size /\ chunkinfo' = chunkinfo /\ truncated' = truncated
      /\ buffer' = buffer /\ content' = content /\ open_files_' = open_files_
      /\ store' = store /\ chunk_splitter_' = chunk_splitter_
      /\ fault' = fault /\ misread' = misread /\ behind' = behind /\ past' = past
  BY DEF vars
<1>2. Typed'
  BY <1>1 DEF IInv, Typed
<1>3. ASSUME past' = {} PROVE Sound'
  <2>1. Sound
    BY <1>1, <1>3 DEF IInv
  <2>2. ListsAreWellPlaced'
    BY <1>1, <2>1 DEF Sound, ListsAreWellPlaced, Chunks
  <2>3. ListIsCounted' /\ ListIsContent'
    BY <1>1, <2>1 DEF Sound, ListIsCounted, ListIsContent, IsLarge
  <2>4. QED
    BY <1>1, <2>1, <2>2, <2>3 DEF Sound, IsOpen
<1>4. QED
  BY <1>2, <1>3 DEF IInv

\* A truncation upwards does nothing.
LEMMA TruncateUpStep == \A n \in 0..MaxSize : IInv /\ TruncateUp(n) => IInv'
  BY StutterStep DEF TruncateUp

\* What a truncation leaves of the content.
LEMMA ShorterContent ==
    ASSUME IInv, Idle, NEW n \in Nat, n < size
    PROVE  Slice(content, 0, n) \in Seq(Units) /\ Len(Slice(content, 0, n)) = n
<1>1. content \in Seq(Units) /\ size = Len(content)
  BY IdleSound DEF Typed, Sound, ListIsContent
<1>2. 0 \in Nat /\ 0 + n <= Len(content) /\ 0 + n = n
  BY <1>1
<1>3. Slice(content, 0, n) \in Seq(Units)
      /\ Len(Slice(content, 0, n)) = IF 0 < n THEN n - 0 ELSE 0
  <2> DEFINE hi == IF 0 + n <= Len(content) THEN 0 + n ELSE Len(content)
  <2>1. Slice(content, 0, n) \in Seq(Units)
        /\ Len(Slice(content, 0, n)) = IF 0 < hi THEN hi - 0 ELSE 0
    BY <1>1, SliceFacts
  <2>2. hi = n
    BY <1>2
  <2> HIDE DEF hi
  <2>3. QED
    BY <2>1, <2>2
<1> HIDE DEF Slice
<1>4. QED
  BY <1>3

\* A small file is cut in its buffer file.
LEMMA TruncateLocalStep == \A n \in 0..MaxSize : IInv /\ TruncateLocal(n) => IInv'
<1> SUFFICES ASSUME NEW n \in 0..MaxSize, IInv, TruncateLocal(n) PROVE IInv'
  OBVIOUS
<1>1. /\ Idle /\ exists /\ n < size /\ ~IsLarge
      /\ buffer' = Resized(buffer, n) /\ content' = Slice(content, 0, n) /\ size' = n
      /\ exists' = exists /\ chunkinfo' = chunkinfo /\ truncated' = truncated
      /\ open_files_' = open_files_ /\ store' = store /\ chunk_splitter_' = chunk_splitter_
      /\ fault' = fault /\ misread' = misread /\ behind' = behind /\ past' = past
  BY DEF TruncateLocal, storeVars, pastVars
<1>2. Typed /\ Sound /\ past = {} /\ fault = "none"
  BY <1>1, IdleSound
<1>3. buffer = content /\ content \in Seq(Units) /\ size = Len(content) /\ Bytes(chunkinfo) = <<>>
  BY <1>1, <1>2 DEF Sound, ListIsContent, Typed
<1>4. n \in Nat /\ MaxSize \in Nat /\ Threshold \in Nat
  BY SizesAssumption
<1>5. content' \in Seq(Units) /\ Len(content') = n
  BY <1>1, <1>4, ShorterContent
<1>6. buffer' = content'
  BY <1>1, <1>3, <1>4, ResizedFacts
<1>7. Typed'
  BY <1>1, <1>2, <1>5, <1>6 DEF Typed
<1>8. ListsAreWellPlaced' /\ ListIsCounted'
  BY <1>1, <1>2 DEF Sound, ListsAreWellPlaced, ListIsCounted, Chunks
<1>9. ListIsContent'
  <2>1. ~IsLarge'
    BY <1>1, <1>3, <1>4 DEF IsLarge
  <2>2. QED
    BY <1>1, <1>3, <1>5, <1>6, <2>1 DEF ListIsContent
<1>10. QED
  BY <1>1, <1>2, <1>7, <1>8, <1>9 DEF IInv, Sound, IsOpen

\* The chunks of a part of a list are counted in the list.
LEMMA PartCounted ==
    ASSUME NEW l \in Seq(Chunk), NEW first \in 1..Len(l)+1, NEW last \in first-1..Len(l)
    PROVE  \A k \in ChunkKeys : Occurrences(SubSeq(l, first, last), k) <= Occurrences(l, k)
<1> SUFFICES ASSUME NEW k \in ChunkKeys
             PROVE  Occurrences(SubSeq(l, first, last), k) <= Occurrences(l, k)
  OBVIOUS
<1> DEFINE a == SubSeq(l, 1, first-1)
           b == SubSeq(l, first, last)
           c == SubSeq(l, last+1, Len(l))
           ab == a \o b
<1>1. a \in Seq(Chunk) /\ b \in Seq(Chunk) /\ c \in Seq(Chunk) /\ a \o b \in Seq(Chunk) /\ l = (a \o b) \o c
  BY CutList
<1> HIDE DEF a, b, c
<1>2. Occurrences(a \o b, k) = Occurrences(a, k) + Occurrences(b, k)
  BY <1>1, ListConcat
<1>3. ab \in Seq(Chunk) /\ l = ab \o c
  BY <1>1
<1> HIDE DEF ab
<1>4. Occurrences(ab \o c, k) = Occurrences(ab, k) + Occurrences(c, k)
  BY <1>1, <1>3, ListConcat
<1>5. Occurrences(a, k) \in Nat /\ Occurrences(b, k) \in Nat /\ Occurrences(c, k) \in Nat
  BY <1>1, OccurrencesAre
<1>6. Occurrences(l, k) = Occurrences(a, k) + Occurrences(b, k) + Occurrences(c, k)
  BY <1>2, <1>3, <1>4 DEF ab
<1>7. QED
  BY <1>5, <1>6 DEF b

\* The chunk that the new end of a large file lies in.
LEMMA ChunkOfEnd ==
    ASSUME IInv, Idle, IsLarge, NEW n \in Nat, n < size, NEW i, i = ChunkAt(chunkinfo, n)
    PROVE  /\ i \in 1..Len(chunkinfo) /\ OffsetOf(chunkinfo, i) <= n
           /\ n < OffsetOf(chunkinfo, i+1)
<1>1. chunkinfo \in Seq(Chunk) /\ size = Len(Bytes(chunkinfo)) /\ Len(Bytes(chunkinfo)) \in Nat
  <2>1. chunkinfo \in Seq(Chunk) /\ size = Len(Bytes(chunkinfo))
    BY LargeFile DEF WellPlaced
  <2>2. QED
    BY <2>1, KeysOfFacts
<1>2. ChunkAt(chunkinfo, n) = 0 => Len(Bytes(chunkinfo)) <= n
  BY <1>1, ChunkAtFacts
<1>3. i # 0
  BY <1>1, <1>2
<1>4. QED
  BY <1>1, <1>3, ChunkAtFacts

\* A list that the table counts can be released.
LEMMA Releasable ==
    ASSUME IInv, Idle, NEW first \in 1..Len(chunkinfo)+1, NEW b,
           b = SubSeq(chunkinfo, first, Len(chunkinfo))
    PROVE  /\ b \in Seq(Chunk) /\ ~Throws(store, b)
           /\ Proper(ReleaseAll(store, b))
           /\ \A k \in ChunkKeys :
                ReleaseAll(store, b).table[k].ref = Occurrences(chunkinfo, k) - Occurrences(b, k)
<1>1. Proper(store) /\ (\A k \in ChunkKeys : store.table[k].ref = Occurrences(chunkinfo, k))
      /\ chunkinfo \in Seq(Chunk) /\ Len(chunkinfo) \in Nat
  BY IdleSound DEF Sound, ListIsCounted, Typed
<1> DEFINE len == Len(chunkinfo)
<1>2. len \in first-1..Len(chunkinfo) /\ b = SubSeq(chunkinfo, first, len)
  BY <1>1
<1> HIDE DEF len
<1>3. b \in Seq(Chunk)
  BY <1>1, <1>2, CutList
<1>4. \A k \in ChunkKeys : Occurrences(b, k) <= Occurrences(chunkinfo, k)
  BY <1>1, <1>2, PartCounted
<1>5. \A k \in ChunkKeys : Occurrences(b, k) \in Nat /\ Occurrences(chunkinfo, k) \in Nat
  BY <1>1, <1>3, OccurrencesAre
<1>6. \A k \in ChunkKeys : Occurrences(b, k) <= store.table[k].ref
  BY <1>1, <1>4
<1>7. ~Throws(store, b)
  <2>1. \A k \in ChunkKeys : ~(Occurrences(b, k) > store.table[k].ref)
    BY <1>1, <1>5, <1>6
  <2>2. QED
    BY <2>1 DEF Throws
<1>8. Proper(ReleaseAll(store, b)) /\ \A k \in ChunkKeys :
         ReleaseAll(store, b).table[k].ref = store.table[k].ref - Occurrences(b, k)
  BY <1>1, <1>3, <1>6, ReleaseAllCounts
<1> HIDE DEF ReleaseAll
<1>9. QED
  BY <1>1, <1>3, <1>7, <1>8

\* A file that becomes small is loaded and its chunks are released.
LEMMA TruncateToLocalStep == \A n \in 0..MaxSize : IInv /\ TruncateToLocal(n) => IInv'
<1> SUFFICES ASSUME NEW n \in 0..MaxSize, IInv, TruncateToLocal(n) PROVE IInv'
  OBVIOUS
<1> DEFINE i == ChunkAt(chunkinfo, n)
           loaded == SubSeq(chunkinfo, 1, i)
           s == ReleaseAll(store, chunkinfo)
<1>1. /\ Idle /\ exists /\ n < size /\ IsLarge /\ n <= Threshold
      /\ fault' = TruncateFault(loaded, chunkinfo)
      /\ buffer' = Resized(Bytes(loaded), n) /\ content' = Slice(content, 0, n) /\ size' = n
      /\ store' = s /\ chunkinfo' = <<>> /\ truncated' = TRUE /\ behind' = OpenFds
      /\ exists' = exists /\ open_files_' = open_files_ /\ chunk_splitter_' = chunk_splitter_
      /\ misread' = misread /\ past' = past
  BY DEF TruncateToLocal
<1>2. Typed /\ Sound /\ past = {} /\ fault = "none"
  BY <1>1, IdleSound
<1>3. n \in Nat /\ MaxSize \in Nat /\ Threshold \in Nat
  BY SizesAssumption
<1>4. chunkinfo \in Seq(Chunk) /\ content \in Seq(Units) /\ Bytes(chunkinfo) = content
  BY <1>1, LargeFile DEF WellPlaced
<1>i. i = ChunkAt(chunkinfo, n)
  OBVIOUS
<1> HIDE DEF i
<1>5. i \in 1..Len(chunkinfo) /\ n < OffsetOf(chunkinfo, i+1)
  BY <1>1, <1>3, <1>i, ChunkOfEnd
<1>6. content' \in Seq(Units) /\ Len(content') = n
  BY <1>1, <1>3, ShorterContent
<1>7. fault' = "none"
  <2>1. 1 \in Nat \ {0} /\ i \in Nat /\ i <= Len(chunkinfo)
    BY <1>4, <1>5
  <2>2. ~Missing(loaded)
    BY <1>1, <2>1, NothingMissing
  <2>3. chunkinfo = SubSeq(chunkinfo, 1, Len(chunkinfo)) /\ 1 \in 1..Len(chunkinfo)+1
    BY <1>4
  <2>4. ~Throws(store, chunkinfo)
    BY <1>1, <2>3, Releasable
  <2>5. QED
    BY <1>1, <1>2, <2>2, <2>4 DEF TruncateFault
<1>8. Proper(s) /\ \A k \in ChunkKeys : s.table[k].ref = 0
  <2>1. chunkinfo = SubSeq(chunkinfo, 1, Len(chunkinfo)) /\ 1 \in 1..Len(chunkinfo)+1
    BY <1>4
  <2>2. Proper(s) /\ \A k \in ChunkKeys :
           s.table[k].ref = Occurrences(chunkinfo, k) - Occurrences(chunkinfo, k)
    BY <1>1, <2>1, Releasable
  <2>3. \A k \in ChunkKeys : Occurrences(chunkinfo, k) \in Nat
    BY <1>4, OccurrencesAre
  <2> HIDE DEF s
  <2>4. QED
    BY <2>2, <2>3
<1> HIDE DEF s
<1>9. buffer' = content'
  <2> DEFINE A == Bytes(SubSeq(chunkinfo, 1, 1-1))
             L == Bytes(SubSeq(chunkinfo, 1, i))
             R == Bytes(SubSeq(chunkinfo, i+1, Len(chunkinfo)))
  <2>1. 1 \in 1..Len(chunkinfo)+1 /\ i \in 1-1..Len(chunkinfo)
    BY <1>4, <1>5
  <2>2. /\ A \in Seq(Units) /\ L \in Seq(Units) /\ R \in Seq(Units)
        /\ Bytes(chunkinfo) = (A \o L) \o R
        /\ OffsetOf(chunkinfo, 1) = Len(A) /\ OffsetOf(chunkinfo, i+1) = Len(A) + Len(L)
    BY <1>4, <2>1, PartOfContent
  <2>3. OffsetOf(chunkinfo, 1) = 0
    BY <1>4, OffsetEnds
  <2> HIDE DEF A, R
  <2>4. Len(A) = 0 /\ 0 - Len(A) = 0 /\ n < Len(L) /\ Len(L) \in Nat
    <3> DEFINE a == Len(A)
               m == Len(L)
    <3>1. a = 0 /\ n < a + m /\ m \in Nat
      BY <1>5, <2>2, <2>3
    <3> HIDE DEF a, m
    <3>2. 0 - a = 0 /\ n < m
      BY <3>1
    <3>3. QED
      BY <3>1, <3>2 DEF a, m
  <2> HIDE DEF L
  <2>5. 0 \in Nat /\ Len(A) <= 0 /\ (R = <<>> \/ 0 + n <= Len(A) + Len(L))
    BY <1>3, <2>4
  <2>6. Slice((A \o L) \o R, 0, n) = Slice(L, 0 - Len(A), n)
    BY <1>3, <2>2, <2>5, SliceWithin
  <2>7. n <= Len(L)
    BY <1>3, <2>4
  <2>8. Resized(L, n) = Slice(L, 0, n)
    BY <1>3, <2>2, <2>7, ResizedFacts
  <2>9. content' = Slice((A \o L) \o R, 0, n)
    BY <1>1, <1>4, <2>2
  <2>10. buffer' = Resized(L, n)
    BY <1>1 DEF L
  <2> HIDE DEF Slice, Resized
  <2>11. QED
    BY <2>4, <2>6, <2>8, <2>9, <2>10
<1> HIDE DEF loaded
<1>10. <<>> \in Seq(Chunk) /\ Bytes(<<>>) = <<>> /\ \A k \in ChunkKeys : Occurrences(<<>>, k) = 0
  BY EmptyList
<1>11. Typed'
  <2>1. store' \in [table : [ChunkKeys -> Table!Entry], objects : SUBSET ChunkKeys]
    BY <1>1, <1>8, ProperTyped
  <2>2. behind' \subseteq Fds /\ size' \in 0..MaxSize
    BY <1>1 DEF OpenFds
  <2>3. QED
    BY <1>1, <1>2, <1>6, <1>7, <1>9, <1>10, <2>1, <2>2 DEF Typed
<1>12. ListsAreWellPlaced'
  BY <1>1, <1>2, EmptyWellPlaced DEF Sound, ListsAreWellPlaced, Chunks
<1>13. ListIsCounted'
  BY <1>1, <1>8, <1>10 DEF ListIsCounted
<1>14. ListIsContent'
  <2>1. ~IsLarge'
    BY <1>1, <1>3 DEF IsLarge
  <2>2. QED
    BY <1>1, <1>6, <1>9, <1>10, <2>1 DEF ListIsContent
<1>15. QED
  BY <1>1, <1>2, <1>7, <1>11, <1>12, <1>13, <1>14 DEF IInv, Sound, IsOpen

\* A truncation that leaves the splitter unfit ends what is claimed.
LEMMA TruncateUndefinedStep ==
    \A n \in 0..MaxSize : IInv /\ TruncateUndefined(n) => IInv'
<1> SUFFICES ASSUME NEW n \in 0..MaxSize, IInv, TruncateUndefined(n) PROVE IInv'
  OBVIOUS
<1>1. /\ fault' = "undefined" /\ past' = past \union {"cut"}
      /\ exists' = exists /\ size' = size /\ chunkinfo' = chunkinfo /\ truncated' = truncated
      /\ content' = content /\ buffer' = buffer /\ open_files_' = open_files_
      /\ store' = store /\ chunk_splitter_' = chunk_splitter_
      /\ misread' = misread /\ behind' = behind
  BY DEF TruncateUndefined, fileVars, storeVars
<1>2. past' \subseteq Events /\ past' # {}
  BY <1>1 DEF IInv, Typed, Events
<1>3. QED
  BY <1>1, <1>2 DEF IInv, Typed

\* The chunk that a truncation rechunks, and what is left of it.
LEMMA CutChunk ==
    ASSUME IInv, Idle, IsLarge, NEW n \in Nat, n < size, NEW i, i = CutIdx(n),
           NEW base, base = chunkinfo[i].start, NEW key, key = chunkinfo[i].key,
           NEW bytes, bytes = Slice(key, 0, n - base)
    PROVE  /\ i \in 1..Len(chunkinfo) /\ key \in ChunkKeys
           /\ base = OffsetOf(chunkinfo, i) /\ base \in Nat /\ base <= n /\ n < base + Len(key)
           /\ bytes \in Seq(Units) /\ Unended(bytes) /\ Len(bytes) = n - base
           /\ bytes = <<>> \/ bytes \in ChunkKeys
<1> DEFINE j == ChunkAt(chunkinfo, n)
<1>1. WellPlaced(chunkinfo) /\ chunkinfo \in Seq(Chunk)
  BY LargeFile DEF WellPlaced
<1>j. j = ChunkAt(chunkinfo, n)
  OBVIOUS
<1> HIDE DEF j
<1>2. j \in 1..Len(chunkinfo) /\ OffsetOf(chunkinfo, j) <= n /\ n < OffsetOf(chunkinfo, j+1)
  BY <1>j, ChunkOfEnd
<1>3. OffsetOf(chunkinfo, j+1) = OffsetOf(chunkinfo, j) + Len(chunkinfo[j].key)
      /\ Len(chunkinfo[j].key) \in Nat
  BY <1>1, <1>2, OffsetStep
<1>4. OffsetOf(chunkinfo, j) \in Nat
  <2>1. j \in 1..Len(chunkinfo)+1
    BY <1>2
  <2>2. QED
    BY <1>1, <2>1, OffsetTyped
<1> HIDE DEF OffsetOf
<1>5. chunkinfo[j].start = OffsetOf(chunkinfo, j)
  <2>1. chunkinfo[j].start = 0 + OffsetOf(chunkinfo, j)
    BY <1>1, <1>2 DEF WellPlaced, PlacedFrom
  <2>2. QED
    BY <1>4, <2>1
<1>6. i = j
  <2>1. chunkinfo[j].start + Len(chunkinfo[j].key) # n
    BY <1>2, <1>3, <1>4, <1>5
  <2>2. QED
    BY <1>j, <2>1 DEF CutIdx
<1>7. i \in 1..Len(chunkinfo) /\ base = OffsetOf(chunkinfo, i) /\ base \in Nat /\ base <= n
      /\ n < base + Len(key) /\ Len(key) \in Nat
  BY <1>2, <1>3, <1>4, <1>5, <1>6
<1>8. key \in ChunkKeys /\ Uncut(key)
  <2>1. chunkinfo[i] \in Chunk /\ Uncut(chunkinfo[i].key)
    BY <1>1, <1>7 DEF WellPlaced
  <2>2. QED
    BY <2>1 DEF Chunk
<1> DEFINE m == n - base
<1>9. m \in Nat /\ m < Len(key) /\ bytes = Slice(key, 0, m)
  BY <1>7
<1> HIDE DEF m
<1>10. bytes \in Seq(Units) /\ Unended(bytes) /\ Len(bytes) = m /\ (bytes = <<>> <=> m = 0)
  BY <1>8, <1>9, UnendedSlice
<1>11. bytes = <<>> \/ bytes \in ChunkKeys
  <2>1. Len(key) <= MaxSeg /\ Len(key) \in Nat /\ MaxSeg \in Nat
    BY <1>8, ChunkKeyFacts, SegmentAssumption
  <2>2. m # 0 => Len(bytes) \in 1..MaxSeg
    BY <1>9, <1>10, <2>1
  <2>3. QED
    BY <1>10, <2>2, ChunkKeyFacts
<1>12. QED
  BY <1>7, <1>8, <1>10, <1>11 DEF m

\* A part of a chunk is not cut again, and the splitter stays where it was.
LEMMA CutPart ==
    ASSUME NEW bytes \in Seq(Units), Unended(bytes), bytes = <<>> \/ bytes \in ChunkKeys,
           NEW start \in 0..MaxSize
    PROVE  /\ Segments(bytes) \in Seq(ChunkKeys)
           /\ bytes = <<>> => Segments(bytes) = <<>>
           /\ Placed(start, Segments(bytes)) \in Seq(Chunk)
           /\ bytes = <<>> => Placed(start, Segments(bytes)) = <<>>
           /\ SplitterAfter(start, bytes) \in Splitter
<1> DEFINE segs == Segments(bytes)
<1>1. /\ Split(bytes).rest = bytes
      /\ segs = IF bytes = <<>> THEN <<>> ELSE <<bytes>>
  BY SplitUnended
<1>2. segs \in Seq(ChunkKeys)
  BY SegmentsFacts
<1> HIDE DEF segs
<1>3. Len(segs) = IF bytes = <<>> THEN 0 ELSE 1
  BY <1>1
<1> DEFINE l == Placed(start, segs)
           n == Len(segs)
<1>4. ASSUME NEW i \in 1..n PROVE start + Len(FlattenSeq(SubSeq(segs, 1, i-1))) = start
  <2>1. i - 1 = 0
    BY <1>3
  <2>2. SubSeq(segs, 1, 0) = <<>>
    BY <1>2, PrefixFacts
  <2>3. FlattenSeq(SubSeq(segs, 1, i-1)) = <<>>
    BY <2>1, <2>2, FlattenEmpty
  <2>4. QED
    BY <2>3, SizesAssumption
<1>5. l = [i \in 1..n |-> [start |-> start + Len(FlattenSeq(SubSeq(segs, 1, i-1))), key |-> segs[i]]]
  <2>1. DOMAIN segs = 1..n
    BY <1>2
  <2>2. QED
    BY <2>1 DEF Placed
<1> HIDE DEF l
<1>6. l = [i \in 1..n |-> [start |-> start, key |-> segs[i]]]
  BY <1>4, <1>5
<1>7. \A i \in 1..n : [start |-> start, key |-> segs[i]] \in Chunk
  <2>1. \A i \in 1..n : segs[i] \in ChunkKeys
    BY <1>2
  <2>2. QED
    BY <2>1 DEF Chunk
<1>8. l \in Seq(Chunk) /\ Len(l) = n
  <2>1. l \in [1..n -> Chunk] /\ n \in Nat
    BY <1>2, <1>6, <1>7
  <2> HIDE DEF n
  <2>2. QED
    BY <2>1
<1>9. SplitterAfter(start, bytes) \in Splitter
  <2>1. start + Len(bytes) - Len(bytes) = start
    BY SizesAssumption
  <2>2. QED
    BY <1>1, <2>1 DEF SplitterAfter, Splitter
<1>10. bytes = <<>> => l = <<>>
  BY <1>3, <1>8
<1>11. QED
  BY <1>1, <1>2, <1>8, <1>9, <1>10 DEF l, segs

\* The content that is left is that of the chunks before the cut and of the part.
LEMMA CutContent ==
    ASSUME IInv, Idle, IsLarge, NEW n \in Nat, NEW i \in 1..Len(chunkinfo),
           OffsetOf(chunkinfo, i) <= n, n < OffsetOf(chunkinfo, i) + Len(chunkinfo[i].key)
    PROVE  Slice(content, 0, n) = Bytes(SubSeq(chunkinfo, 1, i-1))
                                     \o Slice(chunkinfo[i].key, 0, n - OffsetOf(chunkinfo, i))
<1> DEFINE A == Bytes(SubSeq(chunkinfo, 1, i-1))
           L == Bytes(SubSeq(chunkinfo, i, i))
           R == Bytes(SubSeq(chunkinfo, i+1, Len(chunkinfo)))
           key == chunkinfo[i].key
<1>1. chunkinfo \in Seq(Chunk) /\ Bytes(chunkinfo) = content
  BY LargeFile DEF WellPlaced
<1>2. i \in 1..Len(chunkinfo)+1 /\ i \in i-1..Len(chunkinfo) /\ Len(chunkinfo) \in Nat /\ i \in Nat \ {0}
      /\ chunkinfo[i] \in Chunk
  BY <1>1
<1>3. /\ A \in Seq(Units) /\ L \in Seq(Units) /\ R \in Seq(Units)
      /\ Bytes(chunkinfo) = (A \o L) \o R
      /\ OffsetOf(chunkinfo, i) = Len(A)
  <2> DEFINE l == chunkinfo
             last == i
  <2>1. l \in Seq(Chunk) /\ last \in i-1..Len(l) /\ i \in 1..Len(l)+1
    BY <1>1, <1>2
  <2>2. last = i /\ l = chunkinfo
    OBVIOUS
  <2> HIDE DEF A, L, R, last, l
  <2>3. /\ Bytes(SubSeq(l, 1, i-1)) \in Seq(Units) /\ Bytes(SubSeq(l, i, last)) \in Seq(Units)
        /\ Bytes(SubSeq(l, last+1, Len(l))) \in Seq(Units)
        /\ Bytes(l) = (Bytes(SubSeq(l, 1, i-1)) \o Bytes(SubSeq(l, i, last)))
                          \o Bytes(SubSeq(l, last+1, Len(l)))
        /\ OffsetOf(l, i) = Len(Bytes(SubSeq(l, 1, i-1)))
    BY <2>1, PartOfContent
  <2>4. QED
    BY <2>2, <2>3 DEF A, L, R
<1>4. L = key
  <2> DEFINE b == SubSeq(chunkinfo, i, i)
  <2>1. b \in Seq(Chunk) /\ Len(b) = (IF i <= i THEN i-i+1 ELSE 0)
        /\ \A m \in 1..i-i+1 : b[m] = chunkinfo[i+m-1]
    <3>1. i \in Nat /\ i <= Len(chunkinfo)
      BY <1>2
    <3>2. QED
      BY <1>1, <1>2, <3>1, PartOfList
  <2>2. i-i+1 = 1 /\ i+1-1 = i /\ i <= i
    BY <1>2
  <2> HIDE DEF b
  <2>3. b \in Seq(Chunk) /\ Len(b) = 1 /\ b[1] = chunkinfo[i]
    BY <2>1, <2>2
  <2>4. b = <<chunkinfo[i]>>
    BY <2>3
  <2>5. Bytes(<<chunkinfo[i]>>) = key
    BY <1>2, OneChunk
  <2>6. QED
    BY <2>4, <2>5 DEF b
<1> HIDE DEF A, L, R, key
<1>5. Len(A) <= n /\ n <= Len(A) + Len(L)
  <2> DEFINE a == Len(A)
             l == Len(L)
  <2>1. a \in Nat /\ l \in Nat /\ a <= n /\ n < a + l
    BY <1>3, <1>4 DEF key
  <2> HIDE DEF a, l
  <2>2. a <= n /\ n <= a + l
    BY <2>1
  <2>3. QED
    BY <2>2 DEF a, l
<1>6. Slice((A \o L) \o R, 0, n) = A \o Slice(L, 0, n - Len(A))
  BY <1>3, <1>5, SliceAcross
<1> HIDE DEF Slice
<1>7. QED
  BY <1>1, <1>3, <1>4, <1>6 DEF A, key

\* What is rechunked in place is what a write to the end of the list builds.
LEMMA SplicedAtEnd ==
    ASSUME NEW l \in Seq(Chunk), NEW i \in 1..Len(l), NEW base, NEW bytes,
           Placed(base, Segments(bytes)) \in Seq(Chunk), NEW len, len = Len(l)
    PROVE  /\ Spliced(l, i, len, base, bytes) = SubSeq(l, 1, i-1) \o Placed(base, Segments(bytes))
           /\ SubSeq(l, 1, i-1) \o Placed(base, Segments(bytes)) \in Seq(Chunk)
           /\ SubSeq(l, len+1, Len(l)) = <<>>
<1> DEFINE a == SubSeq(l, 1, i-1)
           p == Placed(base, Segments(bytes))
<1>1. a \in Seq(Chunk)
  <2>1. i-1 \in Nat /\ i-1 <= Len(l) /\ 1 \in Nat \ {0}
    OBVIOUS
  <2>2. QED
    BY <2>1, PartOfList
<1>2. SubSeq(l, len+1, Len(l)) = <<>>
  <2>1. len+1 \in Int /\ len \in Int /\ len < len+1
    OBVIOUS
  <2>2. QED
    BY <2>1, SubSeqEmpty
<1>3. Spliced(l, i, len, base, bytes) = (a \o p) \o <<>>
  BY <1>2 DEF Spliced
<1> HIDE DEF a, p
<1>4. p \in Seq(Chunk)
  BY DEF p
<1>5. a \o p \in Seq(Chunk)
  BY <1>1, <1>4
<1>6. (a \o p) \o <<>> = a \o p
  BY <1>5
<1>7. QED
  BY <1>2, <1>3, <1>5, <1>6 DEF a, p

\* A file that stays large keeps the chunks before the cut and a part of one.
LEMMA TruncateChunksStep == \A n \in 0..MaxSize : IInv /\ TruncateChunks(n) => IInv'
<1> SUFFICES ASSUME NEW n \in 0..MaxSize, IInv, TruncateChunks(n) PROVE IInv'
  OBVIOUS
<1> DEFINE i == CutIdx(n)
           cut == SubSeq(chunkinfo, i, Len(chunkinfo))
           base == chunkinfo[i].start
           key == chunkinfo[i].key
           bytes == Slice(key, 0, n - base)
           start == chunk_splitter_.start
           inPlace == bytes = <<>> \/ start = base
           segs == Segments(bytes)
           released == ReleaseAll(store, cut)
           used == UseAll(released, segs)
           a == SubSeq(chunkinfo, 1, i-1)
           r == a \o Placed(start, segs)
<1>1. /\ Idle /\ exists /\ n < size /\ n > Threshold
      /\ fault' = TruncateFault(<<chunkinfo[i]>>, cut)
      /\ buffer' = bytes /\ content' = Slice(content, 0, n) /\ size' = n
      /\ store' = [used EXCEPT !.objects = IF inPlace THEN @ ELSE released.objects]
      /\ chunkinfo' = r /\ chunk_splitter_' = SplitterAfter(start, bytes)
      /\ truncated' = TRUE /\ behind' = OpenFds
      /\ past' = IF inPlace THEN past ELSE past \union {"cut"}
      /\ exists' = exists /\ open_files_' = open_files_ /\ misread' = misread
  BY Zenon DEF TruncateChunks
<1>2. Typed /\ Sound /\ past = {} /\ fault = "none"
  BY <1>1, IdleSound
<1>3. n \in Nat /\ MaxSize \in Nat /\ Threshold \in Nat
  BY SizesAssumption
<1>4. IsLarge
  <2>1. size \in 0..MaxSize
    BY <1>2 DEF Typed
  <2>2. QED
    BY <1>1, <1>3, <2>1 DEF IsLarge
<1>5. chunkinfo \in Seq(Chunk) /\ Len(chunkinfo) \in Nat /\ WellPlaced(chunkinfo)
      /\ size = Len(content) /\ Len(content) <= MaxSize
  <2>1. WellPlaced(chunkinfo) /\ size = Len(content) /\ Bytes(chunkinfo) = content
    BY <1>1, <1>4, LargeFile
  <2>2. QED
    BY <2>1 DEF WellPlaced
<1>6. i = CutIdx(n) /\ base = chunkinfo[i].start /\ key = chunkinfo[i].key
      /\ bytes = Slice(key, 0, n - base)
  OBVIOUS
<1> HIDE DEF i, base, key, bytes
<1>7. /\ i \in 1..Len(chunkinfo) /\ key \in ChunkKeys
      /\ base = OffsetOf(chunkinfo, i) /\ base \in Nat /\ base <= n /\ n < base + Len(key)
      /\ bytes \in Seq(Units) /\ Unended(bytes) /\ Len(bytes) = n - base
      /\ bytes = <<>> \/ bytes \in ChunkKeys
  BY <1>1, <1>3, <1>4, <1>6, CutChunk
<1>8. start \in 0..MaxSize /\ base \in 0..MaxSize
  BY <1>2, <1>3, <1>7 DEF Typed, Splitter
<1> HIDE DEF start
<1>9. /\ segs \in Seq(ChunkKeys)
      /\ Placed(start, segs) \in Seq(Chunk) /\ Placed(base, segs) \in Seq(Chunk)
      /\ bytes = <<>> => Placed(start, segs) = Placed(base, segs)
      /\ SplitterAfter(start, bytes) \in Splitter
  <2>1. /\ segs \in Seq(ChunkKeys)
        /\ Placed(start, segs) \in Seq(Chunk)
        /\ bytes = <<>> => Placed(start, segs) = <<>>
        /\ SplitterAfter(start, bytes) \in Splitter
    BY <1>7, <1>8, CutPart
  <2>2. Placed(base, segs) \in Seq(Chunk) /\ (bytes = <<>> => Placed(base, segs) = <<>>)
    BY <1>7, <1>8, CutPart
  <2>3. QED
    BY <2>1, <2>2
<1>10. i \in 1..Len(chunkinfo)+1
  BY <1>5, <1>7
<1>11. /\ cut \in Seq(Chunk) /\ ~Throws(store, cut) /\ Proper(released)
       /\ \A k \in ChunkKeys : released.table[k].ref = Occurrences(chunkinfo, k) - Occurrences(cut, k)
  BY <1>1, <1>10, Releasable
<1> HIDE DEF released
<1>12. /\ Proper(used)
       /\ \A k \in ChunkKeys : used.table[k].ref = released.table[k].ref + Count(segs, k)
  <2>1. segs \in Seq(ChunkKeys)
    BY <1>9
  <2> HIDE DEF segs
  <2>2. QED
    BY <1>11, <2>1, UseAllCounts
<1> HIDE DEF used
<1>13. fault' = "none"
  <2>1. ~Missing(<<chunkinfo[i]>>)
    <3>1. chunkinfo[i].key \in store.objects
      BY <1>1, <1>4, <1>7, LargeFile
    <3>2. DOMAIN <<chunkinfo[i]>> = {1} /\ <<chunkinfo[i]>>[1] = chunkinfo[i]
      OBVIOUS
    <3>3. QED
      BY <3>1, <3>2 DEF Missing
  <2>2. QED
    BY <1>1, <1>2, <1>11, <2>1 DEF TruncateFault
<1>14. content' \in Seq(Units) /\ Len(content') = n
  BY <1>1, <1>3, ShorterContent
<1>15. a \in Seq(Chunk)
  <2>1. i-1 \in Nat /\ i-1 <= Len(chunkinfo) /\ 1 \in Nat \ {0}
    BY <1>5, <1>7
  <2>2. QED
    BY <1>5, <2>1, PartOfList
<1>16. r \in Seq(Chunk)
  <2> DEFINE p == Placed(start, segs)
  <2>1. p \in Seq(Chunk)
    BY <1>9
  <2> HIDE DEF p, a
  <2>2. a \o p \in Seq(Chunk)
    BY <1>15, <2>1
  <2>3. QED
    BY <2>2 DEF p
<1>17. Typed'
  <2> DEFINE All == [table : [ChunkKeys -> Table!Entry], objects : SUBSET ChunkKeys]
  <2>1. used \in All /\ released \in All
    BY <1>11, <1>12, ProperTyped
  <2>2. store' \in All
    <3> HIDE DEF inPlace
    <3>1. CASE inPlace
      BY <1>1, <2>1, <3>1
    <3>2. CASE ~inPlace
      BY <1>1, <2>1, <3>2
    <3>3. QED
      BY <3>1, <3>2
  <2>3. behind' \subseteq Fds /\ size' \in 0..MaxSize
    BY <1>1 DEF OpenFds
  <2>4. past' \subseteq Events
    BY <1>1, <1>2 DEF Typed, Events
  <2> HIDE DEF r, inPlace
  <2>5. QED
    BY <1>1, <1>2, <1>7, <1>9, <1>13, <1>14, <1>16, <2>2, <2>3, <2>4 DEF Typed
<1>18. ASSUME past' = {} PROVE Sound'
  <2>1. inPlace
    BY <1>1, <1>18
  <2>2. store' = used
    <3>1. used \in [table : [ChunkKeys -> Table!Entry], objects : SUBSET ChunkKeys]
      BY <1>12, ProperTyped
    <3> HIDE DEF inPlace
    <3>2. store' = [used EXCEPT !.objects = used.objects]
      BY <1>1, <2>1
    <3>3. QED
      BY <3>1, <3>2
  <2>3. Placed(start, segs) = Placed(base, segs)
    BY <1>9, <2>1
  <2> HIDE DEF inPlace
  <2> DEFINE len == Len(chunkinfo)
             q == Spliced(chunkinfo, i, len, base, bytes)
  <2>4. len = Len(chunkinfo) /\ len \in i-1..Len(chunkinfo) /\ len+1 \in Nat
    BY <1>5, <1>7
  <2>5. cut = SubSeq(chunkinfo, i, len)
    BY <2>4
  <2> HIDE DEF len
  <2>6. q = a \o Placed(base, segs) /\ SubSeq(chunkinfo, len+1, Len(chunkinfo)) = <<>>
    <3>1. chunkinfo \in Seq(Chunk) /\ i \in 1..Len(chunkinfo) /\ len = Len(chunkinfo)
          /\ Placed(base, Segments(bytes)) \in Seq(Chunk)
      BY <1>5, <1>7, <1>9, <2>4
    <3>2. Spliced(chunkinfo, i, len, base, bytes) = SubSeq(chunkinfo, 1, i-1) \o Placed(base, Segments(bytes))
          /\ SubSeq(chunkinfo, len+1, Len(chunkinfo)) = <<>>
      BY <3>1, SplicedAtEnd
    <3>3. QED
      BY <3>2
  <2>7. chunkinfo' = q
    BY <1>1, <2>3, <2>6
  <2>8. base + Len(bytes) <= MaxSize
    BY <1>3, <1>7
  <2>9. /\ WellPlaced(q)
        /\ Bytes(q) = (Bytes(SubSeq(chunkinfo, 1, i-1)) \o bytes)
                         \o Bytes(SubSeq(chunkinfo, len+1, Len(chunkinfo)))
        /\ \A k \in ChunkKeys : Occurrences(q, k) = Occurrences(chunkinfo, k) + Count(Segments(bytes), k)
                                                      - Occurrences(SubSeq(chunkinfo, i, len), k)
    <3> DEFINE l == chunkinfo
    <3>1. WellPlaced(l) /\ i \in 1..Len(l)+1 /\ len \in i-1..Len(l) /\ bytes \in Seq(Units)
          /\ base = OffsetOf(l, i) /\ base + Len(bytes) <= MaxSize
      BY <1>5, <1>7, <1>10, <2>4, <2>8
    <3>2. Replaceable(l, i, len, base, bytes)
      BY <2>4, <3>1 DEF Replaceable
    <3>3. l = chunkinfo
      OBVIOUS
    <3> HIDE DEF l
    <3>4. IsReplaced(Spliced(l, i, len, base, bytes), l, i, len, bytes)
      BY <3>1, <3>2, SplicedFacts
    <3>5. QED
      BY <3>3, <3>4 DEF IsReplaced
  <2>10. Bytes(q) = content'
    <3> DEFINE A == Bytes(a)
    <3>1. content' = A \o bytes
      <4>1. n < OffsetOf(chunkinfo, i) + Len(chunkinfo[i].key) /\ OffsetOf(chunkinfo, i) <= n
        BY <1>6, <1>7
      <4>2. Slice(content, 0, n) = Bytes(SubSeq(chunkinfo, 1, i-1))
                                     \o Slice(chunkinfo[i].key, 0, n - OffsetOf(chunkinfo, i))
        BY <1>1, <1>3, <1>4, <1>7, <4>1, CutContent
      <4> HIDE DEF Slice, OffsetOf
      <4>3. QED
        BY <1>1, <1>6, <1>7, <4>2
    <3>2. A \in Seq(Units)
      BY <1>15, KeysOfFacts
    <3>3. Bytes(<<>>) = <<>>
      BY EmptyList
    <3>4. Bytes(q) = (A \o bytes) \o <<>>
      BY <2>6, <2>9, <3>3
    <3> HIDE DEF A
    <3>5. (A \o bytes) \o <<>> = A \o bytes
      BY <1>7, <3>2
    <3>6. QED
      BY <3>1, <3>4, <3>5
  <2> HIDE DEF q
  <2>11. ListsAreWellPlaced'
    BY <1>1, <1>2, <2>7, <2>9 DEF Sound, ListsAreWellPlaced, Chunks
  <2>12. \A k \in ChunkKeys : store'.table[k].ref = Occurrences(q, k)
    <3> SUFFICES ASSUME NEW k \in ChunkKeys PROVE store'.table[k].ref = Occurrences(q, k)
      OBVIOUS
    <3>1. used.table[k].ref = Occurrences(chunkinfo, k) - Occurrences(cut, k) + Count(segs, k)
      BY <1>11, <1>12
    <3>2. Occurrences(q, k) = Occurrences(chunkinfo, k) + Count(segs, k) - Occurrences(cut, k)
      BY <2>5, <2>9
    <3>3. Occurrences(chunkinfo, k) \in Nat /\ Occurrences(cut, k) \in Nat /\ Count(segs, k) \in Nat
      BY <1>5, <1>9, <1>11, OccurrencesAre, CountFacts
    <3>4. QED
      BY <2>2, <3>1, <3>2, <3>3
  <2>13. ListIsCounted'
    BY <1>12, <2>2, <2>7, <2>12 DEF ListIsCounted
  <2>14. IsLarge'
    BY <1>1 DEF IsLarge
  <2>15. ListIsContent'
    BY <1>1, <1>14, <2>7, <2>10, <2>14 DEF ListIsContent
  <2>16. QED
    BY <1>1, <1>2, <1>13, <2>11, <2>13, <2>15 DEF Sound, IsOpen
<1>19. QED
  BY <1>17, <1>18 DEF IInv

-----------------------------------------------------------------------------
(* The theorems.                                                           *)

\* Every step keeps the invariant.
LEMMA NextStep == IInv /\ [Next]_vars => IInv'
<1> SUFFICES ASSUME IInv, [Next]_vars PROVE IInv'
  OBVIOUS
<1>1. CASE UNCHANGED vars
  BY <1>1, StutterStep
<1>2. CASE Create
  BY <1>2, CreateStep
<1>3. CASE Unlink
  BY <1>3, UnlinkStep
<1>4. CASE \E fd \in Fds : Open(fd) \/ Close(fd)
  BY <1>4, OpenStep, CloseStep
<1>5. CASE \E fd \in Fds, offset \in Offsets, n \in 1..MaxSize :
              \/ ReadLocal(fd, offset, n) \/ ReadLarge(fd, offset, n)
              \/ ReadPastEnd(fd, offset, n) \/ ReadFails(fd, offset, n)
  BY <1>5, ReadLocalStep, ReadLargeStep, ReadPastEndStep, ReadFailsStep
<1>6. CASE \E fd \in Fds, offset \in Offsets, data \in Data :
              \/ WriteLocal(fd, offset, data) \/ WriteGrow(fd, offset, data)
              \/ WriteLarge(fd, offset, data) \/ WriteFails(fd, offset, data)
  BY <1>6, WriteLocalStep, WriteGrowStep, WriteLargeStep, WriteFailsStep
<1>7. CASE \E n \in 0..MaxSize :
              \/ TruncateUp(n) \/ TruncateLocal(n) \/ TruncateToLocal(n)
              \/ TruncateChunks(n) \/ TruncateUndefined(n)
  BY <1>7, TruncateUpStep, TruncateLocalStep, TruncateToLocalStep,
     TruncateChunksStep, TruncateUndefinedStep
<1>8. QED
  BY <1>1, <1>2, <1>3, <1>4, <1>5, <1>6, <1>7 DEF Next

(***************************************************************************)
(* Every handler keeps the invariant: while no descriptor has used an      *)
(* outdated list and no truncation has misplaced a chunk, the lists are    *)
(* well placed, the chunk list is the content and the table counts it.     *)
(***************************************************************************)
THEOREM IInvHolds == Spec => []IInv
<1>1. Init => IInv
  BY InitInv
<1>2. IInv /\ [Next]_vars => IInv'
  BY NextStep
<1>3. QED
  BY <1>1, <1>2, PTL DEF Spec

(***************************************************************************)
(* The state stays well typed, whatever list a descriptor uses: sizes and  *)
(* offsets within bounds, every stored key a chunk, every entry counted.   *)
(***************************************************************************)
THEOREM TypesHold == Spec => []TypeOK
<1>1. IInv => TypeOK
  BY TypedImplies DEF IInv
<1>2. QED
  BY <1>1, IInvHolds, PTL

(***************************************************************************)
(* A read returns what the calls before it wrote (read_file), for chunks   *)
(* and ranges of any length, until a descriptor uses an outdated list.     *)
(***************************************************************************)
THEOREM ReadsReturnWhatWasWritten == Spec => []ReadsReturnWrites
<1>1. IInv => ReadsReturnWrites
  BY DEF IInv, Sound, ReadsReturnWrites
<1>2. QED
  BY <1>1, IInvHolds, PTL

(***************************************************************************)
(* The chunk list in the main file is the content of a large file, and the *)
(* buffer file that of a small one (write_file, truncate_file).            *)
(***************************************************************************)
THEOREM ChunkListIsContent == Spec => []ChunksAreContent
<1>1. IInv => ChunksAreContent
  BY DEF IInv, Sound, ListIsContent, ChunksAreContent
<1>2. QED
  BY <1>1, IInvHolds, PTL

(***************************************************************************)
(* The table counts each chunk as often as the list has it, and exactly    *)
(* the counted chunks are stored (use and release in write_file,           *)
(* truncate_file and unlink_file).                                         *)
(***************************************************************************)
THEOREM ChunkListIsCounted == Spec => []ChunksAreCounted
<1>1. IInv => ChunksAreCounted
  <2> SUFFICES ASSUME IInv, past = {}, NEW key \in ChunkKeys
               PROVE  /\ store.table[key].ref = Occurrences(chunkinfo, key)
                      /\ key \in store.objects <=> Occurrences(chunkinfo, key) > 0
    BY DEF ChunksAreCounted
  <2>1. Proper(store) /\ store.table[key].ref = Occurrences(chunkinfo, key) /\ chunkinfo \in Seq(Chunk)
    BY DEF IInv, Typed, Sound, ListIsCounted
  <2>2. key \in store.objects <=> store.table[key].ref > 0
    BY <2>1 DEF Proper
  <2>3. QED
    BY <2>1, <2>2
<1>2. QED
  BY <1>1, IInvHolds, PTL

(***************************************************************************)
(* No handler throws, meets a missing object or runs into undefined        *)
(* behaviour before a descriptor uses an outdated list or a truncation is  *)
(* mishandled.                                                             *)
(***************************************************************************)
THEOREM FailuresAreStaleLists == Spec => []OnlyStaleListsFail
<1>1. IInv => OnlyStaleListsFail
  BY DEF IInv, Sound, OnlyStaleListsFail
<1>2. QED
  BY <1>1, IInvHolds, PTL
=============================================================================
