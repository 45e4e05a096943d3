------------------------- MODULE RecencyList_proofs -------------------------
(***************************************************************************)
(* Proofs about RecencyList, for any finite set of keys and any number of  *)
(* mounts: the list and the map agree within one mount, and in every mount *)
(* each entry of the map is listed and persist counts no key it does not   *)
(* write.                                                                  *)
(***************************************************************************)
EXTENDS RecencyList, FiniteSetTheorems, SequenceTheorems, WellFoundedInduction, TLAPS

-----------------------------------------------------------------------------
(* Removing the first occurrence of a key.                                 *)

\* A set of numbers has a least one (by well-foundedness).
LEMMA SmallestIndex ==
    ASSUME NEW I \in SUBSET Nat, I # {}
    PROVE  Min(I) \in I /\ \A j \in I : Min(I) <= j
<1> DEFINE Less == {p \in Nat \X Nat : p[1] < p[2]}
<1>1. IsWellFoundedOn(Less, Nat)
  BY NatLessThanWellFounded, Zenon DEF OpToRel
<1>2. PICK i \in I : \A j \in I : ~(<<j, i>> \in Less)
  BY <1>1, WFMin
<1>3. \A j \in I : i <= j
  <2> SUFFICES ASSUME NEW j \in I, j < i PROVE FALSE
    OBVIOUS
  <2>1. <<j, i>> \in Less
    OBVIOUS
  <2>2. QED
    BY <1>2, <2>1
<1>4. QED
  BY <1>3 DEF Min

\* RemoveFirst cuts the list at the first occurrence of the key.
LEMMA RemoveFirstPosition ==
    ASSUME NEW S, NEW s \in Seq(S), NEW e, e \in Range(s)
    PROVE  \E i \in 1..Len(s) :
              /\ s[i] = e
              /\ \A j \in 1..(i-1) : s[j] # e
              /\ RemoveFirst(s, e) = SubSeq(s, 1, i-1) \o SubSeq(s, i+1, Len(s))
<1> DEFINE I == {i \in 1..Len(s) : s[i] = e}
<1>1. PICK n \in 1..Len(s) : s[n] = e
  BY DEF Range
<1>2. I # {} /\ I \in SUBSET Nat
  BY <1>1
<1>3. Min(I) \in I /\ \A j \in I : Min(I) <= j
  BY <1>2, SmallestIndex
<1>4. SelectInSeq(s, LAMBDA v : v = e) = Min(I)
  BY <1>2 DEF SelectInSeq
<1>5. RemoveFirst(s, e) = SubSeq(s, 1, Min(I)-1) \o SubSeq(s, Min(I)+1, Len(s))
  BY <1>1, <1>4 DEF RemoveFirst, RemoveAt
<1>6. \A j \in 1..(Min(I)-1) : s[j] # e
  BY <1>3
<1>7. QED
  BY <1>3, <1>5, <1>6

\* r is s without its i-th element, its first e.
RemovedAt(s, e, r, i) ==
    /\ s[i] = e /\ \A j \in 1..(i-1) : s[j] # e
    /\ Len(r) = Len(s) - 1
    /\ \A j \in 1..(Len(s)-1) : r[j] = IF j < i THEN s[j] ELSE s[j+1]

\* The nodes before it stay where they are, those behind it move up.
LEMMA RemoveFirstElements ==
    ASSUME NEW S, NEW s \in Seq(S), NEW e, e \in Range(s)
    PROVE  /\ RemoveFirst(s, e) \in Seq(S)
           /\ \E i \in 1..Len(s) : RemovedAt(s, e, RemoveFirst(s, e), i)
<1>1. PICK i \in 1..Len(s) :
        /\ s[i] = e
        /\ \A j \in 1..(i-1) : s[j] # e
        /\ RemoveFirst(s, e) = SubSeq(s, 1, i-1) \o SubSeq(s, i+1, Len(s))
  BY RemoveFirstPosition
<1> DEFINE r == RemoveFirst(s, e)
<1> DEFINE p == SubSeq(s, 1, i-1)
           q == SubSeq(s, i+1, Len(s))
<1>2. /\ r \in Seq(S) /\ Len(r) = Len(s) - 1
      /\ \A j \in 1..(Len(s)-1) : r[j] = IF j < i THEN s[j] ELSE s[j+1]
  <2>1. /\ p \in Seq(S) /\ Len(p) = i - 1 /\ \A j \in 1..(i-1) : p[j] = s[j]
    BY SubSeqProperties, ElementOfSeq
  <2>2. /\ q \in Seq(S) /\ Len(q) = Len(s) - i
        /\ \A j \in 1..(Len(s)-i) : q[j] = s[i+j]
    <3>1. \A j \in (i+1)..Len(s) : s[j] \in S
      BY ElementOfSeq
    <3>2. /\ q \in Seq(S) /\ Len(q) = IF i+1 <= Len(s) THEN Len(s)-(i+1)+1 ELSE 0
          /\ \A j \in 1..(Len(s)-(i+1)+1) : q[j] = s[i+1+j-1]
      BY <3>1, SubSeqProperties
    <3>3. QED
      BY <3>2
  <2> HIDE DEF p, q
  <2>3. /\ p \o q \in Seq(S) /\ Len(p \o q) = Len(s) - 1
        /\ \A j \in 1..(Len(s)-1) : (p \o q)[j] = IF j < i THEN s[j] ELSE s[j+1]
    <3>1. /\ p \o q \in Seq(S) /\ Len(p \o q) = Len(p) + Len(q)
          /\ \A j \in 1..(Len(p) + Len(q)) :
                (p \o q)[j] = IF j <= Len(p) THEN p[j] ELSE q[j - Len(p)]
      BY <2>1, <2>2, ConcatProperties
    <3>2. Len(p) + Len(q) = Len(s) - 1
      BY <2>1, <2>2
    <3>3. ASSUME NEW j \in 1..(Len(s)-1)
          PROVE  (p \o q)[j] = IF j < i THEN s[j] ELSE s[j+1]
      <4>1. CASE j < i
        BY <3>1, <3>2, <2>1, <4>1
      <4>2. CASE ~(j < i)
        <5>1. j - (i-1) \in 1..(Len(s)-i) /\ i + (j - (i-1)) = j + 1 /\ ~(j <= i - 1)
          BY <4>2
        <5>2. (p \o q)[j] = q[j - (i-1)]
          BY <3>1, <3>2, <2>1, <5>1
        <5>3. QED
          BY <2>2, <4>2, <5>1, <5>2
      <4>3. QED
        BY <4>1, <4>2
    <3>4. QED
      BY <3>1, <3>2, <3>3
  <2>4. QED
    BY <1>1, <2>3 DEF p, q
<1> HIDE DEF r
<1>3. QED
  BY <1>1, <1>2 DEF r, RemovedAt

\* A sequence like that is what RemoveFirst returns.
LEMMA RemoveFirstIs ==
    ASSUME NEW S, NEW s \in Seq(S), NEW t \in Seq(S), NEW e,
           NEW i \in 1..Len(s), RemovedAt(s, e, t, i)
    PROVE  RemoveFirst(s, e) = t
<1> DEFINE r == RemoveFirst(s, e)
<1>1. e \in Range(s)
  BY DEF Range, RemovedAt
<1>2. r \in Seq(S) /\ \E m \in 1..Len(s) : RemovedAt(s, e, r, m)
  BY <1>1, RemoveFirstElements
<1> HIDE DEF r
<1>3. PICK m \in 1..Len(s) : RemovedAt(s, e, r, m)
  BY <1>2
<1>4. m = i
  BY <1>3 DEF RemovedAt
<1>5. r = t
  <2>1. Len(r) = Len(t) /\ \A j \in 1..Len(r) : r[j] = t[j]
    BY <1>3, <1>4 DEF RemovedAt
  <2>2. QED
    BY <2>1, <1>2, SeqEqual
<1>6. QED
  BY <1>5 DEF r

\* It removes one node, of that key; of a list without repetitions, the key.
LEMMA RemoveFirstFacts ==
    ASSUME NEW S, NEW s \in Seq(S), NEW e, e \in Range(s)
    PROVE  LET r == RemoveFirst(s, e) IN
           /\ r \in Seq(S) /\ Len(r) = Len(s) - 1
           /\ Range(r) \subseteq Range(s) /\ Range(s) \ {e} \subseteq Range(r)
           /\ IsInjective(s) => IsInjective(r) /\ e \notin Range(r)
<1> DEFINE r == RemoveFirst(s, e)
<1>0. r \in Seq(S) /\ \E i \in 1..Len(s) : RemovedAt(s, e, r, i)
  BY RemoveFirstElements
<1> HIDE DEF r
<1>1. PICK i \in 1..Len(s) : RemovedAt(s, e, r, i) /\ s[i] = e
  BY <1>0 DEF RemovedAt
<1>2. /\ r \in Seq(S) /\ Len(r) = Len(s) - 1
      /\ \A j \in 1..(Len(s)-1) : r[j] = IF j < i THEN s[j] ELSE s[j+1]
  BY <1>0, <1>1 DEF RemovedAt
<1>3. DOMAIN r = 1..(Len(s)-1) /\ DOMAIN s = 1..Len(s) /\ Len(s) \in Nat
  BY <1>2
<1>4. Range(r) \subseteq Range(s)
  <2> SUFFICES ASSUME NEW j \in 1..(Len(s)-1)
               PROVE  r[j] \in Range(s)
    BY <1>3 DEF Range
  <2>1. \E m \in 1..Len(s) : r[j] = s[m]
    <3>1. CASE j < i
      BY <3>1, <1>2, <1>3
    <3>2. CASE ~(j < i)
      <4>1. j+1 \in 1..Len(s) /\ r[j] = s[j+1]
        BY <3>2, <1>2, <1>3
      <4>2. QED
        BY <4>1
    <3>3. QED
      BY <3>1, <3>2
  <2>2. QED
    BY <2>1, <1>3 DEF Range
<1>5. Range(s) \ {e} \subseteq Range(r)
  <2> SUFFICES ASSUME NEW n \in 1..Len(s), s[n] # e
               PROVE  s[n] \in Range(r)
    BY <1>3 DEF Range
  <2>1. CASE n < i
    BY <2>1, <1>2, <1>3 DEF Range
  <2>2. CASE n > i
    <3>1. n - 1 \in 1..(Len(s)-1) /\ r[n-1] = s[n]
      BY <2>2, <1>2, <1>3
    <3>2. QED
      BY <3>1, <1>3 DEF Range
  <2>3. QED
    BY <2>1, <2>2, <1>1
<1>6. ASSUME IsInjective(s)
      PROVE  IsInjective(r) /\ e \notin Range(r)
  <2>1. \A a, b \in 1..Len(s) : s[a] = s[b] => a = b
    BY <1>3, <1>6 DEF IsInjective
  <2>2. IsInjective(r)
    BY <2>1, <1>2, <1>3 DEF IsInjective
  <2>3. e \notin Range(r)
    BY <2>1, <1>1, <1>2, <1>3 DEF Range
  <2>4. QED
    BY <2>2, <2>3
<1>7. QED
  BY <1>2, <1>4, <1>5, <1>6 DEF r

\* The last element taken off.
LEMMA FrontFacts ==
    ASSUME NEW S, NEW s \in Seq(S), s # <<>>
    PROVE  /\ Front(s) \in Seq(S) /\ Len(Front(s)) = Len(s) - 1
           /\ Last(s) \in S /\ Last(s) \in Range(s)
           /\ Range(s) = Range(Front(s)) \union {Last(s)}
           /\ IsInjective(s) => IsInjective(Front(s)) /\ Last(s) \notin Range(Front(s))
<1> DEFINE r == Front(s)
<1>1. Len(s) \in Nat \ {0} /\ DOMAIN s = 1..Len(s)
  OBVIOUS
<1>2. /\ r \in Seq(S) /\ Len(r) = Len(s) - 1
      /\ \A j \in 1..(Len(s)-1) : r[j] = s[j]
  <2>1. \A j \in 1..(Len(s)-1) : s[j] \in S
    BY <1>1, ElementOfSeq
  <2>2. QED
    BY <1>1, <2>1, SubSeqProperties DEF Front
<1>3. Last(s) \in S /\ Last(s) \in Range(s)
  BY <1>1 DEF Last, Range
<1> HIDE DEF r
<1>4. DOMAIN r = 1..(Len(s)-1)
  BY <1>2
<1>5. Range(s) = Range(r) \union {Last(s)}
  BY <1>1, <1>2, <1>4 DEF Range, Last
<1>6. IsInjective(s) => IsInjective(r) /\ Last(s) \notin Range(r)
  BY <1>1, <1>2, <1>4 DEF IsInjective, Range, Last
<1>7. QED
  BY <1>2, <1>3, <1>5, <1>6 DEF r

\* An element put in front.
LEMMA ConsFacts ==
    ASSUME NEW S, NEW s \in Seq(S), NEW e \in S
    PROVE  LET r == <<e>> \o s IN
           /\ r \in Seq(S) /\ Len(r) = Len(s) + 1
           /\ Range(r) = Range(s) \union {e}
           /\ IsInjective(s) /\ e \notin Range(s) => IsInjective(r)
<1> DEFINE r == <<e>> \o s
<1>1. Len(s) \in Nat /\ DOMAIN s = 1..Len(s)
  OBVIOUS
<1>2. /\ r \in Seq(S) /\ Len(r) = Len(s) + 1
      /\ r[1] = e /\ \A j \in 1..Len(s) : r[j+1] = s[j]
  OBVIOUS
<1> HIDE DEF r
<1>3. DOMAIN r = 1..(Len(s)+1)
  BY <1>2
<1>4. \A j \in 2..(Len(s)+1) : j-1 \in 1..Len(s) /\ r[j] = s[j-1]
  BY <1>1, <1>2
<1>5. Range(r) \subseteq Range(s) \union {e}
  <2> SUFFICES ASSUME NEW j \in 1..(Len(s)+1)
               PROVE  r[j] \in Range(s) \union {e}
    BY <1>3 DEF Range
  <2>1. CASE j = 1
    BY <2>1, <1>2
  <2>2. CASE j # 1
    <3>1. j-1 \in DOMAIN s /\ r[j] = s[j-1]
      BY <2>2, <1>1, <1>4
    <3>2. QED
      BY <3>1 DEF Range
  <2>3. QED
    BY <2>1, <2>2
<1>6. Range(s) \union {e} \subseteq Range(r)
  BY <1>1, <1>2, <1>3 DEF Range
<1>7. ASSUME IsInjective(s), e \notin Range(s)
      PROVE  IsInjective(r)
  <2>1. \A j \in 1..Len(s) : s[j] # e
    BY <1>1, <1>7 DEF Range
  <2>2. \A a, b \in 1..Len(s) : s[a] = s[b] => a = b
    BY <1>1, <1>7 DEF IsInjective
  <2>3. SUFFICES ASSUME NEW a \in 1..(Len(s)+1), NEW b \in 1..(Len(s)+1), r[a] = r[b]
                 PROVE  a = b
    BY <1>3 DEF IsInjective
  <2>4. CASE a = 1 \/ b = 1
    BY <2>1, <2>3, <2>4, <1>1, <1>2, <1>4
  <2>5. CASE a # 1 /\ b # 1
    <3>1. /\ a-1 \in 1..Len(s) /\ b-1 \in 1..Len(s)
          /\ s[a-1] = r[a] /\ s[b-1] = r[b]
      BY <2>5, <1>1, <1>4
    <3>2. a-1 = b-1
      BY <3>1, <2>2, <2>3
    <3>3. QED
      BY <3>1, <3>2, <1>1
  <2>6. QED
    BY <2>4, <2>5
<1>8. QED
  BY <1>2, <1>5, <1>6, <1>7 DEF r

\* A sequence has at most as many different elements as its length.
LEMMA RangeCardinality ==
    ASSUME NEW S, NEW s \in Seq(S)
    PROVE  IsFiniteSet(Range(s)) /\ Cardinality(Range(s)) <= Len(s)
<1>1. s \in Surjection(1..Len(s), Range(s))
  BY DEF Surjection, Range
<1>2. IsFiniteSet(1..Len(s)) /\ Cardinality(1..Len(s)) = Len(s)
  <2>1. 1 \in Int /\ Len(s) \in Int
    OBVIOUS
  <2>2. IsFiniteSet(1..Len(s)) /\ Cardinality(1..Len(s)) = IF 1 > Len(s) THEN 0 ELSE Len(s)-1+1
    BY <2>1, FS_Interval
  <2>3. (IF 1 > Len(s) THEN 0 ELSE Len(s)-1+1) = Len(s)
    OBVIOUS
  <2>4. QED
    BY <2>2, <2>3
<1>3. QED
  BY <1>1, <1>2, FS_Surjection

-----------------------------------------------------------------------------
(* The inductive invariant.                                                *)

\* The keys of the list and of the file, and the map they come from.
Listed ==
    /\ list \in Seq(Keys)
    /\ entries \subseteq Range(list)
    /\ file.count \in Nat /\ file.keys \in Seq(Keys)
    /\ file.count <= Len(file.keys)

\* At most one new node per entry of the map, and one loaded node per key.
Short ==
    /\ Len(list) <= Cardinality(entries) + Cardinality(Keys)
    /\ file.count <= Cardinality(Keys)

IInv == TypeOK /\ Listed /\ Short /\ OneNodePerEntry

\* Keys that are all on a list are finitely many, at most its length.
LEMMA SubsetsOfRange ==
    ASSUME NEW l \in Seq(Keys), NEW e \in SUBSET Range(l)
    PROVE  /\ e \subseteq Keys
           /\ IsFiniteSet(e) /\ Cardinality(e) \in Nat
           /\ Cardinality(e) <= Len(l)
<1>1. Range(l) \subseteq Keys
  BY DEF Range
<1>2. IsFiniteSet(Range(l)) /\ Cardinality(Range(l)) <= Len(l)
  BY RangeCardinality
<1>3. IsFiniteSet(e) /\ Cardinality(e) <= Cardinality(Range(l))
  BY <1>2, FS_Subset
<1>4. Cardinality(e) \in Nat /\ Cardinality(Range(l)) \in Nat /\ Len(l) \in Nat
  BY <1>2, <1>3, FS_CardinalityType
<1>5. QED
  BY <1>1, <1>2, <1>3, <1>4

\* The same for the keys of the map.
LEMMA ListedSets ==
    ASSUME Listed
    PROVE  /\ entries \subseteq Keys
           /\ IsFiniteSet(entries) /\ Cardinality(entries) \in Nat
           /\ Cardinality(entries) <= Len(list)
  BY SubsetsOfRange DEF Listed

-----------------------------------------------------------------------------
(* Each operation keeps the keys listed, whatever its caller does.         *)

\* An access lists its key in front, once more if the map lacks it.
LEMMA AccessListed ==
    ASSUME Listed, NEW k \in Keys, Access(k)
    PROVE  Listed' /\ Len(list') = Len(list) + IF k \in entries THEN 0 ELSE 1
<1> USE DEF Listed, Access, AccessList
<1>1. CASE k \in entries
  <2>1. /\ RemoveFirst(list, k) \in Seq(Keys)
        /\ Len(RemoveFirst(list, k)) = Len(list) - 1
        /\ Range(list) \ {k} \subseteq Range(RemoveFirst(list, k))
    BY <1>1, RemoveFirstFacts
  <2>2. /\ list' \in Seq(Keys) /\ Len(list') = Len(list)
        /\ Range(list') = Range(RemoveFirst(list, k)) \union {k}
    BY <1>1, <2>1, ConsFacts
  <2>3. QED
    BY <1>1, <2>1, <2>2
<1>2. CASE k \notin entries
  <2>1. /\ list' \in Seq(Keys) /\ Len(list') = Len(list) + 1
        /\ Range(list') = Range(list) \union {k}
    BY <1>2, ConsFacts
  <2>2. QED
    BY <1>2, <2>1
<1>3. QED
  BY <1>1, <1>2

\* The victim is a key of the list, and leaves it and the map.
LEMMA EvictListed ==
    ASSUME Listed, EvictTail
    PROVE  Listed' /\ Len(list') = Len(list) - 1 /\ victim' \in Keys
  BY FrontFacts DEF Listed, EvictTail, Erased

\* A removed key leaves list and map.
LEMMA RemoveListed ==
    ASSUME Listed, NEW k \in Keys, RemoveKey(k)
    PROVE  Listed' /\ Len(list') = Len(list) - 1
  BY RemoveFirstFacts DEF Listed, RemoveKey, Erased

\* Persisting counts no more keys than it writes.
LEMMA PersistListed ==
    ASSUME Listed, Persist
    PROVE  Listed'
  BY ListedSets DEF Listed, Persist

\* Loading lists the keys that were counted.
LEMMA LoadListed ==
    ASSUME Listed, Load
    PROVE  Listed' /\ Len(list') = file.count
<1> USE DEF Listed, Load, NoFile
<1>1. /\ list' \in Seq(Keys)
      /\ Len(list') = IF 1 <= file.count THEN file.count - 1 + 1 ELSE 0
  <2>1. \A i \in 1..file.count : file.keys[i] \in Keys
    BY ElementOfSeq
  <2>2. QED
    BY <2>1, SubSeqProperties
<1>2. Listed'
  BY <1>1
<1>3. QED
  BY <1>1, <1>2

\* Whatever leaves list, map and file alone keeps the keys listed.
LEMMA OtherListed ==
    ASSUME Listed, UNCHANGED <<list, entries, file>>
    PROVE  Listed'
  BY DEF Listed

-----------------------------------------------------------------------------
(* The invariant is inductive; one lemma per operation.                    *)

\* A loaded node and a new one for every key bound the list.
LEMMA LengthBound ==
    ASSUME IsFiniteSet(Keys), NEW l \in Seq(Keys), NEW e \in SUBSET Range(l),
           Len(l) <= Cardinality(e) + Cardinality(Keys)
    PROVE  Len(l) <= 2 * Cardinality(Keys) /\ e \subseteq Keys
<1>1. /\ e \subseteq Keys /\ Cardinality(e) <= Cardinality(Keys)
      /\ Cardinality(Keys) \in Nat /\ Cardinality(e) \in Nat
  BY SubsetsOfRange, FS_Subset, FS_CardinalityType
<1>2. QED
  BY <1>1

\* The type invariant after a step follows from what is listed.
LEMMA TypeFromListed ==
    ASSUME IsFiniteSet(Keys), Listed', Short',
           victim' \in Keys \union {NoKey}, fault' \in {"none", "throw", "dangling"},
           mounted' \in BOOLEAN, mount' \in 1..MaxMounts
    PROVE  TypeOK'
  BY LengthBound DEF TypeOK, Listed, Short

\* The empty replacer satisfies the invariant.
LEMMA Initially == ASSUME IsFiniteSet(Keys), MaxMounts \in Nat \ {0}, Init PROVE IInv
<1>1. Listed /\ Short
  BY FS_CardinalityType, FS_EmptySet DEF Init, Listed, Short, NoFile
<1>2. Len(list) <= 2 * Cardinality(Keys) /\ entries \subseteq Keys
  BY <1>1, LengthBound DEF Listed, Short
<1>3. TypeOK
  BY <1>1, <1>2 DEF Init, TypeOK, Listed
<1>4. OneNodePerEntry
  BY DEF Init, OneNodePerEntry, Range, IsInjective
<1>5. QED
  BY <1>1, <1>3, <1>4 DEF IInv

\* The accessed key is in front, and is not repeated in the first mount.
LEMMA AccessStep ==
    ASSUME IsFiniteSet(Keys), IInv, NEW k \in Keys, Access(k)
    PROVE  IInv'
<1> USE DEF IInv, Access
<1>1. Listed' /\ Len(list') = Len(list) + IF k \in entries THEN 0 ELSE 1
  BY AccessListed
<1>2. Cardinality(entries') = Cardinality(entries) + IF k \in entries THEN 0 ELSE 1
  <2>1. Cardinality(entries') = IF k \in entries THEN Cardinality(entries)
                                ELSE Cardinality(entries) + 1
    BY ListedSets, FS_AddElement
  <2>2. QED
    BY <2>1, ListedSets
<1>3. Short'
  BY <1>1, <1>2, ListedSets, FS_CardinalityType DEF Short, Listed
<1>4. TypeOK'
  BY <1>1, <1>3, TypeFromListed DEF TypeOK
<1>5. ASSUME mount = 1
      PROVE  Range(list') = entries' /\ IsInjective(list')
  <2>1. entries = Range(list) /\ IsInjective(list) /\ list \in Seq(Keys)
    BY <1>5 DEF OneNodePerEntry, Listed
  <2>2. CASE k \in entries
    <3> DEFINE r == RemoveFirst(list, k)
    <3>1. /\ r \in Seq(Keys) /\ IsInjective(r) /\ k \notin Range(r)
          /\ Range(r) \subseteq Range(list) /\ Range(list) \ {k} \subseteq Range(r)
      BY <2>1, <2>2, RemoveFirstFacts
    <3> HIDE DEF r
    <3>2. Range(<<k>> \o r) = Range(r) \union {k} /\ IsInjective(<<k>> \o r)
      BY <3>1, ConsFacts
    <3>3. list' = <<k>> \o r
      BY <2>2 DEF r, AccessList
    <3>4. QED
      BY <2>1, <2>2, <3>1, <3>2, <3>3
  <2>3. CASE k \notin entries
    BY <2>1, <2>3, ConsFacts DEF AccessList
  <2>4. QED
    BY <2>2, <2>3
<1>6. OneNodePerEntry'
  BY <1>5 DEF OneNodePerEntry
<1>7. QED
  BY <1>1, <1>3, <1>4, <1>6

\* The last node and the entry of its key go together in the first mount.
LEMMA EvictStep ==
    ASSUME IsFiniteSet(Keys), IInv, EvictTail
    PROVE  IInv'
<1> USE DEF IInv, EvictTail, Erased
<1>1. Listed' /\ Len(list') = Len(list) - 1 /\ victim' \in Keys
  BY EvictListed
<1>2. Cardinality(entries') >= Cardinality(entries) - 1 /\ Cardinality(entries') \in Nat
  <2>1. /\ IsFiniteSet(entries')
        /\ Cardinality(entries') = IF Last(list) \in entries
                                   THEN Cardinality(entries) - 1 ELSE Cardinality(entries)
    BY ListedSets, FS_RemoveElement
  <2>2. QED
    BY <2>1, ListedSets, FS_CardinalityType
<1>3. Short'
  BY <1>1, <1>2, ListedSets, FS_CardinalityType DEF Short, Listed
<1>4. TypeOK'
  BY <1>1, <1>3, TypeFromListed DEF TypeOK
<1>5. OneNodePerEntry'
  <2> SUFFICES ASSUME mount = 1
               PROVE  /\ Range(list') = entries' /\ IsInjective(list')
                      /\ fault' # "dangling"
    BY DEF OneNodePerEntry
  <2>1. entries = Range(list) /\ IsInjective(list) /\ list \in Seq(Keys)
    BY DEF OneNodePerEntry, Listed
  <2>2. /\ IsInjective(list') /\ Last(list) \notin Range(list')
        /\ Range(list) = Range(list') \union {Last(list)}
    BY <2>1, FrontFacts
  <2>3. QED
    BY <2>1, <2>2 DEF Dangles
<1>6. QED
  BY <1>1, <1>3, <1>4, <1>5

\* So do the node and the entry of a removed key.
LEMMA RemoveStep ==
    ASSUME IsFiniteSet(Keys), IInv, NEW k \in Keys, RemoveKey(k)
    PROVE  IInv'
<1> USE DEF IInv, RemoveKey, Erased
<1>1. Listed' /\ Len(list') = Len(list) - 1
  BY RemoveListed
<1>2. Cardinality(entries') = Cardinality(entries) - 1
  BY ListedSets, FS_RemoveElement
<1>3. Short'
  BY <1>1, <1>2, ListedSets, FS_CardinalityType DEF Short, Listed
<1>4. TypeOK'
  BY <1>1, <1>3, TypeFromListed DEF TypeOK
<1>5. OneNodePerEntry'
  <2> SUFFICES ASSUME mount = 1
               PROVE  Range(list') = entries' /\ IsInjective(list')
    BY DEF OneNodePerEntry
  <2>1. entries = Range(list) /\ IsInjective(list) /\ list \in Seq(Keys)
    BY DEF OneNodePerEntry, Listed
  <2>2. /\ IsInjective(list') /\ k \notin Range(list')
        /\ Range(list') \subseteq Range(list) /\ Range(list) \ {k} \subseteq Range(list')
    BY <2>1, RemoveFirstFacts
  <2>3. QED
    BY <2>1, <2>2
<1>6. QED
  BY <1>1, <1>3, <1>4, <1>5

\* Persisting changes the file only.
LEMMA PersistStep ==
    ASSUME IsFiniteSet(Keys), IInv, Persist
    PROVE  IInv'
<1> USE DEF IInv, Persist
<1>1. Listed'
  BY PersistListed
<1>2. Short'
  <2>1. Cardinality(entries) <= Cardinality(Keys)
    BY ListedSets, FS_Subset
  <2>2. QED
    BY <2>1 DEF Short
<1>3. TypeOK'
  BY <1>1, <1>2, TypeFromListed DEF TypeOK
<1>4. QED
  BY <1>1, <1>2, <1>3 DEF OneNodePerEntry

\* After a load the first mount is over and the map is empty.
LEMMA LoadStep ==
    ASSUME IsFiniteSet(Keys), MaxMounts \in Nat \ {0}, IInv, Load
    PROVE  IInv'
<1> USE DEF IInv, Load
<1>1. Listed' /\ Len(list') = file.count
  BY LoadListed
<1>2. Short'
  BY <1>1, FS_EmptySet, FS_CardinalityType DEF Short, NoFile, Listed
<1>3. mount' \in 1..MaxMounts /\ mount' # 1
  BY DEF TypeOK
<1>4. TypeOK'
  BY <1>1, <1>2, <1>3, TypeFromListed DEF TypeOK
<1>5. QED
  BY <1>1, <1>2, <1>3, <1>4 DEF OneNodePerEntry

\* Exceptions leave list, map and file alone.
LEMMA ThrowStep ==
    ASSUME IsFiniteSet(Keys), IInv,
           EvictEmpty \/ (\E k \in Keys : RemoveUnknown(k)) \/ UNCHANGED vars
    PROVE  IInv'
<1>1. UNCHANGED <<list, entries, file, victim, mounted, mount>>
      /\ fault' \in {fault, "throw"}
  BY DEF EvictEmpty, RemoveUnknown, vars
<1>2. Listed' /\ Short'
  BY <1>1, OtherListed DEF IInv, Short
<1>3. TypeOK'
  BY <1>1, <1>2, TypeFromListed DEF IInv, TypeOK
<1>4. OneNodePerEntry'
  BY <1>1 DEF IInv, OneNodePerEntry
<1>5. QED
  BY <1>2, <1>3, <1>4 DEF IInv

\* The invariant holds in every behaviour.
LEMMA Invariance ==
    ASSUME IsFiniteSet(Keys), MaxMounts \in Nat \ {0}
    PROVE  Spec => []IInv
<1>1. Init => IInv
  BY Initially
<1>2. IInv /\ [Next]_vars => IInv'
  <2> SUFFICES ASSUME IInv, [Next]_vars PROVE IInv'
    OBVIOUS
  <2>1. QED
    BY AccessStep, EvictStep, RemoveStep, PersistStep, LoadStep, ThrowStep DEF Next
<1>3. QED
  BY <1>1, <1>2, PTL DEF Spec

-----------------------------------------------------------------------------
(* The order of recency.                                                   *)

PositionIn(s, k) == SelectInSeq(s, LAMBDA x : x = k)
Older(s) == {p \in Range(s) \X Range(s) : PositionIn(s, p[1]) > PositionIn(s, p[2])}

\* In a sequence without repetitions an element has one position.
LEMMA PositionIs ==
    ASSUME NEW s \in Seq(Keys), IsInjective(s), NEW i \in 1..Len(s)
    PROVE  PositionIn(s, s[i]) = i
<1> DEFINE I == {j \in 1..Len(s) : s[j] = s[i]}
<1>1. I = {i}
  BY DEF IsInjective
<1>2. I \in SUBSET Nat /\ I # {}
  BY <1>1
<1>3. Min(I) \in I
  BY <1>2, SmallestIndex
<1>4. SelectInSeq(s, LAMBDA x : x = s[i]) = Min(I)
  BY <1>2 DEF SelectInSeq
<1>5. QED
  BY <1>1, <1>3, <1>4 DEF PositionIn

\* What is further from the head is older.
LEMMA OlderIs ==
    ASSUME NEW s \in Seq(Keys), IsInjective(s), NEW a, NEW b
    PROVE  <<a, b>> \in Older(s) <=> \E i, j \in 1..Len(s) : s[i] = a /\ s[j] = b /\ i > j
<1>1. \A k : k \in Range(s) <=> \E i \in 1..Len(s) : s[i] = k
  BY DEF Range
<1>2. \A i, j \in 1..Len(s) : <<s[i], s[j]>> \in Older(s) <=> i > j
  BY <1>1, PositionIs DEF Older
<1>3. <<a, b>> \in Older(s) => \E i, j \in 1..Len(s) : s[i] = a /\ s[j] = b
  BY <1>1 DEF Older
<1>4. QED
  BY <1>2, <1>3

\* An order holds pairs.
LEMMA OlderPairs ==
    ASSUME NEW s, NEW p \in Older(s)
    PROVE  p = <<p[1], p[2]>>
  BY DEF Older

\* A new head is the youngest.
LEMMA OlderCons ==
    ASSUME NEW s \in Seq(Keys), IsInjective(s), NEW k \in Keys, k \notin Range(s)
    PROVE  Older(<<k>> \o s) = Older(s) \union (Range(s) \X {k})
<1> DEFINE r == <<k>> \o s
<1>1. /\ r \in Seq(Keys) /\ IsInjective(r) /\ Len(r) = Len(s) + 1
      /\ r[1] = k /\ \A i \in 1..Len(s) : r[i+1] = s[i]
  <2>1. r \in Seq(Keys) /\ IsInjective(r)
    BY ConsFacts
  <2>2. Len(r) = Len(s) + 1 /\ r[1] = k /\ \A i \in 1..Len(s) : r[i+1] = s[i]
    OBVIOUS
  <2>3. QED
    BY <2>1, <2>2
<1> HIDE DEF r
<1>2. \A x : x \in Range(s) <=> \E i \in 1..Len(s) : s[i] = x
  BY DEF Range
<1>3. ASSUME NEW a, NEW b
      PROVE  <<a, b>> \in Older(r) <=> <<a, b>> \in Older(s) \/ (a \in Range(s) /\ b = k)
  <2>1. <<a, b>> \in Older(r) <=> \E i, j \in 1..Len(r) : r[i] = a /\ r[j] = b /\ i > j
    <3>1. r \in Seq(Keys) /\ IsInjective(r)
      BY <1>1
    <3>2. QED
      BY <3>1, OlderIs
  <2>2. <<a, b>> \in Older(s) <=> \E i, j \in 1..Len(s) : s[i] = a /\ s[j] = b /\ i > j
    BY OlderIs
  <2>3. ASSUME <<a, b>> \in Older(s)
        PROVE  <<a, b>> \in Older(r)
    <3>1. PICK i \in 1..Len(s), j \in 1..Len(s) : s[i] = a /\ s[j] = b /\ i > j
      BY <2>2, <2>3
    <3>2. i+1 \in 1..Len(r) /\ j+1 \in 1..Len(r) /\ r[i+1] = a /\ r[j+1] = b /\ i+1 > j+1
      BY <1>1, <3>1
    <3>3. QED
      BY <2>1, <3>2
  <2>4. ASSUME a \in Range(s), b = k
        PROVE  <<a, b>> \in Older(r)
    <3>1. PICK i \in 1..Len(s) : s[i] = a
      BY <1>2, <2>4
    <3>2. i+1 \in 1..Len(r) /\ 1 \in 1..Len(r) /\ r[i+1] = a /\ r[1] = b /\ i+1 > 1
      BY <1>1, <2>4, <3>1
    <3>3. QED
      BY <2>1, <3>2
  <2>5. ASSUME <<a, b>> \in Older(r)
        PROVE  <<a, b>> \in Older(s) \/ (a \in Range(s) /\ b = k)
    <3>1. PICK i \in 1..Len(r), j \in 1..Len(r) : r[i] = a /\ r[j] = b /\ i > j
      BY <2>1, <2>5
    <3>2. i-1 \in 1..Len(s) /\ s[i-1] = a
      BY <1>1, <3>1
    <3>3. CASE j = 1
      BY <3>1, <3>2, <3>3, <1>1, <1>2
    <3>4. CASE j # 1
      <4>1. j-1 \in 1..Len(s) /\ s[j-1] = b /\ i-1 > j-1
        BY <1>1, <3>1, <3>4
      <4>2. QED
        BY <2>2, <3>2, <4>1
    <3>5. QED
      BY <3>3, <3>4
  <2>6. QED
    BY <2>3, <2>4, <2>5
<1>4. \A p \in Older(r) : p \in Older(s) \union (Range(s) \X {k})
  BY <1>3, OlderPairs
<1>5. \A p \in Older(s) : p \in Older(r)
  BY <1>3, OlderPairs
<1>6. \A p \in Range(s) \X {k} : p \in Older(r)
  BY <1>3
<1>7. QED
  BY <1>4, <1>5, <1>6 DEF r

\* The order without a key.
LEMMA OlderRemoved ==
    ASSUME NEW s \in Seq(Keys), IsInjective(s), NEW i \in 1..Len(s), NEW r \in Seq(Keys),
           IsInjective(r), RemovedAt(s, s[i], r, i)
    PROVE  Older(r) = {p \in Older(s) : p[1] # s[i] /\ p[2] # s[i]}
<1> DEFINE e == s[i]
<1>1. /\ Len(r) = Len(s) - 1 /\ Len(s) \in Nat
      /\ \A j \in 1..(Len(s)-1) : r[j] = IF j < i THEN s[j] ELSE s[j+1]
      /\ \A a, b \in 1..Len(s) : s[a] = s[b] => a = b
  <2>1. \A a, b \in 1..Len(s) : s[a] = s[b] => a = b
    BY DEF IsInjective
  <2>2. Len(r) = Len(s) - 1 /\ \A j \in 1..(Len(s)-1) : r[j] = IF j < i THEN s[j] ELSE s[j+1]
    BY DEF RemovedAt
  <2>3. QED
    BY <2>1, <2>2
<1>2. ASSUME NEW a, NEW b
      PROVE  <<a, b>> \in Older(r) <=> <<a, b>> \in Older(s) /\ a # e /\ b # e
  <2>1. <<a, b>> \in Older(r) <=> \E m, n \in 1..Len(r) : r[m] = a /\ r[n] = b /\ m > n
    BY OlderIs
  <2>2. <<a, b>> \in Older(s) <=> \E m, n \in 1..Len(s) : s[m] = a /\ s[n] = b /\ m > n
    BY OlderIs
  <2>3. ASSUME <<a, b>> \in Older(r)
        PROVE  <<a, b>> \in Older(s) /\ a # e /\ b # e
    <3>1. PICK m \in 1..Len(r), n \in 1..Len(r) : r[m] = a /\ r[n] = b /\ m > n
      BY <2>1, <2>3
    <3> DEFINE m1 == IF m < i THEN m ELSE m+1
               n1 == IF n < i THEN n ELSE n+1
    <3>2. m1 \in 1..Len(s) /\ n1 \in 1..Len(s) /\ m1 > n1 /\ m1 # i /\ n1 # i
      BY <1>1, <3>1
    <3>3. s[m1] = a /\ s[n1] = b
      BY <1>1, <3>1
    <3> HIDE DEF m1, n1
    <3>4. a # e /\ b # e
      BY <3>2, <3>3, <1>1
    <3>5. QED
      BY <2>2, <3>2, <3>3, <3>4
  <2>4. ASSUME <<a, b>> \in Older(s), a # e, b # e
        PROVE  <<a, b>> \in Older(r)
    <3>1. PICK m \in 1..Len(s), n \in 1..Len(s) : s[m] = a /\ s[n] = b /\ m > n
      BY <2>2, <2>4
    <3> DEFINE m1 == IF m < i THEN m ELSE m-1
               n1 == IF n < i THEN n ELSE n-1
    <3>2. m # i /\ n # i
      BY <2>4, <3>1
    <3>3. m1 \in 1..Len(r) /\ n1 \in 1..Len(r) /\ m1 > n1
      BY <1>1, <3>1, <3>2
    <3>4. r[m1] = a
      <4>1. CASE m < i
        BY <4>1, <1>1, <3>1, <3>2
      <4>2. CASE ~(m < i)
        <5>1. m1 = m-1 /\ m-1 \in 1..(Len(s)-1) /\ ~(m-1 < i)
          BY <4>2, <1>1, <3>1, <3>2
        <5>2. r[m-1] = s[m]
          BY <5>1, <1>1
        <5>3. QED
          BY <5>1, <5>2, <3>1
      <4>3. QED
        BY <4>1, <4>2
    <3>5. r[n1] = b
      <4>1. CASE n < i
        BY <4>1, <1>1, <3>1, <3>2
      <4>2. CASE ~(n < i)
        <5>1. n1 = n-1 /\ n-1 \in 1..(Len(s)-1) /\ ~(n-1 < i)
          BY <4>2, <1>1, <3>1, <3>2
        <5>2. r[n-1] = s[n]
          BY <5>1, <1>1
        <5>3. QED
          BY <5>1, <5>2, <3>1
      <4>3. QED
        BY <4>1, <4>2
    <3> HIDE DEF m1, n1
    <3>6. QED
      BY <2>1, <3>3, <3>4, <3>5
  <2>5. QED
    BY <2>3, <2>4
<1>3. \A p \in Older(r) : p \in Older(s) /\ p[1] # e /\ p[2] # e
  BY <1>2, OlderPairs
<1>4. \A p \in Older(s) : p[1] # e /\ p[2] # e => p \in Older(r)
  BY <1>2, OlderPairs
<1>5. QED
  BY <1>3, <1>4

\* The first node of a listed key goes.
LEMMA OlderWithout ==
    ASSUME NEW s \in Seq(Keys), IsInjective(s), NEW k \in Range(s)
    PROVE  /\ Older(RemoveFirst(s, k)) = {p \in Older(s) : p[1] # k /\ p[2] # k}
           /\ Range(RemoveFirst(s, k)) = Range(s) \ {k}
           /\ RemoveFirst(s, k) \in Seq(Keys) /\ IsInjective(RemoveFirst(s, k))
<1> DEFINE r == RemoveFirst(s, k)
<1>1. /\ r \in Seq(Keys) /\ IsInjective(r) /\ k \notin Range(r)
      /\ Range(r) \subseteq Range(s) /\ Range(s) \ {k} \subseteq Range(r)
  BY RemoveFirstFacts
<1>2. \E i \in 1..Len(s) : RemovedAt(s, k, r, i)
  BY RemoveFirstElements
<1> HIDE DEF r
<1>3. PICK i \in 1..Len(s) : RemovedAt(s, k, r, i)
  BY <1>2
<1>4. s[i] = k
  BY <1>3 DEF RemovedAt
<1>5. Older(r) = {p \in Older(s) : p[1] # k /\ p[2] # k}
  BY <1>1, <1>3, <1>4, OlderRemoved
<1>6. QED
  BY <1>1, <1>5 DEF r

\* The last node is older than all others.
LEMMA OlderFront ==
    ASSUME NEW s \in Seq(Keys), IsInjective(s), s # <<>>
    PROVE  /\ Older(Front(s)) = {p \in Older(s) : p[1] # Last(s) /\ p[2] # Last(s)}
           /\ Range(Front(s)) = Range(s) \ {Last(s)} /\ Last(s) \in Range(s)
           /\ \A k \in Range(s) \ {Last(s)} : <<Last(s), k>> \in Older(s)
<1> DEFINE n == Len(s)
<1>1. n \in 1..Len(s) /\ Last(s) = s[n] /\ n \in Nat
  BY DEF Last
<1>2. /\ Front(s) \in Seq(Keys) /\ IsInjective(Front(s)) /\ Last(s) \notin Range(Front(s))
      /\ Range(s) = Range(Front(s)) \union {Last(s)}
  BY FrontFacts
<1>3. Len(Front(s)) = n - 1 /\ \A j \in 1..(n-1) : Front(s)[j] = s[j]
  <2>1. Front(s) = [j \in 1..(n-1) |-> s[j]]
    BY <1>1 DEF Front
  <2>2. Len(Front(s)) = n - 1
    BY <1>1, <2>1
  <2>3. QED
    BY <2>1, <2>2
<1> HIDE DEF n
<1>4. RemovedAt(s, s[n], Front(s), n)
  BY <1>1, <1>3 DEF RemovedAt, IsInjective, n
<1>5. Older(Front(s)) = {p \in Older(s) : p[1] # Last(s) /\ p[2] # Last(s)}
  BY <1>1, <1>2, <1>4, OlderRemoved
<1>6. ASSUME NEW k \in Range(s) \ {Last(s)}
      PROVE  <<Last(s), k>> \in Older(s)
  <2>1. PICK j \in 1..Len(s) : s[j] = k
    BY DEF Range
  <2>2. n > j
    BY <2>1, <1>1 DEF n
  <2>3. QED
    BY <1>1, <2>1, <2>2, OlderIs
<1>7. QED
  BY <1>2, <1>5, <1>6

\* The order the list shows, before and after a step.
LEMMA OrderIs ==
    /\ {p \in Range(list) \X Range(list) : Position(p[1]) > Position(p[2])} = Older(list)
    /\ {p \in Range(list) \X Range(list) : Position(p[1]) > Position(p[2])}' = Older(list')
<1>1. \A k : Position(k) = PositionIn(list, k)
  BY Zenon DEF Position, PositionIn
<1>2. \A k : Position(k)' = PositionIn(list', k)
  BY Zenon DEF Position, PositionIn, SelectInSeq
<1>3. {p \in Range(list) \X Range(list) : Position(p[1]) > Position(p[2])} = Older(list)
  BY <1>1, Zenon DEF Older
<1>4. {p \in Range(list) \X Range(list) : Position(p[1]) > Position(p[2])}'
        = {p \in Range(list') \X Range(list') : Position(p[1])' > Position(p[2])'}
  OBVIOUS
<1>5. QED
  BY <1>2, <1>3, <1>4 DEF Older

\* In the first mount the operations are those of the policy.
LEMMA OrderStep ==
    ASSUME IInv, mount = 1
    PROVE  /\ \A k \in Keys : Access(k) => Order!Access(k)
           /\ \A k \in Keys : RemoveKey(k) => Order!Remove(k)
           /\ EvictTail => Order!Evict(victim') /\ victim' \in Keys
<1>1. list \in Seq(Keys) /\ entries = Range(list) /\ IsInjective(list)
  BY DEF IInv, Listed, OneNodePerEntry
<1>2. ASSUME NEW k \in Keys, Access(k)
      PROVE  Order!Access(k)
  <2>1. /\ Range(list') = Range(list) \union {k}
        /\ Older(list') = {p \in Older(list) : p[1] # k /\ p[2] # k} \union ((Range(list) \ {k}) \X {k})
    <3>1. CASE k \in entries
      <4> DEFINE r == RemoveFirst(list, k)
      <4>1. /\ Older(r) = {p \in Older(list) : p[1] # k /\ p[2] # k}
            /\ Range(r) = Range(list) \ {k} /\ r \in Seq(Keys) /\ IsInjective(r)
        BY <1>1, <3>1, OlderWithout
      <4>2. list' = <<k>> \o r
        BY <1>2, <3>1 DEF Access, AccessList
      <4> HIDE DEF r
      <4>3. Range(<<k>> \o r) = Range(r) \union {k} /\ Older(<<k>> \o r) = Older(r) \union (Range(r) \X {k})
        BY <4>1, ConsFacts, OlderCons
      <4>4. QED
        BY <4>1, <4>2, <4>3, <3>1, <1>1
    <3>2. CASE k \notin entries
      <4>1. list' = <<k>> \o list /\ k \notin Range(list)
        BY <1>1, <1>2, <3>2 DEF Access, AccessList
      <4>2. /\ Range(<<k>> \o list) = Range(list) \union {k}
            /\ Older(<<k>> \o list) = Older(list) \union (Range(list) \X {k})
        BY <1>1, <4>1, ConsFacts, OlderCons
      <4>3. \A p \in Older(list) : p[1] # k /\ p[2] # k
        BY <4>1 DEF Older
      <4>4. QED
        BY <4>1, <4>2, <4>3
    <3>3. QED
      BY <3>1, <3>2
  <2>2. victim' = NoKey
    BY <1>2 DEF Access
  <2>3. QED
    BY <2>1, <2>2, OrderIs DEF Order!Access, Order!Without
<1>3. ASSUME NEW k \in Keys, RemoveKey(k)
      PROVE  Order!Remove(k)
  <2>1. k \in Range(list) /\ list' = RemoveFirst(list, k) /\ victim' = NoKey
    BY <1>1, <1>3 DEF RemoveKey
  <2>2. /\ Older(list') = {p \in Older(list) : p[1] # k /\ p[2] # k}
        /\ Range(list') = Range(list) \ {k}
    BY <1>1, <2>1, OlderWithout
  <2>3. QED
    BY <2>1, <2>2, OrderIs DEF Order!Remove, Order!Without
<1>4. ASSUME EvictTail
      PROVE  Order!Evict(victim') /\ victim' \in Keys
  <2>1. list # <<>> /\ list' = Front(list) /\ victim' = Last(list)
    BY <1>4 DEF EvictTail
  <2>2. /\ Older(list') = {p \in Older(list) : p[1] # victim' /\ p[2] # victim'}
        /\ Range(list') = Range(list) \ {victim'} /\ victim' \in Range(list)
        /\ \A k \in Range(list) \ {victim'} : <<victim', k>> \in Older(list)
    BY <1>1, <2>1, OlderFront
  <2>3. victim' \in Keys
    BY <1>1, <2>2 DEF Range
  <2>4. QED
    BY <2>2, <2>3, OrderIs DEF Order!Evict, Order!Without
<1>5. QED
  BY <1>2, <1>3, <1>4

-----------------------------------------------------------------------------
(***************************************************************************)
(* TypeOK of RecencyList: in every mount the list holds at most one loaded *)
(* and one new node per key (cache_replacer.cc:36-55, 77-164).             *)
(***************************************************************************)
THEOREM ListTypes ==
    ASSUME IsFiniteSet(Keys), MaxMounts \in Nat \ {0}
    PROVE  Spec => []TypeOK
<1>1. IInv => TypeOK
  BY DEF IInv
<1>2. QED
  BY Invariance, <1>1, PTL

(***************************************************************************)
(* Within one mount every key of the list has its entry, is listed once    *)
(* and nothing freed stays linked (cache_replacer.cc:77-164).              *)
(***************************************************************************)
THEOREM ListMatchesMap ==
    ASSUME IsFiniteSet(Keys), MaxMounts \in Nat \ {0}
    PROVE  Spec => []OneNodePerEntry
<1>1. IInv => OneNodePerEntry
  BY DEF IInv
<1>2. QED
  BY Invariance, <1>1, PTL

(***************************************************************************)
(* In every mount each entry of the map has a node in the list, and        *)
(* persist never counts more keys than it writes (cache_replacer.cc:178).  *)
(***************************************************************************)
THEOREM MapIsListed ==
    ASSUME IsFiniteSet(Keys), MaxMounts \in Nat \ {0}
    PROVE  Spec => []EntriesAreListed
<1>1. IInv => EntriesAreListed
  BY DEF IInv, Listed, EntriesAreListed
<1>2. QED
  BY Invariance, <1>1, PTL
=============================================================================
