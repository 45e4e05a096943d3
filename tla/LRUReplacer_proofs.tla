------------------------- MODULE LRUReplacer_proofs -------------------------
(***************************************************************************)
(* Proofs about LRUReplacer, for any finite set of keys and any number of  *)
(* mounts: the pointers form one doubly linked list, and what the          *)
(* operations do to it is what RecencyList does to a sequence of keys.     *)
(* What RecencyList_proofs shows of that sequence then holds of the        *)
(* pointers.                                                               *)
(***************************************************************************)
EXTENDS LRUReplacer, FiniteSetTheorems, SequenceTheorems, TLAPS

Lists == INSTANCE RecencyList_proofs WITH
    list <- KeysOf(Forward),
    entries <- {k \in Keys : Tracked(k)}

-----------------------------------------------------------------------------
(* Paths: sequences of nodes that the links follow.                        *)

\* The i-th node of a path, Null beyond its ends.
At(p, i) == IF i \in 1..Len(p) THEN p[i] ELSE Null

\* A path from head to tail: next_ leads forward on it, prev_ back.
Linked(p, head, tail, next, prev) ==
    /\ p \in Seq(Nodes) /\ IsInjective(p)
    /\ head = At(p, 1) /\ tail = At(p, Len(p))
    /\ \A i \in 1..Len(p) : next[p[i]] = At(p, i+1) /\ prev[p[i]] = At(p, i-1)

\* Addresses are the numbers up to twice the number of keys.
LEMMA NodesAre ==
    /\ Cardinality(Keys) \in Nat
    /\ Nodes = 1..(2 * Cardinality(Keys))
    /\ IsFiniteSet(Nodes) /\ Cardinality(Nodes) = 2 * Cardinality(Keys)
    /\ Null \notin Nodes
<1>1. Cardinality(Keys) \in Nat
  BY KeysAssumption, FS_CardinalityType
<1>2. IsFiniteSet(Nodes) /\ Cardinality(Nodes) = 2 * Cardinality(Keys)
  <2>1. 2 * Cardinality(Keys) \in Nat /\ 2 * Cardinality(Keys) - 1 + 1 = 2 * Cardinality(Keys)
    BY <1>1
  <2>2. QED
    BY <2>1, FS_Interval DEF Nodes
<1>3. QED
  BY <1>1, <1>2 DEF Nodes, Null

\* A path without repetitions has at most as many nodes as there are.
LEMMA PathLength ==
    ASSUME NEW p \in Seq(Nodes), IsInjective(p)
    PROVE  Len(p) \in Nat /\ Len(p) <= 2 * Cardinality(Keys) /\ DOMAIN p = 1..Len(p)
<1>1. Len(p) \in Nat /\ DOMAIN p = 1..Len(p) /\ p \in [1..Len(p) -> Nodes]
  OBVIOUS
<1>2. p \in Injection(1..Len(p), Nodes)
  BY <1>1 DEF Injection, IsInjective
<1>3. Cardinality(1..Len(p)) <= Cardinality(Nodes)
  BY <1>2, NodesAre, FS_Injection
<1>4. Cardinality(1..Len(p)) = Len(p)
  BY <1>1, FS_Interval
<1>5. QED
  BY <1>1, <1>3, <1>4, NodesAre

\* What Walk computes recursively, one unfolding.
Step(f, start, link) ==
    [i \in Nodes |-> IF i = 1 THEN start ELSE IF f[i-1] = Null THEN Null ELSE link[f[i-1]]]

\* The nodes before the first Null.
Taken(f) == [i \in 1..Cardinality({n \in Nodes : f[n] # Null}) |-> f[i]]

\* A recursive walk that has one solution is that solution.
LEMMA WalkUnfolds ==
    ASSUME NEW start, NEW link, NEW g,
           g = Step(g, start, link), \A f : f = Step(f, start, link) => f = g
    PROVE  Walk(start, link) = Taken(g)
<1> DEFINE Solves(f) == f = Step(f, start, link)
           step == CHOOSE step : step = [i \in Nodes |-> IF i = 1 THEN start
                                ELSE IF step[i-1] = Null THEN Null ELSE link[step[i-1]]]
<1>1. step = g
  <2>1. Solves(g) /\ \A f : Solves(f) => f = g
    OBVIOUS
  <2> HIDE DEF Solves
  <2>2. Solves(CHOOSE f : Solves(f))
    BY <2>1, Zenon
  <2>3. QED
    BY <2>1, <2>2 DEF Solves, Step
<1>2. Walk(start, link) = Taken(step)
  BY Zenon DEF Walk, Taken
<1> HIDE DEF step
<1>3. QED
  BY <1>1, <1>2

\* Walking along the links of a path returns the path.
LEMMA WalkIsPath ==
    ASSUME NEW p \in Seq(Nodes), IsInjective(p), NEW link,
           \A i \in 1..Len(p) : link[p[i]] = At(p, i+1)
    PROVE  Walk(At(p, 1), link) = p
<1> DEFINE start == At(p, 1)
           g == [i \in Nodes |-> At(p, i)]
<1>1. Len(p) \in Nat /\ Len(p) <= 2 * Cardinality(Keys) /\ DOMAIN p = 1..Len(p)
      /\ \A i \in 1..Len(p) : p[i] \in Nodes /\ p[i] # Null
  BY PathLength, NodesAre
<1>2. ASSUME NEW i \in Nodes, i # 1
      PROVE  i - 1 \in Nodes /\ At(p, i) = IF At(p, i-1) = Null THEN Null ELSE link[At(p, i-1)]
  BY <1>1, <1>2, NodesAre DEF At
<1>3. g = Step(g, start, link)
  BY <1>2 DEF Step
<1>4. ASSUME NEW f, f = Step(f, start, link)
      PROVE  f = g
  <2> DEFINE D == {i \in Nodes : f[i] # g[i]}
  <2>1. SUFFICES ASSUME D # {} PROVE FALSE
    BY <1>4 DEF Step
  <2>2. D \in SUBSET Nat
    BY NodesAre
  <2>3. PICK i \in D : \A j \in D : i <= j
    BY <2>1, <2>2, Lists!SmallestIndex
  <2>4. i \in Nodes /\ i # 1
    BY <1>4 DEF Step
  <2>5. i - 1 \in Nodes /\ i - 1 \notin D
    BY <2>3, <2>4, <1>2, NodesAre
  <2>6. f[i-1] = At(p, i-1)
    BY <2>5
  <2>7. f[i] = IF f[i-1] = Null THEN Null ELSE link[f[i-1]]
    BY <1>4, <2>4 DEF Step
  <2>8. QED
    BY <2>3, <2>4, <2>6, <2>7, <1>2
<1> HIDE DEF start, g
<1>5. Walk(start, link) = Taken(g)
  BY <1>3, <1>4, WalkUnfolds
<1>6. {n \in Nodes : g[n] # Null} = 1..Len(p)
  BY <1>1, NodesAre DEF At, g
<1>7. Cardinality(1..Len(p)) = Len(p)
  <2>1. Len(p) \in Nat
    BY <1>1
  <2>2. QED
    BY <2>1, FS_Interval
<1>8. Walk(start, link) = [i \in 1..Len(p) |-> g[i]]
  BY <1>5, <1>6, <1>7 DEF Taken
<1>9. [i \in 1..Len(p) |-> g[i]] = p
  BY <1>1, NodesAre DEF At, g
<1>10. QED
  BY <1>8, <1>9 DEF start

\* What the lemmas below use of a path, unfolded.
LEMMA LinkedFacts ==
    ASSUME NEW p, NEW head, NEW tail, NEW next, NEW prev,
           Linked(p, head, tail, next, prev)
    PROVE  /\ p \in Seq(Nodes) /\ Len(p) \in Nat /\ DOMAIN p = 1..Len(p)
           /\ \A j \in 1..Len(p) : p[j] \in Nodes /\ p[j] # Null
           /\ \A a, b \in 1..Len(p) : p[a] = p[b] => a = b
           /\ \A j \in 1..Len(p) : next[p[j]] = At(p, j+1)
           /\ \A j \in 1..Len(p) : prev[p[j]] = At(p, j-1)
           /\ head = At(p, 1) /\ tail = At(p, Len(p))
<1>1. p \in Seq(Nodes) /\ Len(p) \in Nat /\ DOMAIN p = 1..Len(p)
  BY DEF Linked
<1>2. \A j \in 1..Len(p) : p[j] \in Nodes /\ p[j] # Null
  BY <1>1, NodesAre, ElementOfSeq
<1>3. \A a, b \in 1..Len(p) : p[a] = p[b] => a = b
  BY <1>1 DEF Linked, IsInjective
<1>4. QED
  BY <1>1, <1>2, <1>3, Zenon DEF Linked

\* The path is found from either end.
LEMMA WalkFindsPath ==
    ASSUME NEW p, NEW head, NEW tail, NEW next, NEW prev,
           Linked(p, head, tail, next, prev)
    PROVE  Walk(head, next) = p /\ Walk(tail, prev) = Reverse(p)
<1>1. /\ p \in Seq(Nodes) /\ Len(p) \in Nat /\ DOMAIN p = 1..Len(p)
      /\ \A i \in 1..Len(p) : p[i] \in Nodes
  BY LinkedFacts
<1>2. Walk(head, next) = p
  BY LinkedFacts, WalkIsPath DEF Linked
<1> DEFINE r == Reverse(p)
<1>3. /\ r \in Seq(Nodes) /\ Len(r) = Len(p) /\ DOMAIN r = 1..Len(p)
      /\ \A i \in 1..Len(p) : Len(p) - i + 1 \in 1..Len(p) /\ r[i] = p[Len(p) - i + 1]
  BY <1>1 DEF Reverse
<1> HIDE DEF r
<1>4. IsInjective(r)
  <2> SUFFICES ASSUME NEW i \in 1..Len(p), NEW j \in 1..Len(p), r[i] = r[j]
               PROVE  i = j
    BY <1>3 DEF IsInjective
  <2>1. p[Len(p) - i + 1] = p[Len(p) - j + 1]
    BY <1>3
  <2>2. Len(p) - i + 1 = Len(p) - j + 1
    BY <2>1, <1>3, LinkedFacts
  <2>3. Len(p) \in Nat
    BY <1>1
  <2>4. QED
    BY <2>2, <2>3
<1>5. \A i \in 1..Len(r) : prev[r[i]] = At(r, i+1)
  <2> SUFFICES ASSUME NEW i \in 1..Len(p) PROVE prev[r[i]] = At(r, i+1)
    BY <1>3
  <2>1. prev[r[i]] = At(p, (Len(p) - i + 1) - 1)
    BY <1>3, LinkedFacts
  <2>2. Len(p) \in Nat
    BY <1>1
  <2>3. CASE i = Len(p)
    BY <2>1, <2>2, <2>3, <1>3 DEF At
  <2>4. CASE i # Len(p)
    <3>1. /\ i + 1 \in 1..Len(p) /\ (Len(p) - i + 1) - 1 = Len(p) - (i + 1) + 1
      BY <2>2, <2>4
    <3>2. QED
      BY <2>1, <3>1, <1>3 DEF At
  <2>5. QED
    BY <2>3, <2>4
<1>6. At(r, 1) = At(p, Len(p))
  BY <1>1, <1>3 DEF At
<1>7. Walk(tail, prev) = r
  <2>1. Walk(At(r, 1), prev) = r
    BY <1>3, <1>4, <1>5, WalkIsPath
  <2>2. tail = At(r, 1)
    BY <1>6, LinkedFacts
  <2>3. QED
    BY <2>1, <2>2
<1>8. QED
  BY <1>2, <1>7 DEF r

\* A path less its i-th node.
Unlinked(p, i) == [j \in 1..(Len(p)-1) |-> IF j < i THEN p[j] ELSE p[j+1]]

\* Where its nodes are.
LEMMA UnlinkedFacts ==
    ASSUME NEW S, NEW p \in Seq(S), NEW i \in 1..Len(p)
    PROVE  LET q == Unlinked(p, i) IN
           /\ q \in Seq(S) /\ Len(q) = Len(p) - 1 /\ DOMAIN q = 1..(Len(p)-1)
           /\ \A j \in 1..(Len(p)-1) : q[j] = IF j < i THEN p[j] ELSE p[j+1]
           /\ \A j \in Int : At(q, j) = IF j < i THEN At(p, j) ELSE At(p, j+1)
<1> DEFINE q == Unlinked(p, i)
<1>1. Len(p) \in Nat \ {0} /\ i \in 1..Len(p) /\ \A j \in 1..Len(p) : p[j] \in S
  OBVIOUS
<1>2. /\ q \in Seq(S) /\ Len(q) = Len(p) - 1 /\ DOMAIN q = 1..(Len(p)-1)
      /\ \A j \in 1..(Len(p)-1) : q[j] = IF j < i THEN p[j] ELSE p[j+1]
  <2>1. \A j \in 1..(Len(p)-1) : (IF j < i THEN p[j] ELSE p[j+1]) \in S
    BY <1>1
  <2>2. QED
    BY <2>1, <1>1 DEF Unlinked
<1> HIDE DEF q
<1>3. ASSUME NEW j \in Int
      PROVE  At(q, j) = IF j < i THEN At(p, j) ELSE At(p, j+1)
  BY <1>1, <1>2 DEF At
<1>4. QED
  BY <1>2, <1>3 DEF q

\* They are the others.
LEMMA UnlinkedRange ==
    ASSUME NEW S, NEW p \in Seq(S), NEW i \in 1..Len(p),
           \A a, b \in 1..Len(p) : p[a] = p[b] => a = b
    PROVE  Range(Unlinked(p, i)) \subseteq Range(p) /\ p[i] \notin Range(Unlinked(p, i))
<1> DEFINE q == Unlinked(p, i)
<1>1. DOMAIN q = 1..(Len(p)-1)
      /\ \A j \in 1..(Len(p)-1) : q[j] = IF j < i THEN p[j] ELSE p[j+1]
  BY UnlinkedFacts
<1>2. Len(p) \in Nat /\ DOMAIN p = 1..Len(p) /\ i \in 1..Len(p)
  OBVIOUS
<1> HIDE DEF q
<1>3. ASSUME NEW j \in DOMAIN q
      PROVE  q[j] \in Range(p) /\ q[j] # p[i]
  <2>1. PICK m \in 1..Len(p) : m # i /\ q[j] = p[m]
    BY <1>1, <1>2, <1>3
  <2>2. QED
    BY <2>1, <1>2 DEF Range
<1>4. QED
  BY <1>3 DEF Range, q

\* Joining the neighbours of a node takes it off the path.
LEMMA UnlinkPath ==
    ASSUME NEW p, NEW head, NEW tail, NEW next, NEW prev,
           Linked(p, head, tail, next, prev),
           NEW i \in 1..Len(p), NEW e, e = p[i], NEW next2, NEW prev2,
           \A n \in Nodes : n # e =>
              /\ next2[n] = IF n = prev[e] THEN next[e] ELSE next[n]
              /\ prev2[n] = IF n = next[e] THEN prev[e] ELSE prev[n]
    PROVE  Linked(Unlinked(p, i), IF e = head THEN next[e] ELSE head,
                  IF e = tail THEN prev[e] ELSE tail, next2, prev2)
<1> DEFINE q == Unlinked(p, i)
<1>1. p \in Seq(Nodes) /\ Len(p) \in Nat \ {0} /\ i \in 1..Len(p)
  BY LinkedFacts
<1>2. \A j \in 1..Len(p) : p[j] \in Nodes /\ p[j] # Null
  BY LinkedFacts
<1>3. \A a, b \in 1..Len(p) : p[a] = p[b] => a = b
  BY LinkedFacts
<1>4. /\ q \in Seq(Nodes) /\ Len(q) = Len(p) - 1 /\ DOMAIN q = 1..(Len(p)-1)
      /\ \A j \in 1..(Len(p)-1) : q[j] = IF j < i THEN p[j] ELSE p[j+1]
      /\ \A j \in Int : At(q, j) = IF j < i THEN At(p, j) ELSE At(p, j+1)
  BY <1>1, UnlinkedFacts
<1> HIDE DEF q
<1>5. IsInjective(q)
  <2> SUFFICES ASSUME NEW a \in 1..(Len(p)-1), NEW b \in 1..(Len(p)-1), q[a] = q[b]
               PROVE  a = b
    BY <1>4 DEF IsInjective
  <2> DEFINE pos(j) == IF j < i THEN j ELSE j + 1
  <2>1. pos(a) \in 1..Len(p) /\ pos(b) \in 1..Len(p)
    BY <1>1
  <2>2. q[a] = p[pos(a)] /\ q[b] = p[pos(b)]
    BY <1>4
  <2> HIDE DEF pos
  <2>3. pos(a) = pos(b)
    <3>1. p[pos(a)] = p[pos(b)]
      BY <2>2
    <3>2. QED
      BY <2>1, <3>1, <1>3, Zenon
  <2>4. QED
    BY <2>3, <1>1 DEF pos
<1>6. next[e] = At(p, i+1) /\ prev[e] = At(p, i-1)
  BY LinkedFacts
<1>7. (IF e = head THEN next[e] ELSE head) = At(q, 1)
  <2>1. head = At(p, 1) /\ (e = head <=> i = 1)
    BY <1>1, <1>3, LinkedFacts DEF At
  <2>2. At(q, 1) = IF 1 < i THEN At(p, 1) ELSE At(p, 1+1)
    BY <1>4
  <2>3. QED
    BY <2>1, <2>2, <1>1, <1>6
<1>8. (IF e = tail THEN prev[e] ELSE tail) = At(q, Len(q))
  <2>1. tail = At(p, Len(p)) /\ (e = tail <=> i = Len(p))
    BY <1>1, <1>3, LinkedFacts DEF At
  <2>2. Len(q) \in Int /\ Len(q) + 1 = Len(p)
    BY <1>1, <1>4
  <2>3. At(q, Len(q)) = IF Len(q) < i THEN At(p, Len(q)) ELSE At(p, Len(q)+1)
    BY <2>2, <1>4
  <2>4. QED
    BY <2>1, <2>2, <2>3, <1>1, <1>6
<1>9. ASSUME NEW j \in 1..Len(q)
      PROVE  next2[q[j]] = At(q, j+1) /\ prev2[q[j]] = At(q, j-1)
  <2>0. j \in 1..(Len(p)-1)
    BY <1>4
  <2>1. PICK m \in 1..Len(p) : q[j] = p[m] /\ m # i /\ m = IF j < i THEN j ELSE j + 1
    <3>1. CASE j < i
      <4>1. j \in 1..Len(p) /\ j # i
        BY <2>0, <3>1, <1>1
      <4>2. q[j] = p[j]
        BY <2>0, <3>1, <1>4
      <4>3. QED
        BY <4>1, <4>2, <3>1
    <3>2. CASE ~(j < i)
      BY <2>0, <3>2, <1>1, <1>4
    <3>3. QED
      BY <3>1, <3>2
  <2>2. p[m] \in Nodes /\ p[m] # e
    BY <2>1, <1>2, <1>3
  <2>3. next[p[m]] = At(p, m+1) /\ prev[p[m]] = At(p, m-1)
    <3>1. \A n \in 1..Len(p) : next[p[n]] = At(p, n+1) /\ prev[p[n]] = At(p, n-1)
      BY LinkedFacts
    <3>2. QED
      BY <3>1
  <2>4. p[m] = At(p, i-1) <=> m = i - 1
    BY <2>1, <1>1, <1>2, <1>3 DEF At
  <2>5. p[m] = At(p, i+1) <=> m = i + 1
    BY <2>1, <1>1, <1>2, <1>3 DEF At
  <2>6. next2[p[m]] = IF m = i - 1 THEN At(p, i+1) ELSE At(p, m+1)
    BY <2>2, <2>3, <2>4, <1>6
  <2>7. prev2[p[m]] = IF m = i + 1 THEN At(p, i-1) ELSE At(p, m-1)
    BY <2>2, <2>3, <2>5, <1>6
  <2>8. /\ At(q, j+1) = IF j + 1 < i THEN At(p, j+1) ELSE At(p, j+1+1)
        /\ At(q, j-1) = IF j - 1 < i THEN At(p, j-1) ELSE At(p, j-1+1)
    <3>1. j + 1 \in Int /\ j - 1 \in Int
      OBVIOUS
    <3>2. QED
      BY <3>1, <1>4
  <2>9. At(q, j+1) = next2[p[m]]
    BY <2>1, <2>6, <2>8, <1>1
  <2>10. At(q, j-1) = prev2[p[m]]
    BY <2>1, <2>7, <2>8, <1>1
  <2>11. QED
    BY <2>1, <2>9, <2>10
<1>10. QED
  BY <1>4, <1>5, <1>7, <1>8, <1>9 DEF Linked, q

\* A node linked before the head becomes the first of the path.
LEMMA PushPath ==
    ASSUME NEW p, NEW head, NEW tail, NEW next, NEW prev,
           Linked(p, head, tail, next, prev),
           NEW e \in Nodes, e \notin Range(p), NEW next2, NEW prev2,
           \A n \in Nodes :
              /\ next2[n] = IF n = e THEN head ELSE next[n]
              /\ prev2[n] = IF n = e THEN Null ELSE IF n = head THEN e ELSE prev[n]
    PROVE  Linked(<<e>> \o p, e, IF tail = Null THEN e ELSE tail, next2, prev2)
<1> DEFINE q == <<e>> \o p
<1>1. p \in Seq(Nodes) /\ Len(p) \in Nat /\ DOMAIN p = 1..Len(p)
  BY LinkedFacts
<1>2. \A j \in 1..Len(p) : p[j] \in Nodes /\ p[j] # Null
  BY LinkedFacts
<1>3. \A a, b \in 1..Len(p) : p[a] = p[b] => a = b
  BY LinkedFacts
<1>4. \A j \in 1..Len(p) : p[j] # e
  BY <1>1 DEF Range
<1>5. /\ q \in Seq(Nodes) /\ Len(q) = Len(p) + 1 /\ q[1] = e
      /\ \A j \in 1..Len(p) : q[j+1] = p[j]
  BY <1>1
<1> HIDE DEF q
<1>6. DOMAIN q = 1..(Len(p)+1) /\ \A j \in 2..(Len(p)+1) : j-1 \in 1..Len(p) /\ q[j] = p[j-1]
  BY <1>1, <1>5
<1>7. IsInjective(q)
  <2> SUFFICES ASSUME NEW a \in 1..(Len(p)+1), NEW b \in 1..(Len(p)+1), q[a] = q[b]
               PROVE  a = b
    BY <1>6 DEF IsInjective
  <2>1. CASE a = 1 \/ b = 1
    BY <2>1, <1>1, <1>4, <1>5, <1>6
  <2>2. CASE a # 1 /\ b # 1
    <3>1. a - 1 = b - 1
      BY <2>2, <1>1, <1>3, <1>6
    <3>2. QED
      BY <3>1
  <2>3. QED
    BY <2>1, <2>2
<1>8. /\ At(q, 0) = Null /\ At(q, 1) = e
      /\ \A j \in Nat \ {0} : At(q, j+1) = At(p, j)
  <2>1. At(q, 0) = Null /\ At(q, 1) = e
    BY <1>1, <1>5 DEF At
  <2>2. ASSUME NEW j \in Nat \ {0} PROVE At(q, j+1) = At(p, j)
    BY <1>1, <1>5 DEF At
  <2>3. QED
    BY <2>1, <2>2
<1>9. (IF tail = Null THEN e ELSE tail) = At(q, Len(q))
  <2>1. tail = At(p, Len(p)) /\ (tail = Null <=> Len(p) = 0)
    BY <1>1, <1>2, LinkedFacts DEF At
  <2>2. CASE Len(p) = 0
    BY <2>1, <2>2, <1>5, <1>8
  <2>3. CASE Len(p) # 0
    BY <2>1, <2>3, <1>1, <1>5, <1>8
  <2>4. QED
    BY <2>2, <2>3
<1>10. next2[e] = At(q, 1+1) /\ prev2[e] = At(q, 1-1)
  BY <1>8, LinkedFacts
<1>11. ASSUME NEW j \in 1..Len(p)
       PROVE  next2[p[j]] = At(q, (j+1)+1) /\ prev2[p[j]] = At(q, (j+1)-1)
  <2>1. p[j] \in Nodes /\ p[j] # e /\ next[p[j]] = At(p, j+1) /\ prev[p[j]] = At(p, j-1)
    BY <1>2, <1>4, LinkedFacts
  <2>2. head = At(p, 1) /\ (p[j] = head <=> j = 1)
    BY <1>1, <1>3, LinkedFacts DEF At
  <2>3. next2[p[j]] = At(p, j+1) /\ prev2[p[j]] = IF j = 1 THEN e ELSE At(p, j-1)
    BY <2>1, <2>2
  <2>4. At(q, (j+1)+1) = At(p, j+1)
    BY <1>8
  <2>5. At(q, (j+1)-1) = IF j = 1 THEN e ELSE At(p, j-1)
    <3>1. CASE j = 1
      BY <3>1, <1>8
    <3>2. CASE j # 1
      <4>1. j - 1 \in Nat \ {0} /\ (j+1)-1 = (j-1)+1
        BY <3>2
      <4>2. QED
        BY <3>2, <4>1, <1>8
    <3>3. QED
      BY <3>1, <3>2
  <2>6. QED
    BY <2>3, <2>4, <2>5
<1>12. \A j \in 1..Len(q) : next2[q[j]] = At(q, j+1) /\ prev2[q[j]] = At(q, j-1)
  <2> SUFFICES ASSUME NEW j \in 1..(Len(p)+1)
               PROVE  next2[q[j]] = At(q, j+1) /\ prev2[q[j]] = At(q, j-1)
    BY <1>5
  <2>1. CASE j = 1
    BY <2>1, <1>5, <1>10
  <2>2. CASE j # 1
    <3>1. j - 1 \in 1..Len(p) /\ q[j] = p[j-1] /\ (j-1)+1 = j
      BY <2>2, <1>1, <1>6
    <3>2. QED
      BY <3>1, <1>11
  <2>3. QED
    BY <2>1, <2>2
<1>13. QED
  BY <1>5, <1>7, <1>8, <1>9, <1>12 DEF Linked, q

\* The index before a later one.
LEMMA Predecessor == \A n \in Nat \ {0, 1} : n - 1 \in 1..n
  OBVIOUS

\* All but the last.
LEMMA FrontNodes ==
    ASSUME NEW S, NEW p \in Seq(S), p # <<>>
    PROVE  /\ Front(p) \in Seq(S) /\ Len(Front(p)) = Len(p) - 1
           /\ \A j \in 1..(Len(p)-1) : Front(p)[j] = p[j]
<1>1. Len(p) \in Nat \ {0} /\ DOMAIN p = 1..Len(p)
  OBVIOUS
<1>2. \A j \in 1..(Len(p)-1) : p[j] \in S
  BY <1>1, ElementOfSeq
<1>3. QED
  BY <1>1, <1>2, SubSeqProperties DEF Front

\* Cutting off the tail takes the last node off the path.
LEMMA PopPath ==
    ASSUME NEW p, NEW head, NEW tail, NEW next, NEW prev,
           Linked(p, head, tail, next, prev), tail # Null, NEW next2,
           \A n \in Nodes : next2[n] = IF n = prev[tail] THEN Null ELSE next[n]
    PROVE  /\ p # <<>> /\ tail = Last(p)
           /\ Linked(Front(p), IF prev[tail] = Null THEN Null ELSE head,
                     prev[tail], next2, prev)
<1> DEFINE q == Front(p)
<1>1. p \in Seq(Nodes) /\ Len(p) \in Nat
  BY LinkedFacts
<1>2. \A j \in 1..Len(p) : p[j] \in Nodes /\ p[j] # Null
  BY LinkedFacts
<1>3. \A a, b \in 1..Len(p) : p[a] = p[b] => a = b
  BY LinkedFacts
<1>4. Len(p) \in Nat \ {0} /\ p # <<>> /\ tail = p[Len(p)] /\ tail = Last(p)
  <2>1. tail = At(p, Len(p))
    BY LinkedFacts
  <2>2. QED
    BY <2>1, <1>1 DEF At, Last
<1>5. /\ q \in Seq(Nodes) /\ Len(q) = Len(p) - 1
      /\ \A j \in 1..(Len(p)-1) : q[j] = p[j]
  BY <1>1, <1>4, FrontNodes
<1> HIDE DEF q
<1>6. IsInjective(q)
  <2>1. DOMAIN q = 1..(Len(p)-1)
    BY <1>5
  <2>2. QED
    BY <2>1, <1>3, <1>4, <1>5 DEF IsInjective
<1>7. ASSUME NEW j \in Int
      PROVE  At(q, j) = IF j = Len(p) THEN Null ELSE At(p, j)
  BY <1>4, <1>5 DEF At
<1>8. prev[tail] = At(p, Len(p) - 1)
  <2>1. Len(p) \in 1..Len(p)
    BY <1>4
  <2>2. \A j \in 1..Len(p) : prev[p[j]] = At(p, j-1)
    BY LinkedFacts
  <2>3. tail = p[Len(p)]
    BY <1>4
  <2>4. QED
    BY <2>1, <2>2, <2>3
<1>9. prev[tail] = At(q, Len(q))
  <2>1. Len(p) - 1 \in Int /\ Len(p) - 1 # Len(p)
    BY <1>4
  <2>2. QED
    BY <2>1, <1>5, <1>7, <1>8
<1>10. (IF prev[tail] = Null THEN Null ELSE head) = At(q, 1)
  <2>1. prev[tail] = Null <=> Len(p) = 1
    <3>1. Len(p) \in Nat \ {0}
      BY <1>4
    <3>2. prev[tail] = IF Len(p) - 1 \in 1..Len(p) THEN p[Len(p) - 1] ELSE Null
      BY <1>8 DEF At
    <3>3. CASE Len(p) = 1
      BY <3>2, <3>3
    <3>4. CASE Len(p) # 1
      <4>1. Len(p) - 1 \in 1..Len(p)
        BY <1>4, <3>4, Predecessor
      <4>2. QED
        BY <4>1, <3>2, <3>4, <1>2
    <3>5. QED
      BY <3>3, <3>4
  <2>2. head = At(p, 1)
    BY LinkedFacts
  <2>3. At(q, 1) = IF 1 = Len(p) THEN Null ELSE At(p, 1)
    <3>1. 1 \in Int
      OBVIOUS
    <3>2. QED
      BY <3>1, <1>7
  <2>4. QED
    BY <2>1, <2>2, <2>3
<1>11. ASSUME NEW j \in 1..Len(q)
       PROVE  next2[q[j]] = At(q, j+1) /\ prev[q[j]] = At(q, j-1)
  <2>1. j \in 1..Len(p) /\ j # Len(p) /\ j - 1 # Len(p) /\ j \in 1..(Len(p)-1)
    BY <1>4, <1>5
  <2>2. q[j] = p[j] /\ p[j] \in Nodes /\ next[p[j]] = At(p, j+1) /\ prev[p[j]] = At(p, j-1)
    BY <2>1, <1>2, <1>5, LinkedFacts
  <2>3. p[j] = At(p, Len(p) - 1) <=> j + 1 = Len(p)
    BY <2>1, <1>2, <1>3, <1>4 DEF At
  <2>4. next2[p[j]] = IF j + 1 = Len(p) THEN Null ELSE At(p, j+1)
    BY <2>2, <2>3, <1>8
  <2>5. j + 1 \in Int /\ j - 1 \in Int
    OBVIOUS
  <2>6. At(q, j+1) = next2[p[j]] /\ At(q, j-1) = prev[p[j]]
    BY <2>1, <2>2, <2>4, <2>5, <1>7
  <2>7. QED
    BY <2>2, <2>6
<1>12. QED
  BY <1>4, <1>5, <1>6, <1>9, <1>10, <1>11 DEF Linked, q

\* Taking a node off and linking it before the head moves it to the front.
LEMMA MovePath ==
    ASSUME NEW p, NEW head, NEW tail, NEW next, NEW prev,
           Linked(p, head, tail, next, prev),
           NEW i \in 1..Len(p), NEW e, e = p[i], e # head, NEW next2, NEW prev2,
           \A n \in Nodes :
              /\ next2[n] = IF n = e THEN head
                            ELSE IF n = prev[e] THEN next[e] ELSE next[n]
              /\ prev2[n] = IF n = e THEN Null ELSE IF n = head THEN e
                            ELSE IF n = next[e] THEN prev[e] ELSE prev[n]
    PROVE  Linked(<<e>> \o Unlinked(p, i), e, IF e = tail THEN prev[e] ELSE tail,
                  next2, prev2)
<1> DEFINE q == Unlinked(p, i)
           tail1 == IF e = tail THEN prev[e] ELSE tail
           next1 == [n \in Nodes |-> IF n = prev[e] THEN next[e] ELSE next[n]]
           prev1 == [n \in Nodes |-> IF n = next[e] THEN prev[e] ELSE prev[n]]
<1>1. Linked(q, head, tail1, next1, prev1)
  <2>1. Linked(q, IF e = head THEN next[e] ELSE head, tail1, next1, prev1)
    BY UnlinkPath
  <2>2. QED
    BY <2>1
<1>2. e \in Nodes
  BY LinkedFacts
<1>3. e \notin Range(q)
  BY UnlinkedRange, LinkedFacts
<1>4. tail1 # Null
  <2>1. head = At(q, 1) /\ tail1 = At(q, Len(q)) /\ Len(q) \in Nat
        /\ \A j \in 1..Len(q) : q[j] # Null
    BY <1>1, LinkedFacts
  <2>2. head = At(p, 1) /\ p[1] # Null /\ 1 \in 1..Len(p)
    BY LinkedFacts
  <2>3. head # Null
    BY <2>2 DEF At
  <2>4. 1 \in 1..Len(q) /\ Len(q) \in 1..Len(q)
    BY <2>1, <2>3 DEF At
  <2>5. QED
    BY <2>1, <2>4 DEF At
<1>5. \A n \in Nodes :
        /\ next2[n] = IF n = e THEN head ELSE next1[n]
        /\ prev2[n] = IF n = e THEN Null ELSE IF n = head THEN e ELSE prev1[n]
  OBVIOUS
<1> HIDE DEF q, tail1, next1, prev1
<1>6. Linked(<<e>> \o q, e, IF tail1 = Null THEN e ELSE tail1, next2, prev2)
  BY <1>1, <1>2, <1>3, <1>5, PushPath
<1>7. Linked(<<e>> \o q, e, tail1, next2, prev2)
  BY <1>4, <1>6
<1>8. QED
  BY <1>7 DEF q, tail1

-----------------------------------------------------------------------------
(* The keys along a path.                                                  *)

Keyed(p, key) == [i \in DOMAIN p |-> key[p[i]]]

\* They form a sequence of the same length.
LEMMA KeyedFacts ==
    ASSUME NEW p \in Seq(Nodes), NEW key, \A i \in 1..Len(p) : key[p[i]] \in Keys
    PROVE  /\ Keyed(p, key) \in Seq(Keys) /\ Len(Keyed(p, key)) = Len(p)
           /\ DOMAIN Keyed(p, key) = 1..Len(p)
           /\ \A i \in 1..Len(p) : Keyed(p, key)[i] = key[p[i]]
<1>1. Len(p) \in Nat /\ DOMAIN p = 1..Len(p)
  OBVIOUS
<1>2. QED
  BY <1>1 DEF Keyed

\* Both instances of the sequence operators agree.
LEMMA SameRange == \A s : Lists!Range(s) = Range(s)
  BY Zenon DEF Lists!Range, Range

\* The keys of the others.
LEMMA UnlinkedKeys ==
    ASSUME NEW S, NEW p \in Seq(S), NEW i \in 1..Len(p), NEW key,
           \A j \in 1..Len(p) : key[p[j]] \in Keys
    PROVE  /\ Unlinked(p, i) \in Seq(S)
           /\ \A j \in 1..Len(Unlinked(p, i)) : key[Unlinked(p, i)[j]] \in Keys
<1> DEFINE q == Unlinked(p, i)
<1>1. /\ q \in Seq(S) /\ Len(q) = Len(p) - 1
      /\ \A j \in 1..(Len(p)-1) : q[j] = IF j < i THEN p[j] ELSE p[j+1]
  BY UnlinkedFacts
<1>2. Len(p) \in Nat /\ i \in 1..Len(p)
  OBVIOUS
<1> HIDE DEF q
<1>3. QED
  BY <1>1, <1>2 DEF q

\* A path is its first node before the others.
LEMMA UnlinkedHead ==
    ASSUME NEW S, NEW p \in Seq(S), 1 \in 1..Len(p)
    PROVE  <<p[1]>> \o Unlinked(p, 1) = p
<1> DEFINE q == Unlinked(p, 1)
           r == <<p[1]>> \o q
<1>1. q \in Seq(S) /\ Len(q) = Len(p) - 1 /\ \A j \in 1..(Len(p)-1) : q[j] = p[j+1]
  BY UnlinkedFacts
<1>2. Len(p) \in Nat \ {0} /\ p[1] \in S
  OBVIOUS
<1> HIDE DEF q
<1>3. r \in Seq(S) /\ Len(r) = Len(p) /\ r[1] = p[1] /\ \A j \in 1..(Len(p)-1) : r[j+1] = p[j+1]
  BY <1>1, <1>2
<1> HIDE DEF r
<1>4. ASSUME NEW j \in 1..Len(p)
      PROVE  r[j] = p[j]
  <2>1. CASE j = 1
    BY <2>1, <1>3
  <2>2. CASE j # 1
    <3>1. j - 1 \in 1..(Len(p)-1) /\ (j-1)+1 = j
      BY <2>2, <1>2
    <3>2. QED
      BY <3>1, <1>3
  <2>3. QED
    BY <2>1, <2>2
<1>5. r = p
  BY <1>3, <1>4, SeqEqual
<1>6. QED
  BY <1>5 DEF q, r

\* The nodes of a path with one more in front.
LEMMA ConsRange ==
    ASSUME NEW S, NEW p \in Seq(S), NEW e \in S
    PROVE  Range(<<e>> \o p) = Range(p) \union {e}
  BY Lists!ConsFacts, SameRange

\* Unlinking the first node of a key removes the key's first occurrence.
LEMMA KeyedUnlinked ==
    ASSUME NEW p \in Seq(Nodes), NEW key, \A j \in 1..Len(p) : key[p[j]] \in Keys,
           NEW i \in 1..Len(p), NEW k, k = key[p[i]],
           \A j \in 1..(i-1) : key[p[j]] # k
    PROVE  Lists!RemoveFirst(Keyed(p, key), k) = Keyed(Unlinked(p, i), key)
<1> DEFINE s == Keyed(p, key)
           q == Unlinked(p, i)
           t == Keyed(q, key)
<1>1. /\ s \in Seq(Keys) /\ Len(s) = Len(p)
      /\ \A j \in 1..Len(p) : s[j] = key[p[j]]
  BY KeyedFacts
<1>2. /\ q \in Seq(Nodes) /\ Len(q) = Len(p) - 1
      /\ \A j \in 1..(Len(p)-1) : q[j] = IF j < i THEN p[j] ELSE p[j+1]
  BY UnlinkedFacts
<1>3. Len(p) \in Nat /\ i \in 1..Len(p)
  OBVIOUS
<1> HIDE DEF s, q, t
<1>4. \A j \in 1..Len(q) : key[q[j]] \in Keys
  BY <1>1, <1>2, <1>3
<1>5. t \in Seq(Keys) /\ Len(t) = Len(q) /\ \A j \in 1..Len(q) : t[j] = key[q[j]]
  <2>1. q \in Seq(Nodes)
    BY <1>2
  <2>2. QED
    BY <2>1, <1>4, KeyedFacts DEF t
<1>6. \A j \in 1..(Len(p)-1) : t[j] = IF j < i THEN s[j] ELSE s[j+1]
  BY <1>1, <1>2, <1>3, <1>5
<1>7. k = s[i] /\ \A j \in 1..(i-1) : s[j] # k
  BY <1>1, <1>3
<1>8. Lists!RemovedAt(s, k, t, i)
  BY <1>1, <1>2, <1>5, <1>6, <1>7 DEF Lists!RemovedAt
<1>9. Lists!RemoveFirst(s, k) = t
  <2>1. s \in Seq(Keys) /\ t \in Seq(Keys) /\ i \in 1..Len(s)
    BY <1>1, <1>3, <1>5
  <2>2. QED
    BY <2>1, <1>8, Lists!RemoveFirstIs
<1>10. QED
  BY <1>9 DEF s, q, t

\* The key of a new first node comes first.
LEMMA KeyedPushed ==
    ASSUME NEW p \in Seq(Nodes), NEW key, \A j \in 1..Len(p) : key[p[j]] \in Keys,
           NEW e \in Nodes, key[e] \in Keys
    PROVE  Keyed(<<e>> \o p, key) = <<key[e]>> \o Keyed(p, key)
<1> DEFINE q == <<e>> \o p
           s == Keyed(p, key)
           r == <<key[e]>> \o s
<1>1. Len(p) \in Nat /\ q \in Seq(Nodes) /\ Len(q) = Len(p) + 1 /\ q[1] = e
      /\ \A j \in 1..Len(p) : q[j+1] = p[j]
  OBVIOUS
<1>2. s \in Seq(Keys) /\ Len(s) = Len(p) /\ \A j \in 1..Len(p) : s[j] = key[p[j]]
  BY KeyedFacts
<1> HIDE DEF q, s
<1>3. r \in Seq(Keys) /\ Len(r) = Len(p) + 1 /\ r[1] = key[e]
      /\ \A j \in 1..Len(p) : r[j+1] = key[p[j]]
  BY <1>1, <1>2
<1> HIDE DEF r
<1>4. \A j \in 2..(Len(p)+1) : j-1 \in 1..Len(p) /\ j-1+1 = j
  BY <1>1
<1>5. ASSUME NEW j \in 1..(Len(p)+1)
      PROVE  r[j] = key[q[j]] /\ key[q[j]] \in Keys
  <2>1. CASE j = 1
    BY <2>1, <1>1, <1>3
  <2>2. CASE j # 1
    <3>1. j-1 \in 1..Len(p) /\ j-1+1 = j
      BY <2>2, <1>4
    <3>2. q[j] = p[j-1] /\ r[j] = key[p[j-1]]
      BY <3>1, <1>1, <1>3
    <3>3. QED
      BY <3>1, <3>2
  <2>3. QED
    BY <2>1, <2>2
<1>6. \A j \in 1..Len(q) : key[q[j]] \in Keys
  BY <1>1, <1>5
<1>7. /\ Keyed(q, key) \in Seq(Keys) /\ Len(Keyed(q, key)) = Len(p) + 1
      /\ \A j \in 1..(Len(p)+1) : Keyed(q, key)[j] = key[q[j]]
  BY <1>1, <1>6, KeyedFacts
<1>8. Keyed(q, key) = r
  BY <1>3, <1>5, <1>7, SeqEqual
<1>9. QED
  BY <1>8 DEF q, s, r

\* The keys of all nodes but the last.
LEMMA KeyedFront ==
    ASSUME NEW p \in Seq(Nodes), p # <<>>, NEW key,
           \A j \in 1..Len(p) : key[p[j]] \in Keys
    PROVE  /\ Keyed(Front(p), key) = Lists!Front(Keyed(p, key))
           /\ key[Last(p)] = Lists!Last(Keyed(p, key))
           /\ Keyed(p, key) # <<>>
<1> DEFINE q == Front(p)
           s == Keyed(p, key)
           r == Front(s)
<1>1. /\ q \in Seq(Nodes) /\ Len(q) = Len(p) - 1
      /\ \A j \in 1..(Len(p)-1) : q[j] = p[j]
  BY FrontNodes
<1>2. Len(p) \in Nat \ {0}
  OBVIOUS
<1>3. s \in Seq(Keys) /\ Len(s) = Len(p) /\ \A j \in 1..Len(p) : s[j] = key[p[j]]
  BY KeyedFacts
<1> HIDE DEF q, s
<1>4. s # <<>>
  BY <1>2, <1>3
<1>5. r \in Seq(Keys) /\ Len(r) = Len(p) - 1 /\ \A j \in 1..(Len(p)-1) : r[j] = s[j]
  BY <1>3, <1>4, FrontNodes
<1>6. \A j \in 1..Len(q) : key[q[j]] \in Keys
  BY <1>1, <1>2
<1>7. /\ Keyed(q, key) \in Seq(Keys) /\ Len(Keyed(q, key)) = Len(p) - 1
      /\ \A j \in 1..(Len(p)-1) : Keyed(q, key)[j] = key[q[j]]
  BY <1>1, <1>6, KeyedFacts
<1>8. ASSUME NEW j \in 1..(Len(p)-1)
      PROVE  r[j] = Keyed(q, key)[j]
  <2>1. j \in 1..Len(p)
    BY <1>2
  <2>2. r[j] = key[p[j]]
    BY <2>1, <1>3, <1>5
  <2>3. QED
    BY <2>2, <1>1, <1>7
<1> HIDE DEF r
<1>9. Keyed(q, key) = r
  BY <1>5, <1>7, <1>8, SeqEqual
<1>10. key[Last(p)] = Last(s)
  BY <1>2, <1>3 DEF Last
<1>11. Lists!Front(s) = Front(s) /\ Lists!Last(s) = Last(s)
  BY Zenon DEF Lists!Front, Lists!Last, Front, Last
<1>12. QED
  BY <1>4, <1>9, <1>10, <1>11 DEF q, s, r

-----------------------------------------------------------------------------
(* The newest node of a key: the first one on the path.                    *)

FirstNode(p, key, k, n) ==
    \E i \in 1..Len(p) :
        p[i] = n /\ key[n] = k /\ \A j \in 1..(i-1) : key[p[j]] # k

\* It stays first when another node is unlinked,
LEMMA FirstUnlinked ==
    ASSUME NEW S, NEW p \in Seq(S), NEW i \in 1..Len(p), NEW key, NEW k, NEW n,
           FirstNode(p, key, k, n), p[i] # n
    PROVE  FirstNode(Unlinked(p, i), key, k, n)
<1>1. PICK m \in 1..Len(p) : p[m] = n /\ key[n] = k /\ \A j \in 1..(m-1) : key[p[j]] # k
  BY DEF FirstNode
<1> DEFINE q == Unlinked(p, i)
<1>2. Len(q) = Len(p) - 1
      /\ \A j \in 1..(Len(p)-1) : q[j] = IF j < i THEN p[j] ELSE p[j+1]
  BY UnlinkedFacts
<1>3. Len(p) \in Nat /\ i \in 1..Len(p) /\ m # i
  BY <1>1
<1> HIDE DEF q
<1>4. CASE m < i
  <2>1. m \in 1..Len(q) /\ q[m] = n
    BY <1>1, <1>2, <1>3, <1>4
  <2>2. \A j \in 1..(m-1) : q[j] = p[j]
    BY <1>2, <1>3, <1>4
  <2>3. QED
    BY <2>1, <2>2, <1>1 DEF FirstNode, q
<1>5. CASE m > i
  <2>1. m - 1 \in 1..Len(q) /\ q[m-1] = n
    BY <1>1, <1>2, <1>3, <1>5
  <2>2. ASSUME NEW j \in 1..((m-1)-1)
        PROVE  key[q[j]] # k
    <3>1. j \in 1..(m-1) /\ j + 1 \in 1..(m-1) /\ j \in 1..(Len(p)-1)
      BY <1>3
    <3>2. q[j] = p[j] \/ q[j] = p[j+1]
      BY <3>1, <1>2
    <3>3. QED
      BY <3>1, <3>2, <1>1
  <2>3. QED
    BY <2>1, <2>2, <1>1 DEF FirstNode, q
<1>6. QED
  BY <1>3, <1>4, <1>5

\* when a node of another key is linked before it,
LEMMA FirstPushed ==
    ASSUME NEW S, NEW p \in Seq(S), NEW e \in S, NEW key, NEW k, NEW n,
           FirstNode(p, key, k, n), key[e] # k
    PROVE  FirstNode(<<e>> \o p, key, k, n)
<1>1. PICK m \in 1..Len(p) : p[m] = n /\ key[n] = k /\ \A j \in 1..(m-1) : key[p[j]] # k
  BY DEF FirstNode
<1> DEFINE q == <<e>> \o p
<1>2. Len(p) \in Nat /\ Len(q) = Len(p) + 1 /\ q[1] = e /\ \A j \in 1..Len(p) : q[j+1] = p[j]
  OBVIOUS
<1> HIDE DEF q
<1>3. m + 1 \in 1..Len(q) /\ q[m+1] = n
  BY <1>1, <1>2
<1>4. ASSUME NEW j \in 1..((m+1)-1)
      PROVE  key[q[j]] # k
  <2>1. CASE j = 1
    BY <2>1, <1>2
  <2>2. CASE j # 1
    <3>1. j - 1 \in 1..(m-1) /\ j - 1 \in 1..Len(p) /\ j - 1 + 1 = j
      BY <2>2, <1>2
    <3>2. q[j] = p[j-1]
      BY <3>1, <1>2
    <3>3. QED
      BY <3>1, <3>2, <1>1
  <2>3. QED
    BY <2>1, <2>2
<1>5. QED
  BY <1>1, <1>3, <1>4 DEF FirstNode, q

\* and when another node is cut off at the end.
LEMMA FirstFront ==
    ASSUME NEW S, NEW p \in Seq(S), p # <<>>, NEW key, NEW k, NEW n,
           FirstNode(p, key, k, n), n # Last(p)
    PROVE  FirstNode(Front(p), key, k, n)
<1>1. PICK m \in 1..Len(p) : p[m] = n /\ key[n] = k /\ \A j \in 1..(m-1) : key[p[j]] # k
  BY DEF FirstNode
<1> DEFINE q == Front(p)
<1>2. Len(q) = Len(p) - 1 /\ \A j \in 1..(Len(p)-1) : q[j] = p[j]
  BY FrontNodes
<1>3. Len(p) \in Nat /\ m # Len(p)
  BY <1>1 DEF Last
<1> HIDE DEF q
<1>4. m \in 1..Len(q) /\ q[m] = n /\ \A j \in 1..(m-1) : q[j] = p[j]
  BY <1>1, <1>2, <1>3
<1>5. QED
  BY <1>1, <1>4 DEF FirstNode, q

\* A node linked before the head is the first of its key.
LEMMA FirstHead ==
    ASSUME NEW S, NEW p \in Seq(S), NEW e \in S, NEW key
    PROVE  FirstNode(<<e>> \o p, key, key[e], e)
<1> DEFINE q == <<e>> \o p
<1>1. 1 \in 1..Len(q) /\ q[1] = e /\ \A j \in 1..(1-1) : FALSE
  OBVIOUS
<1> HIDE DEF q
<1>2. QED
  BY <1>1 DEF FirstNode, q

\* A path looks the same when the keys of other nodes change.
LEMMA Rekeyed ==
    ASSUME NEW S, NEW p \in Seq(S), NEW key, NEW key2,
           \A n \in Range(p) : key2[n] = key[n]
    PROVE  /\ Keyed(p, key2) = Keyed(p, key)
           /\ \A k, n : FirstNode(p, key, k, n) => FirstNode(p, key2, k, n)
<1>1. DOMAIN p = 1..Len(p) /\ Len(p) \in Nat /\ \A i \in 1..Len(p) : key2[p[i]] = key[p[i]]
  BY DEF Range
<1>2. Keyed(p, key2) = Keyed(p, key)
  BY <1>1 DEF Keyed
<1>3. ASSUME NEW k, NEW n, FirstNode(p, key, k, n)
      PROVE  FirstNode(p, key2, k, n)
  <2>1. PICK m \in 1..Len(p) : p[m] = n /\ key[n] = k /\ \A j \in 1..(m-1) : key[p[j]] # k
    BY <1>3 DEF FirstNode
  <2>2. \A j \in 1..(m-1) : j \in 1..Len(p)
    BY <1>1
  <2>3. QED
    BY <2>1, <2>2, <1>1 DEF FirstNode
<1>4. QED
  BY <1>2, <1>3

-----------------------------------------------------------------------------
(* The inductive invariant.                                                *)

\* One doubly linked list of allocated nodes, on which the node the map has
\* for a key is the newest of that key.
Shape ==
    /\ Linked(Forward, head_, tail_, next_, prev_)
    /\ Range(Forward) \subseteq live
    /\ \A n \in live : key_[n] \in Keys
    /\ \A k \in Keys : Tracked(k) => FirstNode(Forward, key_, k, cache_entries_[k])

\* The nodes the map does not know: those a load made, and what of them leaked.
Unmapped == live \ {cache_entries_[k] : k \in Keys}

IInv ==
    /\ TypeOK
    /\ file.count <= Len(file.keys) /\ file.count <= Cardinality(Keys)
    /\ fault # "dangling" => Shape /\ Cardinality(Unmapped) <= Cardinality(Keys)

\* The pointers after a step are followed along the path they then form.
LEMMA NewPath ==
    ASSUME NEW q, Linked(q, head_', tail_', next_', prev_')
    PROVE  Forward' = q
  BY WalkFindsPath DEF Forward

\* The list of keys is read off the path.
LEMMA ListIsKeyed == KeysOf(Forward) = Keyed(Forward, key_)
  BY DEF KeysOf, Keyed

\* So it is after a step.
LEMMA ListIsKeyedNext == KeysOf(Forward)' = Keyed(Forward', key_')
  BY DEF KeysOf, Keyed

\* The path and the keys on it.
LEMMA PathFacts ==
    ASSUME Shape
    PROVE  /\ Forward \in Seq(Nodes) /\ Len(Forward) \in Nat
           /\ DOMAIN Forward = 1..Len(Forward)
           /\ \A a, b \in 1..Len(Forward) : Forward[a] = Forward[b] => a = b
           /\ \A j \in 1..Len(Forward) :
                Forward[j] \in Nodes /\ Forward[j] \in live /\ key_[Forward[j]] \in Keys
<1>1. /\ Forward \in Seq(Nodes) /\ Len(Forward) \in Nat
      /\ DOMAIN Forward = 1..Len(Forward)
      /\ \A a, b \in 1..Len(Forward) : Forward[a] = Forward[b] => a = b
      /\ \A j \in 1..Len(Forward) : Forward[j] \in Nodes
  BY LinkedFacts DEF Shape
<1>2. \A j \in 1..Len(Forward) : Forward[j] \in live
  BY <1>1 DEF Shape, Range
<1>3. QED
  BY <1>1, <1>2 DEF Shape

\* The node of a key in the map.
LEMMA EntryFacts ==
    ASSUME IInv, fault # "dangling", NEW k \in Keys, Tracked(k)
    PROVE  /\ cache_entries_[k] \in Nodes /\ cache_entries_[k] \in live
           /\ key_[cache_entries_[k]] = k
           /\ \E i \in 1..Len(Forward) :
                /\ Forward[i] = cache_entries_[k]
                /\ \A j \in 1..(i-1) : key_[Forward[j]] # k
<1>1. /\ cache_entries_[k] \in Nodes /\ cache_entries_[k] \in live
      /\ key_[cache_entries_[k]] = k
  BY DEF IInv, TypeOK, Address, Tracked
<1>2. FirstNode(Forward, key_, k, cache_entries_[k])
  BY DEF IInv, Shape
<1>3. QED
  BY <1>1, <1>2 DEF FirstNode

\* The map does not share nodes.
LEMMA EntriesDiffer ==
    ASSUME IInv, fault # "dangling", NEW k \in Keys, NEW other \in Keys,
           Tracked(k), cache_entries_[other] = cache_entries_[k]
    PROVE  other = k
  BY EntryFacts DEF Tracked

\* The empty replacer satisfies the invariant and is the empty sequence.
LEMMA Initially == Init => IInv /\ Lists!Init
<1> SUFFICES ASSUME Init PROVE IInv /\ Lists!Init
  OBVIOUS
<1>1. TypeOK
  BY MountsAssumption, NodesAre DEF Init, TypeOK, Address, NoFile, Tracked
<1>2. Linked(<<>>, head_, tail_, next_, prev_)
  BY DEF Init, Linked, At, IsInjective
<1>3. Forward = <<>>
  BY <1>2, WalkFindsPath DEF Forward
<1>4. Shape
  BY <1>2, <1>3 DEF Shape, Init, Range, Tracked
<1>5. Cardinality(Unmapped) <= Cardinality(Keys)
  <2>1. Unmapped = {}
    BY DEF Unmapped, Init
  <2>2. QED
    BY <2>1, NodesAre, FS_EmptySet
<1>6. file.count <= Len(file.keys) /\ file.count <= Cardinality(Keys)
  BY NodesAre DEF Init, NoFile
<1>7. KeysOf(Forward) = <<>> /\ {k \in Keys : Tracked(k)} = {}
  BY <1>3 DEF KeysOf, Init, Tracked
<1>8. Lists!Init
  BY <1>7 DEF Init, Lists!Init, NoFile, Lists!NoFile
<1>9. QED
  BY <1>1, <1>4, <1>5, <1>6, <1>8 DEF IInv

\* Nothing changes where the pointers, the map and the file do not.
LEMMA SameLinks ==
    ASSUME UNCHANGED links
    PROVE  /\ Forward' = Forward /\ KeysOf(Forward)' = KeysOf(Forward)
           /\ {k \in Keys : Tracked(k)}' = {k \in Keys : Tracked(k)}
           /\ Shape' <=> Shape
           /\ Unmapped' = Unmapped
<1>1. Forward' = Forward
  BY DEF links, Forward
<1>2. QED
  BY <1>1 DEF links, KeysOf, Tracked, Shape, Unmapped

-----------------------------------------------------------------------------
(* One lemma per action: it keeps the invariant and does to the sequence   *)
(* of keys what RecencyList's action does.                                 *)

\* The list before the path changes.
LEMMA ListFacts ==
    ASSUME Shape
    PROVE  /\ KeysOf(Forward) \in Seq(Keys) /\ Len(KeysOf(Forward)) = Len(Forward)
           /\ \A i \in 1..Len(Forward) : KeysOf(Forward)[i] = key_[Forward[i]]
  BY PathFacts, KeyedFacts, ListIsKeyed

\* An accessed key whose node is the head already.
LEMMA AccessHeadStep ==
    ASSUME IInv, NEW k \in Keys, AccessHead(k)
    PROVE  IInv' /\ Lists!Access(k)
<1> DEFINE p == Forward
           e == cache_entries_[k]
           q == Unlinked(p, 1)
<1>1. fault # "dangling" /\ Shape
  BY DEF AccessHead, Running, IInv
<1>2. IInv'
  BY SameLinks DEF IInv, AccessHead, TypeOK, links, Tracked
<1>3. e \in Nodes /\ key_[e] = k
  BY <1>1, EntryFacts DEF AccessHead
<1>4. p \in Seq(Nodes) /\ 1 \in 1..Len(p) /\ p[1] = e
  <2>1. head_ = At(p, 1)
    BY <1>1 DEF Shape, Linked
  <2>2. At(p, 1) = e /\ e # Null
    BY <2>1, <1>3, NodesAre DEF AccessHead
  <2>3. QED
    BY <2>2, <1>1, PathFacts DEF At
<1>5. \A j \in 1..Len(p) : key_[p[j]] \in Keys
  BY <1>1, PathFacts
<1>6. Lists!RemoveFirst(Keyed(p, key_), k) = Keyed(q, key_)
  <2>1. \A j \in 1..(1-1) : key_[p[j]] # k
    OBVIOUS
  <2>2. QED
    BY <2>1, <1>3, <1>4, <1>5, KeyedUnlinked
<1>7. q \in Seq(Nodes) /\ \A j \in 1..Len(q) : key_[q[j]] \in Keys
  BY <1>4, <1>5, UnlinkedKeys
<1>8. <<e>> \o q = p
  BY <1>4, UnlinkedHead
<1>9. <<k>> \o Lists!RemoveFirst(Keyed(p, key_), k) = Keyed(p, key_)
  BY <1>3, <1>6, <1>7, <1>8, KeyedPushed
<1>10. k \in {x \in Keys : Tracked(x)}
  BY DEF AccessHead
<1>11. Lists!Access(k)
  <2>1. KeysOf(Forward)' = Lists!AccessList(k)
    BY <1>9, <1>10, ListIsKeyed, SameLinks DEF Lists!AccessList, AccessHead
  <2>2. {x \in Keys : Tracked(x)}' = {x \in Keys : Tracked(x)} \union {k}
    BY <1>10, SameLinks DEF AccessHead
  <2>3. QED
    BY <2>1, <2>2 DEF Lists!Access, Lists!Running, AccessHead, Running
<1>12. QED
  BY <1>2, <1>11

\* An accessed key whose node moves to the front.
LEMMA AccessMoveStep ==
    ASSUME IInv, NEW k \in Keys, AccessMove(k)
    PROVE  IInv' /\ Lists!Access(k)
<1> DEFINE p == Forward
           e == cache_entries_[k]
<1>1. fault # "dangling" /\ Shape /\ Tracked(k) /\ UNCHANGED fault
  BY DEF AccessMove, Running, IInv
<1>2. e \in Nodes /\ e \in live /\ key_[e] = k /\ key_[e] \in Keys
  BY <1>1, EntryFacts
<1>3. PICK i \in 1..Len(p) : p[i] = e /\ \A j \in 1..(i-1) : key_[p[j]] # k
  BY <1>1, EntryFacts
<1> DEFINE q == Unlinked(p, i)
           r == <<e>> \o q
<1>4. p \in Seq(Nodes) /\ \A j \in 1..Len(p) : key_[p[j]] \in Keys
  BY <1>1, PathFacts
<1>5. q \in Seq(Nodes) /\ \A j \in 1..Len(q) : key_[q[j]] \in Keys
  BY <1>4, UnlinkedKeys
<1>6. Linked(r, head_', tail_', next_', prev_')
  <2>1. next_ \in [Nodes -> Address] /\ prev_ \in [Nodes -> Address]
    BY DEF IInv, TypeOK
  <2>2. \A n \in Nodes :
          /\ next_'[n] = IF n = e THEN head_
                          ELSE IF n = prev_[e] THEN next_[e] ELSE next_[n]
          /\ prev_'[n] = IF n = e THEN Null ELSE IF n = head_ THEN e
                          ELSE IF n = next_[e] THEN prev_[e] ELSE prev_[n]
    BY DEF AccessMove, NextWithout, PrevWithout
  <2>3. e # head_ /\ head_' = e /\ tail_' = IF e = tail_ THEN prev_[e] ELSE tail_
    BY DEF AccessMove, TailAfterMove
  <2>4. Linked(p, head_, tail_, next_, prev_)
    BY <1>1 DEF Shape
  <2> HIDE DEF p, e
  <2>5. Linked(r, e, IF e = tail_ THEN prev_[e] ELSE tail_, next_', prev_')
    BY <2>2, <2>3, <2>4, <1>3, MovePath
  <2>6. QED
    BY <2>3, <2>5
<1>7. Forward' = r
  BY <1>6, NewPath
<1>8. UNCHANGED <<key_, live, cache_entries_, file, fault, mounted, mount>> /\ victim' = NoKey
  BY DEF AccessMove
<1>9. Shape'
  <2>1. Range(r) \subseteq live
    <3>1. Range(q) \subseteq Range(p)
      BY <1>1, <1>4, UnlinkedRange, PathFacts
    <3>2. Range(r) = Range(q) \union {e}
      BY <1>2, <1>5, ConsRange
    <3>3. QED
      BY <3>1, <3>2, <1>1, <1>2 DEF Shape
  <2>2. ASSUME NEW x \in Keys, Tracked(x)
        PROVE  FirstNode(r, key_, x, cache_entries_[x])
    <3>1. CASE x = k
      BY <3>1, <1>2, <1>5, FirstHead
    <3>2. CASE x # k
      <4>1. FirstNode(p, key_, x, cache_entries_[x]) /\ cache_entries_[x] # e
        BY <2>2, <3>2, <1>1, EntriesDiffer DEF Shape
      <4>2. FirstNode(q, key_, x, cache_entries_[x])
        BY <4>1, <1>3, <1>4, FirstUnlinked
      <4>3. QED
        BY <4>2, <3>2, <1>2, <1>5, FirstPushed
    <3>3. QED
      BY <3>1, <3>2
  <2>3. QED
    BY <2>1, <2>2, <1>1, <1>6, <1>7, <1>8 DEF Shape, Tracked
<1>10. TypeOK'
  <2>0. /\ next_ \in [Nodes -> Address] /\ prev_ \in [Nodes -> Address]
        /\ head_ \in Address /\ tail_ \in Address /\ e \in Address /\ Null \in Address
    BY <1>2 DEF IInv, TypeOK, Address
  <2>a. next_' \in [Nodes -> Address]
    BY <1>2, <2>0 DEF AccessMove, NextWithout
  <2>b. prev_' \in [Nodes -> Address]
    BY <1>2, <2>0 DEF AccessMove, PrevWithout
  <2>1. /\ next_' \in [Nodes -> Address] /\ prev_' \in [Nodes -> Address]
        /\ head_' \in Address /\ tail_' \in Address
    BY <1>2, <2>0, <2>a, <2>b DEF AccessMove, TailAfterMove
  <2>2. QED
    BY <2>1, <1>8 DEF IInv, TypeOK, Tracked
<1>11. IInv'
  BY <1>8, <1>9, <1>10 DEF IInv, Unmapped
<1>12. KeysOf(Forward)' = <<k>> \o Lists!RemoveFirst(KeysOf(Forward), k)
  <2>1. Lists!RemoveFirst(Keyed(p, key_), k) = Keyed(q, key_)
    BY <1>2, <1>3, <1>4, KeyedUnlinked
  <2>2. Keyed(r, key_) = <<k>> \o Keyed(q, key_)
    BY <1>2, <1>5, KeyedPushed
  <2>3. QED
    BY <2>1, <2>2, <1>7, <1>8, ListIsKeyed, ListIsKeyedNext
<1>13. Lists!Access(k)
  <2>1. k \in {x \in Keys : Tracked(x)} /\ {x \in Keys : Tracked(x)}' = {x \in Keys : Tracked(x)}
    BY <1>1, <1>8 DEF Tracked
  <2>2. QED
    BY <2>1, <1>8, <1>12 DEF Lists!Access, Lists!AccessList, Lists!Running, AccessMove, Running
<1>14. QED
  BY <1>11, <1>13

\* Two nodes for every key leave one free while a key has none.
LEMMA FreeNode ==
    ASSUME IInv, fault # "dangling", NEW k \in Keys, ~Tracked(k)
    PROVE  Min(Nodes \ live) \in Nodes \ live
<1> DEFINE Others == Keys \ {k}
           image == {cache_entries_[x] : x \in Others}
           f == [x \in Others |-> cache_entries_[x]]
<1>1. /\ IsFiniteSet(Others) /\ Cardinality(Others) = Cardinality(Keys) - 1
  BY KeysAssumption, FS_RemoveElement
<1>2. IsFiniteSet(image) /\ Cardinality(image) <= Cardinality(Keys) - 1
  <2>1. f \in Surjection(Others, image)
    BY DEF Surjection
  <2> HIDE DEF f, Others, image
  <2>2. QED
    BY <2>1, <1>1, FS_Surjection
<1>3. live \subseteq Nodes /\ IsFiniteSet(live) /\ Null \notin live
  <2>1. live \subseteq Nodes
    BY DEF IInv, TypeOK
  <2>2. QED
    BY <2>1, NodesAre, FS_Subset
<1>4. live \subseteq Unmapped \union image
  BY <1>3 DEF Unmapped, Tracked
<1>5. IsFiniteSet(Unmapped) /\ Cardinality(Unmapped) <= Cardinality(Keys)
  BY <1>3, FS_Subset DEF Unmapped, IInv
<1> HIDE DEF image, Others
<1>6. Cardinality(Unmapped \union image) <= 2 * Cardinality(Keys) - 1
  <2>1. /\ IsFiniteSet(Unmapped \union image)
        /\ Cardinality(Unmapped \union image) =
              Cardinality(Unmapped) + Cardinality(image) - Cardinality(Unmapped \cap image)
    BY <1>2, <1>5, FS_Union
  <2>2. IsFiniteSet(Unmapped \cap image)
    BY <1>2, FS_Intersection
  <2>3. /\ Cardinality(Unmapped) \in Nat /\ Cardinality(image) \in Nat
        /\ Cardinality(Unmapped \cap image) \in Nat /\ Cardinality(Keys) \in Nat
    BY <2>2, <1>2, <1>5, NodesAre, FS_CardinalityType
  <2>4. QED
    BY <2>1, <2>3, <1>2, <1>5
<1>7. live # Nodes
  <2> SUFFICES ASSUME live = Nodes PROVE FALSE
    OBVIOUS
  <2>1. IsFiniteSet(Unmapped \union image) /\ Nodes \subseteq Unmapped \union image
    BY <1>2, <1>4, <1>5, FS_Union
  <2>2. Cardinality(Nodes) <= Cardinality(Unmapped \union image)
    BY <2>1, FS_Subset
  <2>3. Cardinality(Unmapped \union image) \in Nat
    BY <2>1, FS_CardinalityType
  <2>4. QED
    BY <2>2, <2>3, <1>6, NodesAre
<1>8. Nodes \ live # {} /\ Nodes \ live \in SUBSET Nat
  <2>1. Nodes \subseteq Nat
    BY NodesAre
  <2>2. QED
    BY <2>1, <1>3, <1>7
<1>9. Lists!Min(Nodes \ live) \in Nodes \ live
  BY <1>8, Lists!SmallestIndex
<1>10. Lists!Min(Nodes \ live) = Min(Nodes \ live)
  BY Zenon DEF Lists!Min, Min
<1>11. QED
  BY <1>9, <1>10

\* A key that is new to the map gets a node before the head.
LEMMA AccessNewStep ==
    ASSUME IInv, NEW k \in Keys, AccessNew(k)
    PROVE  IInv' /\ Lists!Access(k)
<1> DEFINE p == Forward
           e == Min(Nodes \ live)
           r == <<e>> \o p
<1>1. fault # "dangling" /\ Shape /\ ~Tracked(k) /\ UNCHANGED fault
  BY DEF AccessNew, Running, IInv
<1>2. e \in Nodes /\ e \notin live
  BY <1>1, FreeNode
<1>3. p \in Seq(Nodes) /\ (\A j \in 1..Len(p) : key_[p[j]] \in Keys) /\ e \notin Range(p)
  BY <1>1, <1>2, PathFacts DEF Shape
<1>4. /\ live' = live \union {e} /\ key_' = [key_ EXCEPT ![e] = k]
      /\ cache_entries_' = [cache_entries_ EXCEPT ![k] = e]
      /\ head_' = e /\ tail_' = IF tail_ = Null THEN e ELSE tail_
      /\ victim' = NoKey /\ UNCHANGED <<file, fault, mounted, mount>>
  BY DEF AccessNew
<1>5. /\ next_' = [next_ EXCEPT ![e] = head_]
      /\ prev_' = [n \in Nodes |-> IF n = e THEN Null
                                   ELSE IF n = head_ THEN e ELSE prev_[n]]
  BY DEF AccessNew
<1> HIDE DEF e
<1>6. Linked(r, head_', tail_', next_', prev_')
  <2>1. \A n \in Nodes :
          /\ next_'[n] = IF n = e THEN head_ ELSE next_[n]
          /\ prev_'[n] = IF n = e THEN Null ELSE IF n = head_ THEN e ELSE prev_[n]
    BY <1>5 DEF IInv, TypeOK
  <2>2. Linked(p, head_, tail_, next_, prev_)
    BY <1>1 DEF Shape
  <2> HIDE DEF p
  <2>3. QED
    BY <2>1, <2>2, <1>2, <1>3, <1>4, PushPath
<1>7. Forward' = r
  BY <1>6, NewPath
<1>8. key_'[e] = k /\ (\A n \in Range(p) : key_'[n] = key_[n]) /\ (\A n \in live : key_'[n] = key_[n])
  BY <1>1, <1>2, <1>3, <1>4 DEF IInv, TypeOK
<1>9. \A x \in Keys : cache_entries_'[x] = IF x = k THEN e ELSE cache_entries_[x]
  BY <1>4 DEF IInv, TypeOK
<1>10. Shape'
  <2>1. Range(r) \subseteq live'
    BY <1>1, <1>2, <1>3, <1>4, ConsRange DEF Shape
  <2>2. \A n \in live' : key_'[n] \in Keys
    BY <1>1, <1>4, <1>8 DEF Shape
  <2>3. ASSUME NEW x \in Keys, cache_entries_'[x] # Null
        PROVE  FirstNode(r, key_', x, cache_entries_'[x])
    <3>1. CASE x = k
      BY <3>1, <1>2, <1>3, <1>8, <1>9, FirstHead
    <3>2. CASE x # k
      <4>1. FirstNode(p, key_, x, cache_entries_[x])
        BY <2>3, <3>2, <1>1, <1>9 DEF Shape, Tracked
      <4>2. FirstNode(p, key_', x, cache_entries_[x])
        BY <4>1, <1>3, <1>8, Rekeyed
      <4>3. QED
        BY <4>2, <3>2, <1>2, <1>3, <1>8, <1>9, FirstPushed
    <3>3. QED
      BY <3>1, <3>2
  <2>4. QED
    BY <2>1, <2>2, <2>3, <1>6, <1>7 DEF Shape, Tracked
<1>11. TypeOK'
  <2>1. /\ next_' \in [Nodes -> Address] /\ prev_' \in [Nodes -> Address]
        /\ key_' \in [Nodes -> Keys \union {NoKey}]
        /\ cache_entries_' \in [Keys -> Address]
    BY <1>2, <1>4, <1>5 DEF IInv, TypeOK, Address
  <2>2. live' \subseteq Nodes /\ head_' \in Address /\ tail_' \in Address
    BY <1>2, <1>4 DEF IInv, TypeOK, Address
  <2>3. ASSUME NEW x \in Keys, cache_entries_'[x] # Null
        PROVE  cache_entries_'[x] \in live' /\ key_'[cache_entries_'[x]] = x
    <3>1. CASE x = k
      BY <3>1, <1>4, <1>8, <1>9
    <3>2. CASE x # k
      BY <3>2, <2>3, <1>1, <1>4, <1>8, <1>9, EntryFacts DEF Tracked
    <3>3. QED
      BY <3>1, <3>2
  <2>4. QED
    BY <2>1, <2>2, <2>3, <1>4 DEF IInv, TypeOK, Tracked
<1>12. Unmapped' = Unmapped
  <2>1. Null \notin live /\ cache_entries_[k] = Null
    BY <1>1, NodesAre DEF IInv, TypeOK, Tracked
  <2>2. {cache_entries_'[x] : x \in Keys} = {cache_entries_[x] : x \in Keys \ {k}} \union {e}
    BY <1>9
  <2>3. QED
    BY <2>1, <2>2, <1>2, <1>4 DEF Unmapped
<1>13. IInv'
  BY <1>4, <1>10, <1>11, <1>12 DEF IInv
<1>14. KeysOf(Forward)' = <<k>> \o KeysOf(Forward)
  <2>1. Keyed(p, key_') = Keyed(p, key_)
    BY <1>3, <1>8, Rekeyed
  <2>2. \A j \in 1..Len(p) : key_'[p[j]] \in Keys
    <3>1. \A j \in 1..Len(p) : p[j] \in Range(p)
      BY <1>3 DEF Range
    <3>2. QED
      BY <3>1, <1>3, <1>8
  <2>3. Keyed(r, key_') = <<k>> \o Keyed(p, key_')
    BY <2>2, <1>2, <1>3, <1>8, KeyedPushed
  <2>4. QED
    BY <2>1, <2>3, <1>7, ListIsKeyed, ListIsKeyedNext
<1>15. Lists!Access(k)
  <2>1. k \notin {x \in Keys : Tracked(x)}
    BY <1>1
  <2>2. {x \in Keys : Tracked(x)}' = {x \in Keys : Tracked(x)} \union {k}
    BY <1>2, <1>9, NodesAre DEF Tracked
  <2>3. QED
    BY <2>1, <2>2, <1>4, <1>14 DEF Lists!Access, Lists!AccessList, Lists!Running, AccessNew, Running
<1>16. QED
  BY <1>13, <1>15

\* A key leaves the map, its node is freed: the other nodes are as before.
LEMMA DropEntry ==
    ASSUME IInv, fault # "dangling", NEW k \in Keys,
           live' = live \ {cache_entries_[k]}, cache_entries_' = Erased(k)
    PROVE  /\ Unmapped' = Unmapped
           /\ cache_entries_' \in [Keys -> Address]
           /\ \A x \in Keys : cache_entries_'[x] = IF x = k THEN Null ELSE cache_entries_[x]
           /\ \A x \in Keys : cache_entries_'[x] # Null =>
                /\ x # k /\ Tracked(x) /\ cache_entries_'[x] = cache_entries_[x]
                /\ cache_entries_[x] # cache_entries_[k]
                /\ cache_entries_[x] \in live' /\ key_[cache_entries_[x]] = x
           /\ {x \in Keys : Tracked(x)}' = {x \in Keys : Tracked(x)} \ {k}
<1>1. /\ cache_entries_' \in [Keys -> Address]
      /\ \A x \in Keys : cache_entries_'[x] = IF x = k THEN Null ELSE cache_entries_[x]
  BY DEF Erased, IInv, TypeOK, Address
<1>2. ASSUME NEW x \in Keys, cache_entries_'[x] # Null
      PROVE  /\ x # k /\ Tracked(x) /\ cache_entries_'[x] = cache_entries_[x]
             /\ cache_entries_[x] # cache_entries_[k]
             /\ cache_entries_[x] \in live' /\ key_[cache_entries_[x]] = x
  <2>1. x # k /\ Tracked(x) /\ cache_entries_'[x] = cache_entries_[x]
    BY <1>1, <1>2 DEF Tracked
  <2>2. cache_entries_[x] # cache_entries_[k]
    BY <2>1, EntriesDiffer DEF Tracked
  <2>3. QED
    BY <2>1, <2>2, EntryFacts
<1>3. Unmapped' = Unmapped
  <2>1. Null \notin live
    BY NodesAre DEF IInv, TypeOK
  <2> DEFINE image == {cache_entries_[x] : x \in Keys}
             image2 == {cache_entries_'[x] : x \in Keys}
  <2>2. image2 \subseteq image \union {Null} /\ image \subseteq image2 \union {cache_entries_[k]}
    BY <1>1
  <2>3. cache_entries_[k] \in image
    OBVIOUS
  <2> HIDE DEF image, image2
  <2>4. live' \ image2 = live \ image
    BY <2>1, <2>2, <2>3
  <2>5. QED
    BY <2>4 DEF Unmapped, image, image2
<1>4. {x \in Keys : Tracked(x)}' = {x \in Keys : Tracked(x)} \ {k}
  BY <1>1 DEF Tracked
<1>5. QED
  BY <1>1, <1>2, <1>3, <1>4

\* A removed key: its node is unlinked.
LEMMA RemoveEntryStep ==
    ASSUME IInv, NEW k \in Keys, RemoveEntry(k)
    PROVE  IInv' /\ Lists!RemoveKey(k)
<1> DEFINE p == Forward
           e == cache_entries_[k]
<1>1. fault # "dangling" /\ Shape /\ Tracked(k) /\ UNCHANGED fault
  BY DEF RemoveEntry, Running, IInv
<1>2. e \in Nodes /\ e \in live /\ key_[e] = k
  BY <1>1, EntryFacts
<1>3. PICK i \in 1..Len(p) : p[i] = e /\ \A j \in 1..(i-1) : key_[p[j]] # k
  BY <1>1, EntryFacts
<1> DEFINE q == Unlinked(p, i)
<1>4. /\ p \in Seq(Nodes) /\ \A j \in 1..Len(p) : key_[p[j]] \in Keys
  BY <1>1, PathFacts
<1>5. /\ live' = live \ {e} /\ cache_entries_' = Erased(k) /\ victim' = NoKey
      /\ UNCHANGED <<key_, file, fault, mounted, mount>>
      /\ head_' = IF e = head_ THEN next_[e] ELSE head_
      /\ tail_' = IF e = tail_ THEN prev_[e] ELSE tail_
  BY DEF RemoveEntry
<1>6. Linked(q, head_', tail_', next_', prev_')
  <2>1. \A n \in Nodes :
          /\ next_'[n] = IF n = prev_[e] THEN next_[e] ELSE next_[n]
          /\ prev_'[n] = IF n = next_[e] THEN prev_[e] ELSE prev_[n]
    BY DEF RemoveEntry, NextWithout, PrevWithout
  <2>2. Linked(p, head_, tail_, next_, prev_)
    BY <1>1 DEF Shape
  <2> HIDE DEF p, e
  <2>3. Linked(q, IF e = head_ THEN next_[e] ELSE head_,
               IF e = tail_ THEN prev_[e] ELSE tail_, next_', prev_')
    BY <2>1, <2>2, <1>3, UnlinkPath
  <2>4. QED
    BY <2>3, <1>5
<1>7. Forward' = q
  BY <1>6, NewPath
<1>8. /\ Unmapped' = Unmapped
      /\ cache_entries_' \in [Keys -> Address]
      /\ {x \in Keys : Tracked(x)}' = {x \in Keys : Tracked(x)} \ {k}
  BY <1>1, <1>5, DropEntry
<1>9. ASSUME NEW x \in Keys, cache_entries_'[x] # Null
      PROVE  /\ Tracked(x) /\ cache_entries_'[x] = cache_entries_[x] /\ cache_entries_[x] # e
             /\ cache_entries_[x] \in live' /\ key_[cache_entries_[x]] = x
  BY <1>1, <1>5, <1>9, DropEntry
<1>10. Shape'
  <2>1. Range(q) \subseteq live'
    <3>1. Range(q) \subseteq Range(p) /\ e \notin Range(q)
      BY <1>1, <1>3, <1>4, UnlinkedRange, PathFacts
    <3>2. QED
      BY <3>1, <1>1, <1>5 DEF Shape
  <2>2. ASSUME NEW x \in Keys, cache_entries_'[x] # Null
        PROVE  FirstNode(q, key_, x, cache_entries_'[x])
    <3>1. FirstNode(p, key_, x, cache_entries_[x])
      BY <2>2, <1>1, <1>9 DEF Shape
    <3>2. QED
      BY <2>2, <3>1, <1>3, <1>4, <1>9, FirstUnlinked
  <2>3. QED
    BY <2>1, <2>2, <1>1, <1>5, <1>6, <1>7 DEF Shape, Tracked
<1>11. TypeOK'
  <2>1. /\ next_' \in [Nodes -> Address] /\ prev_' \in [Nodes -> Address]
        /\ head_' \in Address /\ tail_' \in Address
    BY <1>2 DEF RemoveEntry, NextWithout, PrevWithout, IInv, TypeOK, Address
  <2>2. live' \subseteq Nodes
    BY <1>5 DEF IInv, TypeOK
  <2>3. QED
    BY <2>1, <2>2, <1>5, <1>8, <1>9 DEF IInv, TypeOK, Tracked
<1>12. IInv'
  BY <1>5, <1>8, <1>10, <1>11 DEF IInv
<1>13. KeysOf(Forward)' = Lists!RemoveFirst(KeysOf(Forward), k)
  <2>1. Lists!RemoveFirst(Keyed(p, key_), k) = Keyed(q, key_)
    BY <1>2, <1>3, <1>4, KeyedUnlinked
  <2>2. QED
    BY <2>1, <1>5, <1>7, ListIsKeyed, ListIsKeyedNext
<1>14. Lists!RemoveKey(k)
  BY <1>1, <1>5, <1>8, <1>13 DEF Lists!RemoveKey, Lists!Erased, Lists!Running, RemoveEntry, Running
<1>15. QED
  BY <1>12, <1>14

\* The tail is cut off; the node freed is the one the map has for its key.
LEMMA EvictTailStep ==
    ASSUME IInv, Evict
    PROVE  IInv' /\ Lists!EvictTail
<1> DEFINE p == Forward
           q == Front(p)
           k == key_[tail_]
           freed == cache_entries_[k]
<1>1. fault # "dangling" /\ Shape /\ tail_ # Null
  BY DEF Evict, Running, IInv
<1>2. /\ live' = live \ {freed} /\ cache_entries_' = Erased(k) /\ victim' = k
      /\ fault' = (IF freed \notin {tail_, Null} THEN "dangling" ELSE "none")
      /\ tail_' = prev_[tail_] /\ head_' = (IF prev_[tail_] = Null THEN Null ELSE head_)
      /\ UNCHANGED <<key_, prev_, file, mounted, mount>>
  BY DEF Evict
<1>3. p # <<>> /\ tail_ = Last(p) /\ Linked(q, head_', tail_', next_', prev_)
  <2>1. Linked(p, head_, tail_, next_, prev_)
    BY <1>1 DEF Shape
  <2>2. \A n \in Nodes : next_'[n] = IF n = prev_[tail_] THEN Null ELSE next_[n]
    BY DEF Evict
  <2> HIDE DEF p
  <2>3. /\ p # <<>> /\ tail_ = Last(p)
        /\ Linked(q, IF prev_[tail_] = Null THEN Null ELSE head_, prev_[tail_], next_', prev_)
    BY <2>1, <2>2, <1>1, PopPath
  <2>4. QED
    BY <2>3, <1>2
<1>4. Forward' = q
  BY <1>2, <1>3, NewPath
<1>5. /\ p \in Seq(Nodes) /\ Len(p) \in Nat \ {0} /\ tail_ = p[Len(p)]
      /\ \A j \in 1..Len(p) : key_[p[j]] \in Keys
  BY <1>1, <1>3, PathFacts DEF Last
<1>6. tail_ \in Nodes /\ tail_ \in live /\ k \in Keys
  BY <1>1, <1>5, PathFacts
<1>7. /\ q \in Seq(Nodes) /\ Len(q) = Len(p) - 1 /\ DOMAIN q = 1..(Len(p)-1)
      /\ \A j \in 1..(Len(p)-1) : q[j] = p[j]
  <2>1. /\ q \in Seq(Nodes) /\ Len(q) = Len(p) - 1
        /\ \A j \in 1..(Len(p)-1) : q[j] = p[j]
    BY <1>3, <1>5, FrontNodes
  <2>2. QED
    BY <2>1
<1> HIDE DEF p, q, k, freed
<1>8. /\ Unmapped' = Unmapped
      /\ cache_entries_' \in [Keys -> Address]
      /\ {x \in Keys : Tracked(x)}' = {x \in Keys : Tracked(x)} \ {k}
  BY <1>1, <1>2, <1>6, DropEntry DEF freed
<1>9. ASSUME NEW x \in Keys, cache_entries_'[x] # Null
      PROVE  /\ Tracked(x) /\ cache_entries_'[x] = cache_entries_[x] /\ x # k
             /\ cache_entries_[x] # freed
             /\ cache_entries_[x] \in live' /\ key_[cache_entries_[x]] = x
  BY <1>1, <1>2, <1>6, <1>9, DropEntry DEF freed
<1>10. ASSUME fault' # "dangling" PROVE Shape'
  <2>1. freed \in {tail_, Null}
    BY <1>2, <1>10
  <2>2. Range(q) \subseteq live'
    <3>1. \A j \in 1..(Len(p)-1) : q[j] \in live /\ q[j] # tail_ /\ q[j] # Null
      <4>1. ASSUME NEW j \in 1..(Len(p)-1) PROVE q[j] \in live /\ q[j] # tail_ /\ q[j] # Null
        <5>1. j \in 1..Len(p) /\ Len(p) \in 1..Len(p) /\ j # Len(p)
          BY <1>5
        <5>2. p[j] \in live /\ p[j] \in Nodes /\ p[j] # p[Len(p)]
          BY <5>1, <1>1, PathFacts DEF p
        <5>3. QED
          BY <5>2, <1>5, <1>7, NodesAre
      <4>2. QED
        BY <4>1
    <3>2. QED
      BY <3>1, <2>1, <1>2, <1>7 DEF Range
  <2>3. ASSUME NEW x \in Keys, cache_entries_'[x] # Null
        PROVE  FirstNode(q, key_, x, cache_entries_'[x])
    <3>1. FirstNode(p, key_, x, cache_entries_[x])
      BY <2>3, <1>1, <1>9 DEF Shape, p
    <3>2. cache_entries_[x] # tail_
      BY <2>3, <1>9 DEF k
    <3>3. FirstNode(q, key_, x, cache_entries_[x])
      BY <3>1, <3>2, <1>3, <1>5, FirstFront DEF q
    <3>4. QED
      BY <2>3, <3>3, <1>9
  <2>4. \A n \in live' : key_[n] \in Keys
    BY <1>1, <1>2 DEF Shape
  <2>5. QED
    BY <2>2, <2>3, <2>4, <1>2, <1>3, <1>4 DEF Shape, Tracked, q
<1>11. TypeOK'
  <2>1. /\ next_' \in [Nodes -> Address] /\ head_' \in Address /\ tail_' \in Address
    BY <1>2, <1>6 DEF Evict, IInv, TypeOK, Address
  <2>2. live' \subseteq Nodes
    BY <1>2 DEF IInv, TypeOK
  <2>3. QED
    BY <2>1, <2>2, <1>2, <1>6, <1>8, <1>9 DEF IInv, TypeOK, Tracked
<1>12. IInv'
  BY <1>1, <1>2, <1>8, <1>10, <1>11 DEF IInv
<1> DEFINE list == KeysOf(Forward)
<1>13. /\ list # <<>> /\ k = Lists!Last(list) /\ list' = Lists!Front(list)
  <2>1. /\ Keyed(q, key_) = Lists!Front(Keyed(p, key_))
        /\ key_[Last(p)] = Lists!Last(Keyed(p, key_)) /\ Keyed(p, key_) # <<>>
    BY <1>3, <1>5, KeyedFront DEF q
  <2>2. QED
    BY <2>1, <1>2, <1>3, <1>4, ListIsKeyed, ListIsKeyedNext DEF p, k
<1>14. freed \notin {tail_, Null} <=> Lists!Dangles
  <2>1. Lists!Dangles <=> Tracked(k) /\ \E j \in 1..(Len(p)-1) : key_[p[j]] = k
    <3>1. Lists!Front(list) = Keyed(q, key_)
      BY <1>13, <1>2, <1>4, ListIsKeyedNext
    <3>2. /\ DOMAIN Keyed(q, key_) = 1..(Len(p)-1)
          /\ \A j \in 1..(Len(p)-1) : Keyed(q, key_)[j] = key_[p[j]]
      BY <1>7 DEF Keyed
    <3>3. k \in Range(Keyed(q, key_)) <=> \E j \in 1..(Len(p)-1) : key_[p[j]] = k
      BY <3>2 DEF Range
    <3>4. QED
      BY <3>1, <3>3, <1>6, <1>13, SameRange DEF Lists!Dangles
  <2>2. CASE ~Tracked(k)
    BY <2>1, <2>2 DEF Tracked, freed
  <2>3. CASE Tracked(k)
    <3>1. PICK i \in 1..Len(p) : p[i] = freed /\ \A j \in 1..(i-1) : key_[p[j]] # k
      BY <2>3, <1>1, <1>6, EntryFacts DEF p, freed
    <3>2. freed # Null /\ key_[freed] = k
      BY <2>3, <1>1, <1>6, EntryFacts DEF Tracked, freed
    <3>3. CASE i = Len(p)
      BY <2>1, <3>1, <3>3, <1>5
    <3>4. CASE i # Len(p)
      <4>1. i \in 1..(Len(p)-1) /\ Len(p) \in 1..Len(p)
        BY <3>4, <1>5
      <4>2. freed # tail_
        BY <3>1, <3>4, <4>1, <1>1, <1>5, PathFacts DEF p
      <4>3. QED
        BY <2>1, <2>3, <3>1, <3>2, <4>1, <4>2
    <3>5. QED
      BY <3>3, <3>4
  <2>4. QED
    BY <2>2, <2>3
<1>15. Lists!EvictTail
  BY <1>2, <1>8, <1>13, <1>14 DEF Lists!EvictTail, Lists!Erased, Lists!Running, Evict, Running
<1>16. QED
  BY <1>12, <1>15

\* Exceptions leave pointers, map and file alone.
LEMMA ThrowStep ==
    ASSUME IInv
    PROVE  /\ EvictEmpty => IInv' /\ Lists!EvictEmpty
           /\ \A k \in Keys : RemoveUnknown(k) => IInv' /\ Lists!RemoveUnknown(k)
<1>1. ASSUME UNCHANGED <<links, file, victim, mounted, mount>>, Running, fault' = "throw"
      PROVE  IInv'
  <2>1. TypeOK'
    BY <1>1 DEF IInv, TypeOK, links, Tracked, Running
  <2>2. Shape /\ Cardinality(Unmapped) <= Cardinality(Keys)
    BY <1>1 DEF IInv, Running
  <2>3. QED
    BY <2>1, <2>2, <1>1, SameLinks DEF IInv
<1>2. ASSUME EvictEmpty
      PROVE  Lists!EvictEmpty
  <2>1. Shape /\ tail_ = Null /\ UNCHANGED links
    BY <1>2 DEF EvictEmpty, Running, IInv
  <2>2. KeysOf(Forward) = <<>>
    <3>1. tail_ = At(Forward, Len(Forward))
      BY <2>1 DEF Shape, Linked
    <3>2. Len(Forward) = 0
      <4>1. Len(Forward) \in Nat /\ (Len(Forward) # 0 => Forward[Len(Forward)] \in Nodes)
        BY <2>1, PathFacts
      <4>2. QED
        BY <4>1, <3>1, <2>1, NodesAre DEF At
    <3>3. KeysOf(Forward) \in Seq(Keys) /\ Len(KeysOf(Forward)) = 0
      BY <3>2, <2>1, ListFacts
    <3>4. QED
      BY <3>3
  <2>3. QED
    BY <2>1, <2>2, <1>2, SameLinks DEF Lists!EvictEmpty, Lists!Running, EvictEmpty, Running
<1>3. ASSUME NEW k \in Keys, RemoveUnknown(k)
      PROVE  Lists!RemoveUnknown(k)
  <2>1. UNCHANGED links /\ k \notin {x \in Keys : Tracked(x)}
    BY <1>3 DEF RemoveUnknown
  <2>2. QED
    BY <2>1, <1>3, SameLinks DEF Lists!RemoveUnknown, Lists!Running, RemoveUnknown, Running
<1>4. QED
  BY <1>1, <1>2, <1>3 DEF EvictEmpty, RemoveUnknown

\* Persist writes the keys along the path and counts those of the map.
LEMMA PersistStep ==
    ASSUME IInv, Persist
    PROVE  IInv' /\ Lists!Persist
<1> DEFINE list == KeysOf(Forward)
           tracked == {k \in Keys : Tracked(k)}
<1>1. fault # "dangling" /\ Shape
  BY DEF Persist, Running, IInv
<1>2. /\ file' = [count |-> Cardinality(tracked), keys |-> list] /\ mounted' = FALSE
      /\ UNCHANGED <<links, victim, fault, mount>>
  BY DEF Persist, MapSize
<1>3. list \in Seq(Keys) /\ Len(list) = Len(Forward)
      /\ \A i \in 1..Len(Forward) : list[i] = key_[Forward[i]]
  BY <1>1, ListFacts
<1>4. tracked \in SUBSET Lists!Range(list)
  <2> SUFFICES ASSUME NEW k \in Keys, Tracked(k) PROVE k \in Range(list)
    BY SameRange
  <2>1. PICK i \in 1..Len(Forward) : Forward[i] = cache_entries_[k]
    BY <1>1, EntryFacts
  <2>2. list[i] = k
    BY <2>1, <1>1, <1>3, EntryFacts
  <2>3. DOMAIN list = 1..Len(Forward)
    BY <1>3
  <2>4. QED
    BY <2>2, <2>3 DEF Range
<1> HIDE DEF list, tracked
<1>5. /\ Cardinality(tracked) \in Nat /\ Cardinality(tracked) <= Len(list)
  <2>1. Lists!Cardinality(tracked) = Cardinality(tracked)
    BY Zenon DEF Lists!Cardinality, Cardinality
  <2>2. QED
    BY <2>1, <1>3, <1>4, Lists!SubsetsOfRange
<1>6. Cardinality(tracked) <= Cardinality(Keys)
  BY KeysAssumption, FS_Subset DEF tracked
<1>7. TypeOK'
  BY <1>2, <1>3, <1>5 DEF IInv, TypeOK, links, Tracked
<1>8. IInv'
  BY <1>2, <1>3, <1>5, <1>6, <1>7, <1>1, SameLinks DEF IInv
<1>9. Lists!Persist
  <2>1. Lists!Cardinality(tracked) = Cardinality(tracked)
    BY Zenon DEF Lists!Cardinality, Cardinality
  <2>2. QED
    BY <2>1, <1>2, SameLinks DEF Lists!Persist, Lists!Running, Persist, Running, list, tracked
<1>10. QED
  BY <1>8, <1>9

\* The next mount makes a node for each key it reads, in the order of the file.
LEMMA LoadStep ==
    ASSUME IInv, Load
    PROVE  IInv' /\ Lists!Load
<1> DEFINE n == file.count
           r == [i \in 1..n |-> i]
<1>1. /\ n \in Nat /\ n <= Len(file.keys) /\ n <= Cardinality(Keys)
      /\ file.keys \in Seq(Keys)
  BY DEF IInv, TypeOK
<1>2. /\ live' = 1..n
      /\ key_' = [m \in Nodes |-> IF m <= n THEN file.keys[m] ELSE NoKey]
      /\ next_' = [m \in Nodes |-> IF m < n THEN m + 1 ELSE Null]
      /\ prev_' = [m \in Nodes |-> IF m <= n THEN m - 1 ELSE Null]
      /\ head_' = (IF n = 0 THEN Null ELSE 1) /\ tail_' = n
      /\ cache_entries_' = [k \in Keys |-> Null]
      /\ file' = NoFile /\ mounted' = TRUE /\ mount' = mount + 1
      /\ UNCHANGED <<victim, fault>> /\ ~mounted /\ fault = "none" /\ mount < MaxMounts
  BY DEF Load
<1> HIDE DEF n
<1>3. /\ 1..n \subseteq Nodes /\ \A m \in 1..n : m \in Nodes /\ file.keys[m] \in Keys
  BY <1>1, NodesAre
<1>4. r \in Seq(Nodes) /\ Len(r) = n /\ DOMAIN r = 1..n /\ \A i \in 1..n : r[i] = i
  BY <1>1, <1>3
<1> HIDE DEF r
<1>5. Linked(r, head_', tail_', next_', prev_')
  <2>1. IsInjective(r)
    BY <1>4 DEF IsInjective
  <2>2. head_' = At(r, 1) /\ tail_' = At(r, Len(r))
    BY <1>1, <1>2, <1>4 DEF At, Null
  <2>3. ASSUME NEW i \in 1..n
        PROVE  next_'[r[i]] = At(r, i+1) /\ prev_'[r[i]] = At(r, i-1)
    <3>1. r[i] = i /\ i \in Nodes
      BY <1>3, <1>4
    <3>2. next_'[i] = (IF i < n THEN i + 1 ELSE Null) /\ prev_'[i] = i - 1
      BY <3>1, <1>1, <1>2
    <3>3. At(r, i+1) = IF i < n THEN i + 1 ELSE Null
      BY <1>1, <1>4 DEF At
    <3>4. At(r, i-1) = i - 1
      BY <1>1, <1>4 DEF At, Null
    <3>5. QED
      BY <3>1, <3>2, <3>3, <3>4
  <2>4. QED
    BY <2>1, <2>2, <2>3, <1>4 DEF Linked
<1>6. Forward' = r
  BY <1>5, NewPath
<1>7. \A m \in 1..n : key_'[m] = file.keys[m]
  BY <1>1, <1>2, <1>3
<1>8. Shape'
  <2>1. Range(r) \subseteq live'
    BY <1>2, <1>4 DEF Range
  <2>2. QED
    BY <2>1, <1>2, <1>3, <1>5, <1>6, <1>7 DEF Shape, Tracked
<1>9. Cardinality(Unmapped') <= Cardinality(Keys)
  <2>1. Unmapped' \subseteq 1..n
    BY <1>2 DEF Unmapped
  <2>2. IsFiniteSet(1..n) /\ Cardinality(1..n) = n
    BY <1>1, FS_Interval
  <2>3. /\ IsFiniteSet(Unmapped') /\ Cardinality(Unmapped') <= n
    BY <2>1, <2>2, FS_Subset
  <2>4. Cardinality(Unmapped') \in Nat /\ Cardinality(Keys) \in Nat
    BY <2>3, NodesAre, FS_CardinalityType
  <2>5. QED
    BY <2>3, <2>4, <1>1
<1>10. TypeOK'
  <2>1. /\ next_' \in [Nodes -> Address] /\ prev_' \in [Nodes -> Address]
        /\ key_' \in [Nodes -> Keys \union {NoKey}]
    <3>1. \A m \in Nodes : m <= n => m \in 1..n /\ m - 1 \in Address
      BY <1>1, <1>3, NodesAre DEF Address, Null
    <3>2. \A m \in Nodes : m < n => m + 1 \in Address
      BY <1>1, <1>3, NodesAre DEF Address, Null
    <3>3. \A m \in Nodes : m <= n => file.keys[m] \in Keys
      BY <3>1, <1>3
    <3>4. Null \in Address
      BY DEF Address
    <3>5. QED
      BY <3>1, <3>2, <3>3, <3>4, <1>2
  <2>2. live' \subseteq Nodes /\ head_' \in Address /\ tail_' \in Address
    <3>1. n = 0 \/ (1 \in 1..n /\ n \in 1..n)
      BY <1>1
    <3>2. n = Null \/ (1 \in Nodes /\ n \in Nodes)
      BY <3>1, <1>3 DEF Null
    <3>3. QED
      BY <3>2, <1>2, <1>3 DEF Address, Null
  <2>3. cache_entries_' \in [Keys -> Address] /\ \A k \in Keys : ~Tracked(k)'
    BY <1>2 DEF Address, Tracked
  <2>4. mount' \in 1..MaxMounts
    BY <1>2, MountsAssumption DEF IInv, TypeOK
  <2>5. QED
    BY <2>1, <2>2, <2>3, <2>4, <1>2 DEF IInv, TypeOK, NoFile
<1>11. IInv'
  BY <1>2, <1>8, <1>9, <1>10, NodesAre DEF IInv, NoFile
<1>12. KeysOf(Forward)' = SubSeq(file.keys, 1, n)
  <2>1. Keyed(r, key_') = [i \in 1..n |-> file.keys[i]]
    BY <1>4, <1>7 DEF Keyed
  <2>2. SubSeq(file.keys, 1, n) = [i \in 1..n |-> file.keys[i]]
    <3>1. SubSeq(file.keys, 1, n) \in Seq(Keys) /\ Len(SubSeq(file.keys, 1, n)) = n
          /\ \A i \in 1..n : SubSeq(file.keys, 1, n)[i] = file.keys[i]
      BY <1>1, <1>3, SubSeqProperties
    <3>2. QED
      BY <3>1
  <2>3. QED
    BY <2>1, <2>2, <1>6, ListIsKeyedNext
<1>13. Lists!Load
  <2>1. {k \in Keys : Tracked(k)}' = {}
    BY <1>2 DEF Tracked
  <2>2. QED
    BY <2>1, <1>2, <1>12 DEF Lists!Load, Lists!NoFile, NoFile, n
<1>14. QED
  BY <1>11, <1>13

-----------------------------------------------------------------------------
(* Lists, with its theorems, and List, the instance LRUReplacer states its *)
(* refinement with, are one module twice.                                  *)

\* The same RemoveFirst in both instances.
LEMMA SameRemoveFirst ==
    \A s, e : List!RemoveFirst(s, e) = Lists!RemoveFirst(s, e)
  BY Zenon DEF List!RemoveFirst, List!RemoveAt, List!SelectInSeq, List!Min,
       Lists!RemoveFirst, Lists!RemoveAt, Lists!SelectInSeq, Lists!Min

\* The same Access.
LEMMA SameAccess == \A k : List!Access(k) <=> Lists!Access(k)
  BY SameRemoveFirst, Zenon DEF List!Access, List!Running, List!AccessList,
       Lists!Access, Lists!Running, Lists!AccessList

\* The same RemoveKey.
LEMMA SameRemoveKey == \A k : List!RemoveKey(k) <=> Lists!RemoveKey(k)
  BY SameRemoveFirst, Zenon DEF List!RemoveKey, List!Running, List!Erased,
       Lists!RemoveKey, Lists!Running, Lists!Erased

\* The same EvictTail.
LEMMA SameEvictTail == List!EvictTail <=> Lists!EvictTail
  BY SMT DEF List!EvictTail, List!Running, List!Erased, List!Dangles,
       List!Last, List!Front, List!Range, Lists!Last, Lists!Front, Lists!Range,
       Lists!EvictTail, Lists!Running, Lists!Erased, Lists!Dangles

\* The same number of elements.
LEMMA SameCardinality == \A S : List!Cardinality(S) = Lists!Cardinality(S)
  BY Zenon DEF List!Cardinality, Lists!Cardinality

\* The same of the rest.
LEMMA SameOther ==
    /\ List!Init <=> Lists!Init
    /\ List!Persist <=> Lists!Persist
    /\ List!Load <=> Lists!Load
    /\ List!EvictEmpty <=> Lists!EvictEmpty
    /\ \A k : List!RemoveUnknown(k) <=> Lists!RemoveUnknown(k)
  BY SameCardinality DEF List!Init, Lists!Init, List!NoFile, Lists!NoFile,
       List!Running, Lists!Running, List!Persist, Lists!Persist, List!Load, Lists!Load,
       List!EvictEmpty, Lists!EvictEmpty, List!RemoveUnknown, Lists!RemoveUnknown

\* The same specification.
LEMMA SameSpec == List!Spec <=> Lists!Spec
<1>1. List!Init <=> Lists!Init
  BY SameOther
<1>2. [List!Next]_(List!vars) <=> [Lists!Next]_(Lists!vars)
  <2>1. List!Next <=> Lists!Next
    BY SameOther, SameAccess, SameRemoveKey, SameEvictTail DEF List!Next, Lists!Next
  <2>2. UNCHANGED List!vars <=> UNCHANGED Lists!vars
    BY DEF List!vars, Lists!vars
  <2>3. QED
    BY <2>1, <2>2
<1>3. QED
  BY <1>1, <1>2, PTL DEF List!Spec, Lists!Spec

\* The order both instances read off the list.
LEMMA SameOlder ==
    /\ List!Range(KeysOf(Forward)) = Lists!Range(KeysOf(Forward))
    /\ List!Range(KeysOf(Forward))' = Lists!Range(KeysOf(Forward))'
    /\ \A k : List!Position(k) = Lists!Position(k)
    /\ \A k : List!Position(k)' = Lists!Position(k)'
<1>1. \A s : List!Range(s) = Lists!Range(s)
  BY Zenon DEF List!Range, Lists!Range
<1>2. \A k : List!Position(k) = Lists!Position(k)
  BY Zenon DEF List!Position, Lists!Position, List!SelectInSeq, Lists!SelectInSeq,
         List!Min, Lists!Min
<1>3. \A k : List!Position(k)' = Lists!Position(k)'
  BY Zenon DEF List!Position, Lists!Position, List!SelectInSeq, Lists!SelectInSeq,
         List!Min, Lists!Min
<1>4. List!Range(KeysOf(Forward))' = Lists!Range(KeysOf(Forward))'
  BY Zenon DEF List!Range, Lists!Range
<1>5. QED
  BY <1>1, <1>2, <1>3, <1>4

\* The order of recency has the same actions in both instances.
LEMMA SameOrder ==
    /\ \A k : List!Order!Access(k) <=> Lists!Order!Access(k)
    /\ \A k : List!Order!Remove(k) <=> Lists!Order!Remove(k)
    /\ \A k : List!Order!Evict(k) <=> Lists!Order!Evict(k)
    /\ List!Order!Init <=> Lists!Order!Init
    /\ UNCHANGED List!Order!vars <=> UNCHANGED Lists!Order!vars
<1> DEFINE older == {p \in Lists!Range(KeysOf(Forward)) \X Lists!Range(KeysOf(Forward)) :
                        Lists!Position(p[1]) > Lists!Position(p[2])}
           old == {p \in List!Range(KeysOf(Forward)) \X List!Range(KeysOf(Forward)) :
                        List!Position(p[1]) > List!Position(p[2])}
<1>1. old = older /\ old' = older'
  BY SameOlder
<1>2. \A k : List!Order!Access(k) <=> Lists!Order!Access(k)
  BY <1>1, SameOlder DEF List!Order!Access, Lists!Order!Access, List!Order!Without, Lists!Order!Without
<1>3. \A k : List!Order!Remove(k) <=> Lists!Order!Remove(k)
  BY <1>1, SameOlder DEF List!Order!Remove, Lists!Order!Remove, List!Order!Without, Lists!Order!Without
<1>4. \A k : List!Order!Evict(k) <=> Lists!Order!Evict(k)
  BY <1>1, SameOlder DEF List!Order!Evict, Lists!Order!Evict, List!Order!Without, Lists!Order!Without
<1>5. List!Order!Init <=> Lists!Order!Init
  BY <1>1, SameOlder DEF List!Order!Init, Lists!Order!Init
<1>6. UNCHANGED List!Order!vars <=> UNCHANGED Lists!Order!vars
  BY <1>1, SameOlder DEF List!Order!vars, Lists!Order!vars
<1>7. QED
  BY <1>2, <1>3, <1>4, <1>5, <1>6

\* The theorems of Lists apply: the keys are finite, there is a mount.
LEMMA ListsAssumptions == Lists!IsFiniteSet(Keys) /\ MaxMounts \in Nat \ {0}
<1>1. Lists!IsFiniteSet(Keys) <=> IsFiniteSet(Keys)
  BY Zenon DEF Lists!IsFiniteSet, IsFiniteSet
<1>2. QED
  BY <1>1, KeysAssumption, MountsAssumption

-----------------------------------------------------------------------------
(* The theorems.                                                           *)

\* A step that leaves the replacer alone leaves invariant and list alone.
LEMMA StutterStep ==
    ASSUME IInv, UNCHANGED vars
    PROVE  IInv' /\ UNCHANGED Lists!vars
<1>1. UNCHANGED links /\ UNCHANGED <<file, victim, fault, mounted, mount>>
  BY DEF vars
<1>2. TypeOK'
  BY <1>1 DEF IInv, TypeOK, links, Tracked
<1>3. QED
  BY <1>1, <1>2, SameLinks DEF IInv, Lists!vars

\* Every step keeps the invariant and is a step of the sequence of keys.
LEMMA NextStep ==
    ASSUME IInv, [Next]_vars
    PROVE  IInv' /\ [Lists!Next]_(Lists!vars)
<1>1. ASSUME NEW k \in Keys, AccessHead(k) \/ AccessMove(k) \/ AccessNew(k)
      PROVE  IInv' /\ Lists!Access(k)
  BY <1>1, AccessHeadStep, AccessMoveStep, AccessNewStep
<1>2. ASSUME NEW k \in Keys, RemoveEntry(k)
      PROVE  IInv' /\ Lists!RemoveKey(k)
  BY <1>2, RemoveEntryStep
<1>3. ASSUME NEW k \in Keys, RemoveUnknown(k)
      PROVE  IInv' /\ Lists!RemoveUnknown(k)
  BY <1>3, ThrowStep
<1>4. ASSUME Evict
      PROVE  IInv' /\ Lists!EvictTail
  BY <1>4, EvictTailStep
<1>5. ASSUME EvictEmpty
      PROVE  IInv' /\ Lists!EvictEmpty
  BY <1>5, ThrowStep
<1>6. ASSUME Persist
      PROVE  IInv' /\ Lists!Persist
  BY <1>6, PersistStep
<1>7. ASSUME Load
      PROVE  IInv' /\ Lists!Load
  BY <1>7, LoadStep
<1>8. ASSUME UNCHANGED vars
      PROVE  IInv' /\ UNCHANGED Lists!vars
  BY <1>8, StutterStep
<1>9. QED
  BY <1>1, <1>2, <1>3, <1>4, <1>5, <1>6, <1>7, <1>8 DEF Next, Lists!Next

\* The inductive invariant holds of the replacer.
LEMMA Invariance == Spec => []IInv
<1>1. Init => IInv
  BY Initially
<1>2. IInv /\ [Next]_vars => IInv'
  BY NextStep
<1>3. QED
  BY <1>1, <1>2, PTL DEF Spec

(***************************************************************************)
(* The pointers keep their types: every address is one of the nodes or     *)
(* nullptr, never more nodes are needed than two per key, and the node     *)
(* the map has for a key is allocated and holds that key                   *)
(* (cache_replacer.cc:30-164).                                             *)
(***************************************************************************)
THEOREM PointersTyped == Spec => []TypeOK
<1>1. IInv => TypeOK
  BY DEF IInv
<1>2. QED
  BY Invariance, <1>1, PTL

(***************************************************************************)
(* The pointer surgery of access, evict and remove keeps one doubly linked *)
(* list, read the same from both ends, of allocated nodes only, until an   *)
(* eviction frees a node that is still linked (cache_replacer.cc:77-164).  *)
(***************************************************************************)
THEOREM PointersLinked == Spec => []DoublyLinked
<1>1. IInv => DoublyLinked
  <2> SUFFICES ASSUME IInv, fault # "dangling"
               PROVE  Walk(tail_, prev_) = Reverse(Forward) /\ Range(Forward) \subseteq live
    BY DEF DoublyLinked
  <2>1. Shape
    BY DEF IInv
  <2>2. Walk(tail_, prev_) = Reverse(Forward)
    BY <2>1, WalkFindsPath DEF Shape
  <2>3. QED
    BY <2>1, <2>2 DEF Shape
<1>2. QED
  BY Invariance, <1>1, PTL

(***************************************************************************)
(* The pointers implement the sequence view: every operation does to the   *)
(* keys along the list what RecencyList says of a sequence, in every mount *)
(* (cache_replacer.cc:30-164).                                             *)
(***************************************************************************)
THEOREM PointersFormList == Spec => ImplementsRecencyList
<1>1. Init => Lists!Init
  BY Initially
<1>2. IInv /\ [Next]_vars => [Lists!Next]_(Lists!vars)
  BY NextStep
<1>3. Spec => Lists!Spec
  BY <1>1, <1>2, Invariance, PTL DEF Spec, Lists!Spec
<1>4. QED
  BY <1>3, SameSpec DEF ImplementsRecencyList

(***************************************************************************)
(* Within the first mount the nodes of the list and the entries of the map *)
(* are the same keys, each once, and nothing freed stays linked.           *)
(***************************************************************************)
THEOREM PointersMatchMap == Spec => []OneNodePerEntry
<1>1. Lists!Spec => []Lists!OneNodePerEntry
  BY ListsAssumptions, Lists!ListMatchesMap
<1>2. Lists!OneNodePerEntry => OneNodePerEntry
  BY DEF OneNodePerEntry, Lists!OneNodePerEntry, List!OneNodePerEntry,
         List!Range, Lists!Range, List!IsInjective, Lists!IsInjective
<1>3. Spec => Lists!Spec
  BY PointersFormList, SameSpec DEF ImplementsRecencyList
<1>4. QED
  BY <1>1, <1>2, <1>3, PTL

(***************************************************************************)
(* In every mount an entry of the map has a node in the list, and persist  *)
(* counts no more keys than it writes, which the next constructor relies   *)
(* on when it reads them back (cache_replacer.cc:30-55, 166-188).          *)
(***************************************************************************)
THEOREM PointersCoverMap == Spec => []EntriesAreListed
<1>1. Lists!Spec => []Lists!EntriesAreListed
  BY ListsAssumptions, Lists!MapIsListed
<1>2. Lists!EntriesAreListed => EntriesAreListed
  BY DEF EntriesAreListed, Lists!EntriesAreListed, List!EntriesAreListed,
         List!Range, Lists!Range
<1>3. Spec => Lists!Spec
  BY PointersFormList, SameSpec DEF ImplementsRecencyList
<1>4. QED
  BY <1>1, <1>2, <1>3, PTL

\* In the first mount a step of the list is one of the policy.
LEMMA OrderedStep ==
    ASSUME IInv, Lists!IInv, [Next]_vars, mount' = 1
    PROVE  /\ List!Order!Next \/ UNCHANGED List!Order!vars
           /\ \A k \in Keys :
                /\ AccessHead(k) \/ AccessMove(k) \/ AccessNew(k) => List!Order!Access(k)
                /\ RemoveEntry(k) => List!Order!Remove(k)
           /\ Evict => List!Order!Evict(victim')
<1>1. ASSUME NEW k \in Keys, AccessHead(k) \/ AccessMove(k) \/ AccessNew(k)
      PROVE  List!Order!Access(k)
  <2>1. Lists!Access(k)
    BY <1>1, AccessHeadStep, AccessMoveStep, AccessNewStep
  <2>2. mount = 1
    BY <2>1 DEF Lists!Access
  <2>3. Lists!Order!Access(k)
    BY <2>1, <2>2, Lists!OrderStep
  <2>4. QED
    BY <2>3, SameOrder
<1>2. ASSUME NEW k \in Keys, RemoveEntry(k)
      PROVE  List!Order!Remove(k)
  <2>1. Lists!RemoveKey(k)
    BY <1>2, RemoveEntryStep
  <2>2. mount = 1
    BY <2>1 DEF Lists!RemoveKey
  <2>3. Lists!Order!Remove(k)
    BY <2>1, <2>2, Lists!OrderStep
  <2>4. QED
    BY <2>3, SameOrder
<1>3. ASSUME Evict
      PROVE  List!Order!Evict(victim') /\ victim' \in Keys
  <2>1. Lists!EvictTail
    BY <1>3, EvictTailStep
  <2>2. mount = 1
    BY <2>1 DEF Lists!EvictTail
  <2>3. Lists!Order!Evict(victim') /\ victim' \in Keys
    BY <2>1, <2>2, Lists!OrderStep
  <2>4. QED
    BY <2>3, SameOrder
<1>4. List!Order!Next \/ UNCHANGED List!Order!vars
  <2>1. CASE \E k \in Keys : AccessHead(k) \/ AccessMove(k) \/ AccessNew(k)
    BY <2>1, <1>1 DEF List!Order!Next
  <2>2. CASE \E k \in Keys : RemoveEntry(k)
    BY <2>2, <1>2 DEF List!Order!Next
  <2>3. CASE Evict
    BY <2>3, <1>3 DEF List!Order!Next
  <2>4. ASSUME UNCHANGED <<links, victim>>
        PROVE  UNCHANGED List!Order!vars
    <3>1. UNCHANGED Lists!vars \/ UNCHANGED <<KeysOf(Forward), victim>>
      BY <2>4 DEF links, KeysOf, Forward
    <3>2. UNCHANGED <<KeysOf(Forward), victim>>
      BY <3>1 DEF Lists!vars
    <3>3. QED
      BY <3>2, SameOrder, Lists!OrderIs DEF Lists!Order!vars
  <2>5. CASE EvictEmpty \/ Persist \/ UNCHANGED vars \/ \E k \in Keys : RemoveUnknown(k)
    BY <2>4, <2>5 DEF EvictEmpty, Persist, RemoveUnknown, vars
  <2>6. ~Load
    <3>1. mount \in Nat \ {0}
      BY MountsAssumption DEF IInv, TypeOK
    <3>2. QED
      BY <3>1 DEF Load
  <2>7. QED
    BY <2>1, <2>2, <2>3, <2>5, <2>6 DEF Next
<1>5. QED
  BY <1>1, <1>2, <1>3, <1>4

(***************************************************************************)
(* Until a second mount loads the replacer, the pointer operations are     *)
(* those of the policy: an access makes the key younger than all others,   *)
(* and evict hands out the key all others are younger than                 *)
(* (cache_replacer.cc:57-137; README.md: "使用LRU作为替换策略").            *)
(***************************************************************************)
THEOREM PointersEvictLRU == Spec => ImplementsLRUOrder
<1>1. Init => List!Order!Init
  <2> SUFFICES ASSUME Init PROVE Lists!Order!Init
    BY SameOrder
  <2>1. KeysOf(Forward) = <<>> /\ victim = NoKey
    BY Initially DEF Init, Lists!Init
  <2>2. Lists!Range(KeysOf(Forward)) = {}
    BY <2>1 DEF Lists!Range
  <2>3. QED
    BY <2>1, <2>2 DEF Lists!Order!Init
<1>2. IInv /\ Lists!IInv /\ [Next]_vars /\ mount' = 1 =>
        [List!Order!Next]_(List!Order!vars)
  BY OrderedStep
<1>3. IInv /\ Lists!IInv /\ [Next]_vars =>
        [mount' = 1 => List!Order!Next]_(List!Order!vars)
  BY <1>2
<1>4. IInv /\ Lists!IInv /\ [Next]_vars =>
        [mount' = 1 =>
            /\ \A k \in Keys :
                  /\ AccessHead(k) \/ AccessMove(k) \/ AccessNew(k) => List!Order!Access(k)
                  /\ RemoveEntry(k) => List!Order!Remove(k)
            /\ Evict => List!Order!Evict(victim')]_vars
  BY OrderedStep
<1>5. Spec => []Lists!IInv
  <2>1. Lists!Spec => []Lists!IInv
    BY ListsAssumptions, Lists!Invariance
  <2>2. Spec => Lists!Spec
    BY PointersFormList, SameSpec DEF ImplementsRecencyList
  <2>3. QED
    BY <2>1, <2>2
<1>6. QED
  BY <1>1, <1>3, <1>4, <1>5, Invariance, PTL DEF Spec, ImplementsLRUOrder

=============================================================================
