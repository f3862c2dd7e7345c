--------------------------- MODULE CacheHeapProofs ---------------------------
(***************************************************************************)
(* Proofs about CacheHeap: the pointers of cache.c form the list that the  *)
(* sequence view of CacheApi promises, for any amount of memory and any    *)
(* contents of the entries.                                                *)
(***************************************************************************)
EXTENDS CacheHeap, FiniteSetTheorems, NaturalsInduction, TLAPS

(* Every set of numbers that is not empty has a least one.                 *)
LEMMA LeastExists ==
  ASSUME NEW S \in SUBSET Nat, S # {}
  PROVE  \E k \in S : \A y \in S : k <= y
<1> DEFINE Less == OpToRel(<, Nat)
<1>1. IsWellFoundedOn(Less, Nat)
  BY NatLessThanWellFounded, Zenon
<1>2. \A x, y \in Nat : <<y, x>> \notin Less => ~(y < x)
  BY Zenon DEF OpToRel
<1> HIDE DEF Less
<1>3. PICK k \in S : \A y \in S : <<y, k>> \notin Less
  BY <1>1, WFMin
<1>4. ASSUME NEW y \in S PROVE k <= y
  <2>1. k \in Nat /\ y \in Nat
    OBVIOUS
  <2>2. ~(y < k)
    BY <1>2, <1>3, <2>1, Zenon
  <2> QED
    BY <2>1, <2>2
<1> QED
  BY <1>3, <1>4

(* Induction, for the set T of the numbers that have a property.           *)
LEMMA Induct ==
  ASSUME NEW n \in Nat, NEW T, 0 \in T, \A k \in 1..n : k - 1 \in T => k \in T
  PROVE  \A k \in 0..n : k \in T
<1> DEFINE S == {k \in 0..n : k \notin T}
<1> SUFFICES ASSUME S # {} PROVE FALSE
  OBVIOUS
<1>1. PICK k \in S : \A y \in S : k <= y
  <2>1. S \in SUBSET Nat
    OBVIOUS
  <2> HIDE DEF S
  <2> QED
    BY <2>1, LeastExists
<1>2. k \in 1..n /\ k \notin T
  OBVIOUS
<1>3. k - 1 \in T
  BY <1>1, <1>2
<1> QED
  BY <1>2, <1>3

-----------------------------------------------------------------------------
(* Lists: a head h and next pointers nx, whatever state they are from.     *)

Reads(h, nx, p, i) == IF i = 0 THEN h ELSE nx[p[i]]

\* What Visits says, of any head and next pointers.
IsList(h, nx, p) ==
  /\ p \in Seq(Node)
  /\ \A i \in 1..Len(p) : Reads(h, nx, p, i - 1) = p[i]
  /\ Reads(h, nx, p, Len(p)) = NULL

(* A traversal that cannot leave a set does not end.                       *)
LEMMA Trapped ==
  ASSUME NEW h, NEW nx, NEW R \in SUBSET Node, h \in R, \A x \in R : nx[x] \in R, NEW p
  PROVE  ~IsList(h, nx, p)
<1> SUFFICES ASSUME IsList(h, nx, p) PROVE FALSE
  OBVIOUS
<1>1. PICK n \in Nat : n = Len(p)
  BY DEF IsList
<1> DEFINE T == {k \in 0..n : Reads(h, nx, p, k) \in R}
<1>2. 0 \in T
  BY DEF Reads
<1>3. ASSUME NEW k \in 1..n, k - 1 \in T PROVE k \in T
  <2>1. p[k] \in R
    BY <1>1, <1>3 DEF IsList
  <2> QED
    BY <2>1 DEF Reads
<1> HIDE DEF T
<1>4. n \in T
  BY <1>2, <1>3, Induct
<1> QED
  BY <1>1, <1>4, HeapAssumption DEF T, IsList

LEMMA NotShorter ==
  ASSUME NEW h, NEW nx, NEW p, IsList(h, nx, p), NEW q, IsList(h, nx, q)
  PROVE  Len(p) <= Len(q) /\ \A k \in 1..Len(p) : q[k] = p[k]
<1>1. PICK n \in Nat : n = Len(p)
  BY DEF IsList
<1>2. PICK m \in Nat : m = Len(q)
  BY DEF IsList
<1> DEFINE T == {k \in 0..n : k <= m /\ (k # 0 => q[k] = p[k])}
<1>3. 0 \in T
  BY <1>2
<1>4. ASSUME NEW k \in 1..n, k - 1 \in T PROVE k \in T
  <2>1. Reads(h, nx, q, k - 1) = Reads(h, nx, p, k - 1)
    BY <1>4 DEF Reads
  <2>2. Reads(h, nx, p, k - 1) = p[k] /\ p[k] \in Node
    BY <1>1 DEF IsList
  <2>3. k - 1 # m
    BY <1>2, <2>1, <2>2, HeapAssumption DEF IsList
  <2>4. k - 1 \in Nat /\ k - 1 <= m
    BY <1>4
  <2>5. k \in 1..m
    BY <2>3, <2>4
  <2>6. q[k] = p[k]
    BY <1>2, <2>1, <2>2, <2>5 DEF IsList
  <2> QED
    BY <2>5, <2>6
<1> HIDE DEF T
<1>5. \A k \in 0..n : k \in T
  BY <1>3, <1>4, Induct
<1>6. n <= m /\ \A k \in 1..n : q[k] = p[k]
  <2>1. n \in T /\ \A k \in 1..n : k \in 0..n /\ k # 0
    BY <1>5
  <2> QED
    BY <1>5, <2>1 DEF T
<1> QED
  BY <1>1, <1>2, <1>6

(* There is one list from a head.                                          *)
LEMMA OneList ==
  ASSUME NEW h, NEW nx, NEW p, IsList(h, nx, p), NEW q, IsList(h, nx, q)
  PROVE  p = q
<1>1. p \in Seq(Node) /\ q \in Seq(Node)
  BY DEF IsList
<1>2. Len(p) <= Len(q) /\ Len(q) <= Len(p) /\ \A k \in 1..Len(p) : q[k] = p[k]
  BY NotShorter
<1>3. Len(p) = Len(q)
  BY <1>1, <1>2
<1> QED
  BY <1>1, <1>2, <1>3

\* No entry occurs twice.
Once(p) == \A i, j \in 1..Len(p) : p[i] = p[j] => i = j

(* A list without repetition fits into the memory.                         *)
LEMMA InMemory ==
  ASSUME NEW p \in Seq(Node), Once(p)
  PROVE  p \in Sequence
<1>1. PICK n \in Nat : n = Len(p)
  OBVIOUS
<1>2. p \in [1..n -> Node]
  BY <1>1
<1>3. p \in Injection(1..n, Node)
  BY <1>1, <1>2 DEF Once, Injection, IsInjective
<1>4. Cardinality(1..n) <= Cardinality(Node) /\ Cardinality(Node) \in Nat
  BY <1>3, FS_Injection, FS_CardinalityType, HeapAssumption
<1>5. Cardinality(1..n) = n
  BY FS_Interval
<1>6. n \in 0..Cardinality(Node)
  BY <1>4, <1>5
<1> QED
  BY <1>2, <1>6 DEF Sequence

LEMMA SequenceFacts ==
  ASSUME NEW p \in Sequence
  PROVE  p \in Seq(Node)
  BY FS_CardinalityType, HeapAssumption DEF Sequence

-----------------------------------------------------------------------------
(* What the invariant says of the list p from head h, with next pointers   *)
(* nx, prev pointers pv and the allocated entries lv.                      *)

Holds(p, lv) == \A n : n \in lv <=> \E i \in 1..Len(p) : p[i] = n
Back(pv, p) == \A i \in 2..Len(p) : pv[p[i]] = p[i - 1]
Stale(h, pv, lv) == h # NULL /\ pv[h] # NULL => pv[h] \notin lv

Shape(h, nx, pv, lv, p) ==
  IsList(h, nx, p) /\ Once(p) /\ Holds(p, lv) /\ Back(pv, p) /\ Stale(h, pv, lv)

(* Where a list leads.                                                     *)
LEMMA ListFacts ==
  ASSUME NEW h, NEW nx, NEW p, IsList(h, nx, p)
  PROVE  /\ p \in Seq(Node) /\ Len(p) \in Nat
         /\ \A i \in 1..Len(p) : p[i] \in Node
         /\ Len(p) = 0 => h = NULL
         /\ Len(p) > 0 => h = p[1]
         /\ \A i \in 1..Len(p) : nx[p[i]] = IF i = Len(p) THEN NULL ELSE p[i + 1]
<1>1. p \in Seq(Node) /\ Len(p) \in Nat /\ \A i \in 1..Len(p) : p[i] \in Node
  BY DEF IsList
<1>2. Len(p) = 0 => h = NULL
  BY DEF IsList, Reads
<1>3. Len(p) > 0 => h = p[1]
  BY <1>1 DEF IsList, Reads
<1>4. ASSUME NEW i \in 1..Len(p) PROVE nx[p[i]] = IF i = Len(p) THEN NULL ELSE p[i + 1]
  <2>1. i # 0 /\ (i + 1) - 1 = i /\ (i # Len(p) => i + 1 \in 1..Len(p))
    BY <1>1
  <2>2. Reads(h, nx, p, i) = nx[p[i]]
    BY <2>1 DEF Reads
  <2>3. CASE i = Len(p)
    BY <2>2, <2>3 DEF IsList
  <2>4. CASE i # Len(p)
    BY <2>1, <2>2, <2>4 DEF IsList
  <2> QED
    BY <2>3, <2>4
<1> QED
  BY <1>1, <1>2, <1>3, <1>4

(* And what makes a list.                                                  *)
LEMMA MakesList ==
  ASSUME NEW h, NEW nx, NEW p \in Seq(Node), Len(p) = 0 => h = NULL, Len(p) > 0 => h = p[1],
         \A i \in 1..Len(p) : nx[p[i]] = IF i = Len(p) THEN NULL ELSE p[i + 1]
  PROVE  IsList(h, nx, p)
<1>1. PICK n \in Nat : n = Len(p)
  OBVIOUS
<1>2. ASSUME NEW i \in 1..n PROVE Reads(h, nx, p, i - 1) = p[i]
  <2>1. CASE i = 1
    BY <1>1, <2>1 DEF Reads
  <2>2. CASE i # 1
    <3>1. i - 1 \in 1..n /\ i - 1 # n /\ (i - 1) + 1 = i /\ i - 1 # 0
      BY <2>2
    <3> QED
      BY <1>1, <3>1 DEF Reads
  <2> QED
    BY <2>1, <2>2
<1>3. Reads(h, nx, p, n) = NULL
  BY <1>1 DEF Reads
<1> QED
  BY <1>1, <1>2, <1>3 DEF IsList

\* What addToCache and removeFromCache make of the pointers.
Pointers(nx) == nx \in [Node -> Node \cup {NULL}]
Pushed(h, nx, pv, n, nx2, pv2) ==
  /\ nx2 = [nx EXCEPT ![n] = h]
  /\ pv2[n] = NULL /\ (h # NULL => pv2[h] = n)
  /\ \A x \in Node : x # n /\ x # h => pv2[x] = pv[x]
Spliced(nx, pv, n, m, nx2, pv2) ==
  /\ nx2 = [nx EXCEPT ![m] = nx[n]]
  /\ pv2 = IF nx[n] = NULL THEN pv ELSE [pv EXCEPT ![nx[n]] = m]

SameAt(h, pv, pv2) == pv2[h] = pv[h]

(* Adding an entry that is not allocated.                                  *)
LEMMA AddShape ==
  ASSUME NEW h, NEW nx, NEW pv, Pointers(nx), Pointers(pv),
         NEW lv, NEW p, Shape(h, nx, pv, lv, p), NEW n \in Node, n \notin lv,
         NEW nx2, NEW pv2, Pushed(h, nx, pv, n, nx2, pv2)
  PROVE  Shape(n, nx2, pv2, lv \cup {n}, <<n>> \o p)
<1>0. /\ nx \in [Node -> Node \cup {NULL}] /\ pv \in [Node -> Node \cup {NULL}]
      /\ nx2 = [nx EXCEPT ![n] = h] /\ pv2[n] = NULL /\ (h # NULL => pv2[h] = n)
      /\ \A x \in Node : x # n /\ x # h => pv2[x] = pv[x]
  BY DEF Pointers, Pushed
<1>1. PICK k \in Nat : k = Len(p)
  BY DEF Shape, IsList
<1>2. /\ p \in Seq(Node) /\ \A i \in 1..k : p[i] \in Node
      /\ k = 0 => h = NULL
      /\ k > 0 => h = p[1]
      /\ \A i \in 1..k : nx[p[i]] = IF i = k THEN NULL ELSE p[i + 1]
  BY <1>1, ListFacts DEF Shape
<1>3. \A i \in 1..k : p[i] # n
  BY <1>1 DEF Shape, Holds
<1> DEFINE q == <<n>> \o p
<1>4. /\ q \in Seq(Node) /\ Len(q) = k + 1 /\ q[1] = n
      /\ \A i \in 2..(k + 1) : q[i] = p[i - 1] /\ i - 1 \in 1..k
  BY <1>1, <1>2
<1> HIDE DEF q
<1>5. IsList(n, nx2, q)
  <2>1. ASSUME NEW i \in 1..(k + 1)
        PROVE  nx2[q[i]] = IF i = k + 1 THEN NULL ELSE q[i + 1]
    <3>1. CASE i = 1
      <4>1. nx2[q[i]] = h
        BY <1>0, <1>4, <3>1
      <4>2. CASE k = 0
        BY <1>2, <3>1, <4>1, <4>2
      <4>3. CASE k # 0
        <5>1. 2 \in 2..(k + 1) /\ 2 - 1 = 1 /\ k > 0
          BY <4>3
        <5>2. q[2] = p[1]
          BY <1>4, <5>1
        <5> QED
          BY <1>2, <3>1, <4>1, <4>3, <5>1, <5>2
      <4> QED
        BY <4>2, <4>3
    <3>2. CASE i # 1
      <4>1. PICK j \in 1..k : j = i - 1 /\ i = j + 1
        BY <3>2
      <4>2. q[i] = p[j] /\ p[j] # n /\ p[j] \in Node
        BY <1>2, <1>3, <1>4, <3>2, <4>1
      <4>3. nx2[q[i]] = nx[p[j]]
        BY <1>0, <4>2
      <4>4. CASE j = k
        BY <1>2, <4>1, <4>3, <4>4
      <4>5. CASE j # k
        <5>1. j + 2 \in 2..(k + 1) /\ (j + 2) - 1 = j + 1 /\ i + 1 = j + 2 /\ i # k + 1
          BY <4>1, <4>5
        <5>2. q[j + 2] = p[j + 1]
          BY <1>4, <5>1
        <5> QED
          BY <1>2, <4>3, <4>5, <5>1, <5>2
      <4> QED
        BY <4>4, <4>5
    <3> QED
      BY <3>1, <3>2
  <2>2. Len(q) # 0 /\ n = q[1]
    BY <1>4
  <2> QED
    BY <1>4, <2>1, <2>2, MakesList
<1>6. Once(q)
  <2>1. ASSUME NEW i \in 1..(k + 1), NEW j \in 1..(k + 1), q[i] = q[j] PROVE i = j
    <3>1. CASE i = 1 /\ j = 1
      BY <3>1
    <3>2. CASE i = 1 /\ j # 1
      BY <1>3, <1>4, <2>1, <3>2
    <3>3. CASE i # 1 /\ j = 1
      BY <1>3, <1>4, <2>1, <3>3
    <3>4. CASE i # 1 /\ j # 1
      <4>1. i - 1 \in 1..k /\ j - 1 \in 1..k /\ p[i - 1] = p[j - 1]
        BY <1>4, <2>1, <3>4
      <4>2. i - 1 = j - 1
        BY <1>1, <4>1 DEF Shape, Once
      <4> QED
        BY <4>2
    <3> QED
      BY <3>1, <3>2, <3>3, <3>4
  <2> QED
    BY <1>4, <2>1 DEF Once
<1>7. Holds(q, lv \cup {n})
  <2>1. ASSUME NEW x, x \in lv PROVE \E i \in 1..(k + 1) : q[i] = x
    <3>1. PICK j \in 1..k : p[j] = x
      BY <1>1, <2>1 DEF Shape, Holds
    <3>2. j + 1 \in 2..(k + 1) /\ j + 1 \in 1..(k + 1) /\ (j + 1) - 1 = j
      OBVIOUS
    <3>3. q[j + 1] = p[j]
      BY <1>4, <3>2
    <3> QED
      BY <3>1, <3>2, <3>3
  <2>2. ASSUME NEW i \in 1..(k + 1) PROVE q[i] \in lv \cup {n}
    <3>1. CASE i = 1
      BY <1>4, <3>1
    <3>2. CASE i # 1
      BY <1>1, <1>4, <3>2 DEF Shape, Holds
    <3> QED
      BY <3>1, <3>2
  <2>3. 1 \in 1..(k + 1) /\ q[1] = n
    BY <1>4
  <2> QED
    BY <1>4, <2>1, <2>2, <2>3 DEF Holds
<1>8. Back(pv2, q)
  <2>1. ASSUME NEW i \in 2..(k + 1) PROVE pv2[q[i]] = q[i - 1]
    <3>1. CASE i = 2
      <4>1. k > 0 /\ q[2] = p[1] /\ 2 - 1 = 1 /\ p[1] # NULL
        BY <1>2, <1>4, <3>1, HeapAssumption
      <4> QED
        BY <1>0, <1>2, <1>4, <3>1, <4>1
    <3>2. CASE i # 2
      <4>1. PICK j \in 2..k : j = i - 1 /\ 1 \in 1..k /\ j \in 1..k
        BY <3>2
      <4>2. q[i] = p[j] /\ q[j] = p[j - 1] /\ p[j] # n
        BY <1>3, <1>4, <3>2, <4>1
      <4>3. p[j] # p[1] /\ k > 0
        BY <1>1, <4>1 DEF Shape, Once
      <4>4. pv2[p[j]] = pv[p[j]]
        BY <1>0, <1>2, <4>1, <4>2, <4>3
      <4>5. pv[p[j]] = p[j - 1]
        BY <1>1, <4>1 DEF Shape, Back
      <4> QED
        BY <4>1, <4>2, <4>4, <4>5
    <3> QED
      BY <3>1, <3>2
  <2> QED
    BY <1>4, <2>1 DEF Back
<1>9. Stale(n, pv2, lv \cup {n})
  BY <1>0 DEF Stale
<1> QED
  BY <1>5, <1>6, <1>7, <1>8, <1>9 DEF Shape, q

\* q is p without the entry at i.
Without(q, p, i) ==
  /\ q \in Seq(Node) /\ Len(q) = Len(p) - 1
  /\ \A j \in 1..(i - 1) : q[j] = p[j]
  /\ \A j \in i..Len(q) : q[j] = p[j + 1]

LEMMA WithoutFacts ==
  ASSUME NEW p \in Seq(Node), NEW i \in 1..Len(p)
  PROVE  Without(SubSeq(p, 1, i - 1) \o SubSeq(p, i + 1, Len(p)), p, i)
<1>1. PICK n \in Nat : n = Len(p)
  OBVIOUS
<1> DEFINE a == SubSeq(p, 1, i - 1)
           b == SubSeq(p, i + 1, n)
<1>2. a \in Seq(Node) /\ Len(a) = i - 1 /\ \A j \in 1..(i - 1) : a[j] = p[j]
  BY <1>1
<1>3. b \in Seq(Node) /\ Len(b) = n - i /\ \A j \in 1..(n - i) : b[j] = p[i + j]
  BY <1>1
<1> HIDE DEF a, b
<1>4. a \o b \in Seq(Node) /\ Len(a \o b) = n - 1
  <2>1. a \o b \in Seq(Node) /\ Len(a \o b) = Len(a) + Len(b)
    BY <1>2, <1>3
  <2>2. (i - 1) + (n - i) = n - 1
    BY <1>1
  <2> QED
    BY <1>2, <1>3, <2>1, <2>2
<1>5. ASSUME NEW j \in 1..(i - 1) PROVE (a \o b)[j] = p[j]
  BY <1>2, <1>3
<1>6. ASSUME NEW j \in i..(n - 1) PROVE (a \o b)[j] = p[j + 1]
  <2>1. PICK m \in 1..(n - i) : m = j - (i - 1) /\ i + m = j + 1 /\ j = Len(a) + m
    <3>1. /\ j - (i - 1) \in 1..(n - i) /\ i + (j - (i - 1)) = j + 1
          /\ j = (i - 1) + (j - (i - 1))
      BY <1>1
    <3> QED
      BY <1>2, <3>1, Zenon
  <2>2. (a \o b)[Len(a) + m] = b[m]
    BY <1>2, <1>3
  <2> QED
    BY <1>3, <2>1, <2>2
<1> QED
  BY <1>1, <1>4, <1>5, <1>6 DEF Without, a, b

\* Where an entry of p is in q.
LEMMA WithoutOnce ==
  ASSUME NEW p \in Seq(Node), Once(p), NEW lv, Holds(p, lv), NEW i \in 1..Len(p),
         NEW q, Without(q, p, i)
  PROVE  Once(q) /\ Holds(q, lv \ {p[i]})
<1>1. PICK n \in Nat : n = Len(p) /\ Len(q) = n - 1
  BY DEF Without
<1> DEFINE At(j) == IF j < i THEN j ELSE j + 1
<1>2. \A j \in 1..(n - 1) : At(j) \in 1..n /\ At(j) # i /\ q[j] = p[At(j)]
  BY <1>1 DEF Without
<1>3. \A j, k \in 1..(n - 1) : At(j) = At(k) => j = k
  BY <1>1
<1>4. ASSUME NEW m \in 1..n, m # i PROVE \E j \in 1..(n - 1) : At(j) = m
  <2>1. CASE m < i
    <3>1. m \in 1..(n - 1) /\ At(m) = m
      BY <1>1, <2>1
    <3> QED
      BY <3>1
  <2>2. CASE ~(m < i)
    <3>1. m - 1 \in 1..(n - 1) /\ At(m - 1) = m
      BY <1>1, <1>4, <2>2
    <3> QED
      BY <3>1
  <2> QED
    BY <2>1, <2>2
<1> HIDE DEF At
<1>5. Once(q)
  <2>1. ASSUME NEW j \in 1..(n - 1), NEW k \in 1..(n - 1), q[j] = q[k] PROVE j = k
    <3>1. p[At(j)] = p[At(k)] /\ At(j) \in 1..n /\ At(k) \in 1..n
      BY <1>2, <2>1
    <3>2. At(j) = At(k)
      BY <1>1, <3>1 DEF Once
    <3> QED
      BY <1>3, <3>2
  <2> QED
    BY <1>1, <2>1 DEF Once
<1>6. Holds(q, lv \ {p[i]})
  <2>1. ASSUME NEW x, x \in lv, x # p[i] PROVE \E j \in 1..(n - 1) : q[j] = x
    <3>1. PICK m \in 1..n : p[m] = x
      BY <1>1, <2>1 DEF Holds
    <3>2. PICK j \in 1..(n - 1) : At(j) = m
      BY <1>4, <2>1, <3>1
    <3> QED
      BY <1>2, <3>1, <3>2
  <2>2. ASSUME NEW j \in 1..(n - 1) PROVE q[j] \in lv /\ q[j] # p[i]
    <3>1. q[j] = p[At(j)] /\ At(j) \in 1..n /\ At(j) # i
      BY <1>2
    <3> QED
      BY <1>1, <3>1 DEF Holds, Once
  <2> QED
    BY <1>1, <2>1, <2>2 DEF Holds
<1> QED
  BY <1>5, <1>6

(* Removing the head, when its prev is null: the prev of the next entry is *)
(* left pointing at what is freed.                                         *)
LEMMA CutHead ==
  ASSUME NEW h, NEW nx, NEW pv, NEW lv, NEW p, Shape(h, nx, pv, lv, p), Len(p) > 0,
         NEW q, Without(q, p, 1)
  PROVE  /\ Shape(nx[h], nx, pv, lv \ {h}, q) /\ h = p[1]
         /\ nx[h] # NULL /\ pv[nx[h]] # NULL <=> Len(p) > 1
<1>1. PICK n \in Nat : n = Len(p) /\ n > 0 /\ 1 \in 1..n
  BY DEF Shape, IsList
<1>2. /\ p \in Seq(Node) /\ (\A i \in 1..n : p[i] \in Node) /\ h = p[1]
      /\ \A i \in 1..n : nx[p[i]] = IF i = n THEN NULL ELSE p[i + 1]
  BY <1>1, ListFacts DEF Shape
<1>3. q \in Seq(Node) /\ Len(q) = n - 1 /\ \A j \in 1..(n - 1) : q[j] = p[j + 1]
  BY <1>1 DEF Without
<1>4. IsList(nx[h], nx, q)
  <2>1. n - 1 = 0 => nx[h] = NULL
    <3>1. n - 1 = 0 => 1 = n
      BY ONLY n \in Nat
    <3>2. ASSUME NEW i \in 1..n, i = n PROVE nx[p[i]] = NULL
      BY <1>2, <3>2
    <3> QED
      BY <1>1, <1>2, <3>1, <3>2
  <2>2. n - 1 > 0 => nx[h] = q[1]
    <3>1. n - 1 > 0 => q[1] = p[1 + 1]
      BY <1>3
    <3>2. n - 1 > 0 => nx[p[1]] = p[1 + 1]
      BY <1>1, <1>2
    <3> QED
      BY <1>2, <3>1, <3>2
  <2>3. ASSUME NEW i \in 1..(n - 1) PROVE nx[q[i]] = IF i = n - 1 THEN NULL ELSE q[i + 1]
    <3>1. q[i] = p[i + 1] /\ i + 1 \in 1..n
      BY <1>3
    <3>2. CASE i = n - 1
      BY <1>2, <3>1, <3>2
    <3>3. CASE i # n - 1
      <4>1. i + 1 \in 1..(n - 1) /\ i + 1 # n
        BY <3>3
      <4>2. q[i + 1] = p[(i + 1) + 1]
        BY <1>3, <4>1
      <4> QED
        BY <1>2, <3>1, <3>3, <4>1, <4>2
    <3> QED
      BY <3>2, <3>3
  <2> QED
    BY <1>3, <2>1, <2>2, <2>3, MakesList
<1>5. Once(q) /\ Holds(q, lv \ {h})
  BY <1>1, <1>2, WithoutOnce DEF Shape
<1>6. Back(pv, q)
  <2>1. ASSUME NEW i \in 2..(n - 1) PROVE pv[q[i]] = q[i - 1]
    <3>1. i + 1 \in 2..n /\ i - 1 \in 1..(n - 1) /\ i \in 1..(n - 1) /\ (i - 1) + 1 = (i + 1) - 1
      OBVIOUS
    <3>2. q[i] = p[i + 1] /\ q[i - 1] = p[(i - 1) + 1]
      BY <1>3, <3>1
    <3>3. pv[p[i + 1]] = p[(i + 1) - 1]
      BY <1>1, <3>1 DEF Shape, Back
    <3> QED
      BY <3>1, <3>2, <3>3
  <2> QED
    BY <1>3, <2>1 DEF Back
<1>7. n > 1 => nx[h] = p[2] /\ p[2] \in Node /\ pv[p[2]] = p[1] /\ p[1] \in Node
  <2>1. n > 1 => 2 \in 2..n /\ 2 \in 1..n /\ 2 - 1 = 1 /\ 1 + 1 = 2 /\ 1 # n
    BY <1>1
  <2>2. n > 1 => pv[p[2]] = p[1]
    BY <1>1, <2>1 DEF Shape, Back
  <2> QED
    BY <1>1, <1>2, <2>1, <2>2
<1>8. n = 1 => nx[h] = NULL
  BY <1>1, <1>2
<1>9. Stale(nx[h], pv, lv \ {h})
  BY <1>1, <1>2, <1>7, <1>8 DEF Stale
<1> QED
  BY <1>1, <1>2, <1>4, <1>5, <1>6, <1>7, <1>8, <1>9, HeapAssumption DEF Shape

(* Removing an entry behind the head.                                      *)
LEMMA CutBehind ==
  ASSUME NEW h, NEW nx, NEW pv, Pointers(nx), Pointers(pv),
         NEW lv, NEW p, Shape(h, nx, pv, lv, p), NEW i \in 2..Len(p), NEW q, Without(q, p, i),
         NEW nx2, NEW pv2, Spliced(nx, pv, p[i], p[i - 1], nx2, pv2)
  PROVE  Shape(h, nx2, pv2, lv \ {p[i]}, q) /\ SameAt(h, pv, pv2)
<1>0. /\ nx \in [Node -> Node \cup {NULL}] /\ pv \in [Node -> Node \cup {NULL}]
      /\ nx2 = [nx EXCEPT ![p[i - 1]] = nx[p[i]]]
      /\ pv2 = IF nx[p[i]] = NULL THEN pv ELSE [pv EXCEPT ![nx[p[i]]] = p[i - 1]]
  BY DEF Pointers, Spliced
<1>1. PICK n \in Nat : n = Len(p)
  BY DEF Shape, IsList
<1>2. /\ p \in Seq(Node) /\ (\A j \in 1..n : p[j] \in Node) /\ (n > 0 => h = p[1])
      /\ \A j \in 1..n : nx[p[j]] = IF j = n THEN NULL ELSE p[j + 1]
  <2>1. IsList(h, nx, p)
    BY DEF Shape
  <2>2. /\ p \in Seq(Node) /\ (\A j \in 1..Len(p) : p[j] \in Node) /\ (Len(p) > 0 => h = p[1])
        /\ \A j \in 1..Len(p) : nx[p[j]] = IF j = Len(p) THEN NULL ELSE p[j + 1]
    BY ONLY <2>1, ListFacts
  <2> QED
    BY <1>1, <2>2
<1>3. i \in 2..n /\ n > 0 /\ i - 1 \in 1..n /\ 1 \in 1..n /\ i \in 1..n
  BY <1>1
<1>4. /\ q \in Seq(Node) /\ Len(q) = n - 1
      /\ \A j \in 1..(i - 1) : q[j] = p[j]
      /\ \A j \in i..(n - 1) : q[j] = p[j + 1]
  BY <1>1 DEF Without
<1>5. \A j, k \in 1..n : p[j] = p[k] => j = k
  BY <1>1 DEF Shape, Once
<1>6. /\ nx2[p[i - 1]] = nx[p[i]]
      /\ \A j \in 1..n : j # i - 1 => nx2[p[j]] = nx[p[j]]
  <2>1. PICK a \in Node : a = p[i - 1]
    BY <1>2, <1>3
  <2>2. \A j \in 1..n : j # i - 1 => p[j] # a /\ p[j] \in Node
    BY <1>2, <1>3, <1>5, <2>1
  <2>3. nx2 = [nx EXCEPT ![a] = nx[p[i]]]
    BY <1>0, <2>1
  <2>4. nx2[a] = nx[p[i]] /\ \A x \in Node : x # a => nx2[x] = nx[x]
    BY <1>0, <2>3
  <2> QED
    BY <2>1, <2>2, <2>4
<1>7. IsList(h, nx2, q)
  <2>1. ASSUME NEW j \in 1..(n - 1) PROVE nx2[q[j]] = IF j = n - 1 THEN NULL ELSE q[j + 1]
    <3>1. CASE j < i - 1
      <4>1. j \in 1..(i - 1) /\ j + 1 \in 1..(i - 1) /\ j \in 1..n /\ j # i - 1 /\ j # n /\ j # n - 1
        BY <1>3, <3>1
      <4>2. q[j] = p[j] /\ q[j + 1] = p[j + 1]
        BY <1>4, <4>1
      <4>3. nx[p[j]] = p[j + 1]
        BY <1>2, <4>1
      <4> QED
        BY <1>6, <4>1, <4>2, <4>3
    <3>2. CASE j = i - 1
      <4>1. q[j] = p[i - 1]
        BY <1>3, <1>4, <3>2
      <4>2. CASE i = n
        <5>1. j = n - 1 /\ nx[p[i]] = NULL
          BY <1>2, <1>3, <3>2, <4>2
        <5> QED
          BY <1>6, <4>1, <5>1
      <4>3. CASE i # n
        <5>1. j # n - 1 /\ i \in i..(n - 1) /\ j + 1 = i
          BY <1>3, <3>2, <4>3
        <5>2. q[i] = p[i + 1] /\ nx[p[i]] = p[i + 1]
          BY <1>2, <1>3, <1>4, <4>3, <5>1
        <5> QED
          BY <1>6, <4>1, <5>1, <5>2
      <4> QED
        BY <4>2, <4>3
    <3>3. CASE j > i - 1
      <4>1. j \in i..(n - 1) /\ j + 1 \in 1..n /\ j + 1 # i - 1
        BY <1>3, <3>3
      <4>2. q[j] = p[j + 1]
        BY <1>4, <4>1
      <4>3. CASE j = n - 1
        <5>1. j + 1 = n
          BY <4>3
        <5>2. nx[p[j + 1]] = NULL
          BY <1>2, <4>1, <5>1
        <5> QED
          BY <1>6, <4>1, <4>2, <4>3, <5>2
      <4>4. CASE j # n - 1
        <5>1. j + 1 \in i..(n - 1) /\ j + 1 # n
          BY <4>1, <4>4
        <5>2. q[j + 1] = p[(j + 1) + 1] /\ nx[p[j + 1]] = p[(j + 1) + 1]
          BY <1>2, <1>4, <4>1, <5>1
        <5> QED
          BY <1>6, <4>1, <4>2, <4>4, <5>2
      <4> QED
        BY <4>3, <4>4
    <3>4. j < i - 1 \/ j = i - 1 \/ j > i - 1
      BY <1>3
    <3> QED
      BY <3>1, <3>2, <3>3, <3>4
  <2>2. n - 1 # 0 /\ q[1] = p[1]
    BY <1>3, <1>4
  <2> QED
    <3>1. Len(q) # 0 /\ h = q[1]
      BY <1>2, <1>3, <1>4, <2>2
    <3>2. \A j \in 1..Len(q) : nx2[q[j]] = IF j = Len(q) THEN NULL ELSE q[j + 1]
      BY <1>4, <2>1
    <3> QED
      BY ONLY <1>4, <3>1, <3>2, MakesList
<1>8. Once(q) /\ Holds(q, lv \ {p[i]})
  BY <1>1, <1>2, <1>3, WithoutOnce DEF Shape
<1>9. \A j \in 2..n : pv[p[j]] = p[j - 1]
  BY <1>1 DEF Shape, Back
<1>10. /\ i < n => pv2[p[i + 1]] = p[i - 1]
       /\ \A j \in 1..n : j # i + 1 => pv2[p[j]] = pv[p[j]]
  <2>1. CASE i = n
    <3>1. nx[p[i]] = NULL
      BY <1>2, <1>3, <2>1
    <3> QED
      BY <1>0, <2>1, <3>1
  <2>2. CASE i # n
    <3>1. i + 1 \in 1..n /\ nx[p[i]] = p[i + 1] /\ p[i + 1] \in Node
      BY <1>2, <1>3, <2>2
    <3>2. pv2 = [pv EXCEPT ![p[i + 1]] = p[i - 1]]
      BY <1>0, <3>1, HeapAssumption
    <3> QED
      BY <1>0, <1>2, <1>5, <3>1, <3>2
  <2> QED
    BY <2>1, <2>2
<1>11. Back(pv2, q)
  <2>1. ASSUME NEW j \in 2..(n - 1) PROVE pv2[q[j]] = q[j - 1]
    <3>1. CASE j < i
      <4>1. j \in 1..(i - 1) /\ j - 1 \in 1..(i - 1) /\ j \in 1..n /\ j # i + 1 /\ j \in 2..n
        BY <1>3, <3>1
      <4> QED
        BY <1>4, <1>9, <1>10, <4>1
    <3>2. CASE j = i
      <4>1. i < n /\ i \in i..(n - 1) /\ i - 1 \in 1..(i - 1)
        BY <1>3, <3>2
      <4> QED
        BY <1>4, <1>10, <3>2, <4>1
    <3>3. CASE j > i
      <4>1. /\ j \in i..(n - 1) /\ j - 1 \in i..(n - 1) /\ j + 1 \in 2..n /\ j + 1 \in 1..n
            /\ j + 1 # i + 1 /\ (j - 1) + 1 = j /\ (j + 1) - 1 = j
        BY <1>3, <3>3
      <4>2. q[j] = p[j + 1] /\ q[j - 1] = p[j]
        BY <1>4, <4>1
      <4>3. pv2[p[j + 1]] = pv[p[j + 1]]
        BY <1>10, <4>1
      <4>4. pv[p[j + 1]] = p[j]
        BY <1>9, <4>1
      <4> QED
        BY <4>2, <4>3, <4>4
    <3>4. j < i \/ j = i \/ j > i
      BY <1>3
    <3> QED
      BY <3>1, <3>2, <3>3, <3>4
  <2> QED
    BY <1>4, <2>1 DEF Back
<1>12. pv2[h] = pv[h]
  BY <1>2, <1>3, <1>10
<1>13. Stale(h, pv2, lv \ {p[i]})
  BY <1>12 DEF Shape, Stale
<1> QED
  BY <1>7, <1>8, <1>11, <1>12, <1>13 DEF Shape, SameAt

-----------------------------------------------------------------------------
(* The lists of the states.                                                *)

LEMMA VisitsIs == \A p \in Seq(Node) : Visits(p) <=> IsList(head, next, p)
  BY DEF Visits, After, IsList, Reads

LEMMA VisitsIsNext == \A p \in Seq(Node) : Visits(p)' <=> IsList(head', next', p)
  BY DEF Visits, After, IsList, Reads

LEMMA PathIs ==
  ASSUME NEW p, IsList(head, next, p), Once(p)
  PROVE  ~Cyclic /\ Path = p
<1>1. p \in Sequence /\ Visits(p)
  BY InMemory, VisitsIs DEF IsList
<1>2. ASSUME NEW q \in Sequence, Visits(q) PROVE q = p
  BY <1>2, SequenceFacts, VisitsIs, OneList
<1>3. ~Cyclic
  BY <1>1 DEF Cyclic
<1> QED
  BY <1>1, <1>2, <1>3 DEF Path

LEMMA PathIsNext ==
  ASSUME NEW p, IsList(head', next', p), Once(p)
  PROVE  ~Cyclic' /\ Path' = p
<1>1. p \in Sequence /\ Visits(p)'
  BY InMemory, VisitsIsNext DEF IsList
<1>2. ASSUME NEW q \in Sequence, Visits(q)' PROVE q = p
  BY <1>2, SequenceFacts, VisitsIsNext, OneList
<1>3. ~Cyclic'
  BY <1>1 DEF Cyclic
<1> QED
  BY <1>1, <1>2, <1>3 DEF Path

LEMMA InvShape ==
  ASSUME HeapInv, fault = "none"
  PROVE  Shape(head, next, prev, live, Path)
<1>1. ~Cyclic /\ Reachable = live
  BY DEF HeapInv
<1>2. Path \in Sequence /\ Visits(Path)
  BY <1>1 DEF Cyclic, Path
<1>3. Path \in Seq(Node) /\ DOMAIN Path = 1..Len(Path)
  BY <1>2, SequenceFacts
<1>4. IsList(head, next, Path)
  BY <1>2, <1>3, VisitsIs
<1>5. Once(Path)
  BY <1>3 DEF HeapInv, Once
<1>6. Holds(Path, live)
  BY <1>1, <1>3 DEF Holds, Reachable
<1>7. Back(prev, Path) /\ Stale(head, prev, live)
  BY DEF HeapInv, Back, Stale, StaleHead
<1> QED
  BY <1>4, <1>5, <1>6, <1>7 DEF Shape

LEMMA ShapeInv ==
  ASSUME NEW p, Shape(head, next, prev, live, p)
  PROVE  HeapInv /\ Path = p
<1>1. ~Cyclic /\ Path = p /\ p \in Seq(Node) /\ DOMAIN p = 1..Len(p)
  BY PathIs DEF Shape, IsList
<1>2. Reachable = live
  BY <1>1 DEF Shape, Holds, Reachable
<1> QED
  BY <1>1, <1>2 DEF HeapInv, Shape, Once, Back, Stale, StaleHead

LEMMA ShapeInvNext ==
  ASSUME NEW p, Shape(head', next', prev', live', p)
  PROVE  HeapInv' /\ Path' = p /\ ~Cyclic'
<1>1. ~Cyclic' /\ Path' = p /\ p \in Seq(Node) /\ DOMAIN p = 1..Len(p)
  BY PathIsNext DEF Shape, IsList
<1>2. Reachable' = live'
  BY <1>1 DEF Shape, Holds, Reachable
<1> QED
  BY <1>1, <1>2 DEF HeapInv, Shape, Once, Back, Stale, StaleHead

LEMMA SamePath ==
  ASSUME HeapInv, fault = "none", UNCHANGED <<head, next>>
  PROVE  Path' = Path
<1>1. IsList(head', next', Path) /\ Once(Path)
  BY InvShape DEF Shape
<1> QED
  BY <1>1, PathIsNext

LEMMA ReachNode == Reachable \subseteq Node
<1>1. Path \in Seq(Node)
  <2>1. CASE Cyclic
    BY <2>1 DEF Path
  <2>2. CASE ~Cyclic
    <3>1. Path \in Sequence
      BY <2>2 DEF Cyclic, Path
    <3> QED
      BY <3>1, SequenceFacts
  <2> QED
    BY <2>1, <2>2
<1> QED
  BY <1>1 DEF Reachable

-----------------------------------------------------------------------------
(* The types.                                                              *)

LEMMA BlankType == Api!Blank \in Api!Entry
  BY DEF Api!Blank, Api!Entry, Api!NoHw, Api!Hwaddr, Api!EntryState

LEMMA UpdateType ==
  ASSUME NEW e \in Api!Entry, NEW v \in Api!Entry
  PROVE  [e EXCEPT !.ip = v.ip, !.hw.ifindex = v.hw.ifindex, !.hw.hatype = v.hw.hatype,
                   !.hw.addr = IF v.hw.halen = 0 THEN @ ELSE v.hw.addr] \in Api!Entry
  BY DEF Api!Entry, Api!Hwaddr

LEMMA TypeStep ==
  ASSUME TypeOK, [Next]_vars
  PROVE  TypeOK'
<1>1. ASSUME NEW n \in Node, addToCache(n)
      PROVE  /\ head' \in Node \cup {NULL} /\ next' \in [Node -> Node \cup {NULL}]
             /\ prev' \in [Node -> Node \cup {NULL}] /\ fault' \in {"none", "uaf", "cycle"}
  BY <1>1 DEF addToCache, TypeOK
<1>2. ASSUME NEW n \in Node, NEW v \in Contents, Add(n, v) PROVE TypeOK'
  BY <1>1, <1>2, HeapAssumption DEF Add, TypeOK
<1>3. ASSUME NEW n \in Node, AddAgain(n) PROVE TypeOK'
  BY <1>1, <1>3 DEF AddAgain, TypeOK
<1>4. ASSUME NEW v \in Contents, removeFromCache(v) PROVE TypeOK'
  <2>1. CASE UNCHANGED vars
    BY <2>1 DEF vars, TypeOK
  <2>2. ASSUME NEW n \in Reachable, Splice(n), live' = live \ {n},
               entry' = IF fault' = "none" THEN [entry EXCEPT ![n] = Api!Blank] ELSE entry
        PROVE  TypeOK'
    <3>1. n \in Node
      BY ReachNode
    <3>2. /\ head' \in Node \cup {NULL} /\ next' \in [Node -> Node \cup {NULL}]
          /\ prev' \in [Node -> Node \cup {NULL}] /\ fault' \in {"none", "uaf", "cycle"}
      BY <2>2, <3>1 DEF Splice, TypeOK
    <3>3. entry' \in [Node -> Api!Entry] /\ live' \in SUBSET Node
      BY <2>2, <3>1, BlankType DEF TypeOK
    <3> QED
      BY <3>2, <3>3 DEF TypeOK
  <2> QED
    BY <1>4, <2>1, <2>2 DEF removeFromCache
<1>5. ASSUME NEW v \in Contents, updateCache(v) PROVE TypeOK'
  <2>1. PICK n \in Reachable :
          /\ entry' = [entry EXCEPT ![n].ip = v.ip,
                                    ![n].hw.ifindex = v.hw.ifindex,
                                    ![n].hw.hatype = v.hw.hatype,
                                    ![n].hw.addr = IF v.hw.halen = 0 THEN @ ELSE v.hw.addr]
          /\ UNCHANGED <<head, next, prev, live, fault>>
    BY <1>5 DEF updateCache
  <2>2. n \in Node /\ entry[n] \in Api!Entry /\ v \in Api!Entry
    BY ReachNode, HeapAssumption DEF TypeOK
  <2> DEFINE e == [entry[n] EXCEPT !.ip = v.ip, !.hw.ifindex = v.hw.ifindex,
                     !.hw.hatype = v.hw.hatype,
                     !.hw.addr = IF v.hw.halen = 0 THEN @ ELSE v.hw.addr]
  <2>3. e \in Api!Entry
    BY <2>2, UpdateType
  <2>4. entry' = [entry EXCEPT ![n] = e]
    BY <2>1, <2>2 DEF TypeOK
  <2> HIDE DEF e
  <2>5. entry' \in [Node -> Api!Entry]
    BY <2>2, <2>3, <2>4 DEF TypeOK
  <2> QED
    BY <2>1, <2>5 DEF TypeOK
<1>6. CASE UNCHANGED vars
  BY <1>6 DEF vars, TypeOK
<1> QED
  BY <1>2, <1>3, <1>4, <1>5, <1>6 DEF Next

-----------------------------------------------------------------------------
(* The steps: each keeps the invariant and is one of CacheApi.             *)

LEMMA PathFacts ==
  ASSUME HeapInv, fault = "none"
  PROVE  /\ Shape(head, next, prev, live, Path)
         /\ Path \in Seq(Node) /\ Len(Path) \in Nat /\ DOMAIN Path = 1..Len(Path)
         /\ Reachable = live
  BY InvShape DEF Shape, IsList, HeapInv

LEMMA AddStep ==
  ASSUME TypeOK, HeapInv, fault = "none", NEW n \in Node, NEW v \in Contents, Add(n, v)
  PROVE  HeapInv' /\ Api!Add(n, v)
<1>1. /\ Shape(head, next, prev, live, Path) /\ Reachable = live
      /\ Path \in Seq(Node) /\ Len(Path) \in Nat /\ DOMAIN Path = 1..Len(Path)
  BY PathFacts
<1>2. n \notin live /\ live' = live \cup {n} /\ head' = n /\ entry' = [entry EXCEPT ![n] = v]
  BY DEF Add, addToCache
<1>3. next' = [next EXCEPT ![n] = head]
  BY DEF Add, addToCache
<1>4. head # n
  <2>1. PICK k \in Nat : k = Len(Path)
    BY <1>1
  <2>2. CASE k = 0
    BY <1>1, <2>1, <2>2, ListFacts, HeapAssumption DEF Shape
  <2>3. CASE k > 0
    <3>1. head = Path[1] /\ 1 \in 1..Len(Path)
      BY <1>1, <2>1, <2>3, ListFacts DEF Shape
    <3> QED
      BY <1>1, <1>2, <3>1 DEF Shape, Holds
  <2> QED
    BY <2>2, <2>3
<1>5. /\ prev'[n] = NULL /\ (head # NULL => prev'[head] = n)
      /\ \A x \in Node : x # n /\ x # head => prev'[x] = prev[x]
  BY <1>4 DEF Add, addToCache, TypeOK
<1>6. Shape(n, next', prev', live \cup {n}, <<n>> \o Path)
  <2>1. Pointers(next) /\ Pointers(prev)
    BY DEF TypeOK, Pointers
  <2>2. Pushed(head, next, prev, n, next', prev')
    BY <1>3, <1>5 DEF Pushed
  <2> QED
    BY ONLY <1>1, <1>2, <2>1, <2>2, n \in Node, AddShape, Zenon
<1>7. HeapInv' /\ Path' = <<n>> \o Path /\ ~Cyclic'
  BY <1>2, <1>6, ShapeInvNext
<1>8. fault' = "none"
  BY <1>7 DEF Add, addToCache
<1>9. n \notin Api!Linked
  BY <1>1, <1>2 DEF Api!Linked, Reachable
<1>10. (fault' = "none" /\ StaleHead') = FALSE
  BY <1>2, <1>5 DEF StaleHead
<1>11. Api!addToCache(n)
  BY <1>7, <1>8, <1>9, <1>10 DEF Api!addToCache
<1> QED
  BY <1>2, <1>7, <1>9, <1>11 DEF Api!Add

LEMMA AddAgainStep ==
  ASSUME TypeOK, HeapInv, fault = "none", NEW n \in Node, AddAgain(n)
  PROVE  HeapInv' /\ Api!AddAgain(n)
<1>1. /\ Shape(head, next, prev, live, Path)
      /\ Path \in Seq(Node) /\ Len(Path) \in Nat /\ DOMAIN Path = 1..Len(Path)
  BY PathFacts
<1>2. PICK i \in 1..Len(Path) : n = Path[i]
  BY <1>1 DEF AddAgain, Reachable
<1>3. /\ Len(Path) > 0 => head = Path[1]
      /\ \A j \in 1..Len(Path) : Path[j] \in Node
      /\ \A j \in 1..Len(Path) : next[Path[j]] = IF j = Len(Path) THEN NULL ELSE Path[j + 1]
  <2>1. IsList(head, next, Path)
    BY <1>1 DEF Shape
  <2> QED
    BY ONLY <2>1, ListFacts
<1>4. PICK m \in Nat : m = Len(Path) /\ i \in 1..m /\ 1 \in 1..i /\ m > 0
  <2>1. PICK m \in Nat : m = Len(Path)
    BY <1>1
  <2>2. i \in 1..m /\ 1 \in 1..i /\ m > 0
    BY <2>1
  <2> QED
    BY <2>1, <2>2
<1> DEFINE R == {Path[j] : j \in 1..i}
<1>5. head' = n /\ next' = [next EXCEPT ![n] = head]
  BY DEF AddAgain, addToCache
<1>6. R \in SUBSET Node /\ head \in R /\ n \in R
  BY <1>2, <1>3, <1>4
<1>7. ASSUME NEW x \in R PROVE next'[x] \in R
  <2>1. CASE x = n
    BY <1>5, <1>6, <2>1 DEF TypeOK
  <2>2. CASE x # n
    <3>1. PICK j \in 1..i : x = Path[j]
      OBVIOUS
    <3>2. j # i
      BY <1>2, <2>2, <3>1
    <3>3. j \in 1..m /\ j # m /\ j + 1 \in 1..i
      BY <1>4, <3>2
    <3>4. next[x] = Path[j + 1]
      BY <1>3, <1>4, <3>1, <3>3
    <3>5. next'[x] = next[x]
      BY <1>5, <1>6, <2>2 DEF TypeOK
    <3> QED
      BY <3>3, <3>4, <3>5
  <2> QED
    BY <2>1, <2>2
<1> HIDE DEF R
<1>8. \A q : ~IsList(head', next', q)
  BY <1>5, <1>6, <1>7, Trapped
<1>9. Cyclic'
  BY <1>8, SequenceFacts, VisitsIsNext DEF Cyclic
<1>10. fault' = "cycle" /\ entry' = entry
  BY <1>9 DEF AddAgain, addToCache
<1>11. n \in Api!Linked
  BY <1>1, <1>2 DEF Api!Linked
<1>12. Api!addToCache(n)
  BY <1>10, <1>11 DEF Api!addToCache
<1> QED
  BY <1>10, <1>11, <1>12 DEF HeapInv, Api!AddAgain

(* The entry that a search finds.                                          *)
LEMMA FoundFirst ==
  ASSUME HeapInv, fault = "none", NEW n, NEW v, FirstSame(n, v)
  PROVE  \E i \in 1..Len(Path) :
           n = Path[i] /\ i \in Api!SameAs(entry, v) /\ Api!IsFirst(i, Api!SameAs(entry, v))
<1>1. Path \in Seq(Node) /\ Len(Path) \in Nat /\ DOMAIN Path = 1..Len(Path)
  BY PathFacts
<1>2. PICK i \in 1..Len(Path) :
        /\ n = Path[i] /\ Api!isSameCache(entry[n], v)
        /\ \A j \in 1..(i - 1) : ~Api!isSameCache(entry[Path[j]], v)
  BY <1>1 DEF FirstSame
<1>3. Api!SameAs(entry, v) = {j \in 1..Len(Path) : Api!isSameCache(entry[Path[j]], v)}
  BY <1>1 DEF Api!SameAs
<1>4. i \in Api!SameAs(entry, v)
  BY <1>2, <1>3
<1>5. ASSUME NEW j \in Api!SameAs(entry, v) PROVE i <= j
  <2>1. j \in 1..Len(Path) /\ j \notin 1..(i - 1)
    BY <1>2, <1>3
  <2> QED
    BY <1>1, <2>1
<1> QED
  BY <1>2, <1>4, <1>5 DEF Api!IsFirst

LEMMA FoundNone ==
  ASSUME HeapInv, fault = "none", NEW v, ~ \E n \in Reachable : FirstSame(n, v)
  PROVE  Api!SameAs(entry, v) = {}
<1>1. Path \in Seq(Node) /\ Len(Path) \in Nat /\ DOMAIN Path = 1..Len(Path)
  BY PathFacts
<1> DEFINE S == {j \in 1..Len(Path) : Api!isSameCache(entry[Path[j]], v)}
<1>2. Api!SameAs(entry, v) = S
  BY <1>1 DEF Api!SameAs
<1> SUFFICES ASSUME S # {} PROVE FALSE
  BY <1>2
<1>3. S \in SUBSET Nat
  BY <1>1
<1>4. PICK i \in S : \A j \in S : i <= j
  <2> HIDE DEF S
  <2> QED
    BY <1>3, LeastExists
<1>5. ASSUME NEW j \in 1..(i - 1) PROVE ~Api!isSameCache(entry[Path[j]], v)
  <2>1. j \in 1..Len(Path) /\ ~(i <= j)
    BY <1>1
  <2> QED
    BY <1>4, <2>1
<1>6. Path[i] \in Reachable /\ FirstSame(Path[i], v)
  BY <1>1, <1>5 DEF Reachable, FirstSame
<1> QED
  BY <1>6

LEMMA UpdateStep ==
  ASSUME TypeOK, HeapInv, fault = "none", NEW v \in Contents, updateCache(v)
  PROVE  HeapInv' /\ Api!updateCache(v)
<1>1. PICK n \in Reachable :
        /\ FirstSame(n, v)
        /\ entry' = [entry EXCEPT ![n].ip = v.ip,
                                  ![n].hw.ifindex = v.hw.ifindex,
                                  ![n].hw.hatype = v.hw.hatype,
                                  ![n].hw.addr = IF v.hw.halen = 0 THEN @ ELSE v.hw.addr]
        /\ UNCHANGED <<head, next, prev, live, fault>>
  BY DEF updateCache
<1>2. PICK i \in 1..Len(Path) :
        n = Path[i] /\ i \in Api!SameAs(entry, v) /\ Api!IsFirst(i, Api!SameAs(entry, v))
  BY <1>1, FoundFirst
<1>3. Path' = Path
  BY <1>1, SamePath
<1>4. HeapInv'
  <2>1. Shape(head', next', prev', live', Path)
    BY <1>1, PathFacts
  <2> QED
    BY <2>1, ShapeInvNext
<1> QED
  BY <1>1, <1>2, <1>3, <1>4 DEF Api!updateCache, StaleHead

(* What a removal leaves: memory is corrupted exactly when the head has a  *)
(* stale prev, and otherwise the list has lost the entry.                  *)
LEMMA RemoveStep ==
  ASSUME TypeOK, HeapInv, fault = "none", NEW v, NEW n, NEW i \in 1..Len(Path), n = Path[i],
         Splice(n), live' = live \ {n},
         entry' = IF fault' = "none" THEN [entry EXCEPT ![n] = Api!Blank] ELSE entry
  PROVE  HeapInv' /\ Api!Unlink(entry, i)
<1>1. /\ Shape(head, next, prev, live, Path) /\ Reachable = live
      /\ Path \in Seq(Node) /\ Len(Path) \in Nat /\ DOMAIN Path = 1..Len(Path)
  BY PathFacts
<1> DEFINE q == SubSeq(Path, 1, i - 1) \o SubSeq(Path, i + 1, Len(Path))
<1>2. Without(q, Path, i)
  BY <1>1, WithoutFacts
<1>3. Api!RemoveAt(Path, i) = q
  BY DEF Api!RemoveAt
<1> HIDE DEF q
<1>4. IsList(head, next, Path) /\ Len(Path) > 0 /\ \A j \in 1..Len(Path) : Path[j] \in Node
  BY <1>1 DEF Shape
<1>5. head = Path[1] /\ Path[1] \in Node /\ head # NULL
  <2>1. Len(Path) > 0 => head = Path[1]
    BY ONLY <1>4, ListFacts
  <2>2. 1 \in 1..Len(Path)
    BY <1>1, <1>4
  <2> QED
    BY <1>4, <2>1, <2>2, HeapAssumption
<1>6. CASE i = 1
  <2>1. n = head
    BY <1>5, <1>6
  <2>2. CASE prev[n] = NULL
    <3>1. head' = next[head] /\ next' = next /\ prev' = prev /\ fault' = "none"
      BY <2>1, <2>2 DEF Splice
    <3>2. /\ Shape(next[head], next, prev, live \ {head}, q)
          /\ next[head] # NULL /\ prev[next[head]] # NULL <=> Len(Path) > 1
      BY ONLY <1>1, <1>2, <1>4, <1>6, CutHead, Zenon
    <3>3. Shape(head', next', prev', live', q)
      BY <2>1, <3>1, <3>2
    <3>4. HeapInv' /\ Path' = q
      BY <3>3, ShapeInvNext
    <3>5. ~StaleHead /\ (StaleHead' <=> Len(Path) > 1)
      BY <2>1, <2>2, <3>1, <3>2 DEF StaleHead
    <3> QED
      BY <1>3, <1>6, <3>1, <3>4, <3>5 DEF Api!Unlink
  <2>3. CASE prev[n] # NULL
    <3>1. StaleHead /\ prev[n] \notin live
      BY <1>1, <1>5, <2>1, <2>3 DEF StaleHead, Shape, Stale
    <3>2. fault' = "uaf" /\ entry' = entry
      BY <2>3, <3>1 DEF Splice
    <3> QED
      BY <1>6, <3>1, <3>2 DEF HeapInv, Api!Unlink
  <2> QED
    BY <2>2, <2>3
<1>7. CASE i # 1
  <2>1. i \in 2..Len(Path) /\ i - 1 \in 1..Len(Path)
    BY <1>1, <1>7
  <2>2. prev[n] = Path[i - 1] /\ Path[i - 1] \in live /\ Path[i - 1] # NULL
    BY <1>1, <1>4, <2>1, HeapAssumption DEF Shape, Back, Holds
  <2>3. /\ head' = head /\ fault' = "none"
        /\ Spliced(next, prev, Path[i], Path[i - 1], next', prev')
    BY <2>2 DEF Splice, Spliced
  <2>4. Pointers(next) /\ Pointers(prev)
    BY DEF TypeOK, Pointers
  <2>5. /\ Shape(head, next', prev', live \ {Path[i]}, q)
        /\ SameAt(head, prev, prev')
    BY ONLY <1>1, <1>2, <2>1, <2>3, <2>4, CutBehind, Zenon
  <2>6. Shape(head', next', prev', live', q)
    BY <2>3, <2>5
  <2>7. HeapInv' /\ Path' = q
    BY <2>6, ShapeInvNext
  <2>8. StaleHead' <=> StaleHead
    BY <2>3, <2>5 DEF StaleHead, SameAt
  <2> QED
    BY <1>3, <1>7, <2>3, <2>7, <2>8 DEF Api!Unlink
<1> QED
  BY <1>6, <1>7

LEMMA Stutters ==
  ASSUME HeapInv, UNCHANGED vars
  PROVE  HeapInv' /\ UNCHANGED Api!listVars
<1>1. ASSUME fault = "none" PROVE HeapInv' /\ Path' = Path
  <2>1. Shape(head', next', prev', live', Path)
    BY <1>1, PathFacts DEF vars
  <2> QED
    BY <2>1, ShapeInvNext
<1> QED
  BY <1>1 DEF HeapInv, vars, Api!listVars, StaleHead

LEMMA DeleteStep ==
  ASSUME TypeOK, HeapInv, fault = "none", NEW v \in Contents, removeFromCache(v)
  PROVE  HeapInv' /\ Api!Delete(v)
<1>1. CASE ~(\E n \in Reachable : FirstSame(n, v)) /\ UNCHANGED vars
  <2>1. Api!SameAs(entry, v) = {}
    BY <1>1, FoundNone
  <2>2. HeapInv' /\ UNCHANGED Api!listVars
    BY <1>1, Stutters
  <2> QED
    BY <1>1, <2>1, <2>2 DEF vars, Api!listVars, Api!Delete, Api!removeFromCache
<1>2. ASSUME NEW n \in Reachable, FirstSame(n, v), Splice(n), live' = live \ {n},
             entry' = IF fault' = "none" THEN [entry EXCEPT ![n] = Api!Blank] ELSE entry
      PROVE  HeapInv' /\ Api!Delete(v)
  <2>1. PICK i \in 1..Len(Path) :
          n = Path[i] /\ i \in Api!SameAs(entry, v) /\ Api!IsFirst(i, Api!SameAs(entry, v))
    BY <1>2, FoundFirst
  <2>2. HeapInv' /\ Api!Unlink(entry, i)
    BY <1>2, <2>1, RemoveStep
  <2> QED
    BY <2>1, <2>2 DEF Api!Delete, Api!removeFromCache
<1> QED
  BY <1>1, <1>2 DEF removeFromCache

(* Every step keeps the invariant and is a step of the sequence view.      *)
LEMMA StepKeeps ==
  ASSUME TypeOK, HeapInv, [Next]_vars
  PROVE  HeapInv' /\ [Api!Next]_(Api!listVars)
<1>1. CASE UNCHANGED vars
  BY <1>1, Stutters
<1>2. CASE Next
  <2>1. fault = "none"
    BY <1>2 DEF Next
  <2>2. ASSUME NEW n \in Node, NEW v \in Contents, Add(n, v) PROVE HeapInv' /\ Api!Next
    BY <2>1, <2>2, AddStep DEF Api!Next
  <2>3. ASSUME NEW n \in Node, AddAgain(n) PROVE HeapInv' /\ Api!Next
    BY <2>1, <2>3, AddAgainStep DEF Api!Next
  <2>4. ASSUME NEW v \in Contents, removeFromCache(v) PROVE HeapInv' /\ Api!Next
    BY <2>1, <2>4, DeleteStep DEF Api!Next
  <2>5. ASSUME NEW v \in Contents, updateCache(v) PROVE HeapInv' /\ Api!Next
    BY <2>1, <2>5, UpdateStep DEF Api!Next
  <2> QED
    BY <1>2, <2>2, <2>3, <2>4, <2>5 DEF Next
<1> QED
  BY <1>1, <1>2

(* updateCache leaves an entry with the key that it had.                   *)
LEMMA UpdateSame ==
  ASSUME NEW e \in Api!Entry, NEW v \in Api!Entry, Api!isSameCache(e, v), NEW f,
         f = [e EXCEPT !.ip = v.ip, !.hw.ifindex = v.hw.ifindex, !.hw.hatype = v.hw.hatype,
                       !.hw.addr = IF v.hw.halen = 0 THEN @ ELSE v.hw.addr]
  PROVE  Api!isSameCache(e, f)
<1>1. e.hw.ifindex = v.hw.ifindex /\ e.ip = v.ip /\ (v.hw.halen = 0 \/ e.hw.addr = v.hw.addr)
  BY DEF Api!isSameCache
<1>2. /\ f.ip = v.ip /\ f.hw.ifindex = v.hw.ifindex
      /\ f.hw.addr = IF v.hw.halen = 0 THEN e.hw.addr ELSE v.hw.addr
  BY DEF Api!Entry, Api!Hwaddr
<1> QED
  BY <1>1, <1>2 DEF Api!isSameCache

LEMMA SameAsItself == \A e : Api!isSameCache(e, e)
  BY DEF Api!isSameCache

LEMMA KeyStep ==
  ASSUME TypeOK, HeapInv, Next, live' = live, fault' = "none", NEW n \in live
  PROVE  Api!isSameCache(entry[n], entry'[n])
<1>1. fault = "none" /\ Reachable = live
  BY PathFacts DEF Next
<1>2. CASE entry' = entry
  BY <1>2, SameAsItself
<1>3. ASSUME NEW m \in Node, NEW v \in Contents, Add(m, v) PROVE FALSE
  BY <1>3 DEF Add
<1>4. ASSUME NEW m \in Node, AddAgain(m) PROVE entry' = entry
  BY <1>4 DEF AddAgain
<1>5. ASSUME NEW v \in Contents, removeFromCache(v) PROVE entry' = entry
  BY <1>1, <1>5 DEF removeFromCache, vars
<1>6. ASSUME NEW v \in Contents, updateCache(v) PROVE Api!isSameCache(entry[n], entry'[n])
  <2>1. PICK m \in Reachable :
          /\ FirstSame(m, v)
          /\ entry' = [entry EXCEPT ![m].ip = v.ip,
                                    ![m].hw.ifindex = v.hw.ifindex,
                                    ![m].hw.hatype = v.hw.hatype,
                                    ![m].hw.addr = IF v.hw.halen = 0 THEN @ ELSE v.hw.addr]
    BY <1>6 DEF updateCache
  <2>2. m \in Node /\ n \in Node /\ entry[m] \in Api!Entry /\ v \in Api!Entry
    BY ReachNode, HeapAssumption DEF TypeOK
  <2> DEFINE e == [entry[m] EXCEPT !.ip = v.ip, !.hw.ifindex = v.hw.ifindex,
                     !.hw.hatype = v.hw.hatype,
                     !.hw.addr = IF v.hw.halen = 0 THEN @ ELSE v.hw.addr]
  <2>3. entry' = [entry EXCEPT ![m] = e]
    BY <2>1, <2>2 DEF TypeOK
  <2>4. Api!isSameCache(entry[m], v)
    BY <2>1 DEF FirstSame
  <2>5. Api!isSameCache(entry[m], e)
    BY <2>2, <2>4, UpdateSame
  <2> HIDE DEF e
  <2>6. CASE n = m
    BY <2>2, <2>3, <2>5, <2>6 DEF TypeOK
  <2>7. CASE n # m
    <3>1. entry'[n] = entry[n]
      BY <2>2, <2>3, <2>7 DEF TypeOK
    <3> QED
      BY <3>1, SameAsItself
  <2> QED
    BY <2>6, <2>7
<1> QED
  BY <1>2, <1>3, <1>4, <1>5, <1>6 DEF Next

LEMMA InitShape ==
  ASSUME Init
  PROVE  TypeOK /\ HeapInv /\ Path = << >>
<1>1. TypeOK
  BY BlankType DEF Init, TypeOK
<1>2. Shape(head, next, prev, live, << >>)
  <2>1. << >> \in Seq(Node) /\ Len(<< >>) = 0 /\ head = NULL /\ live = {}
    BY DEF Init
  <2>2. IsList(head, next, << >>)
    BY <2>1 DEF IsList, Reads
  <2> QED
    BY <2>1, <2>2 DEF Shape, Once, Holds, Back, Stale
<1> QED
  BY <1>1, <1>2, ShapeInv

-----------------------------------------------------------------------------
(* The heap keeps its types and its invariant, for any number of entries   *)
(* and any contents.                                                       *)
THEOREM HeapInvariant == Spec => [](TypeOK /\ HeapInv)
<1>1. Init => TypeOK /\ HeapInv
  BY InitShape
<1>2. TypeOK /\ HeapInv /\ [Next]_vars => (TypeOK /\ HeapInv)'
  BY TypeStep, StepKeeps
<1> QED
  BY <1>1, <1>2, PTL DEF Spec

(* The types of the pointers and of the entries: whatever is added, copied *)
(* by updateCache and freed, no pointer leaves the memory.                 *)
THEOREM HeapTypeCorrect == Spec => []TypeOK
  BY HeapInvariant, PTL

(* The prev pointers of cache.c mirror its next pointers behind the head.  *)
THEOREM BackLinksHold == Spec => []BackLinks
<1>1. HeapInv => BackLinks
  BY DEF HeapInv, BackLinks
<1> QED
  BY <1>1, HeapInvariant, PTL

(* The list of cache.c holds exactly the allocated entries until memory is *)
(* corrupted.                                                              *)
THEOREM NothingIsLost == Spec => []NoEntryLost
<1>1. HeapInv => NoEntryLost
  BY DEF HeapInv, NoEntryLost
<1> QED
  BY <1>1, HeapInvariant, PTL

(* updateCache never moves an entry to another key.                        *)
THEOREM KeysAreKept == Spec => UpdateKeepsKey
<1> DEFINE A == (live' = live /\ fault' = "none") =>
                  \A n \in live : Api!isSameCache(entry[n], entry'[n])
<1>1. TypeOK /\ HeapInv /\ [Next]_vars => [A]_vars
  BY KeyStep
<1> QED
  BY <1>1, HeapInvariant, PTL DEF Spec, UpdateKeepsKey

(* The pointers of cache.c implement the sequence view of CacheApi: every  *)
(* operation, the two that corrupt memory included, is the operation of    *)
(* the same name on the sequence of the entries.                           *)
THEOREM PointersImplementApi == Spec => ImplementsApi
<1>1. Init => Api!Init
  <2> SUFFICES ASSUME Init PROVE Api!Init
    OBVIOUS
  <2>1. Path = << >>
    BY InitShape
  <2> QED
    BY <2>1 DEF Init, Api!Init, StaleHead
<1>2. TypeOK /\ HeapInv /\ [Next]_vars => [Api!Next]_(Api!listVars)
  BY StepKeeps
<1> QED
  BY <1>1, <1>2, HeapInvariant, PTL DEF Spec, ImplementsApi, Api!Spec
=============================================================================
