----------------------------- MODULE PingProofs -----------------------------
(***************************************************************************)
(* Why in_cksum is right, for every width of word and every message that   *)
(* fits its accumulator: adding back the carries late and twice, in words  *)
(* of the other byte order, gives the checksum by its definition, and a    *)
(* change of one byte changes it.                                          *)
(***************************************************************************)
EXTENDS Ping, WellFoundedInduction, TLAPS

LEMMA WordNat == Word \in Nat /\ Word > 8
<1>1. Base \in Nat /\ Base >= 3
  BY PingAssumption
<1>2. Base * Base >= 3 * Base
  BY <1>1
<1> QED
  BY <1>1, <1>2 DEF Word

(* A number is its quotient times the divisor and the remainder.           *)
LEMMA DivMod ==
  ASSUME NEW n \in Nat, NEW w \in Nat, w > 0
  PROVE  \E q \in Nat, r \in 0..(w - 1) : q = n \div w /\ r = n % w /\ n = q * w + r
<1>1. n \div w \in Nat /\ n % w \in 0..(w - 1)
  OBVIOUS
<1>2. ASSUME NEW q \in Nat, NEW r \in Nat, q = n \div w, r = n % w
      PROVE  n = q * w + r
  BY <1>2
<1> QED
  BY <1>1, <1>2

(* The quotient and the remainder are the only ones.                       *)
LEMMA DivIs ==
  ASSUME NEW q \in Nat, NEW w \in Nat, w > 0, NEW r \in 0..(w - 1)
  PROVE  (q * w + r) \div w = q /\ (q * w + r) % w = r
  OBVIOUS

(* Only zero is a multiple of m that is nearer to zero than m.             *)
LEMMA SmallMultiple ==
  ASSUME NEW j \in Int, NEW m \in Nat, m > 0, -m < j * m, j * m < m
  PROVE  j = 0
<1>1. CASE j >= 1
  <2>1. j * m >= m
    BY <1>1
  <2> QED
    BY <2>1
<1>2. CASE j <= -1
  <2>1. j * m <= -m
    BY <1>2
  <2> QED
    BY <2>1
<1> QED
  BY <1>1, <1>2

-----------------------------------------------------------------------------
(* Adding back the carries leaves a word that differs from the sum by a    *)
(* multiple of Word - 1, and that is zero for zero only.                   *)
LEMMA CarryFacts ==
  ASSUME NEW sum \in Nat, sum < Word * Word
  PROVE  /\ Carry(sum) \in 0..(Word - 1)
         /\ Carry(sum) = 0 => sum = 0
         /\ \E k \in Nat : sum = k * (Word - 1) + Carry(sum)
<1> DEFINE w == Word
<1>0. w \in Nat /\ w > 8
  BY WordNat
<1> HIDE DEF w
<1>1. PICK h \in Nat, l \in 0..(w - 1) : h = sum \div w /\ l = sum % w /\ sum = h * w + l
  BY <1>0, DivMod
<1>2. h < w
  <2> SUFFICES ASSUME h >= w PROVE FALSE
    BY <1>0
  <2>1. h * w >= w * w
    BY <1>0
  <2> QED
    BY <1>0, <1>1, <2>1 DEF w
<1>3. PICK c \in Nat, r \in 0..(w - 1) :
        c = (h + l) \div w /\ r = (h + l) % w /\ h + l = c * w + r
  BY <1>0, DivMod
<1>4. c = 0 \/ c = 1
  <2> SUFFICES ASSUME c >= 2 PROVE FALSE
    OBVIOUS
  <2>1. c * w >= 2 * w
    BY <1>0
  <2> QED
    BY <1>0, <1>2, <1>3, <2>1
<1>5. h + l + c = c * w + (r + c) /\ r + c \in 0..(w - 1)
  BY <1>0, <1>2, <1>3, <1>4
<1>6. Carry(sum) = (h + l + c) % w
  BY <1>1, <1>3 DEF Carry, w
<1>7. Carry(sum) = r + c
  <2>1. ASSUME NEW x \in 0..(w - 1) PROVE (c * w + x) % w = x
    BY <1>0, DivIs
  <2> QED
    BY <1>5, <1>6, <2>1
<1>8. sum = (h + c) * (w - 1) + (r + c)
  <2>1. c * w = IF c = 1 THEN w ELSE 0
    BY <1>0, <1>4
  <2>2. (h + c) * (w - 1) = h * w - h + c * w - c
    BY <1>0
  <2> QED
    BY <1>0, <1>1, <1>3, <2>2
<1>9. r + c = 0 => sum = 0
  <2> SUFFICES ASSUME r = 0, c = 0 PROVE sum = 0
    BY <1>5
  <2>1. h = 0 /\ l = 0
    BY <1>0, <1>3
  <2> QED
    BY <1>0, <1>1, <2>1
<1>10. h + c \in Nat /\ sum = (h + c) * (w - 1) + Carry(sum)
  BY <1>7, <1>8
<1> QED
  BY <1>5, <1>7, <1>9, <1>10 DEF w

(* A word is the only one that differs from a sum by a multiple of         *)
(* Word - 1 and is zero for zero only.                                     *)
LEMMA OneWord ==
  ASSUME NEW v \in 0..(Word - 1), NEW w \in 0..(Word - 1), NEW j \in Int,
         v - w = j * (Word - 1), v = 0 <=> w = 0
  PROVE  v = w
<1>1. Word - 1 \in Nat /\ Word - 1 > 0
  BY WordNat
<1>2. -(Word - 1) < v - w /\ v - w < Word - 1
  BY <1>1
<1>3. j = 0
  BY <1>1, <1>2, SmallMultiple
<1> QED
  BY <1>1, <1>3

-----------------------------------------------------------------------------
(* in_cksum adds up the words and adds back the carries at the end.  That  *)
(* is the sum with each carry added back at once, the definition of the    *)
(* checksum, as long as the accumulator does not overflow: it begins with  *)
(* zero for both, and one more word keeps the two the same.                *)
THEOREM LateCarries ==
  /\ Carry(0) = 0
  /\ \A sum \in Nat, w \in 0..(Word - 1) :
       sum + w < Word * Word => Carry(sum + w) = OnesAdd(Carry(sum), w)
<1>0. Word \in Nat /\ Word > 8
  BY WordNat
<1>1. Carry(0) = 0
  <2>1. 0 \div Word = 0 /\ 0 % Word = 0
    BY <1>0
  <2> QED
    BY <2>1 DEF Carry
<1>2. ASSUME NEW sum \in Nat, NEW w \in 0..(Word - 1), sum + w < Word * Word
      PROVE  Carry(sum + w) = OnesAdd(Carry(sum), w)
  <2> DEFINE c == Carry(sum)
             d == Carry(sum + w)
             o == OnesAdd(c, w)
             M == Word - 1
  <2>0. M \in Nat /\ M > 7 /\ Word = M + 1
    BY <1>0
  <2>1. c \in 0..M /\ (c = 0 => sum = 0) /\ \E k \in Nat : sum = k * M + c
    <3>1. sum < Word * Word
      BY <1>0, <1>2
    <3> QED
      BY <3>1, CarryFacts
  <2>2. d \in 0..M /\ (d = 0 => sum + w = 0) /\ \E k \in Nat : sum + w = k * M + d
    <3>1. sum + w \in Nat
      BY <1>0
    <3> QED
      BY <1>2, <3>1, CarryFacts
  <2>3. PICK k \in Nat : sum = k * M + c
    BY <2>1
  <2>4. PICK n \in Nat : sum + w = n * M + d
    BY <2>2
  <2>5. o = IF c + w < Word THEN c + w ELSE c + w - M
    BY DEF OnesAdd
  <2> HIDE DEF c, d, o, M
  <2>6. PICK e \in {0, 1} : o = c + w - e * M /\ o \in 0..M
    <3>1. CASE c + w < Word
      BY <2>0, <2>1, <2>5, <3>1
    <3>2. CASE ~(c + w < Word)
      BY <2>0, <2>1, <2>5, <3>2
    <3> QED
      BY <3>1, <3>2
  <2>7. d - o = (k - n + e) * M
    <3>1. (k - n + e) * M = k * M - n * M + e * M
      BY <2>0
    <3>2. k * M \in Int /\ n * M \in Int /\ e * M \in Int /\ c \in Int /\ d \in Int /\ w \in Int
      BY <1>0, <2>0, <2>1, <2>2
    <3> QED
      BY <2>3, <2>4, <2>6, <3>1, <3>2
  <2>8. d = 0 => o = 0
    <3>1. SUFFICES ASSUME d = 0 PROVE o = 0
      OBVIOUS
    <3>2. sum = 0 /\ w = 0
      BY <1>0, <2>2, <3>1
    <3>3. c = 0
      BY <1>1, <3>2 DEF c
    <3> QED
      BY <1>0, <2>5, <3>2, <3>3
  <2>9. o = 0 => d = 0
    <3>1. SUFFICES ASSUME o = 0 PROVE d = 0
      OBVIOUS
    <3>2. c = 0 /\ w = 0
      BY <1>0, <2>0, <2>1, <2>5, <3>1
    <3> QED
      BY <3>2 DEF c, d
  <2>10. d = o
    <3>1. d \in 0..(Word - 1) /\ o \in 0..(Word - 1) /\ k - n + e \in Int
      BY <2>0, <2>2, <2>6
    <3> QED
      BY <2>7, <2>8, <2>9, <3>1, OneWord DEF M
  <2> QED
    BY <2>10 DEF c, d, o
<1> QED
  BY <1>1, <1>2

(* run_ping_recv takes a message when in_cksum of it is 0.  Of two sums    *)
(* that differ by less than Word - 1, as those of messages do of which one *)
(* byte differs, it never takes both.                                      *)
THEOREM ChangedByteShows ==
  \A sum \in Nat, other \in Nat :
    /\ sum < Word * Word /\ other < Word * Word
    /\ sum # other /\ other - sum < Word - 1 /\ sum - other < Word - 1
    => ~(Word - 1 - Carry(sum) = 0 /\ Word - 1 - Carry(other) = 0)
<1> SUFFICES ASSUME NEW sum \in Nat, NEW other \in Nat,
                    sum < Word * Word, other < Word * Word,
                    other - sum < Word - 1, sum - other < Word - 1,
                    Word - 1 - Carry(sum) = 0, Word - 1 - Carry(other) = 0
             PROVE  sum = other
  OBVIOUS
<1> DEFINE M == Word - 1
<1>0. M \in Nat /\ M > 7
  BY WordNat
<1>1. Carry(sum) \in 0..M /\ \E k \in Nat : sum = k * M + Carry(sum)
  BY CarryFacts
<1>2. Carry(other) \in 0..M /\ \E k \in Nat : other = k * M + Carry(other)
  BY CarryFacts
<1>3. PICK k \in Nat : sum = k * M + Carry(sum)
  BY <1>1
<1>4. PICK n \in Nat : other = n * M + Carry(other)
  BY <1>2
<1>5. Carry(sum) = Carry(other)
  BY <1>0, <1>1, <1>2
<1>6. other - sum < M /\ sum - other < M
  OBVIOUS
<1> HIDE DEF M
<1>7. (n - k) * M = n * M - k * M
  BY <1>0
<1>8. other - sum = (n - k) * M
  <2>1. n * M \in Int /\ k * M \in Int /\ Carry(sum) \in Int
    BY <1>0, <1>1
  <2> QED
    BY <1>3, <1>4, <1>5, <1>7, <2>1
<1>9. n - k = 0
  <2>1. n - k \in Int /\ -M < (n - k) * M /\ (n - k) * M < M
    BY <1>0, <1>6, <1>8
  <2> QED
    BY <1>0, <2>1, SmallMultiple
<1> QED
  BY <1>0, <1>8, <1>9

-----------------------------------------------------------------------------
(* Every set of numbers that is not empty has a least one.                 *)
LEMMA LeastExists ==
  ASSUME NEW S \in SUBSET Nat, S # {}
  PROVE  \E k \in S : \A y \in S : k <= y
<1> DEFINE Less == OpToRel(<, Nat)
<1>1. IsWellFoundedOn(Less, Nat)
  BY NatLessThanWellFounded, Zenon
<1>2. \A x, y \in Nat : <<y, x>> \notin Less => ~(y < x)
  BY Zenon DEF OpToRel
<1> HIDE DEF Less
<1>3. PICK k \in S : \A y \in S : <<y, k>> \notin Less
  BY <1>1, WFMin
<1>4. ASSUME NEW y \in S PROVE k <= y
  <2>1. k \in Nat /\ y \in Nat
    OBVIOUS
  <2>2. ~(y < k)
    BY <1>2, <1>3, <2>1, Zenon
  <2> QED
    BY <2>1, <2>2
<1> QED
  BY <1>3, <1>4

(* Induction, for the set T of the numbers that have a property: the least *)
(* one that has not would be neither 0 nor the next of one that has.       *)
LEMMA Induct ==
  ASSUME NEW n \in Nat, NEW T, 0 \in T, \A k \in 1..n : k - 1 \in T => k \in T
  PROVE  \A k \in 0..n : k \in T
<1> DEFINE S == {k \in 0..n : k \notin T}
<1> SUFFICES ASSUME S # {} PROVE FALSE
  OBVIOUS
<1>1. PICK k \in S : \A y \in S : k <= y
  <2>1. S \in SUBSET Nat
    OBVIOUS
  <2> HIDE DEF S
  <2> QED
    BY <2>1, LeastExists
<1>2. k \in 1..n /\ k \notin T
  OBVIOUS
<1>3. k - 1 \in T
  BY <1>1, <1>2
<1> QED
  BY <1>2, <1>3

\* h begins with a and goes on by the steps of g.
Steps(n, S) == [1..n -> [S -> S]]
Follows(h, n, S, a, g) ==
  h \in [0..n -> S] /\ h[0] = a /\ \A j \in 1..n : h[j] = g[j][h[j - 1]]

(* A function on 0..n is defined by its value at 0 and by its steps.       *)
LEMMA RecExists ==
  ASSUME NEW n \in Nat, NEW S, NEW a \in S, NEW g \in Steps(n, S)
  PROVE  \E h : Follows(h, n, S, a, g)
<1> USE DEF Steps
<1> DEFINE Upto(k) ==
      \E h \in [0..k -> S] : h[0] = a /\ \A j \in 1..k : h[j] = g[j][h[j - 1]]
    T == {k \in 0..n : Upto(k)}
<1>1. 0 \in T
  <2> DEFINE h == [j \in 0..0 |-> a]
  <2>1. h \in [0..0 -> S] /\ h[0] = a /\ \A j \in 1..0 : h[j] = g[j][h[j - 1]]
    OBVIOUS
  <2>2. Upto(0)
    BY <2>1
  <2> QED
    BY <2>2
<1>2. ASSUME NEW k \in 1..n, k - 1 \in T PROVE k \in T
  <2>1. PICK f \in [0..(k - 1) -> S] :
          f[0] = a /\ \A j \in 1..(k - 1) : f[j] = g[j][f[j - 1]]
    BY <1>2
  <2> DEFINE h == [j \in 0..k |-> IF j = k THEN g[k][f[k - 1]] ELSE f[j]]
  <2>2. f[k - 1] \in S /\ g[k] \in [S -> S]
    BY <2>1
  <2>3. h \in [0..k -> S]
    BY <2>1, <2>2
  <2>4. h[0] = a
    BY <2>1
  <2>5. ASSUME NEW j \in 1..k PROVE h[j] = g[j][h[j - 1]]
    <3>1. h[j - 1] = f[j - 1]
      OBVIOUS
    <3>2. CASE j = k
      BY <3>1, <3>2
    <3>3. CASE j # k
      BY <2>1, <3>1, <3>3
    <3> QED
      BY <3>2, <3>3
  <2> HIDE DEF h
  <2>6. Upto(k)
    BY <2>3, <2>4, <2>5, Zenon
  <2>7. k \in 0..n
    OBVIOUS
  <2> QED
    BY <2>6, <2>7, Zenon
<1>3. n \in T
  <2>1. n \in 0..n
    OBVIOUS
  <2> HIDE DEF T
  <2>2. \A k \in 0..n : k \in T
    BY <1>1, <1>2, Induct, Zenon
  <2> QED
    BY <2>1, <2>2
<1> QED
  BY <1>3 DEF Follows

(* What the recursion of SumOf amounts to.                                 *)
LEMMA SumOfIs ==
  ASSUME NEW n \in Nat, NEW m, \A k \in 1..n : WordAt(m, 2 * k - 1) \in Nat
  PROVE  \E s \in [0..n -> Nat] :
           /\ s[0] = 0
           /\ \A k \in 1..n : s[k] = (s[k - 1] + WordAt(m, 2 * k - 1)) % (Word * Word)
           /\ SumOf(m, n) = s[n]
<1>0. Word * Word \in Nat /\ Word * Word > 0
  BY WordNat
<1>1. PICK h \in [0..n -> Nat] :
        /\ h[0] = 0
        /\ \A k \in 1..n : h[k] = (h[k - 1] + WordAt(m, 2 * k - 1)) % (Word * Word)
  <2>1. PICK g \in [1..n -> [Nat -> Nat]] :
          \A k \in 1..n : \A x \in Nat : g[k][x] = (x + WordAt(m, 2 * k - 1)) % (Word * Word)
    <3> DEFINE g == [k \in 1..n |-> [x \in Nat |-> (x + WordAt(m, 2 * k - 1)) % (Word * Word)]]
    <3>1. ASSUME NEW k \in 1..n, NEW x \in Nat
          PROVE  (x + WordAt(m, 2 * k - 1)) % (Word * Word) \in Nat
      BY <1>0
    <3>2. g \in [1..n -> [Nat -> Nat]]
      BY <3>1
    <3> QED
      BY <3>2
  <2>2. PICK h \in [0..n -> Nat] : h[0] = 0 /\ \A j \in 1..n : h[j] = g[j][h[j - 1]]
    <3>1. 0 \in Nat /\ g \in Steps(n, Nat)
      BY Zenon DEF Steps
    <3>2. \E f : Follows(f, n, Nat, 0, g)
      BY <3>1, RecExists
    <3> QED
      BY <3>2 DEF Follows
  <2>3. ASSUME NEW k \in 1..n
        PROVE  h[k] = (h[k - 1] + WordAt(m, 2 * k - 1)) % (Word * Word)
    <3>1. h[k - 1] \in Nat
      OBVIOUS
    <3>2. h[k] = g[k][h[k - 1]]
      BY <2>2
    <3> QED
      BY <2>1, <3>1, <3>2, Zenon
  <2> QED
    BY <2>2, <2>3
<1>2. PICK s : /\ s = [k \in 0..n |-> IF k = 0 THEN 0
                                    ELSE (s[k - 1] + WordAt(m, 2 * k - 1)) % (Word * Word)]
               /\ SumOf(m, n) = s[n]
  <2> DEFINE sum[k \in 0..n] ==
               IF k = 0 THEN 0 ELSE (sum[k - 1] + WordAt(m, 2 * k - 1)) % (Word * Word)
  <2>1. h = [k \in 0..n |-> IF k = 0 THEN 0
                           ELSE (h[k - 1] + WordAt(m, 2 * k - 1)) % (Word * Word)]
    BY <1>1
  <2>2. sum = [k \in 0..n |-> IF k = 0 THEN 0
                             ELSE (sum[k - 1] + WordAt(m, 2 * k - 1)) % (Word * Word)]
    BY <2>1, Zenon
  <2>3. SumOf(m, n) = sum[n]
    BY DEF SumOf
  <2> QED
    BY <2>2, <2>3, Zenon
<1>3. s[0] = 0 /\ \A k \in 1..n : s[k] = (s[k - 1] + WordAt(m, 2 * k - 1)) % (Word * Word)
  BY <1>2
<1>4. \A k \in 0..n : s[k] \in Nat
  <2> DEFINE T == {k \in 0..n : s[k] \in Nat}
  <2>1. 0 \in T
    BY <1>3
  <2>2. ASSUME NEW k \in 1..n, k - 1 \in T PROVE k \in T
    <3>1. s[k - 1] + WordAt(m, 2 * k - 1) \in Nat
      BY <2>2
    <3> HIDE DEF T
    <3>2. s[k] \in Nat
      BY <1>0, <1>3, <3>1
    <3> QED
      BY <3>2 DEF T
  <2> HIDE DEF T
  <2>3. \A k \in 0..n : k \in T
    BY <2>1, <2>2, Induct
  <2> QED
    BY <2>3 DEF T
<1>5. s \in [0..n -> Nat]
  <2>1. s = [k \in 0..n |-> s[k]]
    BY <1>2
  <2> QED
    BY <1>4, <2>1
<1> QED
  BY <1>2, <1>3, <1>5

\* The word at bytes i and i + 1 in the order of the network.
NetWord(m, i) == m[i] * Base + (IF i < Len(m) THEN m[i + 1] ELSE 0)

LEMMA OnesAddType ==
  ASSUME NEW v \in 0..(Word - 1), NEW w \in 0..(Word - 1)
  PROVE  /\ OnesAdd(v, w) \in 0..(Word - 1)
         /\ \E e \in {0, 1} : OnesAdd(v, w) = v + w - e * (Word - 1)
         /\ OnesAdd(v, w) = 0 <=> v = 0 /\ w = 0
<1>1. Word \in Nat /\ Word > 8
  BY WordNat
<1>2. CASE v + w < Word
  BY <1>1, <1>2 DEF OnesAdd
<1>3. CASE ~(v + w < Word)
  BY <1>1, <1>3 DEF OnesAdd
<1> QED
  BY <1>2, <1>3

(* What the recursion of OnesSum amounts to.                               *)
LEMMA OnesSumIs ==
  ASSUME NEW m, NEW n \in Nat, n = (Len(m) + 1) \div 2,
         \A k \in 1..n : NetWord(m, 2 * k - 1) \in 0..(Word - 1)
  PROVE  \E s \in [0..n -> 0..(Word - 1)] :
           /\ s[0] = 0
           /\ \A k \in 1..n : s[k] = OnesAdd(s[k - 1], NetWord(m, 2 * k - 1))
           /\ OnesSum(m) = s[n]
<1> DEFINE W == 0..(Word - 1)
<1>0. 0 \in W /\ Word \in Nat
  BY WordNat
<1>1. PICK h \in [0..n -> W] :
        /\ h[0] = 0
        /\ \A k \in 1..n : h[k] = OnesAdd(h[k - 1], NetWord(m, 2 * k - 1))
  <2>1. PICK g \in [1..n -> [W -> W]] :
          \A k \in 1..n : \A x \in W : g[k][x] = OnesAdd(x, NetWord(m, 2 * k - 1))
    <3> DEFINE g == [k \in 1..n |-> [x \in W |-> OnesAdd(x, NetWord(m, 2 * k - 1))]]
    <3>1. ASSUME NEW k \in 1..n, NEW x \in W
          PROVE  OnesAdd(x, NetWord(m, 2 * k - 1)) \in W
      BY OnesAddType
    <3> HIDE DEF W
    <3>2. g \in [1..n -> [W -> W]]
      BY <3>1
    <3> QED
      BY <3>2
  <2> HIDE DEF W
  <2>2. PICK h \in [0..n -> W] : h[0] = 0 /\ \A j \in 1..n : h[j] = g[j][h[j - 1]]
    <3>1. 0 \in W /\ g \in Steps(n, W)
      BY <1>0, Zenon DEF Steps
    <3>2. \E f : Follows(f, n, W, 0, g)
      BY <3>1, RecExists
    <3> QED
      BY <3>2 DEF Follows
  <2>3. ASSUME NEW k \in 1..n PROVE h[k] = OnesAdd(h[k - 1], NetWord(m, 2 * k - 1))
    <3>1. h[k - 1] \in W
      OBVIOUS
    <3>2. h[k] = g[k][h[k - 1]]
      BY <2>2
    <3> QED
      BY <2>1, <3>1, <3>2, Zenon
  <2> QED
    BY <2>2, <2>3
<1> HIDE DEF W
<1>2. PICK s : /\ s = [k \in 0..n |-> IF k = 0 THEN 0
                                    ELSE OnesAdd(s[k - 1], NetWord(m, 2 * k - 1))]
               /\ OnesSum(m) = s[n]
  <2> DEFINE sum[k \in 0..n] ==
               IF k = 0 THEN 0 ELSE OnesAdd(sum[k - 1], NetWord(m, 2 * k - 1))
  <2>1. h = [k \in 0..n |-> IF k = 0 THEN 0 ELSE OnesAdd(h[k - 1], NetWord(m, 2 * k - 1))]
    BY <1>1
  <2>2. sum = [k \in 0..n |-> IF k = 0 THEN 0 ELSE OnesAdd(sum[k - 1], NetWord(m, 2 * k - 1))]
    BY <2>1, Zenon
  <2>3. OnesSum(m) = sum[n]
    BY DEF OnesSum, NetWord
  <2> QED
    BY <2>2, <2>3, Zenon
<1>3. s[0] = 0 /\ \A k \in 1..n : s[k] = OnesAdd(s[k - 1], NetWord(m, 2 * k - 1))
  BY <1>2
<1>4. \A k \in 0..n : s[k] \in W
  <2> DEFINE T == {k \in 0..n : s[k] \in W}
  <2>1. 0 \in T
    BY <1>0, <1>3
  <2>2. ASSUME NEW k \in 1..n, k - 1 \in T PROVE k \in T
    <3>1. s[k - 1] \in W
      BY <2>2
    <3>2. s[k] = OnesAdd(s[k - 1], NetWord(m, 2 * k - 1))
      BY <1>3
    <3>3. NetWord(m, 2 * k - 1) \in W
      BY DEF W
    <3> HIDE DEF T
    <3>4. \A v, w \in W : OnesAdd(v, w) \in W
      BY OnesAddType DEF W
    <3>5. s[k] \in W
      BY <3>1, <3>2, <3>3, <3>4, Zenon
    <3> QED
      BY <3>5 DEF T
  <2> HIDE DEF T
  <2>3. \A k \in 0..n : k \in T
    BY <2>1, <2>2, Induct
  <2> QED
    BY <2>3 DEF T
<1>5. s \in [0..n -> W]
  <2>1. s = [k \in 0..n |-> s[k]]
    BY <1>2
  <2> QED
    BY <1>4, <2>1
<1> QED
  BY <1>2, <1>3, <1>5 DEF W

-----------------------------------------------------------------------------
(* Two bytes make a word, in either order.                                 *)
LEMMA TwoBytes ==
  ASSUME NEW lo \in Byte, NEW hi \in Byte
  PROVE  /\ lo + hi * Base \in 0..(Word - 1)
         /\ lo * Base + hi \in 0..(Word - 1)
         /\ Base * (lo + hi * Base) - (lo * Base + hi) = hi * (Word - 1)
         /\ lo + hi * Base = 0 <=> lo = 0 /\ hi = 0
         /\ lo * Base + hi = 0 <=> lo = 0 /\ hi = 0
<1>0. Base \in Nat /\ Base >= 3 /\ lo \in 0..(Base - 1) /\ hi \in 0..(Base - 1)
  BY PingAssumption DEF Byte
<1> DEFINE x == lo * Base
           y == hi * Base
           z == Base * Base
<1>1. /\ x \in Nat /\ y \in Nat /\ z \in Nat
      /\ x <= z - Base /\ y <= z - Base
  <2>1. (Base - 1) * Base = z - Base
    BY <1>0
  <2>2. \A b \in 0..(Base - 1) : b * Base \in Nat /\ b * Base <= (Base - 1) * Base
    BY <1>0
  <2> QED
    BY <1>0, <2>1, <2>2
<1>2. (x = 0 => lo = 0) /\ (y = 0 => hi = 0)
  BY <1>0
<1>3. Base * (lo + y) = x + hi * z
  BY <1>0
<1>4. hi * (z - 1) = hi * z - hi
  BY <1>0, <1>1
<1>5. hi * z \in Int
  BY <1>0
<1>6. Word = z
  BY DEF Word
<1> HIDE DEF x, y, z
<1>7. /\ lo + y \in 0..(z - 1) /\ x + hi \in 0..(z - 1)
      /\ Base * (lo + y) - (x + hi) = hi * (z - 1)
      /\ lo + y = 0 <=> lo = 0 /\ hi = 0
      /\ x + hi = 0 <=> lo = 0 /\ hi = 0
  <2>1. lo + y \in 0..(z - 1) /\ x + hi \in 0..(z - 1)
    BY <1>0, <1>1
  <2>2. Base * (lo + y) - (x + hi) = hi * (z - 1)
    BY <1>0, <1>1, <1>3, <1>4, <1>5
  <2>3. lo + y = 0 => lo = 0 /\ hi = 0
    BY <1>0, <1>1, <1>2
  <2>4. x + hi = 0 => lo = 0 /\ hi = 0
    BY <1>0, <1>1, <1>2
  <2>5. lo = 0 /\ hi = 0 => x = 0 /\ y = 0
    BY <1>0 DEF x, y
  <2> QED
    BY <1>0, <2>1, <2>2, <2>3, <2>4, <2>5
<1> QED
  BY <1>6, <1>7 DEF x, y

\* How many words a message has, an odd byte at the end being one.
WordCount(m) == (Len(m) + 1) \div 2

LEMMA WordFacts ==
  ASSUME NEW m \in Seq(Byte), NEW k \in 1..WordCount(m)
  PROVE  /\ WordAt(m, 2 * k - 1) \in 0..(Word - 1)
         /\ NetWord(m, 2 * k - 1) \in 0..(Word - 1)
         /\ \E hi \in Byte :
              Base * WordAt(m, 2 * k - 1) - NetWord(m, 2 * k - 1) = hi * (Word - 1)
         /\ WordAt(m, 2 * k - 1) = 0 <=> NetWord(m, 2 * k - 1) = 0
<1> DEFINE i == 2 * k - 1
           lo == m[i]
           hi == IF i < Len(m) THEN m[i + 1] ELSE 0
<1>1. i \in 1..Len(m)
  BY DEF WordCount
<1>2. lo \in Byte /\ hi \in Byte
  <2>1. 0 \in Byte
    BY PingAssumption DEF Byte
  <2>2. i < Len(m) => i + 1 \in 1..Len(m)
    BY <1>1
  <2> HIDE DEF i
  <2> QED
    BY <1>1, <2>1, <2>2
<1>3. WordAt(m, i) = lo + hi * Base
  <2>1. 0 * Base = 0
    BY PingAssumption
  <2> QED
    BY <2>1 DEF WordAt
<1>4. NetWord(m, i) = lo * Base + hi
  BY DEF NetWord
<1> HIDE DEF i, lo, hi
<1>5. /\ WordAt(m, i) \in 0..(Word - 1) /\ NetWord(m, i) \in 0..(Word - 1)
      /\ Base * WordAt(m, i) - NetWord(m, i) = hi * (Word - 1)
      /\ WordAt(m, i) = 0 <=> NetWord(m, i) = 0
  BY <1>2, <1>3, <1>4, TwoBytes
<1> QED
  BY <1>2, <1>5 DEF i

\* t holds the sums of the first words of m in the order of the network, with
\* no carry added back.
NetTotal(t, m) ==
  /\ t \in [0..WordCount(m) -> Nat]
  /\ t[0] = 0
  /\ \A k \in 1..WordCount(m) : t[k] = t[k - 1] + NetWord(m, 2 * k - 1)

LEMMA CountNat ==
  ASSUME NEW m \in Seq(Byte)
  PROVE  WordCount(m) \in Nat /\ (Len(m) > 0 => WordCount(m) > 0)
BY DEF WordCount

LEMMA TotalExists ==
  ASSUME NEW m \in Seq(Byte)
  PROVE  \E t : NetTotal(t, m)
<1>0. PICK n \in Nat : n = WordCount(m)
  BY CountNat
<1>1. \A k \in 1..n : NetWord(m, 2 * k - 1) \in Nat
  BY <1>0, WordFacts, WordNat
<1>2. PICK g \in [1..n -> [Nat -> Nat]] :
        \A k \in 1..n : \A x \in Nat : g[k][x] = x + NetWord(m, 2 * k - 1)
  <2> DEFINE g == [k \in 1..n |-> [x \in Nat |-> x + NetWord(m, 2 * k - 1)]]
  <2>1. ASSUME NEW k \in 1..n, NEW x \in Nat PROVE x + NetWord(m, 2 * k - 1) \in Nat
    BY <1>1
  <2>2. g \in [1..n -> [Nat -> Nat]]
    BY <2>1
  <2> QED
    BY <2>2
<1>3. PICK h \in [0..n -> Nat] : h[0] = 0 /\ \A j \in 1..n : h[j] = g[j][h[j - 1]]
  <2>1. 0 \in Nat /\ g \in Steps(n, Nat)
    BY Zenon DEF Steps
  <2>2. \E f : Follows(f, n, Nat, 0, g)
    BY <2>1, RecExists
  <2> QED
    BY <2>2 DEF Follows
<1>4. ASSUME NEW k \in 1..n PROVE h[k] = h[k - 1] + NetWord(m, 2 * k - 1)
  <2>1. h[k - 1] \in Nat
    OBVIOUS
  <2>2. h[k] = g[k][h[k - 1]]
    BY <1>3
  <2> QED
    BY <1>2, <2>1, <2>2, Zenon
<1>5. NetTotal(h, m)
  BY <1>0, <1>3, <1>4, Zenon DEF NetTotal
<1> QED
  BY <1>5

(* OnesSum is the total up to a multiple of Word - 1, and zero for zero    *)
(* only.                                                                   *)
LEMMA OnesTotal ==
  ASSUME NEW m \in Seq(Byte), NEW t, NetTotal(t, m)
  PROVE  /\ OnesSum(m) \in 0..(Word - 1)
         /\ \E j \in Int : t[WordCount(m)] - OnesSum(m) = j * (Word - 1)
         /\ OnesSum(m) = 0 <=> t[WordCount(m)] = 0
<1> DEFINE M == Word - 1
<1>0. PICK n \in Nat : n = WordCount(m)
  BY CountNat
<1>1. M \in Nat /\ M > 7
  BY WordNat
<1>2. \A k \in 1..n : NetWord(m, 2 * k - 1) \in 0..M
  BY <1>0, WordFacts
<1>3. PICK s \in [0..n -> 0..M] :
        /\ s[0] = 0
        /\ \A k \in 1..n : s[k] = OnesAdd(s[k - 1], NetWord(m, 2 * k - 1))
        /\ OnesSum(m) = s[n]
  BY <1>0, <1>2, OnesSumIs DEF WordCount
<1>4. /\ t \in [0..n -> Nat] /\ t[0] = 0
      /\ \A k \in 1..n : t[k] = t[k - 1] + NetWord(m, 2 * k - 1)
  BY <1>0 DEF NetTotal
<1> HIDE DEF M
<1> DEFINE Same(k) == (\E j \in Int : t[k] - s[k] = j * M) /\ (s[k] = 0 <=> t[k] = 0)
           T == {k \in 0..n : Same(k)}
<1>5. 0 \in T
  <2>1. t[0] - s[0] = 0 * M
    BY <1>1, <1>3, <1>4
  <2> QED
    BY <1>3, <1>4, <2>1
<1>6. ASSUME NEW k \in 1..n, k - 1 \in T PROVE k \in T
  <2>1. PICK w \in 0..M : w = NetWord(m, 2 * k - 1)
    BY <1>2
  <2>2. PICK j \in Int : t[k - 1] - s[k - 1] = j * M
    BY <1>6
  <2>3. s[k - 1] = 0 <=> t[k - 1] = 0
    BY <1>6
  <2>4. s[k - 1] \in 0..M /\ s[k] \in 0..M /\ t[k - 1] \in Nat /\ t[k] \in Nat
    BY <1>4
  <2>5. s[k] = OnesAdd(s[k - 1], w) /\ t[k] = t[k - 1] + w
    BY <1>3, <1>4, <2>1
  <2> HIDE DEF T
  <2>12. \A v, x \in 0..M :
          /\ \E e \in {0, 1} : OnesAdd(v, x) = v + x - e * M
          /\ OnesAdd(v, x) = 0 <=> v = 0 /\ x = 0
    BY OnesAddType DEF M
  <2>6. PICK e \in {0, 1} : s[k] = s[k - 1] + w - e * M
    BY <2>4, <2>5, <2>12
  <2>7. s[k] = 0 <=> s[k - 1] = 0 /\ w = 0
    BY <2>4, <2>5, <2>12
  <2>8. t[k] - s[k] = (j + e) * M
    <3>1. PICK x \in Int, y \in Int : x = j * M /\ y = e * M /\ (j + e) * M = x + y
      BY <1>1
    <3>2. PICK p \in Nat, q \in Nat : p = t[k - 1] /\ q = s[k - 1]
      BY <1>1, <2>4
    <3>3. t[k] = p + w /\ s[k] = q + w - y /\ p - q = x
      BY <2>2, <2>5, <2>6, <3>1, <3>2
    <3>4. (p + w) - (q + w - y) = x + y
      BY <1>1, <3>3
    <3> QED
      BY <3>1, <3>3, <3>4
  <2>9. s[k] = 0 <=> t[k] = 0
    BY <1>1, <2>3, <2>4, <2>5, <2>7
  <2>10. j + e \in Int
    OBVIOUS
  <2>11. k \in 0..n
    OBVIOUS
  <2> QED
    BY <2>8, <2>9, <2>10, <2>11 DEF T
<1>7. n \in T
  <2> HIDE DEF T
  <2>1. \A k \in 0..n : k \in T
    BY <1>5, <1>6, Induct
  <2> QED
    BY <2>1
<1>8. s[n] \in 0..M
  OBVIOUS
<1> QED
  BY <1>0, <1>3, <1>7, <1>8 DEF M

(* in_cksum adds up words of the other order: that is Base times the total *)
(* up to a multiple of Word - 1.  With at most Word + 1 words the          *)
(* accumulator does not overflow.                                          *)
LEMMA HostTotal ==
  ASSUME NEW m \in Seq(Byte), WordCount(m) <= Word + 1, NEW t, NetTotal(t, m),
         NEW sum, sum = SumOf(m, WordCount(m))
  PROVE  /\ sum \in Nat /\ sum < Word * Word
         /\ \E j \in Int : Base * sum - t[WordCount(m)] = j * (Word - 1)
         /\ sum = 0 <=> t[WordCount(m)] = 0
<1> DEFINE M == Word - 1
<1>0. PICK n \in Nat : n = WordCount(m)
  BY CountNat
<1>1. M \in Nat /\ M > 7 /\ Word = M + 1 /\ Base \in Nat /\ n <= M + 2
  BY <1>0, WordNat, PingAssumption
<1>2. Word * Word = M * M + 2 * M + 1
  BY <1>1
<1>3. \A k \in 1..n : WordAt(m, 2 * k - 1) \in 0..M
  BY <1>0, WordFacts
<1>4. PICK s \in [0..n -> Nat] :
        /\ s[0] = 0
        /\ \A k \in 1..n : s[k] = (s[k - 1] + WordAt(m, 2 * k - 1)) % (Word * Word)
        /\ SumOf(m, n) = s[n]
  <2>1. \A k \in 1..n : WordAt(m, 2 * k - 1) \in Nat
    BY <1>1, <1>3
  <2> QED
    BY <2>1, SumOfIs
<1>5. /\ t \in [0..n -> Nat] /\ t[0] = 0
      /\ \A k \in 1..n : t[k] = t[k - 1] + NetWord(m, 2 * k - 1)
  BY <1>0 DEF NetTotal
<1>6. \A k \in 1..n :
        \E v \in 0..M, w \in 0..M, hi \in Nat :
          /\ v = WordAt(m, 2 * k - 1) /\ w = NetWord(m, 2 * k - 1)
          /\ Base * v - w = hi * M
          /\ v = 0 <=> w = 0
  <2> SUFFICES ASSUME NEW k \in 1..n
               PROVE  \E v \in 0..M, w \in 0..M, hi \in Nat :
                        /\ v = WordAt(m, 2 * k - 1) /\ w = NetWord(m, 2 * k - 1)
                        /\ Base * v - w = hi * M
                        /\ v = 0 <=> w = 0
    OBVIOUS
  <2>1. k \in 1..WordCount(m)
    BY <1>0
  <2>2. Byte \subseteq Nat
    BY <1>1 DEF Byte
  <2> QED
    BY <2>1, <2>2, WordFacts
<1> HIDE DEF M
<1> DEFINE Same(k) == /\ s[k] <= k * M
                      /\ \E j \in Int : Base * s[k] - t[k] = j * M
                      /\ s[k] = 0 <=> t[k] = 0
           T == {k \in 0..n : Same(k)}
<1>7. 0 \in T
  <2>1. Base * s[0] - t[0] = 0 * M /\ s[0] <= 0 * M
    BY <1>1, <1>4, <1>5
  <2> QED
    BY <1>4, <1>5, <2>1
<1>8. ASSUME NEW k \in 1..n, k - 1 \in T PROVE k \in T
  <2>1. PICK v \in 0..M, w \in 0..M, hi \in Nat :
          /\ v = WordAt(m, 2 * k - 1) /\ w = NetWord(m, 2 * k - 1)
          /\ Base * v - w = hi * M
          /\ v = 0 <=> w = 0
    BY <1>6
  <2>0. s[k - 1] \in Nat /\ t[k - 1] \in Nat
    BY <1>5
  <2>2. PICK x \in Nat, y \in Nat : x = s[k - 1] /\ y = t[k - 1]
    BY <2>0
  <2>3. x <= (k - 1) * M /\ (x = 0 <=> y = 0) /\ \E j \in Int : Base * x - y = j * M
    BY <1>8, <2>2
  <2> HIDE DEF T
  <2>4. PICK j \in Int : Base * x - y = j * M
    BY <2>3
  <2>5. x + v <= k * M
    <3>1. (k - 1) * M = k * M - M
      BY <1>1
    <3>2. k * M \in Int
      BY <1>1
    <3> QED
      BY <1>1, <2>3, <3>1, <3>2
  <2>6. x + v < Word * Word
    <3>1. k * M <= n * M
      BY <1>1
    <3>2. n * M <= (M + 2) * M
      BY <1>1
    <3>3. (M + 2) * M = M * M + 2 * M
      BY <1>1
    <3>4. k * M \in Int /\ n * M \in Int /\ M * M \in Int
      BY <1>1
    <3> QED
      BY <1>1, <1>2, <2>5, <3>1, <3>2, <3>3, <3>4
  <2>7. s[k] = x + v /\ t[k] = y + w
    <3>1. s[k] = (x + v) % (Word * Word)
      BY <1>4, <2>1, <2>2
    <3>2. ASSUME NEW a \in Nat, NEW b \in Nat, a < b PROVE a % b = a
      BY <3>2
    <3>3. x + v \in Nat /\ Word * Word \in Nat
      BY <1>1
    <3>4. (x + v) % (Word * Word) = x + v
      BY <2>6, <3>2, <3>3, Zenon
    <3> QED
      BY <1>5, <2>1, <2>2, <3>1, <3>4
  <2>8. Base * (x + v) - (y + w) = (j + hi) * M
    <3>1. PICK a \in Int, b \in Int : a = Base * x /\ b = Base * v /\ Base * (x + v) = a + b
      BY <1>1
    <3>2. PICK c \in Int, d \in Int : c = j * M /\ d = hi * M /\ (j + hi) * M = c + d
      BY <1>1
    <3>3. a - y = c /\ b - w = d /\ w \in Int
      BY <1>1, <2>1, <2>4, <3>1, <3>2
    <3>4. (a + b) - (y + w) = c + d
      BY <3>3
    <3> QED
      BY <3>1, <3>2, <3>4
  <2>9. x + v = 0 <=> y + w = 0
    <3>1. (x = 0 <=> y = 0) /\ (v = 0 <=> w = 0) /\ v \in Nat /\ w \in Nat
      BY <1>1, <2>1, <2>3
    <3> QED
      BY <3>1
  <2>10. j + hi \in Int /\ k \in 0..n
    OBVIOUS
  <2> QED
    BY <2>5, <2>7, <2>8, <2>9, <2>10 DEF T
<1>9. n \in T
  <2> HIDE DEF T
  <2>1. \A k \in 0..n : k \in T
    BY <1>7, <1>8, Induct
  <2> QED
    BY <2>1
<1>10. sum = s[n] /\ s[n] \in Nat
  BY <1>0, <1>4
<1>11. sum < Word * Word
  <2>1. n * M <= (M + 2) * M
    BY <1>1
  <2>2. (M + 2) * M = M * M + 2 * M /\ M * M \in Int /\ n * M \in Int
    BY <1>1
  <2>3. sum <= n * M
    BY <1>9, <1>10
  <2> QED
    BY <1>1, <1>2, <1>10, <2>1, <2>2, <2>3
<1> QED
  BY <1>0, <1>9, <1>10, <1>11 DEF M

(* A word and the one that htons makes of it.                              *)
LEMMA Swapped ==
  ASSUME NEW w \in 0..(Word - 1)
  PROVE  \E lo \in Byte, hi \in Byte :
           lo = w % Base /\ hi = w \div Base /\ w = lo + hi * Base
<1>1. Base \in Nat /\ Base >= 3 /\ Word = Base * Base /\ Word \in Nat
  BY PingAssumption, WordNat DEF Word
<1>2. PICK q \in Nat, r \in 0..(Base - 1) : q = w \div Base /\ r = w % Base /\ w = q * Base + r
  BY <1>1, DivMod
<1>3. q < Base
  <2> SUFFICES ASSUME q >= Base PROVE FALSE
    BY <1>1
  <2>1. q * Base >= Base * Base
    BY <1>1
  <2>2. q * Base \in Int
    BY <1>1
  <2> QED
    BY <1>1, <1>2, <2>1, <2>2
<1>4. w = r + q * Base
  <2>1. q * Base \in Int
    BY <1>1
  <2> QED
    BY <1>1, <1>2, <2>1
<1> QED
  BY <1>1, <1>2, <1>3, <1>4 DEF Byte

(* The complement of a word is the word of the complements of its bytes.   *)
LEMMA Complement ==
  ASSUME NEW lo \in Byte, NEW hi \in Byte
  PROVE  LET w == Word - 1 - (lo + hi * Base)
         IN  w % Base = Base - 1 - lo /\ w \div Base = Base - 1 - hi
<1>1. Base \in Nat /\ Base >= 3 /\ lo \in 0..(Base - 1) /\ hi \in 0..(Base - 1)
  BY PingAssumption DEF Byte
<1>2. Word - 1 - (lo + hi * Base) = (Base - 1 - hi) * Base + (Base - 1 - lo)
  <2>1. (Base - 1 - hi) * Base = Base * Base - Base - hi * Base
    BY <1>1
  <2>2. Base * Base \in Int /\ hi * Base \in Int
    BY <1>1
  <2> QED
    BY <1>1, <2>1, <2>2 DEF Word
<1>3. PICK q \in Nat, r \in 0..(Base - 1) : q = Base - 1 - hi /\ r = Base - 1 - lo
  BY <1>1
<1>4. (q * Base + r) \div Base = q /\ (q * Base + r) % Base = r
  BY <1>1, DivIs
<1> QED
  BY <1>2, <1>3, <1>4

(* in_cksum of any message that fits into the accumulator is its checksum  *)
(* by the definition, as bytes in memory; and it is zero for valid         *)
(* messages only.                                                          *)
LEMMA CksumOf ==
  ASSUME NEW m \in Seq(Byte), WordCount(m) <= Word + 1
  PROVE  /\ Stored(in_cksum(m)) = htons(Word - 1 - OnesSum(m))
         /\ in_cksum(m) = 0 <=> Valid(m)
         /\ OnesSum(m) \in 0..(Word - 1)
<1> DEFINE M == Word - 1
<1>0. PICK n \in Nat : n = WordCount(m)
  BY CountNat
<1>1. M \in Nat /\ M > 7 /\ Word = M + 1 /\ Base \in Nat /\ Base >= 3
  BY WordNat, PingAssumption
<1>2. PICK t : NetTotal(t, m)
  BY TotalExists
<1>3. PICK sum : sum = SumOf(m, WordCount(m))
  OBVIOUS
<1>4. PICK u \in 0..M : u = OnesSum(m)
  BY <1>2, OnesTotal
<1>5. (\E j \in Int : t[n] - u = j * M) /\ (u = 0 <=> t[n] = 0)
  BY <1>0, <1>2, <1>4, OnesTotal
<1>6. /\ sum \in Nat /\ sum < Word * Word
      /\ \E j \in Int : Base * sum - t[n] = j * M
      /\ sum = 0 <=> t[n] = 0
  BY <1>0, <1>2, <1>3, HostTotal
<1>7. t[n] \in Nat
  BY <1>0, <1>2 DEF NetTotal
<1>8. PICK c \in 0..M : /\ c = Carry(sum) /\ (c = 0 => sum = 0)
                        /\ \E k \in Nat : sum = k * M + c
  BY <1>6, CarryFacts
<1>9. sum = 0 => c = 0
  BY <1>8, LateCarries
<1>10. in_cksum(m) = M - c
  BY <1>3, <1>8 DEF in_cksum, WordCount
<1> HIDE DEF M
<1>11. PICK lo \in Byte, hi \in Byte : c = lo + hi * Base
  BY <1>8, Swapped DEF M
<1> DEFINE v == lo * Base + hi
<1>12. /\ v \in 0..M /\ Base * c - v = hi * M /\ (v = 0 <=> c = 0) /\ hi \in Nat
  <2>1. Byte \subseteq Nat
    BY <1>1 DEF Byte
  <2> QED
    BY <1>11, <2>1, TwoBytes DEF M
<1>13. v = u
  <2>1. PICK a \in Int : t[n] - u = a * M
    BY <1>5
  <2>2. PICK b \in Int : Base * sum - t[n] = b * M
    BY <1>6
  <2>3. PICK k \in Nat : sum = k * M + c
    BY <1>8
  <2>4. Base * sum = Base * k * M + Base * c
    BY <1>1, <2>3
  <2>5. v - u = (b + a - Base * k - hi) * M
    <3>1. PICK bk \in Nat : bk = Base * k
      BY <1>1
    <3>2. PICK x \in Int, y \in Int : x = a * M /\ y = b * M
      BY <1>1
    <3>3. PICK z \in Int, q \in Int : z = hi * M /\ q = bk * M
      BY <1>1, <1>12
    <3>4. PICK p \in Int : p = Base * c
      BY <1>1
    <3>5. x = a * M /\ y = b * M /\ z = hi * M /\ p = Base * c /\ q = Base * k * M
      BY <3>1, <3>2, <3>3, <3>4
    <3>6. (b + a - Base * k - hi) * M = y + x - q - z
      <4>1. (b + a - bk - hi) * M = b * M + a * M - bk * M - hi * M
        BY <1>1, <1>12
      <4> QED
        BY <3>1, <3>2, <3>3, <4>1
    <3>7. PICK r \in Int : r = Base * sum
      BY <1>1, <1>6
    <3>8. /\ t[n] - u = x /\ r - t[n] = y /\ p - v = z /\ r = q + p
      BY <1>12, <2>1, <2>2, <2>4, <3>5, <3>7
    <3>9. v \in Int /\ u \in Int /\ t[n] \in Int
      BY <1>1, <1>7, <1>12
    <3> HIDE DEF v
    <3>10. v - u = y + x - q - z
      BY <3>8, <3>9
    <3> QED
      BY <3>6, <3>10
  <2>6. v = 0 <=> u = 0
    BY <1>5, <1>6, <1>8, <1>9, <1>12
  <2>7. b + a - Base * k - hi \in Int
    BY <1>1, <1>12
  <2> HIDE DEF v
  <2> QED
    BY <1>12, <2>5, <2>6, <2>7, OneWord DEF M
<1>14. Stored(M - c) = htons(M - v)
  <2>1. /\ (M - c) % Base = Base - 1 - lo /\ (M - c) \div Base = Base - 1 - hi
    BY <1>11, Complement DEF M
  <2>2. v = hi + lo * Base
    BY <1>1 DEF Byte
  <2>3. /\ (M - v) % Base = Base - 1 - hi /\ (M - v) \div Base = Base - 1 - lo
    BY <2>2, Complement DEF M
  <2> QED
    BY <2>1, <2>3 DEF Stored, htons
<1>15. c = M <=> v = M
  <2>1. lo \in 0..(Base - 1) /\ hi \in 0..(Base - 1)
    BY DEF Byte
  <2>2. M = (Base - 1) + (Base - 1) * Base
    BY <1>1 DEF M, Word
  <2>3. \A a, b \in 0..(Base - 1) : a + b * Base = M => a = Base - 1 /\ b = Base - 1
    <3>1. SUFFICES ASSUME NEW a \in 0..(Base - 1), NEW b \in 0..(Base - 1), a + b * Base = M
                   PROVE  a = Base - 1 /\ b = Base - 1
      OBVIOUS
    <3>2. b # Base - 1 => b * Base <= (Base - 2) * Base
      BY <1>1
    <3>3. (Base - 2) * Base = (Base - 1) * Base - Base
      BY <1>1
    <3>4. b * Base \in Int /\ (Base - 1) * Base \in Int
      BY <1>1
    <3>5. b = Base - 1
      BY <1>1, <2>2, <3>1, <3>2, <3>3, <3>4
    <3> QED
      BY <1>1, <2>2, <3>1, <3>4, <3>5
  <2>4. v = hi + lo * Base
    BY <1>1, <2>1
  <2> HIDE DEF v
  <2> QED
    BY <1>11, <2>1, <2>2, <2>3, <2>4
<1> HIDE DEF v
<1>16. in_cksum(m) = 0 <=> OnesSum(m) = M
  BY <1>1, <1>4, <1>10, <1>13, <1>15
<1> QED
  BY <1>4, <1>10, <1>13, <1>14, <1>16 DEF M, Valid

-----------------------------------------------------------------------------
LEMMA NetWordNat ==
  ASSUME NEW m \in Seq(Byte), NEW k \in 1..WordCount(m)
  PROVE  NetWord(m, 2 * k - 1) \in Nat
<1>1. NetWord(m, 2 * k - 1) \in 0..(Word - 1)
  BY WordFacts
<1> QED
  BY <1>1, WordNat

(* The word that a byte is in.                                             *)
LEMMA WordOfByte ==
  ASSUME NEW l \in Nat, NEW i \in 1..l
  PROVE  \E k \in 1..((l + 1) \div 2) : i = 2 * k - 1 \/ i = 2 * k
<1>1. PICK q \in Nat, r \in 0..1 : q = (i + 1) \div 2 /\ r = (i + 1) % 2 /\ i + 1 = q * 2 + r
  BY DivMod
<1>2. q \in 1..((l + 1) \div 2)
  BY <1>1
<1>3. i = 2 * q - 1 \/ i = 2 * q
  BY <1>1
<1> QED
  BY <1>2, <1>3

(* A word changes by less than Word - 1 with one of its bytes.             *)
LEMMA WordChange ==
  ASSUME NEW a \in Byte, NEW b \in Byte, a # b, NEW r \in Byte
  PROVE  /\ \E d \in Int : /\ d = (b * Base + r) - (a * Base + r)
                          /\ d # 0 /\ -(Word - 1) < d /\ d < Word - 1
         /\ \E d \in Int : /\ d = (r * Base + b) - (r * Base + a)
                          /\ d # 0 /\ -(Word - 1) < d /\ d < Word - 1
<1>1. /\ Base \in Nat /\ Base >= 3
      /\ a \in 0..(Base - 1) /\ b \in 0..(Base - 1) /\ r \in 0..(Base - 1)
  BY PingAssumption DEF Byte
<1>2. PICK w \in Nat : w = Base * Base /\ w = Word /\ w >= 3 * Base
  BY <1>1 DEF Word
<1>3. PICK e \in Int : e = b - a /\ e # 0 /\ -Base < e /\ e < Base
  BY <1>1
<1>4. PICK x \in Int, y \in Int, z \in Int : x = a * Base /\ y = b * Base /\ z = r * Base
  BY <1>1
<1>5. y - x = e * Base
  BY <1>1, <1>3, <1>4
<1>6. e * Base <= w - Base /\ e * Base >= Base - w /\ e * Base # 0 /\ e * Base \in Int
  <2>1. (Base - 1) * Base = w - Base
    BY <1>1, <1>2
  <2>2. e <= Base - 1 => e * Base <= (Base - 1) * Base
    BY <1>1
  <2>3. -e <= Base - 1 => (-e) * Base <= (Base - 1) * Base
    BY <1>1
  <2>4. (-e) * Base = -(e * Base) /\ e * Base \in Int
    BY <1>1
  <2>5. e * Base # 0
    BY <1>1, <1>3
  <2> QED
    BY <1>1, <1>2, <1>3, <2>1, <2>2, <2>3, <2>4, <2>5
<1>7. (y + r) - (x + r) = y - x /\ (z + b) - (z + a) = e
  BY <1>1, <1>3, <1>4
<1>8. PICK d \in Int : d = e * Base
  BY <1>6
<1>9. d # 0 /\ -(w - 1) < d /\ d < w - 1 /\ -(w - 1) < e /\ e < w - 1
  BY <1>1, <1>2, <1>3, <1>6, <1>8
<1> QED
  BY <1>2, <1>3, <1>4, <1>5, <1>7, <1>8, <1>9

\* Messages m and o are the same but for the word with number c.
SameBut(m, o, c) ==
  \A k \in 1..WordCount(m) : k # c => NetWord(o, 2 * k - 1) = NetWord(m, 2 * k - 1)

(* The totals of two messages that differ in one word differ by what the   *)
(* words differ by.                                                        *)
LEMMA TotalChange ==
  ASSUME NEW m \in Seq(Byte), NEW o \in Seq(Byte), Len(o) = Len(m),
         NEW t, NetTotal(t, m), NEW u, NetTotal(u, o),
         NEW c \in 1..WordCount(m),
         SameBut(m, o, c)
  PROVE  u[WordCount(m)] - t[WordCount(m)] = NetWord(o, 2 * c - 1) - NetWord(m, 2 * c - 1)
<1>0. PICK n \in Nat : n = WordCount(m) /\ n = WordCount(o)
  BY CountNat DEF WordCount
<1>1. \A k \in 1..n : NetWord(m, 2 * k - 1) \in Nat /\ NetWord(o, 2 * k - 1) \in Nat
  BY <1>0, NetWordNat
<1>2. /\ t \in [0..n -> Nat] /\ t[0] = 0
      /\ \A k \in 1..n : t[k] = t[k - 1] + NetWord(m, 2 * k - 1)
  BY <1>0 DEF NetTotal
<1>3. /\ u \in [0..n -> Nat] /\ u[0] = 0
      /\ \A k \in 1..n : u[k] = u[k - 1] + NetWord(o, 2 * k - 1)
  BY <1>0 DEF NetTotal
<1>4. PICK x \in Nat, y \in Nat : x = NetWord(m, 2 * c - 1) /\ y = NetWord(o, 2 * c - 1)
  BY <1>0, <1>1
<1> DEFINE T == {k \in 0..n : u[k] - t[k] = IF k < c THEN 0 ELSE y - x}
<1>5. 0 \in T
  BY <1>2, <1>3
<1>6. ASSUME NEW k \in 1..n, k - 1 \in T PROVE k \in T
  <2>1. PICK v \in Nat, w \in Nat : v = NetWord(m, 2 * k - 1) /\ w = NetWord(o, 2 * k - 1)
    BY <1>1
  <2>2. /\ t[k - 1] \in Nat /\ t[k] = t[k - 1] + v
        /\ u[k - 1] \in Nat /\ u[k] = u[k - 1] + w
    BY <1>2, <1>3, <2>1
  <2>3. u[k - 1] - t[k - 1] = IF k - 1 < c THEN 0 ELSE y - x
    BY <1>6
  <2>4. IF k = c THEN v = x /\ w = y ELSE v = w
    BY <1>0, <1>4, <2>1 DEF SameBut
  <2>5. c \in Nat /\ k \in Nat
    BY <1>0
  <2>6. u[k] - t[k] = IF k < c THEN 0 ELSE y - x
    <3>1. CASE k = c
      BY <2>2, <2>3, <2>4, <2>5, <3>1
    <3>2. CASE k # c
      BY <2>2, <2>3, <2>4, <2>5, <3>2
    <3> QED
      BY <3>1, <3>2
  <2> QED
    BY <2>6
<1>7. n \in T
  <2> HIDE DEF T
  <2>1. \A k \in 0..n : k \in T
    BY <1>5, <1>6, Induct
  <2> QED
    BY <2>1
<1> QED
  BY <1>0, <1>4, <1>7

(* A byte that changes makes a valid message invalid: it changes the total *)
(* by less than Word - 1.                                                  *)
LEMMA ChangedByte ==
  ASSUME NEW m \in Seq(Byte), Valid(m), NEW i \in 1..Len(m), NEW v \in Byte, v # m[i],
         NEW o, o = [m EXCEPT ![i] = v]
  PROVE  ~Valid(o)
<1> DEFINE M == Word - 1
<1>1. M \in Nat /\ M > 7 /\ Base \in Nat /\ Base >= 3 /\ Byte = 0..(Base - 1) /\ Word = Base * Base
  BY WordNat, PingAssumption DEF Byte, Word
<1>2. o \in Seq(Byte) /\ Len(o) = Len(m) /\ \A j \in 1..Len(m) : o[j] = IF j = i THEN v ELSE m[j]
  OBVIOUS
<1>3. PICK k \in 1..WordCount(m) : i = 2 * k - 1 \/ i = 2 * k
  BY WordOfByte DEF WordCount
<1>4. SameBut(m, o, k)
  <2> SUFFICES ASSUME NEW j \in 1..WordCount(m), j # k
               PROVE  NetWord(o, 2 * j - 1) = NetWord(m, 2 * j - 1)
    BY DEF SameBut
  <2>1. 2 * j - 1 \in 1..Len(m) /\ 2 * j - 1 # i /\ (2 * j - 1) + 1 # i
    <3>1. PICK q \in Nat : q = WordCount(m) /\ 2 * q - 1 <= Len(m)
      BY DEF WordCount
    <3> QED
      BY <1>3, <3>1
  <2>2. o[2 * j - 1] = m[2 * j - 1]
    BY <1>2, <2>1
  <2>3. 2 * j - 1 < Len(m) => o[(2 * j - 1) + 1] = m[(2 * j - 1) + 1]
    BY <1>2, <2>1
  <2> QED
    BY <1>2, <2>2, <2>3 DEF NetWord
<1>5. PICK d \in Int : /\ d = NetWord(o, 2 * k - 1) - NetWord(m, 2 * k - 1)
                       /\ d # 0 /\ -M < d /\ d < M
  <2>0. PICK a \in Byte : a = m[i] /\ v # a
    OBVIOUS
  <2>1. CASE i = 2 * k - 1
    <3>1. PICK r \in Byte : r = IF 2 * k - 1 < Len(m) THEN m[(2 * k - 1) + 1] ELSE 0
      BY <1>1, <2>1
    <3>2. NetWord(m, 2 * k - 1) = a * Base + r /\ NetWord(o, 2 * k - 1) = v * Base + r
      <4>1. 2 * k - 1 < Len(m) => o[(2 * k - 1) + 1] = m[(2 * k - 1) + 1]
        BY <1>2, <2>1
      <4> QED
        BY <1>2, <2>0, <2>1, <3>1, <4>1 DEF NetWord
    <3> QED
      BY <2>0, <3>2, WordChange
  <2>2. CASE i = 2 * k
    <3>1. 2 * k - 1 < Len(m) /\ i = (2 * k - 1) + 1 /\ 2 * k - 1 \in 1..Len(m) /\ 2 * k - 1 # i
      BY <2>2
    <3>2. PICK r \in Byte : r = m[2 * k - 1] /\ r = o[2 * k - 1]
      BY <1>2, <3>1
    <3>3. NetWord(m, 2 * k - 1) = r * Base + a /\ NetWord(o, 2 * k - 1) = r * Base + v
      BY <1>2, <2>0, <3>1, <3>2 DEF NetWord
    <3> QED
      BY <2>0, <3>3, WordChange
  <2> QED
    BY <1>3, <2>1, <2>2
<1>6. PICK t, u : NetTotal(t, m) /\ NetTotal(u, o)
  BY <1>2, TotalExists
<1>7. PICK n \in Nat : n = WordCount(m) /\ n = WordCount(o)
  BY <1>2, CountNat DEF WordCount
<1>8. u[n] - t[n] = d
  <2>1. u[WordCount(m)] - t[WordCount(m)] = NetWord(o, 2 * k - 1) - NetWord(m, 2 * k - 1)
    <3>1. o \in Seq(Byte)
      BY <1>2
    <3>2. Len(o) = Len(m)
      BY <1>2
    <3>3. NetTotal(t, m)
      BY <1>6
    <3>4. NetTotal(u, o)
      BY <1>6
    <3> QED
      BY ONLY m \in Seq(Byte), k \in 1..WordCount(m), <1>4, <3>1, <3>2, <3>3, <3>4, TotalChange, Zenon
  <2> QED
    BY <1>5, <1>7, <2>1
<1> SUFFICES ASSUME Valid(o) PROVE FALSE
  OBVIOUS
<1>9. \E j \in Int : t[n] - M = j * M
  BY <1>6, <1>7, OnesTotal DEF Valid
<1>10. \E j \in Int : u[n] - M = j * M
  BY <1>2, <1>6, <1>7, OnesTotal DEF Valid
<1>11. PICK a \in Int, b \in Int : t[n] - M = a * M /\ u[n] - M = b * M
  BY <1>9, <1>10
<1> HIDE DEF M
<1>12. d = (b - a) * M
  <2>1. PICK x \in Int, y \in Int : x = a * M /\ y = b * M /\ (b - a) * M = y - x
    BY <1>1
  <2>2. PICK p \in Nat, q \in Nat : p = t[n] /\ q = u[n]
    <3>1. t \in [0..n -> Nat] /\ u \in [0..n -> Nat]
      BY <1>6, <1>7 DEF NetTotal
    <3> QED
      BY <3>1
  <2>3. q - p = d /\ p - M = x /\ q - M = y
    BY <1>8, <1>11, <2>1, <2>2
  <2>4. d = y - x
    BY <1>1, <2>3
  <2> QED
    BY <2>1, <2>4
<1>13. b - a = 0
  <2>1. b - a \in Int /\ -M < (b - a) * M /\ (b - a) * M < M
    BY <1>5, <1>12
  <2> QED
    BY <1>1, <2>1, SmallMultiple
<1> QED
  BY <1>1, <1>5, <1>12, <1>13

-----------------------------------------------------------------------------
LEMMA PutFacts ==
  ASSUME NEW m \in Seq(Byte), NEW i \in 1..(Len(m) - 1), NEW w, w[1] \in Byte, w[2] \in Byte
  PROVE  /\ Put(m, i, w) \in Seq(Byte) /\ Len(Put(m, i, w)) = Len(m)
         /\ Put(m, i, w)[i] = w[1] /\ Put(m, i, w)[i + 1] = w[2]
         /\ \A j \in 1..Len(m) : j # i /\ j # i + 1 => Put(m, i, w)[j] = m[j]
<1>1. i \in 1..Len(m) /\ i + 1 \in 1..Len(m) /\ i # i + 1
  OBVIOUS
<1> QED
  BY <1>1 DEF Put

(* htons makes two bytes of a word, the high one first.                    *)
LEMMA HtonsFacts ==
  ASSUME NEW w \in 0..(Word - 1)
  PROVE  htons(w)[1] \in Byte /\ htons(w)[2] \in Byte /\ htons(w)[1] * Base + htons(w)[2] = w
<1>1. PICK lo \in Byte, hi \in Byte : lo = w % Base /\ hi = w \div Base /\ w = lo + hi * Base
  BY Swapped
<1>2. htons(w)[1] = hi /\ htons(w)[2] = lo
  BY <1>1 DEF htons
<1>3. hi * Base + lo = w
  <2>1. hi * Base \in Int /\ lo \in Int
    BY PingAssumption DEF Byte
  <2> QED
    BY <1>1, <2>1
<1> QED
  BY <1>2, <1>3

(* A message with its checksum in place is valid: the checksum makes the   *)
(* total a multiple of Word - 1, and it is not 0.                          *)
LEMMA ChecksumMakesValid ==
  ASSUME NEW m \in Seq(Byte), Len(m) >= 4, m[3] = 0, m[4] = 0,
         NEW o, o = Put(m, 3, htons(Word - 1 - OnesSum(m)))
  PROVE  /\ o \in Seq(Byte) /\ Len(o) = Len(m) /\ Valid(o)
         /\ \A j \in 1..Len(m) : j # 3 /\ j # 4 => o[j] = m[j]
<1> DEFINE M == Word - 1
<1>1. M \in Nat /\ M > 7 /\ Base \in Nat
  BY WordNat, PingAssumption
<1>2. PICK t : NetTotal(t, m)
  BY TotalExists
<1>3. PICK n \in Nat : n = WordCount(m) /\ n >= 2
  BY CountNat DEF WordCount
<1>4. PICK v \in 0..M : v = OnesSum(m) /\ (\E j \in Int : t[n] - v = j * M) /\ (v = 0 <=> t[n] = 0)
  BY <1>2, <1>3, OnesTotal
<1>5. PICK x \in 0..M : x = M - v
  BY <1>1
<1>6. o = Put(m, 3, htons(x))
  BY <1>4, <1>5
<1> HIDE DEF M
<1>7. htons(x)[1] \in Byte /\ htons(x)[2] \in Byte /\ htons(x)[1] * Base + htons(x)[2] = x
  BY HtonsFacts DEF M
<1>8. /\ o \in Seq(Byte) /\ Len(o) = Len(m) /\ o[3] = htons(x)[1] /\ o[4] = htons(x)[2]
      /\ \A j \in 1..Len(m) : j # 3 /\ j # 4 => o[j] = m[j]
  BY <1>6, <1>7, PutFacts
<1>9. SameBut(m, o, 2)
  <2> SUFFICES ASSUME NEW j \in 1..WordCount(m), j # 2
               PROVE  NetWord(o, 2 * j - 1) = NetWord(m, 2 * j - 1)
    BY DEF SameBut
  <2>1. /\ 2 * j - 1 \in 1..Len(m) /\ 2 * j - 1 # 3 /\ 2 * j - 1 # 4
        /\ (2 * j - 1) + 1 # 3 /\ (2 * j - 1) + 1 # 4
    <3>1. PICK q \in Nat : q = WordCount(m) /\ 2 * q - 1 <= Len(m)
      BY DEF WordCount
    <3> QED
      BY <3>1
  <2>2. o[2 * j - 1] = m[2 * j - 1]
    BY <1>8, <2>1
  <2>3. 2 * j - 1 < Len(m) => o[(2 * j - 1) + 1] = m[(2 * j - 1) + 1]
    BY <1>8, <2>1
  <2> QED
    BY <1>8, <2>2, <2>3 DEF NetWord
<1>10. NetWord(m, 2 * 2 - 1) = 0 /\ NetWord(o, 2 * 2 - 1) = x
  <2>1. NetWord(m, 3) = m[3] * Base + m[4] /\ NetWord(o, 3) = o[3] * Base + o[4]
    BY <1>8 DEF NetWord
  <2>2. 0 * Base + 0 = 0 /\ 2 * 2 - 1 = 3
    BY <1>1
  <2> QED
    BY <1>7, <1>8, <2>1, <2>2
<1>11. PICK u : NetTotal(u, o)
  BY <1>8, TotalExists
<1>12. u[n] - t[n] = x
  <2>1. 2 \in 1..WordCount(m)
    BY <1>3
  <2>2. o \in Seq(Byte) /\ Len(o) = Len(m)
    BY <1>8
  <2>3. u[WordCount(m)] - t[WordCount(m)] = NetWord(o, 2 * 2 - 1) - NetWord(m, 2 * 2 - 1)
    BY ONLY m \in Seq(Byte), <1>2, <1>9, <1>11, <2>1, <2>2, TotalChange, Zenon
  <2> QED
    BY <1>1, <1>3, <1>10, <2>3
<1>13. n = WordCount(o)
  BY <1>3, <1>8 DEF WordCount
<1>14. PICK y \in 0..M : /\ y = OnesSum(o) /\ (\E j \in Int : u[n] - y = j * M)
                         /\ y = 0 <=> u[n] = 0
  BY <1>8, <1>11, <1>13, OnesTotal DEF M
<1>15. PICK p \in Nat, q \in Nat : p = t[n] /\ q = u[n]
  <2>1. t \in [0..n -> Nat] /\ u \in [0..n -> Nat]
    BY <1>2, <1>3, <1>11, <1>13 DEF NetTotal
  <2> QED
    BY <2>1
<1>16. PICK a \in Int, b \in Int : p - v = a * M /\ q - y = b * M
  BY <1>4, <1>14, <1>15
<1>17. q - p = x /\ (v = 0 <=> p = 0) /\ (y = 0 <=> q = 0)
  BY <1>4, <1>12, <1>14, <1>15
<1>18. y # 0
  BY <1>1, <1>5, <1>17
<1>19. y - M = (a - b) * M
  <2>1. PICK c \in Int, d \in Int : c = a * M /\ d = b * M /\ (a - b) * M = c - d
    BY <1>1
  <2>2. y - M = c - d
    BY <1>1, <1>5, <1>16, <1>17, <2>1
  <2> QED
    BY <2>1, <2>2
<1>20. y = M
  <2>1. M \in 0..M /\ a - b \in Int /\ (y = 0 <=> M = 0)
    BY <1>1, <1>18
  <2> QED
    BY <1>19, <2>1, OneWord DEF M
<1> QED
  BY <1>8, <1>14, <1>20 DEF M, Valid
=============================================================================
