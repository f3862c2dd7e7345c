-------------------------- MODULE PingPacketProofs --------------------------
(***************************************************************************)
(* Proofs about the packets of Ping: what run_ping_send makes is valid,    *)
(* and run_ping_recv shows the answers that arrive unchanged and no other  *)
(* packets.  They rest on the facts about in_cksum of PingProofs.          *)
(***************************************************************************)
EXTENDS PingProofs, FiniteSetTheorems

\* A packet with a header in front and some message behind it.
HasHeader(b) ==
  /\ b \in Seq(Byte)
  /\ Len(b) > 0 /\ ip_hl(b) \in Nat /\ ip_hl(b) >= 1 /\ 4 * ip_hl(b) <= Len(b)

\* o is b with another byte v for its byte i.
Changed(o, b, i, v) == i \in 1..Len(b) /\ v # b[i] /\ o = [b EXCEPT ![i] = v]

LEMMA ByteNat ==
  ASSUME NEW x \in Byte
  PROVE  x \in Nat
  BY PingAssumption DEF Byte

LEMMA SubSeqFacts ==
  ASSUME NEW S, NEW s \in Seq(S), NEW a \in 1..(Len(s) + 1), NEW b \in (a - 1)..Len(s)
  PROVE  /\ SubSeq(s, a, b) \in Seq(S) /\ Len(SubSeq(s, a, b)) = b - a + 1
         /\ \A j \in 1..(b - a + 1) : SubSeq(s, a, b)[j] = s[a + j - 1]
  OBVIOUS

LEMMA SameSeq ==
  ASSUME NEW S, NEW s \in Seq(S), NEW t \in Seq(S), Len(s) = Len(t),
         \A j \in 1..Len(s) : s[j] = t[j]
  PROVE  s = t
  OBVIOUS

LEMMA JoinFacts ==
  ASSUME NEW S, NEW s \in Seq(S), NEW t \in Seq(S)
  PROVE  /\ s \o t \in Seq(S) /\ Len(s \o t) = Len(s) + Len(t)
         /\ \A j \in 1..Len(s) : (s \o t)[j] = s[j]
         /\ \A j \in 1..Len(t) : (s \o t)[Len(s) + j] = t[j]
  OBVIOUS

(* The parts of a packet.                                                  *)
LEMMA PartFacts ==
  ASSUME NEW b, HasHeader(b)
  PROVE  /\ icmp(b) \in Seq(Byte) /\ Len(icmp(b)) = Len(b) - 4 * ip_hl(b)
         /\ \A j \in 1..(Len(b) - 4 * ip_hl(b)) : icmp(b)[j] = b[4 * ip_hl(b) + j]
         /\ ipHeader(b) \in Seq(Byte) /\ Len(ipHeader(b)) = 4 * ip_hl(b)
         /\ \A j \in 1..(4 * ip_hl(b)) : ipHeader(b)[j] = b[j]
<1>1. PICK h \in Nat : h = ip_hl(b) /\ h >= 1 /\ 4 * h <= Len(b)
  BY DEF HasHeader
<1>2. b \in Seq(Byte) /\ Len(b) \in Nat
  BY DEF HasHeader
<1>3. icmp(b) = SubSeq(b, 4 * h + 1, Len(b)) /\ ipHeader(b) = SubSeq(b, 1, 4 * h)
  BY <1>1 DEF icmp, ipHeader
<1>4. /\ icmp(b) \in Seq(Byte) /\ Len(icmp(b)) = Len(b) - 4 * h
      /\ \A j \in 1..(Len(b) - 4 * h) : icmp(b)[j] = b[4 * h + j]
  <2>1. 4 * h + 1 \in 1..(Len(b) + 1) /\ Len(b) \in ((4 * h + 1) - 1)..Len(b)
    BY <1>1, <1>2
  <2>2. /\ SubSeq(b, 4 * h + 1, Len(b)) \in Seq(Byte)
        /\ Len(SubSeq(b, 4 * h + 1, Len(b))) = Len(b) - (4 * h + 1) + 1
        /\ \A j \in 1..(Len(b) - (4 * h + 1) + 1) :
             SubSeq(b, 4 * h + 1, Len(b))[j] = b[(4 * h + 1) + j - 1]
    BY <1>2, <2>1, SubSeqFacts
  <2>3. Len(b) - (4 * h + 1) + 1 = Len(b) - 4 * h
    BY <1>2
  <2>4. \A j \in 1..(Len(b) - 4 * h) : (4 * h + 1) + j - 1 = 4 * h + j
    BY <1>2
  <2> QED
    BY <1>3, <2>2, <2>3, <2>4
<1>5. /\ ipHeader(b) \in Seq(Byte) /\ Len(ipHeader(b)) = 4 * h
      /\ \A j \in 1..(4 * h) : ipHeader(b)[j] = b[j]
  <2>1. 1 \in 1..(Len(b) + 1) /\ 4 * h \in (1 - 1)..Len(b)
    BY <1>1, <1>2
  <2>2. /\ SubSeq(b, 1, 4 * h) \in Seq(Byte) /\ Len(SubSeq(b, 1, 4 * h)) = 4 * h - 1 + 1
        /\ \A j \in 1..(4 * h - 1 + 1) : SubSeq(b, 1, 4 * h)[j] = b[1 + j - 1]
    BY <1>2, <2>1, SubSeqFacts
  <2>3. 4 * h - 1 + 1 = 4 * h /\ \A j \in 1..(4 * h) : 1 + j - 1 = j
    OBVIOUS
  <2> QED
    BY <1>3, <2>2, <2>3
<1> QED
  BY <1>1, <1>4, <1>5

(* A packet put together of a header and a message has these parts.        *)
LEMMA WholeFacts ==
  ASSUME NEW hd \in Seq(Byte), Len(hd) > 0, hd[1] >= 1, Len(hd) = 4 * hd[1], NEW m \in Seq(Byte)
  PROVE  /\ HasHeader(hd \o m) /\ ip_hl(hd \o m) = hd[1] /\ Len(hd \o m) = Len(hd) + Len(m)
         /\ icmp(hd \o m) = m /\ ipHeader(hd \o m) = hd
<1> DEFINE b == hd \o m
<1>1. /\ b \in Seq(Byte) /\ Len(b) = Len(hd) + Len(m)
      /\ \A j \in 1..Len(hd) : b[j] = hd[j]
      /\ \A j \in 1..Len(m) : b[Len(hd) + j] = m[j]
  BY JoinFacts
<1> HIDE DEF b
<1>2. ip_hl(b) = hd[1] /\ hd[1] \in Nat
  <2>1. 1 \in 1..Len(hd) /\ hd[1] \in Byte
    OBVIOUS
  <2> QED
    BY <1>1, <2>1, ByteNat DEF ip_hl
<1>l. PICK l \in Nat : l = Len(hd) /\ l = 4 * ip_hl(b) /\ l > 0
  BY <1>2
<1>k. PICK k \in Nat : k = Len(m)
  OBVIOUS
<1>a. Len(b) = l + k /\ Len(b) - l = k
  BY <1>1, <1>l, <1>k
<1>3. HasHeader(b)
  <2>1. l <= l + k /\ l + k > 0
    BY <1>l
  <2>2. ip_hl(b) \in Nat /\ ip_hl(b) >= 1
    BY <1>2
  <2> QED
    BY <1>1, <1>l, <1>a, <2>1, <2>2 DEF HasHeader
<1>4. /\ icmp(b) \in Seq(Byte) /\ Len(icmp(b)) = Len(m)
      /\ \A j \in 1..Len(m) : icmp(b)[j] = m[j]
  <2>1. /\ icmp(b) \in Seq(Byte) /\ Len(icmp(b)) = k
        /\ \A j \in 1..k : icmp(b)[j] = b[l + j]
    BY <1>3, <1>l, <1>a, PartFacts, Zenon
  <2> QED
    BY <1>1, <1>l, <1>k, <2>1, Zenon
<1>5. /\ ipHeader(b) \in Seq(Byte) /\ Len(ipHeader(b)) = Len(hd)
      /\ \A j \in 1..Len(hd) : ipHeader(b)[j] = hd[j]
  <2>1. /\ ipHeader(b) \in Seq(Byte) /\ Len(ipHeader(b)) = l
        /\ \A j \in 1..l : ipHeader(b)[j] = b[j]
    BY <1>3, <1>l, PartFacts, Zenon
  <2> QED
    BY <1>1, <1>l, <2>1, Zenon
<1>6. icmp(b) = m
  BY <1>4, SameSeq
<1>7. ipHeader(b) = hd
  BY <1>5, SameSeq
<1> QED
  BY <1>1, <1>2, <1>3, <1>6, <1>7 DEF b

LEMMA CutChanged ==
  ASSUME NEW S, NEW b \in Seq(S), NEW q \in Nat, NEW n \in Nat, n = Len(b), q <= n,
         NEW i \in Nat, i > q, NEW v \in S, NEW o, Changed(o, b, i, v)
  PROVE  Changed(SubSeq(o, q + 1, n), SubSeq(b, q + 1, n), i - q, v)
<1>0. i \in 1..n /\ v # b[i]
  BY DEF Changed
<1> DEFINE c == SubSeq(b, q + 1, n)
           d == SubSeq(o, q + 1, n)
<1>1. /\ o \in Seq(S) /\ Len(o) = n /\ o[i] = v
      /\ \A j \in 1..n : j # i => o[j] = b[j]
  BY <1>0 DEF Changed
<1>2. q + 1 \in 1..(n + 1) /\ n \in ((q + 1) - 1)..n /\ n - (q + 1) + 1 = n - q
  OBVIOUS
<1>3. \A j \in 1..(n - q) : (q + 1) + j - 1 = q + j /\ q + j \in 1..n
  OBVIOUS
<1>4. c \in Seq(S) /\ Len(c) = n - q /\ \A j \in 1..(n - q) : c[j] = b[q + j]
  <2>1. /\ c \in Seq(S) /\ Len(c) = n - (q + 1) + 1
        /\ \A j \in 1..(n - (q + 1) + 1) : c[j] = b[(q + 1) + j - 1]
    BY ONLY <1>2, b \in Seq(S), n = Len(b), SubSeqFacts, Zenon
  <2> QED
    BY <1>2, <1>3, <2>1
<1>5. d \in Seq(S) /\ Len(d) = n - q /\ \A j \in 1..(n - q) : d[j] = o[q + j]
  <2>1. /\ d \in Seq(S) /\ Len(d) = n - (q + 1) + 1
        /\ \A j \in 1..(n - (q + 1) + 1) : d[j] = o[(q + 1) + j - 1]
    BY ONLY <1>1, <1>2, SubSeqFacts, Zenon
  <2> QED
    BY <1>2, <1>3, <2>1
<1> HIDE DEF c, d
<1>6. PICK k \in 1..(n - q) : k = i - q /\ q + k = i
  <2>1. i - q \in 1..(n - q) /\ q + (i - q) = i
    BY <1>0
  <2> QED
    BY <2>1, Zenon
<1> DEFINE e == [c EXCEPT ![k] = v]
<1>7. /\ e \in Seq(S) /\ Len(e) = n - q /\ e[k] = v
      /\ \A j \in 1..(n - q) : j # k => e[j] = c[j]
  <2>1. k \in 1..Len(c)
    BY <1>4
  <2>2. e \in Seq(S) /\ Len(e) = Len(c) /\ e[k] = v /\ \A j \in 1..Len(c) : j # k => e[j] = c[j]
    BY ONLY <1>4, <2>1, v \in S
  <2> QED
    BY <1>4, <2>2, Zenon
<1> HIDE DEF e
<1>8. ASSUME NEW j \in 1..(n - q) PROVE d[j] = e[j]
  <2>1. CASE j = k
    BY <1>1, <1>5, <1>6, <1>7, <2>1
  <2>2. CASE j # k
    <3>1. q + j # i
      BY <1>6, <2>2
    <3> QED
      BY <1>1, <1>3, <1>4, <1>5, <1>7, <2>2, <3>1
  <2> QED
    BY <2>1, <2>2
<1>9. d = e
  BY <1>5, <1>7, <1>8, SameSeq
<1>10. c[k] = b[i]
  BY <1>4, <1>6
<1> QED
  BY <1>0, <1>4, <1>6, <1>9, <1>10 DEF c, d, e, Changed

(* A byte that changes behind the header changes a byte of the message.    *)
LEMMA ChangedPart ==
  ASSUME NEW b, HasHeader(b), NEW i \in Nat, i > 4 * ip_hl(b), NEW v \in Byte,
         NEW o, Changed(o, b, i, v)
  PROVE  /\ HasHeader(o) /\ ip_hl(o) = ip_hl(b) /\ Len(o) = Len(b)
         /\ Changed(icmp(o), icmp(b), i - 4 * ip_hl(b), v)
<1>1. PICK n \in Nat : n = Len(b) /\ b \in Seq(Byte)
  BY DEF HasHeader
<1>2. PICK q \in Nat : q = 4 * ip_hl(b) /\ q >= 4 /\ q <= n
  BY <1>1 DEF HasHeader
<1>3. o \in Seq(Byte) /\ Len(o) = n /\ o[1] = b[1]
  <2>1. i # 1 /\ 1 \in 1..n
    BY <1>2
  <2> QED
    BY <1>1, <2>1 DEF Changed
<1>4. ip_hl(o) = ip_hl(b)
  BY <1>3 DEF ip_hl
<1>5. HasHeader(o)
  BY <1>1, <1>3, <1>4, Zenon DEF HasHeader
<1>6. icmp(b) = SubSeq(b, q + 1, n) /\ icmp(o) = SubSeq(o, q + 1, n)
  BY <1>1, <1>2, <1>3, <1>4 DEF icmp
<1>7. Changed(SubSeq(o, q + 1, n), SubSeq(b, q + 1, n), i - q, v)
  <2>1. i > q
    BY <1>2
  <2> QED
    BY <1>1, <1>2, <2>1, CutChanged, Zenon
<1> QED
  BY <1>1, <1>2, <1>3, <1>4, <1>5, <1>6, <1>7, Zenon

-----------------------------------------------------------------------------
(* What is sent.                                                           *)

\* A header as long as its first byte says.
IsHeader(hd) == hd \in Seq(Byte) /\ Len(hd) > 0 /\ hd[1] >= 1 /\ Len(hd) = 4 * hd[1]

LEMMA ByteFacts == 0 \in Byte /\ 1 \in Byte /\ Word \in Nat /\ Word > 8
  BY PingAssumption, WordNat DEF Byte

LEMMA Fits ==
  ASSUME NEW m \in Seq(Byte), Len(m) <= 2 * Word
  PROVE  WordCount(m) <= Word + 1
<1>1. PICK l \in Nat : l = Len(m)
  OBVIOUS
<1>2. PICK w \in Nat : w = Word /\ l <= 2 * w
  BY <1>1, WordNat
<1>3. (l + 1) \div 2 <= w + 1
  BY <1>2
<1> QED
  BY <1>1, <1>2, <1>3 DEF WordCount

LEMMA HeaderFacts ==
  ASSUME NEW o \in Seq(Byte), Len(o) % 4 = 0, Len(o) \div 4 < Base - 1
  PROVE  /\ IsHeader(IpHeader(o)) /\ Len(IpHeader(o)) >= 4
         /\ IpHeader(o)[1] = 1 + Len(o) \div 4
<1>1. PICK l \in Nat : l = Len(o)
  OBVIOUS
<1>2. PICK q \in Nat : q = l \div 4 /\ l = 4 * q
  BY <1>1
<1>3. 1 + q \in Byte
  BY <1>1, <1>2, PingAssumption DEF Byte
<1> DEFINE f == <<1 + q, 0, 0, 0>>
<1>4. f \in Seq(Byte) /\ Len(f) = 4 /\ f[1] = 1 + q
  BY <1>3, ByteFacts
<1>5. IpHeader(o) = f \o o
  BY <1>1, <1>2 DEF IpHeader
<1> HIDE DEF f
<1>6. /\ f \o o \in Seq(Byte) /\ Len(f \o o) = 4 + l
      /\ \A j \in 1..4 : (f \o o)[j] = f[j]
  <2>1. /\ f \o o \in Seq(Byte) /\ Len(f \o o) = Len(f) + Len(o)
        /\ \A j \in 1..Len(f) : (f \o o)[j] = f[j]
    BY <1>4, JoinFacts, Zenon
  <2> QED
    BY <1>1, <1>4, <2>1, Zenon
<1>7. (f \o o)[1] = 1 + q
  BY <1>4, <1>6
<1>8. 4 + l = 4 * (1 + q) /\ 4 + l >= 4 /\ 4 + l > 0 /\ 1 + q >= 1
  BY <1>2
<1>9. IsHeader(f \o o)
  <2>1. PICK g : g = f \o o
    OBVIOUS
  <2>2. g \in Seq(Byte) /\ Len(g) > 0 /\ g[1] >= 1 /\ Len(g) = 4 * g[1]
    BY <1>6, <1>7, <1>8, <2>1
  <2> QED
    BY <2>1, <2>2 DEF IsHeader
<1> QED
  BY <1>1, <1>2, <1>5, <1>6, <1>7, <1>8, <1>9

LEMMA BlankFacts ==
  ASSUME NEW m \in Seq(Byte), Len(m) >= 4
  PROVE  /\ Put(m, 3, <<0, 0>>) \in Seq(Byte) /\ Len(Put(m, 3, <<0, 0>>)) = Len(m)
         /\ Put(m, 3, <<0, 0>>)[3] = 0 /\ Put(m, 3, <<0, 0>>)[4] = 0
         /\ \A j \in 1..Len(m) : j # 3 /\ j # 4 => Put(m, 3, <<0, 0>>)[j] = m[j]
<1>1. 3 \in 1..(Len(m) - 1)
  OBVIOUS
<1>2. <<0, 0>>[1] = 0 /\ <<0, 0>>[2] = 0 /\ 0 \in Byte
  BY ByteFacts
<1> QED
  BY <1>1, <1>2, PutFacts

(* What the others send is valid.                                          *)
LEMMA SealedFacts ==
  ASSUME NEW m \in Seq(Byte), Len(m) >= 4
  PROVE  /\ Sealed(m) \in Seq(Byte) /\ Len(Sealed(m)) = Len(m) /\ Valid(Sealed(m))
         /\ \A j \in 1..Len(m) : j # 3 /\ j # 4 => Sealed(m)[j] = m[j]
<1> DEFINE b == Put(m, 3, <<0, 0>>)
<1>1. /\ b \in Seq(Byte) /\ Len(b) = Len(m) /\ b[3] = 0 /\ b[4] = 0
      /\ \A j \in 1..Len(m) : j # 3 /\ j # 4 => b[j] = m[j]
  BY BlankFacts
<1>2. Sealed(m) = Put(b, 3, htons(Word - 1 - OnesSum(b)))
  BY DEF Sealed
<1> HIDE DEF b
<1>3. Len(b) >= 4
  BY <1>1
<1>4. /\ Sealed(m) \in Seq(Byte) /\ Len(Sealed(m)) = Len(b) /\ Valid(Sealed(m))
      /\ \A j \in 1..Len(b) : j # 3 /\ j # 4 => Sealed(m)[j] = b[j]
  BY <1>1, <1>2, <1>3, ChecksumMakesValid, Zenon
<1> QED
  BY <1>1, <1>4, Zenon

LEMMA SealedHeader ==
  ASSUME NEW hd, IsHeader(hd)
  PROVE  IsHeader(Sealed(hd)) /\ Valid(Sealed(hd)) /\ Sealed(hd)[1] = hd[1]
<1>1. hd \in Seq(Byte) /\ Len(hd) >= 4 /\ 1 \in 1..Len(hd)
  <2>1. PICK x \in Nat : x = hd[1] /\ x >= 1
    <3>1. hd[1] \in Byte
      BY DEF IsHeader
    <3> QED
      BY <3>1, ByteNat DEF IsHeader
  <2>2. 4 * x >= 4
    BY <2>1
  <2> QED
    BY <2>1, <2>2 DEF IsHeader
<1>2. /\ Sealed(hd) \in Seq(Byte) /\ Len(Sealed(hd)) = Len(hd) /\ Valid(Sealed(hd))
      /\ \A j \in 1..Len(hd) : j # 3 /\ j # 4 => Sealed(hd)[j] = hd[j]
  BY <1>1, SealedFacts
<1>3. Sealed(hd)[1] = hd[1]
  BY <1>1, <1>2
<1> QED
  BY <1>2, <1>3, Zenon DEF IsHeader

(* A packet of a header and a valid message is formed.                     *)
LEMMA FormedFacts ==
  ASSUME NEW hd, IsHeader(hd), NEW m \in Seq(Byte), Valid(m), Len(m) <= 2 * Word
  PROVE  /\ hd \o m \in Seq(Byte) /\ Formed(hd \o m)
         /\ icmp(hd \o m) = m /\ ipHeader(hd \o m) = hd
<1> DEFINE b == hd \o m
<1>1. /\ HasHeader(b) /\ ip_hl(b) = hd[1] /\ Len(b) = Len(hd) + Len(m)
      /\ icmp(b) = m /\ ipHeader(b) = hd
  BY WholeFacts DEF IsHeader
<1> HIDE DEF b
<1>2. PICK l \in Nat : l = 4 * ip_hl(b) /\ l = Len(hd)
  BY <1>1 DEF IsHeader
<1>3. PICK k \in Nat : k = Len(m)
  OBVIOUS
<1>4. Len(b) - 4 * ip_hl(b) <= 2 * Word
  <2>1. Len(b) = l + k /\ (l + k) - l = k
    BY <1>1, <1>2, <1>3
  <2> QED
    BY <1>2, <1>3, <2>1, Zenon
<1>5. Formed(b)
  BY <1>1, <1>4 DEF Formed, HasHeader
<1> QED
  BY <1>1, <1>5 DEF b, HasHeader

-----------------------------------------------------------------------------
(* The packet of run_ping_send.                                            *)

EchoHeader == Put(IpHeader(<< >>), 3, Stored(in_cksum(IpHeader(<< >>))))

LEMMA EchoHeaderFacts ==
  /\ EchoHeader \in Seq(Byte) /\ Len(EchoHeader) = 4 /\ EchoHeader[1] = 1
  /\ IsHeader(EchoHeader) /\ Valid(EchoHeader)
<1> DEFINE hd == IpHeader(<< >>)
<1>1. hd = <<1, 0, 0, 0>>
  <2>1. Len(<< >>) = 0 /\ 1 + 0 \div 4 = 1 /\ <<1, 0, 0, 0>> \o << >> = <<1, 0, 0, 0>>
    OBVIOUS
  <2> QED
    BY <2>1 DEF IpHeader
<1> HIDE DEF hd
<1>2. hd \in Seq(Byte) /\ Len(hd) = 4 /\ hd[1] = 1 /\ hd[3] = 0 /\ hd[4] = 0
  BY <1>1, ByteFacts
<1>3. Len(hd) <= 2 * Word
  BY <1>2, ByteFacts
<1>4. Stored(in_cksum(hd)) = htons(Word - 1 - OnesSum(hd))
  BY <1>2, <1>3, Fits, CksumOf
<1>5. EchoHeader = Put(hd, 3, htons(Word - 1 - OnesSum(hd)))
  BY <1>4 DEF EchoHeader, hd
<1>6. Len(hd) >= 4
  BY <1>2
<1>7. /\ EchoHeader \in Seq(Byte) /\ Len(EchoHeader) = Len(hd) /\ Valid(EchoHeader)
      /\ \A j \in 1..Len(hd) : j # 3 /\ j # 4 => EchoHeader[j] = hd[j]
  BY <1>2, <1>5, <1>6, ChecksumMakesValid, Zenon
<1>8. EchoHeader[1] = 1
  BY <1>2, <1>7
<1> QED
  BY <1>2, <1>7, <1>8 DEF IsHeader

LEMMA Longer ==
  ASSUME NEW hd, NEW s \in Seq(Byte), Len(s) >= 4, \A j \in 1..4 : s[j] = hd[j],
         NEW t \in Seq(Byte)
  PROVE  /\ s \o t \in Seq(Byte) /\ Len(s \o t) = Len(s) + Len(t) /\ Len(s \o t) >= 4
         /\ \A j \in 1..4 : (s \o t)[j] = hd[j]
<1>1. /\ s \o t \in Seq(Byte) /\ Len(s \o t) = Len(s) + Len(t)
      /\ \A j \in 1..Len(s) : (s \o t)[j] = s[j]
  BY JoinFacts
<1>2. PICK k \in Nat, l \in Nat : k = Len(s) /\ l = Len(t) /\ k >= 4
  OBVIOUS
<1>3. k + l >= 4 /\ \A j \in 1..4 : j \in 1..k
  BY <1>2
<1> QED
  BY <1>1, <1>2, <1>3, Zenon

(* The packet before the loop.                                             *)
LEMMA EchoPacketFacts ==
  /\ EchoPacket \in Seq(Byte) /\ Len(EchoPacket) = 12 + Len(ICMP_ECHO_DATA)
  /\ ip_hl(EchoPacket) = 1 /\ Valid(ipHeader(EchoPacket))
<1> DEFINE a == <<ICMP_ECHO, 0, 0, 0>>
           b == htons(ICMP_ID)
           c == <<0, 0>>
           s1 == EchoHeader \o a
           s2 == s1 \o b
           s3 == s2 \o c
           s4 == s3 \o ICMP_ECHO_DATA
<1>1. a \in Seq(Byte) /\ Len(a) = 4
  BY PingAssumption, ByteFacts
<1>2. b \in Seq(Byte) /\ Len(b) = 2
  <2>1. b[1] \in Byte /\ b[2] \in Byte /\ b = <<b[1], b[2]>>
    BY PingAssumption, HtonsFacts DEF htons
  <2> HIDE DEF b
  <2>2. <<b[1], b[2]>> \in Seq(Byte) /\ Len(<<b[1], b[2]>>) = 2
    BY <2>1
  <2> QED
    BY <2>1, <2>2, Zenon
<1>3. c \in Seq(Byte) /\ Len(c) = 2
  BY ByteFacts
<1>4. ICMP_ECHO_DATA \in Seq(Byte)
  BY PingAssumption
<1>5. EchoPacket = s4
  BY DEF EchoPacket, EchoHeader
<1> HIDE DEF a, b, c
<1>6. /\ s1 \in Seq(Byte) /\ Len(s1) = 8 /\ Len(s1) >= 4
      /\ \A j \in 1..4 : s1[j] = EchoHeader[j]
  <2>1. Len(EchoHeader) >= 4 /\ 4 + 4 = 8
    BY EchoHeaderFacts
  <2>2. /\ s1 \in Seq(Byte) /\ Len(s1) = Len(EchoHeader) + Len(a) /\ Len(s1) >= 4
        /\ \A j \in 1..4 : s1[j] = EchoHeader[j]
    BY <1>1, <2>1, EchoHeaderFacts, Longer, Zenon
  <2> QED
    BY <1>1, <2>1, <2>2, EchoHeaderFacts, Zenon
<1> HIDE DEF s1
<1>7. /\ s2 \in Seq(Byte) /\ Len(s2) = Len(s1) + Len(b) /\ Len(s2) >= 4
      /\ \A j \in 1..4 : s2[j] = EchoHeader[j]
  BY <1>2, <1>6, Longer, Zenon
<1> HIDE DEF s2
<1>8. /\ s3 \in Seq(Byte) /\ Len(s3) = Len(s2) + Len(c) /\ Len(s3) >= 4
      /\ \A j \in 1..4 : s3[j] = EchoHeader[j]
  BY <1>3, <1>7, Longer, Zenon
<1> HIDE DEF s3
<1>9. /\ s4 \in Seq(Byte) /\ Len(s4) = Len(s3) + Len(ICMP_ECHO_DATA) /\ Len(s4) >= 4
      /\ \A j \in 1..4 : s4[j] = EchoHeader[j]
  BY <1>4, <1>8, Longer, Zenon
<1> HIDE DEF s4
<1>10. Len(s3) = 12
  BY ONLY <1>2, <1>3, <1>6, <1>7, <1>8
<1>11. ip_hl(s4) = 1
  BY <1>9, EchoHeaderFacts DEF ip_hl
<1>12. ipHeader(s4) = EchoHeader
  <2>1. HasHeader(s4)
    BY <1>9, <1>11 DEF HasHeader
  <2>2. /\ ipHeader(s4) \in Seq(Byte) /\ Len(ipHeader(s4)) = 4
        /\ \A j \in 1..4 : ipHeader(s4)[j] = s4[j]
    BY <1>11, <2>1, PartFacts, 4 * 1 = 4
  <2> QED
    BY <1>9, <2>2, EchoHeaderFacts, SameSeq, Zenon
<1> QED
  BY <1>5, <1>9, <1>10, <1>11, <1>12, EchoHeaderFacts

\* What an iteration leaves of the packet for the next one.
PacketOK ==
  /\ packet \in Seq(Byte) /\ Len(packet) = Len(EchoPacket)
  /\ ip_hl(packet) = 1 /\ Valid(ipHeader(packet))

LEMMA PacketParts ==
  ASSUME PacketOK
  PROVE  /\ HasHeader(packet)
         /\ icmp(packet) \in Seq(Byte) /\ Len(icmp(packet)) = 8 + Len(ICMP_ECHO_DATA)
         /\ ipHeader(packet) = SubSeq(packet, 1, 4 * ip_hl(packet))
         /\ IsHeader(ipHeader(packet)) /\ ipHeader(packet)[1] = 1 /\ Len(ipHeader(packet)) = 4
<1>1. PICK d \in Nat : d = Len(ICMP_ECHO_DATA)
  BY PingAssumption
<1>2. packet \in Seq(Byte) /\ Len(packet) = 12 + d /\ ip_hl(packet) = 1
  BY <1>1, EchoPacketFacts DEF PacketOK
<1>3. HasHeader(packet)
  BY <1>2 DEF HasHeader
<1>4. /\ icmp(packet) \in Seq(Byte) /\ Len(icmp(packet)) = Len(packet) - 4 * ip_hl(packet)
      /\ ipHeader(packet) \in Seq(Byte) /\ Len(ipHeader(packet)) = 4 * ip_hl(packet)
      /\ \A j \in 1..(4 * ip_hl(packet)) : ipHeader(packet)[j] = packet[j]
  BY <1>3, PartFacts, Zenon
<1>5. 4 * ip_hl(packet) = 4 /\ Len(packet) - 4 = 8 + d /\ 1 \in 1..4
  BY <1>2
<1>6. ipHeader(packet)[1] = 1
  BY <1>2, <1>4, <1>5 DEF ip_hl
<1>7. IsHeader(ipHeader(packet))
  BY <1>4, <1>5, <1>6 DEF IsHeader
<1> QED
  BY <1>1, <1>3, <1>4, <1>5, <1>6, <1>7 DEF ipHeader

(* The message of an iteration: valid, and with its number.                *)
LEMMA EchoFacts ==
  ASSUME PacketOK, NEW n \in 0..(Word - 1)
  PROVE  /\ Echo(n) \in Seq(Byte) /\ Len(Echo(n)) = 8 + Len(ICMP_ECHO_DATA)
         /\ Valid(Echo(n)) /\ SubSeq(Echo(n), 7, 8) = htons(n)
<1>1. PICK d \in Nat : d = Len(ICMP_ECHO_DATA) /\ 8 + d <= 2 * Word
  BY PingAssumption DEF ICMP_MINLEN
<1> DEFINE m == icmp(packet)
           x == Put(m, 7, htons(n))
           y == Put(x, 3, <<0, 0>>)
<1>2. m \in Seq(Byte) /\ Len(m) = 8 + d
  BY <1>1, PacketParts
<1>3. Echo(n) = Put(y, 3, Stored(in_cksum(y)))
  BY DEF Echo
<1> HIDE DEF m
<1>4. htons(n)[1] \in Byte /\ htons(n)[2] \in Byte /\ 7 \in 1..((8 + d) - 1) /\ 7 + 1 = 8
  BY HtonsFacts
<1>5. x \in Seq(Byte) /\ Len(x) = 8 + d /\ x[7] = htons(n)[1] /\ x[8] = htons(n)[2]
  <2>1. 7 \in 1..(Len(m) - 1)
    BY <1>2, <1>4
  <2>2. /\ x \in Seq(Byte) /\ Len(x) = Len(m)
        /\ x[7] = htons(n)[1] /\ x[7 + 1] = htons(n)[2]
    <3>1. PICK i \in 1..(Len(m) - 1) : i = 7
      BY <2>1
    <3>2. /\ Put(m, i, htons(n)) \in Seq(Byte) /\ Len(Put(m, i, htons(n))) = Len(m)
          /\ Put(m, i, htons(n))[i] = htons(n)[1] /\ Put(m, i, htons(n))[i + 1] = htons(n)[2]
      BY <1>2, <1>4, PutFacts
    <3> QED
      BY <3>1, <3>2
  <2> QED
    BY <1>2, <1>4, <2>2
<1> HIDE DEF x
<1>6. 8 + d >= 4 /\ 7 \in 1..(8 + d) /\ 8 \in 1..(8 + d) /\ 7 # 3 /\ 7 # 4 /\ 8 # 3 /\ 8 # 4
  OBVIOUS
<1>7. /\ y \in Seq(Byte) /\ Len(y) = 8 + d /\ y[3] = 0 /\ y[4] = 0
      /\ y[7] = htons(n)[1] /\ y[8] = htons(n)[2]
  <2>1. /\ y \in Seq(Byte) /\ Len(y) = Len(x) /\ y[3] = 0 /\ y[4] = 0
        /\ \A j \in 1..Len(x) : j # 3 /\ j # 4 => y[j] = x[j]
    BY <1>5, <1>6, BlankFacts
  <2> HIDE DEF y
  <2> QED
    BY <1>5, <1>6, <2>1
<1> HIDE DEF y
<1>8. Stored(in_cksum(y)) = htons(Word - 1 - OnesSum(y))
  BY <1>1, <1>7, Fits, CksumOf
<1>9. Len(y) >= 4
  BY <1>6, <1>7
<1>10. /\ Echo(n) \in Seq(Byte) /\ Len(Echo(n)) = Len(y) /\ Valid(Echo(n))
       /\ \A j \in 1..Len(y) : j # 3 /\ j # 4 => Echo(n)[j] = y[j]
  BY <1>3, <1>7, <1>8, <1>9, ChecksumMakesValid, Zenon
<1>11. Echo(n)[7] = htons(n)[1] /\ Echo(n)[8] = htons(n)[2]
  BY <1>6, <1>7, <1>10
<1>12. SubSeq(Echo(n), 7, 8) = htons(n)
  <2>1. PICK e \in Seq(Byte) : e = Echo(n) /\ Len(e) = 8 + d
    BY <1>7, <1>10
  <2>2. SubSeq(e, 7, 8) = <<e[7], e[8]>>
    <3>1. PICK l \in Nat : l = Len(e) /\ 7 \in 1..l /\ 8 \in 1..l
      BY <1>6, <2>1
    <3>2. /\ Len(SubSeq(e, 7, 8)) = 2 /\ SubSeq(e, 7, 8) \in Seq(Byte)
          /\ SubSeq(e, 7, 8)[1] = e[7] /\ SubSeq(e, 7, 8)[2] = e[8]
      BY <3>1
    <3>3. e[7] \in Byte /\ e[8] \in Byte
      BY <3>1
    <3>4. PICK t \in Seq(Byte) : t = SubSeq(e, 7, 8) /\ Len(t) = 2 /\ t[1] = e[7] /\ t[2] = e[8]
      BY <3>2
    <3>5. /\ <<e[7], e[8]>> \in Seq(Byte) /\ Len(<<e[7], e[8]>>) = 2
          /\ <<e[7], e[8]>>[1] = e[7] /\ <<e[7], e[8]>>[2] = e[8]
      BY <3>3
    <3>6. \A j \in 1..2 : j = 1 \/ j = 2
      OBVIOUS
    <3>7. t = <<e[7], e[8]>>
      BY <3>4, <3>5, <3>6, SameSeq, Zenon
    <3> QED
      BY <3>4, <3>7
  <2>3. htons(n) = <<htons(n)[1], htons(n)[2]>>
    BY DEF htons
  <2> QED
    BY <1>11, <2>1, <2>2, <2>3
<1> QED
  BY <1>1, <1>7, <1>10, <1>12

(* The packet of an iteration.                                             *)
LEMMA NextPacketFacts ==
  ASSUME PacketOK, seq \in 0..(Word - 1)
  PROVE  /\ NextPacket \in Seq(Byte) /\ Len(NextPacket) = Len(EchoPacket)
         /\ ip_hl(NextPacket) = 1 /\ ipHeader(NextPacket) = ipHeader(packet)
         /\ icmp(NextPacket) = Echo(seq) /\ Formed(NextPacket)
<1>1. PICK d \in Nat : d = Len(ICMP_ECHO_DATA) /\ 8 + d <= 2 * Word
  BY PingAssumption DEF ICMP_MINLEN
<1> DEFINE hd == ipHeader(packet)
           e == Echo(seq)
<1>2. hd = SubSeq(packet, 1, 4 * ip_hl(packet)) /\ IsHeader(hd) /\ hd[1] = 1 /\ Len(hd) = 4
  BY PacketParts
<1>3. e \in Seq(Byte) /\ Len(e) = 8 + d /\ Valid(e)
  BY <1>1, EchoFacts
<1>4. NextPacket = hd \o e
  BY <1>2 DEF NextPacket
<1> HIDE DEF hd, e
<1>5. Len(e) <= 2 * Word
  BY <1>1, <1>3
<1>6. hd \o e \in Seq(Byte) /\ Formed(hd \o e) /\ icmp(hd \o e) = e /\ ipHeader(hd \o e) = hd
  BY <1>2, <1>3, <1>5, FormedFacts, Zenon
<1>7. ip_hl(hd \o e) = hd[1] /\ Len(hd \o e) = Len(hd) + Len(e)
  <2>1. hd \in Seq(Byte) /\ Len(hd) > 0 /\ hd[1] >= 1 /\ Len(hd) = 4 * hd[1]
    BY <1>2, Zenon DEF IsHeader
  <2> QED
    BY ONLY <1>3, <2>1, WholeFacts
<1>8. Len(hd) + Len(e) = Len(EchoPacket)
  <2>1. Len(hd) + Len(e) = 4 + (8 + d) /\ Len(EchoPacket) = 12 + d
    BY <1>1, <1>2, <1>3, EchoPacketFacts, Zenon
  <2> QED
    BY <2>1
<1> QED
  BY <1>2, <1>4, <1>6, <1>7, <1>8, Zenon DEF hd, e

LEMMA CountFacts ==
  ASSUME NEW n \in 0..(Word - 1)
  PROVE  Count(n) \in 0..(Word - 1) /\ (Count(n) + Word - 1) % Word = n
<1>1. PICK w \in Nat : w = Word /\ w > 8
  BY WordNat
<1>2. CASE n = w - 1
  <2>1. (n + 1) = 1 * w + 0 /\ 0 + w - 1 = 0 * w + (w - 1)
    BY <1>1, <1>2
  <2>2. (n + 1) % w = 0
    BY <1>1, <2>1, DivIs
  <2>3. (0 + w - 1) % w = w - 1
    BY <1>1, <2>1, DivIs
  <2> QED
    BY <1>1, <1>2, <2>2, <2>3 DEF Count
<1>3. CASE n < w - 1
  <2>1. n + 1 = 0 * w + (n + 1) /\ (n + 1) + w - 1 = 1 * w + n /\ n + 1 \in 0..(w - 1)
    BY <1>1, <1>3
  <2>2. (n + 1) % w = n + 1
    BY <1>1, <2>1, DivIs
  <2>3. ((n + 1) + w - 1) % w = n
    BY <1>1, <2>1, DivIs
  <2> QED
    BY <1>1, <2>1, <2>2, <2>3 DEF Count
<1> QED
  BY <1>1, <1>2, <1>3

-----------------------------------------------------------------------------
(* What travels, and what run_ping_recv makes of it.                       *)

LEMMA SentFacts ==
  ASSUME NEW b \in Seq(Byte), Formed(b)
  PROVE  /\ HasHeader(b) /\ icmp(b) \in Seq(Byte) /\ Len(icmp(b)) = Len(b) - 4 * ip_hl(b)
         /\ Len(icmp(b)) <= 2 * Word /\ Valid(icmp(b))
<1>1. ip_hl(b) \in Nat
  <2>1. b[1] \in Byte
    BY DEF Formed
  <2> QED
    BY <2>1, ByteNat DEF ip_hl
<1>2. HasHeader(b)
  BY <1>1 DEF HasHeader, Formed
<1>3. icmp(b) \in Seq(Byte) /\ Len(icmp(b)) = Len(b) - 4 * ip_hl(b)
  BY <1>2, PartFacts, Zenon
<1> QED
  BY <1>2, <1>3, Zenon DEF Formed

\* What arrived is what was sent, or a byte of its message changed.
Arrived(now, sent) ==
  \/ now = sent
  \/ \E i \in Nat, v \in Byte : i > 4 * ip_hl(sent) /\ Changed(now, sent, i, v)

(* A message is valid when it arrives exactly if nothing of it changed.    *)
LEMMA ArrivedFacts ==
  ASSUME NEW s \in Seq(Byte), Formed(s), NEW b, Arrived(b, s)
  PROVE  /\ HasHeader(b) /\ icmp(b) \in Seq(Byte) /\ Len(icmp(b)) <= 2 * Word
         /\ Valid(icmp(b)) <=> b = s
<1>1. /\ HasHeader(s) /\ icmp(s) \in Seq(Byte) /\ Len(icmp(s)) = Len(s) - 4 * ip_hl(s)
      /\ Len(icmp(s)) <= 2 * Word /\ Valid(icmp(s))
  BY SentFacts
<1>2. CASE b = s
  BY <1>1, <1>2
<1>3. CASE b # s
  <2>1. PICK i \in Nat, v \in Byte : i > 4 * ip_hl(s) /\ Changed(b, s, i, v)
    BY <1>3 DEF Arrived
  <2>2. /\ HasHeader(b) /\ ip_hl(b) = ip_hl(s) /\ Len(b) = Len(s)
        /\ Changed(icmp(b), icmp(s), i - 4 * ip_hl(s), v)
    BY <1>1, <2>1, ChangedPart, Zenon
  <2>3. ~Valid(icmp(b))
    <3>1. PICK k : k = i - 4 * ip_hl(s)
      OBVIOUS
    <3>2. k \in 1..Len(icmp(s)) /\ v # icmp(s)[k] /\ icmp(b) = [icmp(s) EXCEPT ![k] = v]
      BY <2>2, <3>1 DEF Changed
    <3> QED
      BY <1>1, <3>2, ChangedByte
  <2>4. icmp(b) \in Seq(Byte) /\ Len(icmp(b)) = Len(b) - 4 * ip_hl(b)
    BY <2>2, PartFacts, Zenon
  <2> QED
    BY <1>1, <1>3, <2>2, <2>3, <2>4, Zenon
<1> QED
  BY <1>2, <1>3

(* What is shown: the answers to this program's requests that are valid.   *)
LEMMA JudgeFacts ==
  ASSUME NEW b, HasHeader(b), Len(icmp(b)) <= 2 * Word
  PROVE  /\ Judge(b) \in {"small", "not-ping", "other", "corrupt", "shown"}
         /\ Judge(b) = "shown" <=>
              /\ Len(icmp(b)) >= ICMP_MINLEN /\ icmp(b)[1] = ICMP_ECHOREPLY
              /\ SubSeq(icmp(b), 5, 6) = htons(ICMP_ID) /\ Valid(icmp(b))
<1>1. icmp(b) \in Seq(Byte) /\ Len(icmp(b)) = Len(b) - 4 * ip_hl(b)
  BY PartFacts, Zenon
<1>2. in_cksum(icmp(b)) = 0 <=> Valid(icmp(b))
  BY <1>1, Fits, CksumOf
<1>3. Len(b) < 4 * ip_hl(b) + ICMP_MINLEN <=> ~(Len(icmp(b)) >= ICMP_MINLEN)
  <2>1. PICK n \in Nat, q \in Nat : n = Len(b) /\ q = 4 * ip_hl(b)
    BY DEF HasHeader
  <2>2. n < q + 8 <=> ~(n - q >= 8)
    OBVIOUS
  <2> QED
    BY <1>1, <2>1, <2>2 DEF ICMP_MINLEN
<1> QED
  BY <1>2, <1>3 DEF Judge

-----------------------------------------------------------------------------
(* The invariant, by its parts.                                            *)

Sent(p) == p \in [to : {"target", "host"}, sent : Seq(Byte), now : Seq(Byte)]
GoodPacket(p) == Sent(p) /\ Formed(p.sent) /\ Arrived(p.now, p.sent)
GoodNet(S) == IsFiniteSet(S) /\ Cardinality(S) <= Capacity /\ \A p \in S : GoodPacket(p)

SendPart ==
  /\ sending \in BOOLEAN /\ receiving \in BOOLEAN /\ seq \in 0..(Word - 1)
  /\ PacketOK
  /\ packet # EchoPacket => /\ Valid(icmp(packet))
                            /\ SubSeq(icmp(packet), 7, 8) = htons((seq + Word - 1) % Word)

ReadPart ==
  /\ verdict.what \in {"none", "small", "not-ping", "other", "corrupt", "shown"}
  /\ ShowsOnlyIntact /\ ShowsEveryAnswer

LEMMA ArrivedIs ==
  ASSUME NEW p, Sent(p)
  PROVE  p.now = p.sent \/ OneByteOff(p) <=> Arrived(p.now, p.sent)
<1>1. p.sent \in Seq(Byte) /\ DOMAIN p.sent = 1..Len(p.sent)
  BY DEF Sent
<1>2. ASSUME OneByteOff(p) PROVE Arrived(p.now, p.sent)
  <2>1. PICK i \in DOMAIN p.sent, v \in Byte :
          i > 4 * ip_hl(p.sent) /\ v # p.sent[i] /\ p.now = [p.sent EXCEPT ![i] = v]
    BY <1>2 DEF OneByteOff
  <2>2. i \in Nat /\ Changed(p.now, p.sent, i, v)
    BY <1>1, <2>1 DEF Changed
  <2> QED
    BY <2>1, <2>2 DEF Arrived
<1>3. ASSUME Arrived(p.now, p.sent), p.now # p.sent PROVE OneByteOff(p)
  <2>1. PICK i \in Nat, v \in Byte : i > 4 * ip_hl(p.sent) /\ Changed(p.now, p.sent, i, v)
    BY <1>3 DEF Arrived
  <2> QED
    BY <1>1, <2>1 DEF Changed, OneByteOff
<1> QED
  BY <1>2, <1>3 DEF Arrived

LEMMA Parts == TypeOK /\ PingInv <=> SendPart /\ GoodNet(net) /\ ReadPart
<1>1. /\ net \subseteq [to : {"target", "host"}, sent : Seq(Byte), now : Seq(Byte)]
      /\ Cardinality(net) <= Capacity /\ NetInv
      <=> GoodNet(net)
  BY ArrivedIs DEF NetInv, GoodNet, GoodPacket, Sent
<1> QED
  BY <1>1 DEF TypeOK, PingInv, RequestsValid, SendPart, PacketOK, ReadPart

LEMMA NetAdds ==
  ASSUME NEW S, GoodNet(S), Cardinality(S) < Capacity, NEW p, GoodPacket(p)
  PROVE  GoodNet(S \cup {p})
<1>1. Cardinality(S) \in Nat /\ Capacity \in Nat
  BY FS_CardinalityType, PingAssumption DEF GoodNet
<1>2. /\ IsFiniteSet(S \cup {p})
      /\ Cardinality(S \cup {p}) = IF p \in S THEN Cardinality(S) ELSE Cardinality(S) + 1
  BY FS_AddElement DEF GoodNet
<1>3. Cardinality(S \cup {p}) <= Capacity
  BY <1>1, <1>2
<1> QED
  BY <1>2, <1>3 DEF GoodNet

LEMMA NetLoses ==
  ASSUME NEW S, GoodNet(S), NEW p
  PROVE  GoodNet(S \ {p}) /\ (p \in S => Cardinality(S \ {p}) < Capacity)
<1>1. Cardinality(S) \in Nat /\ Capacity \in Nat /\ Cardinality(S) <= Capacity
  BY FS_CardinalityType, PingAssumption DEF GoodNet
<1>2. /\ IsFiniteSet(S \ {p})
      /\ Cardinality(S \ {p}) = IF p \in S THEN Cardinality(S) - 1 ELSE Cardinality(S)
  BY FS_RemoveElement DEF GoodNet
<1>3. Cardinality(S \ {p}) <= Capacity /\ (p \in S => Cardinality(S \ {p}) < Capacity)
  BY <1>1, <1>2
<1> QED
  BY <1>2, <1>3 DEF GoodNet

LEMMA TravelsFacts ==
  ASSUME NEW where \in {"target", "host"}, NEW b \in Seq(Byte), Formed(b)
  PROVE  GoodPacket(Travels(where, b))
  BY DEF GoodPacket, Sent, Arrived, Travels

LEMMA Silent == verdict' = Unread => ReadPart'
  BY DEF Unread, ReadPart, ShowsOnlyIntact, ShowsEveryAnswer, FitsBuffer

-----------------------------------------------------------------------------
(* The steps.                                                              *)

LEMMA InitParts == Init => SendPart /\ GoodNet(net) /\ ReadPart
<1> SUFFICES ASSUME Init PROVE SendPart /\ GoodNet(net) /\ ReadPart
  OBVIOUS
<1>1. PacketOK
  BY EchoPacketFacts DEF Init, PacketOK
<1>2. SendPart
  BY <1>1, ByteFacts DEF Init, SendPart
<1>3. GoodNet(net)
  BY FS_EmptySet, PingAssumption DEF Init, GoodNet
<1>4. ReadPart
  BY DEF Init, Unread, ReadPart, ShowsOnlyIntact, ShowsEveryAnswer, FitsBuffer
<1> QED
  BY <1>2, <1>3, <1>4

(* The packet of an iteration is ready for the next one.                   *)
LEMMA NextSendPart ==
  ASSUME SendPart, packet' = NextPacket, seq' = Count(seq), sending' \in BOOLEAN,
         receiving' \in BOOLEAN
  PROVE  SendPart'
<1>1. PacketOK /\ seq \in 0..(Word - 1)
  BY DEF SendPart
<1>2. /\ NextPacket \in Seq(Byte) /\ Len(NextPacket) = Len(EchoPacket)
      /\ ip_hl(NextPacket) = 1 /\ ipHeader(NextPacket) = ipHeader(packet)
      /\ icmp(NextPacket) = Echo(seq)
  BY <1>1, NextPacketFacts
<1>3. Valid(Echo(seq)) /\ SubSeq(Echo(seq), 7, 8) = htons(seq)
  BY <1>1, EchoFacts
<1>4. seq' \in 0..(Word - 1) /\ (seq' + Word - 1) % Word = seq
  BY <1>1, CountFacts
<1>5. PacketOK'
  BY <1>1, <1>2 DEF PacketOK, ip_hl, ipHeader
<1>6. Valid(icmp(packet')) /\ SubSeq(icmp(packet'), 7, 8) = htons((seq' + Word - 1) % Word)
  BY <1>2, <1>3, <1>4
<1> QED
  BY <1>4, <1>5, <1>6 DEF SendPart

LEMMA SendKeeps ==
  ASSUME SendPart, GoodNet(net), Send
  PROVE  SendPart' /\ GoodNet(net')
<1>1. NextPacket \in Seq(Byte) /\ Formed(NextPacket)
  BY NextPacketFacts DEF SendPart
<1>2. GoodPacket(Travels("target", NextPacket))
  BY <1>1, TravelsFacts
<1>3. GoodNet(net')
  BY <1>2, NetAdds DEF Send, send_frame, Emit
<1>4. SendPart'
  BY NextSendPart DEF Send, SendPart
<1> QED
  BY <1>3, <1>4

LEMMA OtherKeeps ==
  ASSUME GoodNet(net), NEW where \in {"target", "host"}, NEW m \in Foreign, NEW o \in Options,
         Other(where, m, o)
  PROVE  GoodNet(net')
<1>1. m \in Seq(Byte) /\ Len(m) >= 4 /\ Len(m) <= 2 * Word
  BY PingAssumption
<1>2. o \in Seq(Byte) /\ Len(o) % 4 = 0 /\ Len(o) \div 4 < Base - 1
  BY PingAssumption
<1>3. IsHeader(Sealed(IpHeader(o)))
  BY <1>2, HeaderFacts, SealedHeader
<1>4. Sealed(m) \in Seq(Byte) /\ Len(Sealed(m)) = Len(m) /\ Valid(Sealed(m))
  BY <1>1, SealedFacts
<1>5. Len(Sealed(m)) <= 2 * Word
  BY <1>1, <1>4
<1> DEFINE b == Sealed(IpHeader(o)) \o Sealed(m)
<1>6. b \in Seq(Byte) /\ Formed(b)
  BY <1>3, <1>4, <1>5, FormedFacts
<1> HIDE DEF b
<1>7. GoodPacket(Travels(where, b))
  BY <1>6, TravelsFacts
<1> QED
  BY <1>7, NetAdds DEF Other, b

(* The answer of the target is formed: it keeps the header and the length  *)
(* of a valid request.                                                     *)
LEMMA ReplyFormed ==
  ASSUME NEW p, GoodPacket(p), Len(icmp(p.now)) >= ICMP_MINLEN,
         NEW b, b = ipHeader(p.now) \o Sealed([icmp(p.now) EXCEPT ![1] = ICMP_ECHOREPLY])
  PROVE  b \in Seq(Byte) /\ Formed(b)
<1>1. /\ HasHeader(p.now) /\ icmp(p.now) \in Seq(Byte) /\ Len(icmp(p.now)) <= 2 * Word
  BY ArrivedFacts DEF GoodPacket, Sent
<1>2. IsHeader(ipHeader(p.now))
  <2>1. /\ ipHeader(p.now) \in Seq(Byte) /\ Len(ipHeader(p.now)) = 4 * ip_hl(p.now)
        /\ \A j \in 1..(4 * ip_hl(p.now)) : ipHeader(p.now)[j] = p.now[j]
    BY <1>1, PartFacts, Zenon
  <2>2. PICK h \in Nat : h = ip_hl(p.now) /\ h >= 1
    BY <1>1 DEF HasHeader
  <2>3. 4 * h > 0 /\ 1 \in 1..(4 * h)
    BY <2>2
  <2>4. ipHeader(p.now)[1] = h
    BY <2>1, <2>2, <2>3, Zenon DEF ip_hl
  <2> QED
    BY <2>1, <2>2, <2>3, <2>4 DEF IsHeader
<1> DEFINE m == [icmp(p.now) EXCEPT ![1] = ICMP_ECHOREPLY]
<1>3. m \in Seq(Byte) /\ Len(m) = Len(icmp(p.now)) /\ Len(m) >= 4
  BY <1>1, PingAssumption DEF ICMP_MINLEN
<1>4. b = ipHeader(p.now) \o Sealed(m)
  OBVIOUS
<1> HIDE DEF m
<1>5. Sealed(m) \in Seq(Byte) /\ Len(Sealed(m)) = Len(m) /\ Valid(Sealed(m))
  BY <1>3, SealedFacts
<1>6. Len(Sealed(m)) <= 2 * Word
  BY <1>1, <1>3, <1>5
<1> QED
  BY <1>2, <1>4, <1>5, <1>6, FormedFacts

LEMMA AfterKeeps ==
  ASSUME GoodNet(net), NEW p, NEW rest \in After(p)
  PROVE  GoodNet(rest)
  BY NetLoses DEF After

LEMMA TargetKeeps ==
  ASSUME GoodNet(net), NEW p \in net, Target(p)
  PROVE  GoodNet(net')
<1> DEFINE b == ipHeader(p.now) \o Sealed([icmp(p.now) EXCEPT ![1] = ICMP_ECHOREPLY])
           answers == /\ Valid(ipHeader(p.now)) /\ Valid(icmp(p.now))
                      /\ Len(icmp(p.now)) >= ICMP_MINLEN /\ icmp(p.now)[1] = ICMP_ECHO
<1>1. PICK rest \in After(p) :
        net' = IF answers /\ Cardinality(rest) < Capacity
               THEN rest \cup {Travels("host", b)} ELSE rest
  BY DEF Target
<1>2. GoodNet(rest)
  BY AfterKeeps
<1>3. ASSUME answers PROVE GoodPacket(Travels("host", b))
  <2>1. GoodPacket(p)
    BY DEF GoodNet
  <2>2. b \in Seq(Byte) /\ Formed(b)
    BY <1>3, <2>1, ReplyFormed
  <2> HIDE DEF b
  <2> QED
    BY <2>2, TravelsFacts
<1> QED
  BY <1>1, <1>2, <1>3, NetAdds

LEMMA CorruptKeeps ==
  ASSUME GoodNet(net), NEW p \in net, NEW i \in DOMAIN p.now, NEW v \in Byte, Corrupt(p, i, v)
  PROVE  GoodNet(net')
<1> DEFINE o == [p EXCEPT !.now[i] = v]
<1>1. GoodPacket(p) /\ p.now = p.sent /\ i > 4 * ip_hl(p.now) /\ v # p.now[i]
  BY DEF GoodNet, Corrupt
<1>2. p.sent \in Seq(Byte) /\ DOMAIN p.sent = 1..Len(p.sent) /\ i \in 1..Len(p.sent)
  BY <1>1 DEF GoodPacket, Sent
<1>3. o.to = p.to /\ o.sent = p.sent /\ o.now = [p.sent EXCEPT ![i] = v] /\ Sent(o)
  <2>1. PICK c \in Seq(Byte) : c = [p.sent EXCEPT ![i] = v]
    <3>1. [p.sent EXCEPT ![i] = v] \in Seq(Byte)
      BY <1>2
    <3> QED
      BY <3>1
  <2>2. o = [p EXCEPT !.now = c]
    BY <1>1, <2>1
  <2>3. Sent(p)
    BY <1>1 DEF GoodPacket
  <2> HIDE DEF o
  <2>4. o.to = p.to /\ o.sent = p.sent /\ o.now = c /\ Sent(o)
    BY <2>2, <2>3 DEF Sent
  <2> QED
    BY <2>1, <2>4
<1>4. net' = (net \ {p}) \cup {o}
  BY DEF Corrupt
<1> HIDE DEF o
<1>5. Arrived(o.now, o.sent)
  <2>1. i \in Nat /\ i > 4 * ip_hl(p.sent) /\ Changed(o.now, p.sent, i, v)
    BY <1>1, <1>2, <1>3 DEF Changed
  <2> QED
    BY <1>3, <2>1 DEF Arrived
<1>6. GoodPacket(o)
  BY <1>1, <1>3, <1>5 DEF GoodPacket
<1> QED
  BY <1>4, <1>6, NetLoses, NetAdds

(* Of the packets that fit its buffer, run_ping_recv shows the answers     *)
(* that arrive unchanged, and nothing else.                                *)
LEMMA ReceiveKeeps ==
  ASSUME GoodNet(net), NEW p \in net, Receive(p)
  PROVE  ReadPart'
<1>1. GoodPacket(p) /\ verdict' = [of |-> p, what |-> Judge(Read(p.now))]
  BY DEF GoodNet, Receive
<1>2. p.sent \in Seq(Byte) /\ Formed(p.sent) /\ Arrived(p.now, p.sent)
  BY <1>1 DEF GoodPacket, Sent
<1>3. /\ HasHeader(p.now) /\ Len(icmp(p.now)) <= 2 * Word
      /\ Valid(icmp(p.now)) <=> p.now = p.sent
  BY <1>2, ArrivedFacts
<1>4. /\ Judge(p.now) = "shown" <=>
           /\ Len(icmp(p.now)) >= ICMP_MINLEN /\ icmp(p.now)[1] = ICMP_ECHOREPLY
           /\ SubSeq(icmp(p.now), 5, 6) = htons(ICMP_ID) /\ Valid(icmp(p.now))
  BY <1>3, JudgeFacts
<1>5. /\ verdict'.of = p /\ verdict'.what \in {"small", "not-ping", "other", "corrupt", "shown"}
      /\ FitsBuffer(p.now) => verdict'.what = Judge(p.now)
  <2>1. verdict'.of = p /\ verdict'.what = Judge(Read(p.now))
    BY <1>1
  <2> QED
    BY <2>1 DEF Judge, Read
<1>6. ShowsOnlyIntact'
  BY <1>3, <1>4, <1>5 DEF ShowsOnlyIntact, FitsBuffer, icmp, ip_hl
<1>7. ShowsEveryAnswer'
  BY <1>3, <1>4, <1>5 DEF ShowsEveryAnswer, FitsBuffer, icmp, ip_hl
<1> QED
  BY <1>5, <1>6, <1>7 DEF ReadPart

LEMMA StepKeeps ==
  ASSUME SendPart, GoodNet(net), ReadPart, [Next]_vars
  PROVE  (SendPart /\ GoodNet(net) /\ ReadPart)'
<1>1. CASE Send
  BY <1>1, SendKeeps, Silent DEF Send
<1>2. CASE SendEnds
  <2>1. SendPart'
    BY <1>2, NextSendPart DEF SendEnds, SendPart
  <2> QED
    BY <1>2, <2>1, Silent DEF SendEnds
<1> DEFINE Same == UNCHANGED <<sending, receiving, seq, packet>>
<1>3. ASSUME Same PROVE SendPart'
  BY <1>3 DEF SendPart, PacketOK, ip_hl, ipHeader, icmp
<1>4. CASE ReceiveEnds
  <2>1. SendPart'
    BY <1>4 DEF ReceiveEnds, SendPart, PacketOK, ip_hl, ipHeader, icmp
  <2> QED
    BY <1>4, <2>1, Silent DEF ReceiveEnds
<1>5. ASSUME NEW where \in {"target", "host"}, NEW m \in Foreign, NEW o \in Options,
             Other(where, m, o)
      PROVE  (SendPart /\ GoodNet(net) /\ ReadPart)'
  BY <1>3, <1>5, OtherKeeps, Silent DEF Other
<1>6. ASSUME NEW p \in net, Receive(p) PROVE (SendPart /\ GoodNet(net) /\ ReadPart)'
  BY <1>3, <1>6, ReceiveKeeps, AfterKeeps DEF Receive
<1>7. ASSUME NEW p \in net, Target(p) PROVE (SendPart /\ GoodNet(net) /\ ReadPart)'
  BY <1>3, <1>7, TargetKeeps, Silent DEF Target
<1>8. ASSUME NEW p \in net, Lose(p) PROVE (SendPart /\ GoodNet(net) /\ ReadPart)'
  BY <1>3, <1>8, NetLoses, Silent DEF Lose
<1>9. ASSUME NEW p \in net, NEW i \in DOMAIN p.now, NEW v \in Byte, Corrupt(p, i, v)
      PROVE  (SendPart /\ GoodNet(net) /\ ReadPart)'
  BY <1>3, <1>9, CorruptKeeps, Silent DEF Corrupt
<1>10. CASE UNCHANGED vars
  <2>1. ReadPart'
    BY <1>10 DEF vars, ReadPart, ShowsOnlyIntact, ShowsEveryAnswer, FitsBuffer
  <2> QED
    BY <1>3, <1>10, <2>1 DEF vars
<1> QED
  BY <1>1, <1>2, <1>4, <1>5, <1>6, <1>7, <1>8, <1>9, <1>10 DEF Next

-----------------------------------------------------------------------------
(* The ping threads keep the types of their state and the invariant, for   *)
(* every size of a byte, every message of the others and every number of   *)
(* packets on the way.                                                     *)
THEOREM PingInvariant == Spec => [](TypeOK /\ PingInv)
<1>1. Init => SendPart /\ GoodNet(net) /\ ReadPart
  BY InitParts
<1>2. SendPart /\ GoodNet(net) /\ ReadPart /\ [Next]_vars
      => (SendPart /\ GoodNet(net) /\ ReadPart)'
  BY StepKeeps
<1>3. SendPart /\ GoodNet(net) /\ ReadPart => TypeOK /\ PingInv
  BY Parts
<1> QED
  BY <1>1, <1>2, <1>3, PTL DEF Spec

(* The type of every variable: seq stays a word, the packet keeps its      *)
(* length, and what travels are bytes, not more packets than there is room *)
(* for.                                                                    *)
THEOREM PingTypeCorrect == Spec => []TypeOK
  BY PingInvariant, PTL

(* Every request that run_ping_send makes is valid and carries the number  *)
(* after that of the one before, however often packet is used again and    *)
(* seq wraps.                                                              *)
THEOREM RequestsAlwaysValid == Spec => []RequestsValid
<1>1. PingInv => RequestsValid
  BY DEF PingInv
<1> QED
  BY <1>1, PingInvariant, PTL

(* Of the packets that fit its buffer, run_ping_recv shows none that a     *)
(* changed byte made of another, and only answers to the requests of this  *)
(* program.                                                                *)
THEOREM NothingCorruptIsShown == Spec => []ShowsOnlyIntact
<1>1. PingInv => ShowsOnlyIntact
  BY DEF PingInv
<1> QED
  BY <1>1, PingInvariant, PTL

(* run_ping_recv shows every answer to a request of this program that      *)
(* arrives unchanged and fits its buffer, whatever its data and its IP     *)
(* options and however large the buffer is.                                *)
THEOREM EveryAnswerIsShown == Spec => []ShowsEveryAnswer
<1>1. PingInv => ShowsEveryAnswer
  BY DEF PingInv
<1> QED
  BY <1>1, PingInvariant, PTL

(* in_cksum of every message on the way is its checksum by the definition, *)
(* of even and odd length, changed or not: the late carries and the other  *)
(* order of the bytes make no difference.                                  *)
THEOREM CksumAlwaysOnesComplement == Spec => []CksumIsOnesComplement
<1>1. TypeOK /\ PingInv => CksumIsOnesComplement
  <2> SUFFICES ASSUME GoodNet(net), NEW p \in net
               PROVE  Stored(in_cksum(icmp(p.now))) = htons(Word - 1 - OnesSum(icmp(p.now)))
    BY Parts DEF CksumIsOnesComplement
  <2>1. p.sent \in Seq(Byte) /\ Formed(p.sent) /\ Arrived(p.now, p.sent)
    BY DEF GoodNet, GoodPacket, Sent
  <2>2. icmp(p.now) \in Seq(Byte) /\ Len(icmp(p.now)) <= 2 * Word
    BY <2>1, ArrivedFacts
  <2> QED
    BY <2>2, Fits, CksumOf
<1> QED
  BY <1>1, PingInvariant, PTL
=============================================================================
