-------------------------------- MODULE Ping --------------------------------
(***************************************************************************)
(* The packets of the ping threads (ping.c): run_ping_send makes the echo  *)
(* requests, run_ping_recv reads the ICMP messages that reach the host,    *)
(* and in_cksum is the checksum of both.                                   *)
(*                                                                         *)
(* A packet is a sequence of bytes, an IP header and an ICMP message.  A   *)
(* byte has Base values, 256 in the code, so that a word of 16 bits has    *)
(* Word values and the accumulator of 32 bits Word * Word.  The host has   *)
(* the low byte of a word first in memory, the network the high one.  The  *)
(* target, the other programs and the network are not part of the code.    *)
(***************************************************************************)
EXTENDS Integers, Sequences, FiniteSets

CONSTANTS
  Base,       \* the values of a byte (256)
  ICMP_ECHO, ICMP_ECHOREPLY,
  ICMP_ID,    \* the id of this program's echo requests
  ICMP_ECHO_DATA,
  Foreign,    \* the messages of other programs, without their checksums
  Options,    \* the IP options a packet may have, a multiple of 4 bytes each
  ETH_DATA_LEN,   \* what send_frame takes at most (1500)
  ETH_FRAME_LEN,  \* the size of run_ping_recv's buffer (1514)
  Capacity    \* how many packets may be on the way

Byte == 0..(Base - 1)
Word == Base * Base
ICMP_MINLEN == 8

\* What in_cksum is ever given fits into its accumulator, for a packet is not
\* longer than the 16 bits of ip_len say; ip_hl has room for the options.
ASSUME PingAssumption ==
  /\ Base \in Nat /\ Base > 2
  /\ ICMP_ECHO \in Byte /\ ICMP_ECHOREPLY \in Byte /\ ICMP_ECHO # ICMP_ECHOREPLY
  /\ ICMP_ID \in 0..(Word - 1)
  /\ ICMP_ECHO_DATA \in Seq(Byte) /\ ICMP_MINLEN + Len(ICMP_ECHO_DATA) <= 2 * Word
  /\ Foreign \subseteq Seq(Byte) /\ \A m \in Foreign : Len(m) >= 4 /\ Len(m) <= 2 * Word
  /\ Options \subseteq Seq(Byte)
  /\ \A o \in Options : Len(o) % 4 = 0 /\ Len(o) \div 4 < Base - 1
  /\ ETH_DATA_LEN \in Nat /\ ETH_FRAME_LEN \in Nat \ {0}
  /\ Capacity \in Nat

VARIABLES
  sending,    \* the thread of run_ping_send runs
  receiving,  \* the thread of run_ping_recv runs
  seq,        \* its local variable seq
  packet,     \* its local variable packet
  net,        \* the packets on the way
  verdict     \* what run_ping_recv made of the packet it read last

vars == <<sending, receiving, seq, packet, net, verdict>>

-----------------------------------------------------------------------------
(* in_cksum                                                                *)

\* The word at bytes i and i + 1; an odd byte at the end is the low one.
WordAt(m, i) == m[i] + (IF i < Len(m) THEN m[i + 1] * Base ELSE 0)

\* The sum of the first n words, in the accumulator.
SumOf(m, n) ==
  LET sum[k \in 0..n] == IF k = 0 THEN 0 ELSE (sum[k - 1] + WordAt(m, 2 * k - 1)) % (Word * Word)
  IN  sum[n]

\* A slip: the second carry is not added.
CarryOnce(sum) == ((sum \div Word) + (sum % Word)) % Word

\* The carries are added back twice; what is left above a word is cut off.
Carry(sum) ==
  LET once == (sum \div Word) + (sum % Word)
  IN  (once + (once \div Word)) % Word

in_cksum(m) == Word - 1 - Carry(SumOf(m, (Len(m) + 1) \div 2))

\* A word as the host stores it, and as htons makes the host store it.
Stored(w) == <<w % Base, w \div Base>>
htons(w) == <<w \div Base, w % Base>>

-----------------------------------------------------------------------------
(* What is sent.                                                           *)

\* m with the word w from byte i on.
Put(m, i, w) == [m EXCEPT ![i] = w[1], ![i + 1] = w[2]]

\* An IP header is its length in units of 4 bytes, another byte, the checksum
\* and the options.
IpHeader(options) == <<1 + Len(options) \div 4, 0, 0, 0>> \o options
ip_hl(p) == p[1]
icmp(p) == SubSeq(p, 4 * ip_hl(p) + 1, Len(p))

\* The packet before the loop: type, code, checksum, id, seq and data.
EchoPacket ==
  LET iph == IpHeader(<< >>)
  IN  Put(iph, 3, Stored(in_cksum(iph)))
        \o <<ICMP_ECHO, 0, 0, 0>> \o htons(ICMP_ID) \o <<0, 0>> \o ICMP_ECHO_DATA

\* A slip: the checksum field still holds the last one.
EchoOnOldSum(n) ==
  LET m == Put(icmp(packet), 7, htons(n)) IN Put(m, 3, Stored(in_cksum(m)))

\* The message of the packet with its next number and its checksum.
Echo(n) ==
  LET m == Put(Put(icmp(packet), 7, htons(n)), 3, <<0, 0>>)
  IN  Put(m, 3, Stored(in_cksum(m)))

NextPacket == SubSeq(packet, 1, 4 * ip_hl(packet)) \o Echo(seq)

\* A slip: seq is wider than the field it is put into.
CountWide(n) == n + 1

\* The increment of a ushort.
Count(n) == (n + 1) % Word

\* A packet on the way: what was sent, and what is there by now.
Travels(where, bytes) == [to |-> where, sent |-> bytes, now |-> bytes]

\* The network has room for a packet, or loses it.
Emit(p) == IF Cardinality(net) < Capacity THEN net' = net \cup {p} ELSE net' = net

\* send_frame with success: the payload is not too large, and sendto takes it.
send_frame(payload) == Len(payload) <= ETH_DATA_LEN /\ Emit(Travels("target", payload))

Unread == [of |-> << >>, what |-> "none"]

-----------------------------------------------------------------------------
TypeOK ==
  /\ sending \in BOOLEAN /\ receiving \in BOOLEAN
  /\ seq \in 0..(Word - 1)
  /\ packet \in Seq(Byte) /\ Len(packet) = Len(EchoPacket)
  /\ net \subseteq [to : {"target", "host"}, sent : Seq(Byte), now : Seq(Byte)]
  /\ Cardinality(net) <= Capacity
  /\ verdict.what \in {"none", "small", "not-ping", "other", "corrupt", "shown"}

Init ==
  /\ sending = TRUE /\ receiving = TRUE
  /\ seq = 0
  /\ packet = EchoPacket
  /\ net = {}
  /\ verdict = Unread

-----------------------------------------------------------------------------
(* run_ping_send                                                           *)

\* An iteration of the loop, up to its sleep.
Send ==
  /\ sending
  /\ packet' = NextPacket
  /\ seq' = Count(seq)
  /\ send_frame(NextPacket)
  /\ verdict' = Unread
  /\ UNCHANGED <<sending, receiving>>

\* areq or send_frame fails, the latter always on a packet that is too large:
\* the loop ends.
SendEnds ==
  /\ sending
  /\ packet' = NextPacket
  /\ seq' = Count(seq)
  /\ sending' = FALSE
  /\ verdict' = Unread
  /\ UNCHANGED <<receiving, net>>

-----------------------------------------------------------------------------
(* run_ping_recv                                                           *)

\* Slips: options are taken for the message; the checksum is not looked at.
JudgeFixed(p) ==
  LET m == SubSeq(p, 5, Len(p))
  IN  IF Len(m) < ICMP_MINLEN THEN "small"
      ELSE IF m[1] # ICMP_ECHOREPLY THEN "not-ping"
      ELSE IF SubSeq(m, 5, 6) # htons(ICMP_ID) THEN "other"
      ELSE IF in_cksum(m) # 0 THEN "corrupt" ELSE "shown"
JudgeUnsummed(p) ==
  LET m == icmp(p)
  IN  IF Len(p) < 4 * ip_hl(p) + ICMP_MINLEN THEN "small"
      ELSE IF m[1] # ICMP_ECHOREPLY THEN "not-ping"
      ELSE IF SubSeq(m, 5, 6) # htons(ICMP_ID) THEN "other" ELSE "shown"

\* What was read, bytes p, is judged by these tests, in this order.
Judge(p) ==
  LET m == icmp(p)
  IN  IF Len(p) < 4 * ip_hl(p) + ICMP_MINLEN THEN "small"
      ELSE IF m[1] # ICMP_ECHOREPLY THEN "not-ping"
      ELSE IF SubSeq(m, 5, 6) # htons(ICMP_ID) THEN "other"
      ELSE IF in_cksum(m) # 0 THEN "corrupt"
      ELSE "shown"

\* What recvfrom leaves of a packet in the buffer: the rest is cut off.
FitsBuffer(bytes) == Len(bytes) <= ETH_FRAME_LEN
Read(bytes) == IF FitsBuffer(bytes) THEN bytes ELSE SubSeq(bytes, 1, ETH_FRAME_LEN)

\* The network delivers p, and may deliver it again.
After(p) == {net \ {p}, net}

\* An iteration of the loop.
Receive(p) ==
  /\ receiving /\ p.to = "host"
  /\ net' \in After(p)
  /\ verdict' = [of |-> p, what |-> Judge(Read(p.now))]
  /\ UNCHANGED <<sending, receiving, seq, packet>>

\* recvfrom fails: the thread ends.
ReceiveEnds ==
  /\ receiving
  /\ receiving' = FALSE
  /\ verdict' = Unread
  /\ UNCHANGED <<sending, seq, packet, net>>

-----------------------------------------------------------------------------
(* The others: the checksum as its definition has it, the sum of words in  *)
(* the order of the network with each carry added back at once.            *)

OnesAdd(v, w) == IF v + w < Word THEN v + w ELSE v + w - (Word - 1)

OnesSum(m) ==
  LET n == (Len(m) + 1) \div 2
      word(i) == m[i] * Base + (IF i < Len(m) THEN m[i + 1] ELSE 0)
      sum[k \in 0..n] == IF k = 0 THEN 0 ELSE OnesAdd(sum[k - 1], word(2 * k - 1))
  IN  sum[n]

Valid(m) == OnesSum(m) = Word - 1
Sealed(m) == LET blank == Put(m, 3, <<0, 0>>) IN Put(blank, 3, htons(Word - 1 - OnesSum(blank)))

ipHeader(p) == SubSeq(p, 1, 4 * ip_hl(p))

\* Another program pings the target, or a host sends this one a message.
Other(where, m, options) ==
  /\ Cardinality(net) < Capacity
  /\ net' = net \cup {Travels(where, Sealed(IpHeader(options)) \o Sealed(m))}
  /\ verdict' = Unread
  /\ UNCHANGED <<sending, receiving, seq, packet>>

\* The target answers a request that came through, and drops what did not.
Target(p) ==
  LET m == icmp(p.now)
      answers == Valid(ipHeader(p.now)) /\ Valid(m) /\ Len(m) >= ICMP_MINLEN /\ m[1] = ICMP_ECHO
      reply == Travels("host", ipHeader(p.now) \o Sealed([m EXCEPT ![1] = ICMP_ECHOREPLY]))
  IN /\ p.to = "target"
     /\ \E rest \in After(p) :
          net' = IF answers /\ Cardinality(rest) < Capacity THEN rest \cup {reply} ELSE rest
     /\ verdict' = Unread
     /\ UNCHANGED <<sending, receiving, seq, packet>>

\* A byte of a message changes on the way.  A changed header is not brought
\* to the threads, which is a loss.
Corrupt(p, i, v) ==
  /\ p.now = p.sent /\ i > 4 * ip_hl(p.now) /\ v # p.now[i]
  /\ net' = (net \ {p}) \cup {[p EXCEPT !.now[i] = v]}
  /\ verdict' = Unread
  /\ UNCHANGED <<sending, receiving, seq, packet>>

Lose(p) ==
  /\ net' = net \ {p}
  /\ verdict' = Unread
  /\ UNCHANGED <<sending, receiving, seq, packet>>

-----------------------------------------------------------------------------
Next ==
  \/ Send \/ SendEnds \/ ReceiveEnds
  \/ \E where \in {"target", "host"}, m \in Foreign, o \in Options : Other(where, m, o)
  \/ \E p \in net :
       \/ Receive(p) \/ Target(p) \/ Lose(p)
       \/ \E i \in DOMAIN p.now, v \in Byte : Corrupt(p, i, v)

Spec == Init /\ [][Next]_vars

-----------------------------------------------------------------------------
(* in_cksum of whatever travels, of even and odd length, is the checksum   *)
(* by its definition: the carries that are added back late, twice, and the *)
(* other order of the bytes make no difference.                            *)
CksumIsOnesComplement ==
  \A p \in net : Stored(in_cksum(icmp(p.now))) = htons(Word - 1 - OnesSum(icmp(p.now)))

(* Every request that run_ping_send makes carries the number after that of *)
(* the one before and is answered by the target if it gets there, although *)
(* packet is used again and again and seq wraps.                           *)
RequestsValid ==
  /\ Valid(ipHeader(packet))
  /\ packet # EchoPacket => /\ Valid(icmp(packet))
                            /\ SubSeq(icmp(packet), 7, 8) = htons((seq + Word - 1) % Word)

(* Of the packets that fit its buffer, run_ping_recv shows none that was   *)
(* changed on the way: a byte of the type, the id, the number, the data or *)
(* the checksum itself; and what it shows is an answer to an echo request  *)
(* with the id of this program.                                            *)
ShowsOnlyIntact ==
  verdict.what = "shown" /\ FitsBuffer(verdict.of.now) =>
    /\ verdict.of.now = verdict.of.sent
    /\ icmp(verdict.of.sent)[1] = ICMP_ECHOREPLY
    /\ SubSeq(icmp(verdict.of.sent), 5, 6) = htons(ICMP_ID)

(* An answer to a request of this program that arrives unchanged and fits  *)
(* the buffer is shown, whatever its data, its length and its IP options.  *)
(* (A longer one is judged by what the buffer holds of it.)                *)
ShowsEveryAnswer ==
  LET p == verdict.of
  IN  /\ verdict.what # "none" /\ p.now = p.sent /\ FitsBuffer(p.now)
      /\ Len(icmp(p.sent)) >= ICMP_MINLEN /\ icmp(p.sent)[1] = ICMP_ECHOREPLY
      /\ SubSeq(icmp(p.sent), 5, 6) = htons(ICMP_ID)
      => verdict.what = "shown"

-----------------------------------------------------------------------------
(* What the properties rest on: the parts of an inductive invariant.       *)

\* What is sent has its header in front and a valid message behind it that
\* fits into the accumulator.
Formed(bytes) ==
  /\ Len(bytes) > 0 /\ ip_hl(bytes) >= 1 /\ 4 * ip_hl(bytes) <= Len(bytes)
  /\ Len(bytes) - 4 * ip_hl(bytes) <= 2 * Word
  /\ Valid(icmp(bytes))

\* Not more than a byte of the message changes on the way.
OneByteOff(p) ==
  \E i \in DOMAIN p.sent, v \in Byte :
    i > 4 * ip_hl(p.sent) /\ v # p.sent[i] /\ p.now = [p.sent EXCEPT ![i] = v]

NetInv ==
  /\ IsFiniteSet(net)
  /\ \A p \in net : Formed(p.sent) /\ (p.now = p.sent \/ OneByteOff(p))

(* The invariant of the ping threads, inductive with the types: their      *)
(* packet, what is on the way and what they made of it.                    *)
PingInv ==
  /\ ip_hl(packet) = 1 /\ RequestsValid
  /\ NetInv
  /\ ShowsOnlyIntact /\ ShowsEveryAnswer
=============================================================================
