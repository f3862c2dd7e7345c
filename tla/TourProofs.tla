----------------------------- MODULE TourProofs -----------------------------
(***************************************************************************)
(* The safety of tour.c for any hosts, lists, ports and number of faults:  *)
(* tours follow their lists, nobody leaves early, and every host pings the *)
(* hosts it got packets from.                                              *)
(***************************************************************************)
EXTENDS Tour, TLAPS

-----------------------------------------------------------------------------
(* The steps, for case distinctions.                                       *)

\* A step of Next is one of the actions.
LEMMA NextCases ==
  ASSUME Next
  PROVE  \E h, s \in Host :
           \/ Start(h) \/ (\E hosts \in Trips, p \in Port : StartTour(h, hosts, p))
           \/ Select(h) \/ ReadFails(h) \/ Group(h)
           \/ HandleTour(h, s) \/ HandleTourFails(h, s)
           \/ Announce(h) \/ Stop(h) \/ Cleanup(h)
           \/ Identify(h) \/ Drain(h) \/ TimeOut(h) \/ EndFails(h) \/ Crash(h)
           \/ PingEnds(h, s) \/ RecvEnds(h) \/ Deliver(h) \/ Lose(h)
           \/ (\E p \in Port : DeliverGroup(p, h) \/ LoseGroup(p, h))
  BY DEF Next, Main

-----------------------------------------------------------------------------
(* Types.                                                                  *)

LEMMA GotoType ==
  ASSUME TypeOK, NEW h \in Host,
         NEW where \in {"off", "cleanup", "failed"} \cup Looping \cup Leaving, Goto(h, where)
  PROVE  pc' \in [Host -> {"off", "cleanup", "failed"} \cup Looping \cup Leaving]
  BY DEF TypeOK, Goto

LEMMA FaultType ==
  ASSUME TypeOK, Fault \/ UNCHANGED faults
  PROVE  faults' \in 0..MaxFaults
  BY TourAssumption DEF TypeOK, Fault

\* A packet sent from a list that is not empty is a packet.
LEMMA ForwardType ==
  ASSUME TypeOK, NEW s \in Host, NEW h \in Host, NEW ips \in Seq(Host), ips # << >>,
         NEW p \in Port \cup {NoPort}, forward_tour(s, h, ips, p)
  PROVE  at' \in [Host -> {"none", "net", "queue"}] /\ packet' \in [Host -> Packet]
  <1>1. ips[Len(ips)] \in Host
    OBVIOUS
  <1>2. SubSeq(ips, 1, Len(ips) - 1) \in Seq(Host)
    OBVIOUS
  <1> QED BY <1>1, <1>2 DEF TypeOK, forward_tour, Packet

\* A message to the group adds to what is on its way.
LEMMA MulticastType ==
  ASSUME TypeOK, MemberInv, NEW h \in Host, Heard(h), multicast(h)
  PROVE  mnet' \in [Port -> [Host -> Nat]] /\ udpq' \in [Host -> Nat]
  <1>1. port[h] \in Port
    BY DEF TypeOK, MemberInv
  <1> DEFINE m == [g \in Host |-> IF g = h THEN mnet[port[h]][g] ELSE mnet[port[h]][g] + 1]
  <1>2. m \in [Host -> Nat]
    BY <1>1 DEF TypeOK
  <1>3. mnet' = [mnet EXCEPT ![port[h]] = m]
    BY DEF multicast
  <1> QED BY <1>1, <1>2, <1>3 DEF TypeOK, multicast

\* A sequence without its last element.
LEMMA FrontFacts ==
  ASSUME NEW ips \in Seq(Host), ips # << >>
  PROVE  /\ SubSeq(ips, 1, Len(ips) - 1) \in Seq(Host)
         /\ Len(SubSeq(ips, 1, Len(ips) - 1)) = Len(ips) - 1
         /\ \A j \in 1..(Len(ips) - 1) : SubSeq(ips, 1, Len(ips) - 1)[j] = ips[j]
         /\ Len(ips) \in Nat \ {0}
  <1>1. Len(ips) \in Nat \ {0}
    OBVIOUS
  <1>2. SubSeq(ips, 1, Len(ips) - 1) = [j \in 1..(Len(ips) - 1) |-> ips[j]]
    BY <1>1
  <1>3. \A j \in 1..(Len(ips) - 1) : ips[j] \in Host
    BY <1>1
  <1>4. Len(ips) - 1 \in Nat
    BY <1>1
  <1> DEFINE f == [j \in 1..(Len(ips) - 1) |-> ips[j]]
  <1>5. f \in Seq(Host) /\ Len(f) = Len(ips) - 1
    BY <1>3, <1>4
  <1>6. \A j \in 1..(Len(ips) - 1) : f[j] = ips[j]
    OBVIOUS
  <1> QED BY <1>1, <1>2, <1>5, <1>6

LEMMA ReverseType ==
  ASSUME NEW hosts \in Trips
  PROVE  /\ Reverse(hosts) \in Seq(Host) /\ Reverse(hosts) # << >>
         /\ hosts \in Seq(Host) /\ hosts # << >>
         /\ Len(Reverse(hosts)) = Len(hosts)
         /\ \A j \in 1..Len(hosts) : Reverse(hosts)[j] = hosts[Len(hosts) + 1 - j]
  <1>1. hosts \in Seq(Host) /\ hosts # << >>
    BY TourAssumption DEF valid_args
  <1>2. Reverse(hosts) = [i \in 1..Len(hosts) |-> hosts[(Len(hosts) - i) + 1]]
    BY DEF Reverse
  <1>3. \A i \in 1..Len(hosts) : hosts[(Len(hosts) - i) + 1] \in Host
    BY <1>1
  <1>4. Len(hosts) \in Nat /\ Len(hosts) # 0
    BY <1>1
  <1> QED BY <1>1, <1>2, <1>3, <1>4

LEMMA ExitType ==
  ASSUME TypeOK, NEW h \in Host, NEW how \in {"done", "failed"}, Exit(h, how)
  PROVE  /\ pc' \in [Host -> {"off", "cleanup", "failed"} \cup Looping \cup Leaving]
         /\ at' \in [Host -> {"none", "net", "queue"}]
         /\ udpq' \in [Host -> Nat]
         /\ pings' \in [Host -> Seq(Pingt)]
         /\ recving' \in SUBSET Host
  BY DEF TypeOK, Exit, Goto, Leaving, destroy_pingt

\* A list with one more thread in front.
LEMMA PrependList ==
  ASSUME NEW q \in Seq(Pingt), NEW t \in Host
  PROVE  LET r == <<[tgt |-> t, runs |-> TRUE]>> \o q
         IN /\ r \in Seq(Pingt) /\ Len(r) = Len(q) + 1
            /\ r[1].tgt = t
            /\ \A i \in 1..Len(q) : r[i + 1] = q[i]
  <1> DEFINE e == [tgt |-> t, runs |-> TRUE]
  <1>1. e \in Pingt
    BY DEF Pingt
  <1>2. e.tgt = t
    OBVIOUS
  <1> HIDE DEF e
  <1>3. <<e>> \in Seq(Pingt) /\ Len(<<e>>) = 1 /\ <<e>>[1] = e
    BY <1>1
  <1>4. <<e>> \o q \in Seq(Pingt) /\ Len(<<e>> \o q) = Len(q) + 1
    BY <1>3
  <1>5. (<<e>> \o q)[1] = e
    BY <1>1
  <1>6. \A i \in 1..Len(q) : (<<e>> \o q)[i + 1] = q[i]
    BY <1>1
  <1> QED BY <1>2, <1>4, <1>5, <1>6 DEF e

\* The list when the thread of its i-th node has ended.
LEMMA EndedList ==
  ASSUME NEW q \in Seq(Pingt), NEW i \in DOMAIN q
  PROVE  LET r == [q EXCEPT ![i].runs = FALSE]
         IN /\ r \in Seq(Pingt) /\ DOMAIN r = DOMAIN q
            /\ \A j \in DOMAIN q : r[j].tgt = q[j].tgt
  <1> DEFINE r == [q EXCEPT ![i].runs = FALSE]
  <1>1. Len(q) \in Nat /\ DOMAIN q = 1..Len(q) /\ \A j \in 1..Len(q) : q[j] \in Pingt
    OBVIOUS
  <1>2. DOMAIN r = DOMAIN q
    OBVIOUS
  <1>3. \A j \in DOMAIN q : r[j] \in Pingt /\ r[j].tgt = q[j].tgt
    <2> SUFFICES ASSUME NEW j \in DOMAIN q PROVE r[j] \in Pingt /\ r[j].tgt = q[j].tgt
      OBVIOUS
    <2>1. q[j] \in [tgt : Host, runs : BOOLEAN]
      BY <1>1 DEF Pingt
    <2>2. r[j] = IF j = i THEN [q[j] EXCEPT !.runs = FALSE] ELSE q[j]
      OBVIOUS
    <2>3. CASE j = i
      BY <2>1, <2>2, <2>3 DEF Pingt
    <2>4. CASE j # i
      BY <2>1, <2>2, <2>4 DEF Pingt
    <2> QED BY <2>3, <2>4
  <1>4. r = [j \in 1..Len(q) |-> r[j]]
    BY <1>1
  <1> HIDE DEF r
  <1>5. r \in Seq(Pingt)
    BY <1>1, <1>2, <1>3, <1>4
  <1> QED BY <1>2, <1>3, <1>5 DEF r

\* The part of HandleTour that HandleTourFails shares.
LEMMA VisitType ==
  ASSUME TypeOK, NEW h \in Host, NEW s \in Host,
         create_pingt(h, packet[s].src),
         route' = [route EXCEPT ![s] = Append(@, h)]
  PROVE  /\ route' \in [Host -> Seq(Host)]
         /\ pings' \in [Host -> Seq(Pingt)]
  <1>1. packet[s].src \in Host /\ pings \in [Host -> Seq(Pingt)] /\ route \in [Host -> Seq(Host)]
    BY DEF TypeOK, Packet
  <1>2. <<[tgt |-> packet[s].src, runs |-> TRUE]>> \o pings[h] \in Seq(Pingt)
    BY <1>1, PrependList
  <1> QED BY <1>1, <1>2 DEF create_pingt

LEMMA JoinedType ==
  ASSUME TypeOK, NEW h \in Host, NEW s \in Host
  PROVE  Joined(h, packet[s].port) \in [Host -> Port \cup {NoPort}]
  BY DEF TypeOK, Joined, Packet, bind_port

LEMMA TypeStep == TypeOK /\ MemberInv /\ [Next]_vars => TypeOK'
  <1> SUFFICES ASSUME TypeOK, MemberInv, [Next]_vars PROVE TypeOK'
    OBVIOUS
  <1> USE TourAssumption
  <1>0. CASE UNCHANGED vars
    BY <1>0 DEF TypeOK, vars, procVars, packetVars, groupVars, threadVars
  <1>1. CASE Next
    <2>0. PICK h \in Host, s \in Host :
           \/ Start(h) \/ (\E hosts \in Trips, p \in Port : StartTour(h, hosts, p))
           \/ Select(h) \/ ReadFails(h) \/ Group(h)
           \/ HandleTour(h, s) \/ HandleTourFails(h, s)
           \/ Announce(h) \/ Stop(h) \/ Cleanup(h)
           \/ Identify(h) \/ Drain(h) \/ TimeOut(h) \/ EndFails(h) \/ Crash(h)
           \/ PingEnds(h, s) \/ RecvEnds(h) \/ Deliver(h) \/ Lose(h)
           \/ (\E p \in Port : DeliverGroup(p, h) \/ LoseGroup(p, h))
      BY <1>1, NextCases
    <2>1. CASE Start(h)
      <3>1. pc' \in [Host -> {"off", "cleanup", "failed"} \cup Looping \cup Leaving]
        BY <2>1, GotoType DEF Start, Looping
      <3>2. faults' \in 0..MaxFaults
        BY <2>1, FaultType DEF Start
      <3>3. recving' \in SUBSET Host
        BY <2>1 DEF TypeOK, Start
      <3> QED BY <2>1, <3>1, <3>2, <3>3 DEF TypeOK, Start, packetVars, groupVars
    <2>2. ASSUME NEW hosts \in Trips, NEW p \in Port, StartTour(h, hosts, p) PROVE TypeOK'
      <3>1. CASE pc' = [pc EXCEPT ![h] = "failed"] /\ UNCHANGED <<trip, at, packet, port, recving>> /\ Fault
        BY <2>2, <3>1 DEF TypeOK, StartTour, Fault
      <3>2. CASE /\ Goto(h, "select") /\ trip' = [trip EXCEPT ![h] = hosts]
                 /\ port' = [port EXCEPT ![h] = p]
                 /\ forward_tour(h, h, Reverse(hosts), p)
                 /\ recving' = recving \cup {h} /\ UNCHANGED faults
        <4>1. at' \in [Host -> {"none", "net", "queue"}] /\ packet' \in [Host -> Packet]
          BY <3>2, ForwardType, ReverseType
        <4> QED BY <2>2, <3>2, <4>1 DEF TypeOK, StartTour, Goto, Looping
      <3> QED BY <2>2, <3>1, <3>2 DEF StartTour, Goto, bind_port
    <2>3. CASE Select(h)
      BY <2>3 DEF TypeOK, Select, Goto, Looping, packetVars, groupVars, threadVars
    <2>4. CASE ReadFails(h)
      BY <2>4 DEF TypeOK, ReadFails, Goto, Fault, packetVars, groupVars, threadVars
    <2>5. CASE Group(h)
      BY <2>5 DEF TypeOK, MemberInv, Group, Goto, Leaving, packetVars, threadVars
    <2>6. CASE HandleTour(h, s)
      <3>1. /\ route' \in [Host -> Seq(Host)]
            /\ pings' \in [Host -> Seq(Pingt)]
        BY <2>6, VisitType DEF HandleTour
      <3>2. port' \in [Host -> Port \cup {NoPort}]
        BY <2>6, JoinedType DEF HandleTour
      <3>3. at' \in [Host -> {"none", "net", "queue"}] /\ packet' \in [Host -> Packet]
        <4>1. CASE packet[s].ips # << >>
          <5>1. packet[s].ips \in Seq(Host) /\ packet[s].port \in Port \cup {NoPort}
            BY DEF TypeOK, Packet
          <5> QED BY <2>6, <4>1, <5>1, ForwardType DEF HandleTour
        <4>2. CASE packet[s].ips = << >>
          BY <2>6, <4>2 DEF TypeOK, HandleTour
        <4> QED BY <4>1, <4>2
      <3>4. pc' \in [Host -> {"off", "cleanup", "failed"} \cup Looping \cup Leaving]
        BY <2>6, GotoType DEF HandleTour, Looping
      <3> QED BY <2>6, <3>1, <3>2, <3>3, <3>4 DEF TypeOK, HandleTour
    <2>7. CASE HandleTourFails(h, s)
      <3>1. /\ route' \in [Host -> Seq(Host)]
            /\ pings' \in [Host -> Seq(Pingt)]
        <4>1. CASE UNCHANGED <<route, pings>>
          BY <4>1 DEF TypeOK
        <4> QED BY <2>7, <4>1, VisitType DEF HandleTourFails
      <3>2. port' \in [Host -> Port \cup {NoPort}]
        BY <2>7, JoinedType DEF HandleTourFails, TypeOK
      <3>3. pc' \in [Host -> {"off", "cleanup", "failed"} \cup Looping \cup Leaving]
        BY <2>7, GotoType DEF HandleTourFails
      <3>4. faults' \in 0..MaxFaults
        BY <2>7, FaultType DEF HandleTourFails
      <3>5. at' \in [Host -> {"none", "net", "queue"}]
        BY <2>7 DEF TypeOK, HandleTourFails
      <3> QED BY <2>7, <3>1, <3>2, <3>3, <3>4, <3>5 DEF TypeOK, HandleTourFails
    <2>8. CASE Announce(h)
      <3>1. mnet' \in [Port -> [Host -> Nat]] /\ udpq' \in [Host -> Nat]
        <4>1. CASE UNCHANGED <<mnet, udpq>>
          BY <4>1 DEF TypeOK
        <4>2. CASE multicast(h)
          BY <2>8, <4>2, MulticastType DEF Announce, Heard
        <4> QED BY <2>8, <4>1, <4>2 DEF Announce
      <3>2. pc' \in [Host -> {"off", "cleanup", "failed"} \cup Looping \cup Leaving]
        BY <2>8, GotoType DEF Announce, Looping
      <3>3. faults' \in 0..MaxFaults
        BY <2>8, FaultType DEF Announce
      <3> QED BY <2>8, <3>1, <3>2, <3>3 DEF TypeOK, Announce, packetVars, threadVars
    <2>9. CASE Stop(h)
      <3>1. pc' \in [Host -> {"off", "cleanup", "failed"} \cup Looping \cup Leaving]
        BY <2>9, GotoType DEF Stop, Leaving
      <3>2. pings' \in [Host -> Seq(Pingt)]
        <4>1. << >> \in Seq(Pingt) /\ pings \in [Host -> Seq(Pingt)]
          BY DEF TypeOK
        <4> QED BY <2>9, <4>1 DEF Stop, destroy_pingt
      <3>3. faults' \in 0..MaxFaults /\ recving' \in SUBSET Host
        BY <2>9, FaultType DEF TypeOK, Stop
      <3> QED BY <2>9, <3>1, <3>2, <3>3 DEF TypeOK, Stop, packetVars, groupVars
    <2>10. CASE Cleanup(h)
      BY <2>10, ExitType DEF TypeOK, Cleanup
    <2>11. CASE Identify(h)
      <3>1. CASE Fault /\ Exit(h, "failed") /\ UNCHANGED mnet
        BY <2>11, <3>1, ExitType DEF TypeOK, Identify, Fault
      <3>2. CASE multicast(h) /\ Goto(h, "ending") /\ UNCHANGED <<at, threadVars, faults>>
        <4>1. mnet' \in [Port -> [Host -> Nat]] /\ udpq' \in [Host -> Nat]
          BY <2>11, <3>2, MulticastType DEF Identify, Heard, Leaving
        <4> QED BY <2>11, <3>2, <4>1 DEF TypeOK, Identify, Goto, Leaving, threadVars
      <3> QED BY <2>11, <3>1, <3>2 DEF Identify
    <2>12. CASE Drain(h)
      BY <2>12 DEF TypeOK, Drain, procVars, packetVars, threadVars
    <2>13. CASE TimeOut(h)
      BY <2>13, ExitType DEF TypeOK, TimeOut
    <2>14. CASE EndFails(h) \/ Crash(h)
      BY <2>14, ExitType DEF TypeOK, EndFails, Crash, Fault
    <2>15. CASE PingEnds(h, s)
      <3>1. PICK i \in DOMAIN pings[h] : pings' = [pings EXCEPT ![h][i].runs = FALSE]
        BY <2>15 DEF PingEnds
      <3>2. pings[h] \in Seq(Pingt) /\ pings \in [Host -> Seq(Pingt)]
        BY DEF TypeOK
      <3>3. [pings[h] EXCEPT ![i].runs = FALSE] \in Seq(Pingt)
        BY <3>1, <3>2, EndedList
      <3>4. pings' \in [Host -> Seq(Pingt)]
        BY <3>1, <3>2, <3>3
      <3>5. faults' \in 0..MaxFaults
        BY <2>15, FaultType DEF PingEnds
      <3> QED BY <2>15, <3>4, <3>5 DEF TypeOK, PingEnds, procVars, packetVars, groupVars
    <2>16. CASE RecvEnds(h)
      BY <2>16 DEF TypeOK, RecvEnds, Fault, procVars, packetVars, groupVars
    <2>17. CASE Deliver(h)
      BY <2>17 DEF TypeOK, Deliver, procVars, groupVars, threadVars
    <2>18. CASE Lose(h)
      BY <2>18 DEF TypeOK, Lose, Fault, procVars, groupVars, threadVars
    <2>19. ASSUME NEW p \in Port, DeliverGroup(p, h) PROVE TypeOK'
      <3>1. mnet' \in [Port -> [Host -> Nat]] /\ udpq' \in [Host -> Nat]
        BY <2>19 DEF TypeOK, DeliverGroup
      <3> QED BY <2>19, <3>1 DEF TypeOK, DeliverGroup, procVars, packetVars, threadVars
    <2>20. ASSUME NEW p \in Port, LoseGroup(p, h) PROVE TypeOK'
      BY <2>20 DEF TypeOK, LoseGroup, Fault, procVars, packetVars, threadVars
    <2> QED BY <2>0, <2>1, <2>2, <2>3, <2>4, <2>5, <2>6, <2>7, <2>8, <2>9, <2>10, <2>11,
                <2>12, <2>13, <2>14, <2>15, <2>16, <2>17, <2>18, <2>19, <2>20
  <1> QED BY <1>0, <1>1

-----------------------------------------------------------------------------
(* Packets and routes.                                                     *)

\* No tour begins or moves on; packets may be delivered or vanish.
Quiet ==
  /\ UNCHANGED <<trip, route, packet>>
  /\ \A s \in Host : at'[s] # "none" => at[s] # "none"

\* start_tour succeeded on h.
Started(h, hosts, p) ==
  /\ pc[h] = "off"
  /\ trip' = [trip EXCEPT ![h] = hosts]
  /\ port' = [port EXCEPT ![h] = p]
  /\ forward_tour(h, h, Reverse(hosts), p)
  /\ UNCHANGED route

LEMMA ExitQuiet ==
  ASSUME TypeOK, NEW h \in Host, NEW how, Exit(h, how), UNCHANGED <<trip, route, packet>>
  PROVE  Quiet
  BY DEF TypeOK, Exit, Quiet

\* Only StartTour, HandleTour and HandleTourFails are not quiet.
LEMMA Shapes ==
  ASSUME TypeOK, [Next]_vars
  PROVE  \/ Quiet
         \/ \E h \in Host, hosts \in Trips, p \in Port : Started(h, hosts, p)
         \/ \E h, s \in Host : HandleTour(h, s) \/ HandleTourFails(h, s)
  <1>0. CASE UNCHANGED vars
    BY <1>0 DEF Quiet, vars, procVars, packetVars
  <1>1. CASE Next
    <2>0. PICK h \in Host, s \in Host :
           \/ Start(h) \/ (\E hosts \in Trips, p \in Port : StartTour(h, hosts, p))
           \/ Select(h) \/ ReadFails(h) \/ Group(h)
           \/ HandleTour(h, s) \/ HandleTourFails(h, s)
           \/ Announce(h) \/ Stop(h) \/ Cleanup(h)
           \/ Identify(h) \/ Drain(h) \/ TimeOut(h) \/ EndFails(h) \/ Crash(h)
           \/ PingEnds(h, s) \/ RecvEnds(h) \/ Deliver(h) \/ Lose(h)
           \/ (\E p \in Port : DeliverGroup(p, h) \/ LoseGroup(p, h))
      BY <1>1, NextCases
    <2>1. CASE Start(h) \/ Select(h) \/ ReadFails(h) \/ Group(h) \/ Announce(h) \/ Stop(h)
      BY <2>1 DEF Quiet, Start, Select, ReadFails, Group, Announce, Stop, packetVars
    <2>2. ASSUME NEW hosts \in Trips, NEW p \in Port, StartTour(h, hosts, p)
          PROVE  Quiet \/ Started(h, hosts, p)
      BY <2>2 DEF StartTour, Quiet, Started, bind_port
    <2>3. CASE Cleanup(h) \/ TimeOut(h) \/ EndFails(h) \/ Crash(h)
      BY <2>3, ExitQuiet DEF Cleanup, TimeOut, EndFails, Crash
    <2>4. CASE Identify(h)
      <3>1. CASE UNCHANGED at
        BY <2>4, <3>1 DEF Identify, Quiet
      <3>2. CASE Exit(h, "failed")
        BY <2>4, <3>2, ExitQuiet DEF Identify
      <3> QED BY <2>4, <3>1, <3>2 DEF Identify
    <2>5. CASE Drain(h) \/ PingEnds(h, s) \/ RecvEnds(h)
      BY <2>5 DEF Quiet, Drain, PingEnds, RecvEnds, procVars, packetVars
    <2>6. CASE Deliver(h) \/ Lose(h)
      BY <2>6 DEF TypeOK, Quiet, Deliver, Lose, procVars
    <2>7. ASSUME NEW p \in Port, DeliverGroup(p, h) \/ LoseGroup(p, h) PROVE Quiet
      BY <2>7 DEF Quiet, DeliverGroup, LoseGroup, procVars, packetVars
    <2> QED BY <2>0, <2>1, <2>2, <2>3, <2>4, <2>5, <2>6, <2>7
  <1> QED BY <1>0, <1>1

LEMMA TripType ==
  ASSUME NEW hosts \in Trips \cup {<< >>}
  PROVE  hosts \in Seq(Host)
  <1>1. Trips \subseteq Seq(Host)
    BY TourAssumption
  <1>2. CASE hosts = << >>
    BY <1>2
  <1>3. CASE hosts \in Trips
    BY <1>1, <1>3
  <1> QED BY <1>2, <1>3

\* A host that handles a packet is the next one on the list.
LEMMA NextOnList ==
  ASSUME TypeOK, PacketInv, NEW h \in Host, NEW s \in Host, Queued(h, s)
  PROVE  /\ trip[s] \in Seq(Host) /\ route[s] \in Seq(Host) /\ packet[s].ips \in Seq(Host)
         /\ Len(route[s]) + 1 + Len(packet[s].ips) = Len(trip[s])
         /\ Len(route[s]) < Len(trip[s])
         /\ h = trip[s][Len(route[s]) + 1]
         /\ packet[s].src = Before(s, Len(route[s]) + 1)
         /\ packet[s].port \in Port
  <1>1. trip[s] \in Seq(Host)
    BY TripType DEF TypeOK
  <1>2. route[s] \in Seq(Host) /\ packet[s].ips \in Seq(Host)
    BY DEF TypeOK, Packet
  <1>3. /\ Len(route[s]) + 1 + Len(packet[s].ips) = Len(trip[s])
        /\ h = trip[s][Len(route[s]) + 1]
        /\ packet[s].src = Before(s, Len(route[s]) + 1)
        /\ packet[s].port \in Port
    BY DEF PacketInv, Queued
  <1>4. \A a, b, c \in Nat : a + 1 + b = c => a < c
    OBVIOUS
  <1>5. Len(route[s]) \in Nat /\ Len(packet[s].ips) \in Nat /\ Len(trip[s]) \in Nat
    BY <1>1, <1>2
  <1>6. Len(route[s]) < Len(trip[s])
    BY <1>3, <1>4, <1>5 
  <1> QED BY <1>1, <1>2, <1>3, <1>6

\* The list of a process that has begun a tour, and its packet.
LEMMA PacketStep == TypeOK /\ RouteInv /\ PacketInv /\ [Next]_vars => PacketInv'
  <1> SUFFICES ASSUME TypeOK, RouteInv, PacketInv, [Next]_vars, NEW t \in Host, at'[t] # "none"
               PROVE  /\ trip'[t] # << >>
                      /\ Len(route'[t]) + 1 + Len(packet'[t].ips) = Len(trip'[t])
                      /\ packet'[t].dst = trip'[t][Len(route'[t]) + 1]
                      /\ packet'[t].src = Before(t, Len(route[t]) + 1)'
                      /\ \A j \in 1..Len(packet'[t].ips) :
                           packet'[t].ips[j] = trip'[t][Len(trip'[t]) + 1 - j]
                      /\ packet'[t].port \in Port
    BY DEF PacketInv
  <1>1. CASE Quiet
    BY <1>1 DEF Quiet, PacketInv, Before
  <1>2. ASSUME NEW h \in Host, NEW hosts \in Trips, NEW p \in Port, Started(h, hosts, p), t = h
        PROVE  /\ trip'[t] # << >>
               /\ Len(route'[t]) + 1 + Len(packet'[t].ips) = Len(trip'[t])
               /\ packet'[t].dst = trip'[t][Len(route'[t]) + 1]
               /\ packet'[t].src = Before(t, Len(route[t]) + 1)'
               /\ \A j \in 1..Len(packet'[t].ips) :
                    packet'[t].ips[j] = trip'[t][Len(trip'[t]) + 1 - j]
               /\ packet'[t].port \in Port
    <2> DEFINE ips == Reverse(hosts)
    <2>1. trip'[t] = hosts
      BY <1>2 DEF Started, TypeOK
    <2>2. route'[t] = route[t] /\ Len(route[t]) = 0
      <3>1. trip[t] = << >> /\ route[t] \in Seq(Host)
        BY <1>2 DEF Started, RouteInv, TypeOK
      <3>2. Len(route[t]) <= 0
        BY <3>1 DEF RouteInv
      <3> QED BY <1>2, <3>1, <3>2 DEF Started
    <2>3. packet'[t] = [src |-> h, dst |-> ips[Len(ips)], ips |-> SubSeq(ips, 1, Len(ips) - 1), port |-> p]
      BY <1>2 DEF Started, forward_tour, TypeOK
    <2>4. /\ ips \in Seq(Host) /\ ips # << >> /\ hosts \in Seq(Host) /\ hosts # << >>
          /\ Len(ips) = Len(hosts)
          /\ \A j \in 1..Len(hosts) : ips[j] = hosts[Len(hosts) + 1 - j]
      BY ReverseType
    <2> HIDE DEF ips
    <2>5. /\ Len(SubSeq(ips, 1, Len(ips) - 1)) = Len(hosts) - 1
          /\ \A j \in 1..(Len(hosts) - 1) : SubSeq(ips, 1, Len(ips) - 1)[j] = ips[j]
          /\ Len(hosts) \in Nat \ {0}
      BY <2>4
    <2>6. ips[Len(ips)] = hosts[1]
      BY <2>4, <2>5
    <2>7. Before(t, Len(route[t]) + 1)' = h
      BY <1>2, <2>2 DEF Before
    <2> QED BY <2>1, <2>2, <2>3, <2>4, <2>5, <2>6, <2>7
  <1>3. ASSUME NEW h \in Host, HandleTour(h, t)
        PROVE  /\ trip'[t] # << >>
               /\ Len(route'[t]) + 1 + Len(packet'[t].ips) = Len(trip'[t])
               /\ packet'[t].dst = trip'[t][Len(route'[t]) + 1]
               /\ packet'[t].src = Before(t, Len(route[t]) + 1)'
               /\ \A j \in 1..Len(packet'[t].ips) :
                    packet'[t].ips[j] = trip'[t][Len(trip'[t]) + 1 - j]
               /\ packet'[t].port \in Port
    <2> DEFINE ips == packet[t].ips
               rest == SubSeq(ips, 1, Len(ips) - 1)
    <2>1. /\ trip[t] \in Seq(Host) /\ route[t] \in Seq(Host) /\ ips \in Seq(Host)
          /\ Len(route[t]) + 1 + Len(ips) = Len(trip[t])
          /\ packet[t].port \in Port
      BY <1>3, NextOnList DEF HandleTour
    <2>2. \A j \in 1..Len(ips) : ips[j] = trip[t][Len(trip[t]) + 1 - j]
      BY <1>3 DEF HandleTour, Queued, PacketInv
    <2>3. ips # << >>
      BY <1>3 DEF HandleTour, TypeOK
    <2>4. /\ packet'[t] = [src |-> h, dst |-> ips[Len(ips)], ips |-> rest, port |-> packet[t].port]
          /\ trip'[t] = trip[t] /\ route'[t] = Append(route[t], h)
      BY <1>3, <2>3 DEF HandleTour, forward_tour, TypeOK
    <2> HIDE DEF ips
    <2>5. /\ Len(rest) = Len(ips) - 1
          /\ \A j \in 1..(Len(ips) - 1) : rest[j] = ips[j]
          /\ Len(ips) \in Nat \ {0}
      BY <2>1, <2>3, FrontFacts
    <2> HIDE DEF rest
    <2>6. /\ Len(route'[t]) = Len(route[t]) + 1 /\ route'[t][Len(route[t]) + 1] = h
          /\ Len(route[t]) \in Nat /\ Len(trip[t]) \in Nat
      BY <2>1, <2>4
    <2>7. Before(t, Len(route[t]) + 1)' = h
      BY <2>6 DEF Before
    <2>8. ips[Len(ips)] = trip[t][Len(route[t]) + 2]
      BY <2>1, <2>2, <2>5, <2>6
    <2>9. trip[t] # << >>
      BY <2>1, <2>5, <2>6
    <2>10. \A j \in 1..Len(rest) : rest[j] = trip[t][Len(trip[t]) + 1 - j]
      BY <2>2, <2>5
    <2>11. Len(route'[t]) + 1 + Len(rest) = Len(trip[t])
      <3>1. Len(rest) = Len(ips) - 1 /\ Len(ips) \in Nat
        BY <2>5
      <3>2. Len(route'[t]) = Len(route[t]) + 1 /\ Len(route[t]) \in Nat
        BY <2>6
      <3>3. Len(route[t]) + 1 + Len(ips) = Len(trip[t])
        BY <2>1
      <3> QED BY <3>1, <3>2, <3>3
    <2>12. /\ packet'[t].ips = rest /\ packet'[t].dst = ips[Len(ips)]
           /\ packet'[t].src = h /\ packet'[t].port \in Port
      BY <2>1, <2>4
    <2>13. Len(route'[t]) + 1 = Len(route[t]) + 2
      BY <2>6
    <2> QED BY <2>4, <2>6, <2>7, <2>8, <2>9, <2>10, <2>11, <2>12, <2>13
  <1>4. ASSUME NEW h \in Host, NEW s \in Host, s # t,
               \/ \E hosts \in Trips, p \in Port : Started(s, hosts, p)
               \/ HandleTour(h, s)
        PROVE  /\ at[t] = at'[t] /\ trip'[t] = trip[t] /\ route'[t] = route[t]
               /\ packet'[t] = packet[t]
    BY <1>4 DEF Started, HandleTour, forward_tour, TypeOK
  <1>5. ASSUME NEW h \in Host, NEW s \in Host, HandleTourFails(h, s)
        PROVE  /\ s # t /\ at[t] = at'[t] /\ trip'[t] = trip[t] /\ route'[t] = route[t]
               /\ packet'[t] = packet[t]
    BY <1>5 DEF HandleTourFails, TypeOK
  <1>6. CASE /\ at[t] = at'[t] /\ trip'[t] = trip[t] /\ route'[t] = route[t]
             /\ packet'[t] = packet[t]
    BY <1>6 DEF PacketInv, Before
  <1> QED BY <1>1, <1>2, <1>3, <1>4, <1>5, <1>6, Shapes

\* What a step does to the list and the route of a tour.
LEMMA Grow ==
  ASSUME TypeOK, RouteInv, PacketInv, [Next]_vars, NEW t \in Host
  PROVE  /\ trip[t] # << >> => trip'[t] = trip[t]
         /\ \/ route'[t] = route[t] /\ (trip'[t] = trip[t] \/ trip[t] = << >>)
            \/ \E h \in Host : /\ Queued(h, t) /\ trip'[t] = trip[t]
                              /\ route'[t] = Append(route[t], h)
  <1>1. CASE Quiet
    BY <1>1 DEF Quiet
  <1>2. ASSUME NEW h \in Host, NEW hosts \in Trips, NEW p \in Port, Started(h, hosts, p)
        PROVE  route'[t] = route[t] /\ (trip'[t] = trip[t] \/ trip[t] = << >>)
    BY <1>2 DEF Started, RouteInv, TypeOK
  <1>3. ASSUME NEW h \in Host, NEW s \in Host, HandleTour(h, s) \/ HandleTourFails(h, s)
        PROVE  /\ trip'[t] = trip[t]
               /\ route'[t] = route[t] \/ (Queued(h, t) /\ route'[t] = Append(route[t], h))
    BY <1>3 DEF HandleTour, HandleTourFails, TypeOK
  <1> QED BY <1>1, <1>2, <1>3, Shapes

\* Nothing goes back to "off".
LEMMA OffStep ==
  ASSUME TypeOK, [Next]_vars, NEW g \in Host, pc'[g] = "off"
  PROVE  pc[g] = "off" /\ trip'[g] = trip[g]
  <1>0. CASE UNCHANGED vars
    BY <1>0 DEF vars, procVars
  <1>1. CASE Next
    <2>0. PICK h \in Host, s \in Host :
           \/ Start(h) \/ (\E hosts \in Trips, p \in Port : StartTour(h, hosts, p))
           \/ Select(h) \/ ReadFails(h) \/ Group(h)
           \/ HandleTour(h, s) \/ HandleTourFails(h, s)
           \/ Announce(h) \/ Stop(h) \/ Cleanup(h)
           \/ Identify(h) \/ Drain(h) \/ TimeOut(h) \/ EndFails(h) \/ Crash(h)
           \/ PingEnds(h, s) \/ RecvEnds(h) \/ Deliver(h) \/ Lose(h)
           \/ (\E p \in Port : DeliverGroup(p, h) \/ LoseGroup(p, h))
      BY <1>1, NextCases
    <2>1. CASE Start(h) \/ Select(h) \/ ReadFails(h) \/ Group(h)
      BY <2>1 DEF TypeOK, Start, Select, ReadFails, Group, Goto
    <2>2. ASSUME NEW hosts \in Trips, NEW p \in Port, StartTour(h, hosts, p)
          PROVE  pc[g] = "off" /\ trip'[g] = trip[g]
      BY <2>2 DEF TypeOK, StartTour, Goto
    <2>3. CASE HandleTour(h, s) \/ HandleTourFails(h, s)
      BY <2>3 DEF TypeOK, HandleTour, HandleTourFails, Goto
    <2>4. CASE Announce(h) \/ Stop(h) \/ Cleanup(h)
      BY <2>4 DEF TypeOK, Announce, Stop, Cleanup, Exit, Goto
    <2>5. CASE Identify(h) \/ TimeOut(h) \/ EndFails(h) \/ Crash(h)
      BY <2>5 DEF TypeOK, Identify, TimeOut, EndFails, Crash, Exit, Goto
    <2>6. CASE Drain(h) \/ PingEnds(h, s) \/ RecvEnds(h) \/ Deliver(h) \/ Lose(h)
      BY <2>6 DEF Drain, PingEnds, RecvEnds, Deliver, Lose, procVars
    <2>7. ASSUME NEW p \in Port, DeliverGroup(p, h) \/ LoseGroup(p, h)
          PROVE  pc[g] = "off" /\ trip'[g] = trip[g]
      BY <2>7 DEF DeliverGroup, LoseGroup, procVars
    <2> QED BY <2>0, <2>1, <2>2, <2>3, <2>4, <2>5, <2>6, <2>7
  <1> QED BY <1>0, <1>1

LEMMA RouteStep == TypeOK /\ RouteInv /\ PacketInv /\ TypeOK' /\ [Next]_vars => RouteInv'
  <1> SUFFICES ASSUME TypeOK, RouteInv, PacketInv, TypeOK', [Next]_vars, NEW t \in Host
               PROVE  /\ Len(route'[t]) <= Len(trip'[t])
                      /\ pc'[t] = "off" => trip'[t] = << >>
    BY DEF RouteInv
  <1>1. pc'[t] = "off" => trip'[t] = << >>
    BY OffStep DEF RouteInv
  <1>2. trip[t] \in Seq(Host) /\ trip'[t] \in Seq(Host) /\ route[t] \in Seq(Host)
    BY TripType DEF TypeOK
  <1>3. Len(route[t]) <= Len(trip[t])
    BY DEF RouteInv
  <1>4. CASE route'[t] = route[t] /\ trip'[t] = trip[t]
    BY <1>1, <1>3, <1>4
  <1>5. CASE route'[t] = route[t] /\ trip[t] = << >>
    BY <1>1, <1>2, <1>3, <1>5
  <1>6. ASSUME NEW h \in Host, Queued(h, t), trip'[t] = trip[t], route'[t] = Append(route[t], h)
        PROVE  Len(route'[t]) <= Len(trip'[t])
    <2>1. Len(route[t]) < Len(trip[t])
      BY <1>6, NextOnList
    <2> QED BY <1>2, <1>6, <2>1
  <1> QED BY <1>1, <1>4, <1>5, <1>6, Grow

\* A tour that is through stays so.
LEMMA CompleteStable ==
  ASSUME TypeOK, RouteInv, PacketInv, [Next]_vars, NEW t \in Host, Abs!Complete(t)
  PROVE  Abs!Complete(t)'
  <1>1. trip[t] # << >> /\ Len(route[t]) = Len(trip[t])
    BY DEF Abs!Complete
  <1>2. ASSUME NEW h \in Host, Queued(h, t)
        PROVE  FALSE
    <2>1. Len(route[t]) < Len(trip[t]) /\ route[t] \in Seq(Host)
      BY <1>2, NextOnList
    <2> QED BY <1>1, <2>1
  <1> QED BY <1>1, <1>2, Grow DEF Abs!Complete

\* A host of a tour stays one.
LEMMA MemberStable ==
  ASSUME TypeOK, RouteInv, PacketInv, [Next]_vars, NEW g \in Host, Abs!Member(g)
  PROVE  Abs!Member(g)'
  <1>1. CASE trip[g] # << >>
    BY <1>1, Grow DEF Abs!Member
  <1>2. ASSUME NEW t \in Host, NEW i \in DOMAIN route[t], route[t][i] = g
        PROVE  i \in DOMAIN route'[t] /\ route'[t][i] = g
    <2>1. CASE route'[t] = route[t]
      BY <1>2, <2>1
    <2>2. ASSUME NEW h \in Host, route'[t] = Append(route[t], h)
          PROVE  i \in DOMAIN route'[t] /\ route'[t][i] = g
      <3>1. route[t] \in Seq(Host)
        BY DEF TypeOK
      <3> QED BY <1>2, <2>2, <3>1
    <2> QED BY <2>1, <2>2, Grow
  <1> QED BY <1>1, <1>2 DEF Abs!Member

-----------------------------------------------------------------------------
(* The group.                                                              *)

\* Nobody has a message, or will have one without a new event.
Silent ==
  /\ \A g \in Host : udpq[g] = 0 /\ pc[g] \notin {"group", "sleep"} \cup Leaving
  /\ \A g \in Host, p \in Port : mnet[p][g] = 0

LEMMA SilentInv ==
  ASSUME TypeOK
  PROVE  Silent <=> ~(\E h \in Host : Heard(h) \/ \E p \in Port : mnet[p][h] > 0)
  <1>1. /\ \A g \in Host : udpq[g] \in Nat
        /\ \A g \in Host, p \in Port : mnet[p][g] \in Nat
    BY DEF TypeOK
  <1>2. /\ \A g \in Host : udpq[g] = 0 <=> ~(udpq[g] > 0)
        /\ \A g \in Host, p \in Port : mnet[p][g] = 0 <=> ~(mnet[p][g] > 0)
    BY <1>1
  <1> QED BY <1>2 DEF Silent, Heard

\* The last host of a list ends a silence, and then its tour is through.
LEMMA GroupStep ==
  TypeOK /\ RouteInv /\ PacketInv /\ GroupInv /\ TypeOK' /\ [Next]_vars => GroupInv'
  <1> SUFFICES ASSUME TypeOK, RouteInv, PacketInv, GroupInv, TypeOK', [Next]_vars
               PROVE  GroupInv'
    OBVIOUS
  <1>1. CASE \E t \in Host : Abs!Complete(t)
    BY <1>1, CompleteStable DEF GroupInv
  <1>2. CASE Silent
    <2> SUFFICES Silent' \/ \E t \in Host : Abs!Complete(t)'
      BY DEF GroupInv, Silent, Heard
    <2>1. CASE UNCHANGED vars
      BY <1>2, <2>1 DEF Silent, vars, procVars, groupVars
    <2>2. CASE Next
      <3>0. PICK h \in Host, s \in Host :
             \/ Start(h) \/ (\E hosts \in Trips, p \in Port : StartTour(h, hosts, p))
             \/ Select(h) \/ ReadFails(h) \/ Group(h)
             \/ HandleTour(h, s) \/ HandleTourFails(h, s)
             \/ Announce(h) \/ Stop(h) \/ Cleanup(h)
             \/ Identify(h) \/ Drain(h) \/ TimeOut(h) \/ EndFails(h) \/ Crash(h)
             \/ PingEnds(h, s) \/ RecvEnds(h) \/ Deliver(h) \/ Lose(h)
             \/ (\E p \in Port : DeliverGroup(p, h) \/ LoseGroup(p, h))
        BY <2>2, NextCases
      <3>1. CASE Start(h) \/ Select(h) \/ ReadFails(h)
        <4>1. UNCHANGED groupVars /\ \E w \in {"select", "failed", "tour", "cleanup"} : Goto(h, w)
          BY <1>2, <3>1 DEF Silent, Start, Select, ReadFails
        <4>2. pc \in [Host -> {"off", "cleanup", "failed"} \cup Looping \cup Leaving]
          BY DEF TypeOK
        <4> QED BY <1>2, <4>1, <4>2 DEF Silent, Goto, Leaving, groupVars
      <3>2. ASSUME NEW hosts \in Trips, NEW p \in Port, StartTour(h, hosts, p) PROVE Silent'
        BY <1>2, <3>2 DEF TypeOK, Silent, StartTour, Goto, Leaving
      <3>3. CASE HandleTour(h, s) /\ packet[s].ips # << >>
        BY <1>2, <3>3 DEF TypeOK, Silent, HandleTour, Goto, Leaving
      <3>4. CASE HandleTour(h, s) /\ packet[s].ips = << >>
        <4>1. /\ trip[s] \in Seq(Host) /\ route[s] \in Seq(Host)
              /\ Len(route[s]) + 1 + Len(packet[s].ips) = Len(trip[s])
          BY <3>4, NextOnList DEF HandleTour
        <4>2. trip'[s] = trip[s] /\ route'[s] = Append(route[s], h)
          BY <3>4 DEF HandleTour, TypeOK
        <4>3. Len(packet[s].ips) = 0
          BY <3>4
        <4>4. Len(route'[s]) = Len(trip'[s]) /\ trip'[s] # << >>
          BY <4>1, <4>2, <4>3
        <4> QED BY <4>4 DEF Abs!Complete
      <3>5. CASE HandleTourFails(h, s)
        BY <1>2, <3>5 DEF TypeOK, Silent, HandleTourFails, Goto, Leaving
      <3>6. CASE Cleanup(h) \/ Crash(h)
        BY <1>2, <3>6 DEF TypeOK, Silent, Cleanup, Crash, Exit, Goto, Leaving
      <3>7. CASE Group(h) \/ Announce(h) \/ Stop(h) \/ Identify(h) \/ Drain(h) \/ TimeOut(h) \/ EndFails(h)
        BY <1>2, <3>7 DEF Silent, Group, Announce, Stop, Identify, Drain, TimeOut, EndFails, Leaving
      <3>8. CASE PingEnds(h, s) \/ RecvEnds(h) \/ Deliver(h) \/ Lose(h)
        BY <1>2, <3>8 DEF Silent, PingEnds, RecvEnds, Deliver, Lose, procVars, groupVars
      <3>9. ASSUME NEW p \in Port, DeliverGroup(p, h) \/ LoseGroup(p, h) PROVE FALSE
        BY <1>2, <3>9 DEF Silent, DeliverGroup, LoseGroup
      <3> QED BY <3>0, <3>1, <3>2, <3>3, <3>4, <3>5, <3>6, <3>7, <3>8, <3>9
    <2> QED BY <2>1, <2>2
  <1> QED BY <1>1, <1>2, SilentInv DEF GroupInv

\* What MemberInv says of one host.
InGroup(g) ==
  /\ Heard(g) => port[g] # NoPort
  /\ pc[g] = "group" => udpq[g] > 0
  /\ port[g] # NoPort /\ pc[g] \notin {"cleanup", "failed"} => Abs!Member(g)

LEMMA MemberStep ==
  TypeOK /\ RouteInv /\ PacketInv /\ MemberInv /\ TypeOK' /\ [Next]_vars => MemberInv'
  <1> SUFFICES ASSUME TypeOK, RouteInv, PacketInv, MemberInv, TypeOK', [Next]_vars, NEW g \in Host
               PROVE  InGroup(g)'
    BY DEF MemberInv, InGroup
  <1>a. InGroup(g)
    BY DEF MemberInv, InGroup
  <1>b. Abs!Member(g) => Abs!Member(g)'
    BY MemberStable
  <1>c. /\ NoPort \notin Port /\ udpq[g] \in Nat /\ udpq'[g] \in Nat
        /\ pc \in [Host -> {"off", "cleanup", "failed"} \cup Looping \cup Leaving]
        /\ port \in [Host -> Port \cup {NoPort}] /\ udpq \in [Host -> Nat]
    BY TourAssumption DEF TypeOK
  <1>0. CASE UNCHANGED vars
    BY <1>0, <1>a, <1>b DEF InGroup, Heard, vars, procVars, groupVars
  <1>1. CASE Next
    <2>0. PICK h \in Host, s \in Host :
           \/ Start(h) \/ (\E hosts \in Trips, p \in Port : StartTour(h, hosts, p))
           \/ Select(h) \/ ReadFails(h) \/ Group(h)
           \/ HandleTour(h, s) \/ HandleTourFails(h, s)
           \/ Announce(h) \/ Stop(h) \/ Cleanup(h)
           \/ Identify(h) \/ Drain(h) \/ TimeOut(h) \/ EndFails(h) \/ Crash(h)
           \/ PingEnds(h, s) \/ RecvEnds(h) \/ Deliver(h) \/ Lose(h)
           \/ (\E p \in Port : DeliverGroup(p, h) \/ LoseGroup(p, h))
      BY <1>1, NextCases
    <2>1. CASE Start(h)
      BY <2>1, <1>a, <1>b, <1>c DEF InGroup, Heard, Start, Goto, Leaving, groupVars
    <2>2. ASSUME NEW hosts \in Trips, NEW p \in Port, StartTour(h, hosts, p) PROVE InGroup(g)'
      <3>1. CASE Goto(h, "failed") /\ UNCHANGED port
        BY <2>2, <3>1, <1>a, <1>b, <1>c DEF InGroup, Heard, StartTour, Goto, Leaving
      <3>2. CASE /\ Goto(h, "select") /\ port' = [port EXCEPT ![h] = p]
                 /\ trip' = [trip EXCEPT ![h] = hosts]
        <4>1. g = h => Abs!Member(g)'
          <5>1. g = h => trip'[g] = hosts /\ hosts # << >>
            BY <3>2, ReverseType DEF TypeOK
          <5> QED BY <5>1 DEF Abs!Member
        <4> QED BY <2>2, <3>2, <4>1, <1>a, <1>b, <1>c DEF InGroup, Heard, StartTour, Goto, Leaving
      <3> QED BY <2>2, <3>1, <3>2 DEF StartTour, bind_port
    <2>3. CASE Select(h)
      BY <2>3, <1>a, <1>b, <1>c DEF InGroup, Heard, Select, Goto, Leaving, groupVars
    <2>4. CASE ReadFails(h)
      BY <2>4, <1>a, <1>b, <1>c DEF InGroup, Heard, ReadFails, Goto, Leaving, groupVars
    <2>5. CASE Group(h)
      BY <2>5, <1>a, <1>b, <1>c DEF InGroup, Heard, Group, Goto, Leaving
    <2>6. CASE HandleTour(h, s)
      <3>1. g = h => Abs!Member(g)'
        <4>1. route'[s] = Append(route[s], h) /\ route[s] \in Seq(Host)
          BY <2>6 DEF HandleTour, TypeOK
        <4>2. /\ Len(route[s]) + 1 \in DOMAIN route'[s]
              /\ route'[s][Len(route[s]) + 1] = h
          BY <4>1
        <4> QED BY <4>2 DEF Abs!Member
      <3>2. packet[s].port \in Port
        BY <2>6, NextOnList DEF HandleTour
      <3>3. /\ g = h => port'[g] # NoPort
            /\ g # h => port'[g] = port[g] /\ pc'[g] = pc[g]
            /\ udpq' = udpq /\ pc'[h] \in {"select", "sleep"}
        BY <2>6, <3>2, <1>c DEF HandleTour, Joined, Goto, bind_port
      <3> QED BY <3>1, <3>3, <1>a, <1>b DEF InGroup, Heard
    <2>7. CASE HandleTourFails(h, s)
      <3>1. packet[s].port \in Port
        BY <2>7, NextOnList DEF HandleTourFails
      <3>2. /\ port'[g] = port[g] \/ (g = h /\ port'[g] # NoPort)
            /\ g # h => pc'[g] = pc[g]
            /\ udpq' = udpq /\ pc'[h] = "cleanup"
        BY <2>7, <3>1, <1>c DEF HandleTourFails, Joined, Goto, bind_port
      <3> QED BY <3>2, <1>a, <1>b DEF InGroup, Heard, Leaving
    <2>8. CASE Announce(h)
      BY <2>8, <1>a, <1>b, <1>c DEF InGroup, Heard, Announce, multicast, Goto, Leaving
    <2>9. CASE Stop(h)
      BY <2>9, <1>a, <1>b, <1>c DEF InGroup, Heard, Stop, Goto, Leaving, groupVars
    <2>10. CASE Cleanup(h) \/ TimeOut(h) \/ EndFails(h) \/ Crash(h)
      BY <2>10, <1>a, <1>b, <1>c DEF InGroup, Heard, Cleanup, TimeOut, EndFails, Crash, Exit, Goto, Leaving
    <2>11. CASE Identify(h)
      BY <2>11, <1>a, <1>b, <1>c DEF InGroup, Heard, Identify, multicast, Exit, Goto, Leaving
    <2>12. CASE Drain(h)
      BY <2>12, <1>a, <1>b, <1>c DEF InGroup, Heard, Drain, Leaving, procVars
    <2>13. CASE PingEnds(h, s) \/ RecvEnds(h) \/ Deliver(h) \/ Lose(h)
      BY <2>13, <1>a, <1>b DEF InGroup, Heard, PingEnds, RecvEnds, Deliver, Lose, procVars, groupVars
    <2>14. ASSUME NEW p \in Port, DeliverGroup(p, h) PROVE InGroup(g)'
      BY <2>14, <1>a, <1>b, <1>c DEF InGroup, Heard, DeliverGroup, procVars
    <2>15. ASSUME NEW p \in Port, LoseGroup(p, h) PROVE InGroup(g)'
      BY <2>15, <1>a, <1>b DEF InGroup, Heard, LoseGroup, procVars
    <2> QED BY <2>0, <2>1, <2>2, <2>3, <2>4, <2>5, <2>6, <2>7, <2>8, <2>9, <2>10, <2>11,
                <2>12, <2>13, <2>14, <2>15
  <1> QED BY <1>0, <1>1

-----------------------------------------------------------------------------
(* The invariant of every behaviour.                                       *)

LEMMA InitInv == Init => TourInv
  <1> SUFFICES ASSUME Init PROVE TourInv
    OBVIOUS
  <1>1. TypeOK
    BY TourAssumption DEF Init, TypeOK, Packet
  <1>2. PacketInv
    BY DEF Init, PacketInv
  <1>3. RouteInv
    BY DEF Init, RouteInv
  <1>4. ~(\E h \in Host : Heard(h) \/ \E p \in Port : mnet[p][h] > 0)
    BY DEF Init, Heard, Leaving
  <1>5. GroupInv
    BY <1>4 DEF GroupInv
  <1>6. MemberInv
    BY <1>4 DEF Init, MemberInv
  <1> QED BY <1>1, <1>2, <1>3, <1>5, <1>6 DEF TourInv

LEMMA InvStep == TourInv /\ [Next]_vars => TourInv'
  BY TypeStep, PacketStep, RouteStep, GroupStep, MemberStep DEF TourInv

(* TourInv, for any hosts and lists: a packet of run_tour is always where  *)
(* its list says, and there are messages only when a tour is through.      *)
THEOREM TourInvariant == Spec => []TourInv
  BY InitInv, InvStep, PTL DEF Spec

(* Every variable of run_tour keeps its type, for which MemberInv is       *)
(* needed: multicast sends to the port of a group that was joined, and     *)
(* recvfrom on the group's socket takes only a message that is there.      *)
THEOREM TypeCorrect == Spec => []TypeOK
  <1>1. TourInv => TypeOK BY DEF TourInv
  <1> QED BY <1>1, TourInvariant, PTL

-----------------------------------------------------------------------------
(* The ping threads.                                                       *)

\* What a visit of h adds to the senders.
LEMMA SendersVisit ==
  ASSUME TypeOK, NEW h \in Host, NEW s \in Host, NEW g \in Host,
         route' = [route EXCEPT ![s] = Append(@, h)],
         Before(s, Len(route[s]) + 1) \in Host
  PROVE  Senders(g)' = IF g = h THEN Senders(g) \cup {Before(s, Len(route[s]) + 1)}
                                ELSE Senders(g)
  <1>1. \A u \in Host : route[u] \in Seq(Host) /\ Len(route[u]) \in Nat
    BY DEF TypeOK
  <1>n. PICK n \in Nat : n = Len(route[s]) + 1
    BY <1>1
  <1>2. \A u \in Host : u # s => route'[u] = route[u]
    BY DEF TypeOK
  <1>3. route'[s] = Append(route[s], h)
    BY DEF TypeOK
  <1>4. /\ DOMAIN route'[s] = 1..n /\ DOMAIN route[s] = 1..Len(route[s])
        /\ route'[s][n] = h
        /\ \A i \in 1..Len(route[s]) : route'[s][i] = route[s][i]
    BY <1>1, <1>3, <1>n
  <1>5. n \in 1..n /\ \A i \in 1..n : i = n \/ i \in 1..Len(route[s])
    BY <1>1, <1>n
  <1>6. \A i \in 1..n : Before(s, i)' = Before(s, i)
    <2> SUFFICES ASSUME NEW i \in 1..n PROVE Before(s, i)' = Before(s, i)
      OBVIOUS
    <2>1. CASE i = 1
      BY <2>1 DEF Before
    <2>2. CASE i # 1
      <3>1. i - 1 \in 1..Len(route[s])
        BY <1>1, <1>n, <2>2
      <3>2. route'[s][i - 1] = route[s][i - 1]
        BY <3>1, <1>4
      <3> QED BY <2>2, <3>2 DEF Before
    <2> QED BY <2>1, <2>2
  <1>7. \A u \in Host : u # s => \A i \in DOMAIN route[u] : Before(u, i)' = Before(u, i)
    BY <1>2 DEF Before
  <1>8. ASSUME NEW t \in Host, t \in Senders(g)
        PROVE  t \in Senders(g)'
    <2>0. PICK u \in Host : \E i \in DOMAIN route[u] : route[u][i] = g /\ t = Before(u, i)
      BY <1>8 DEF Senders
    <2>1. PICK i \in DOMAIN route[u] : route[u][i] = g /\ t = Before(u, i)
      BY <2>0
    <2>2. CASE u # s
      BY <2>1, <2>2, <1>2, <1>7 DEF Senders
    <2>3. CASE u = s
      <3>1. i \in 1..n /\ i \in 1..Len(route[s])
        BY <2>1, <2>3, <1>1, <1>4, <1>n
      <3>2. i \in DOMAIN route'[s] /\ route'[s][i] = g /\ t = Before(s, i)'
        BY <2>1, <2>3, <3>1, <1>4, <1>6
      <3> QED BY <3>2 DEF Senders
    <2> QED BY <2>2, <2>3
  <1>9. Before(s, n) \in Senders(h)'
    <2>1. n \in DOMAIN route'[s] /\ route'[s][n] = h /\ Before(s, n)' = Before(s, n)
      BY <1>4, <1>5, <1>6
    <2>2. Before(s, n) \in Host
      BY <1>n
    <2> QED BY <2>1, <2>2 DEF Senders
  <1>10. ASSUME NEW t \in Host, t \in Senders(g)'
         PROVE  t \in Senders(g) \/ (g = h /\ t = Before(s, n))
    <2>0. PICK u \in Host : \E i \in DOMAIN route'[u] : route'[u][i] = g /\ t = Before(u, i)'
      BY <1>10 DEF Senders
    <2>1. PICK i \in DOMAIN route'[u] : route'[u][i] = g /\ t = Before(u, i)'
      BY <2>0
    <2>2. CASE u # s
      BY <2>1, <2>2, <1>2, <1>7 DEF Senders
    <2>3. CASE u = s /\ i = n
      BY <2>1, <2>3, <1>4, <1>6
    <2>4. CASE u = s /\ i # n
      <3>1. i \in 1..n /\ i \in DOMAIN route[s]
        BY <2>1, <2>4, <1>4, <1>5
      <3>2. route[s][i] = g /\ t = Before(s, i)
        BY <2>1, <2>4, <3>1, <1>4, <1>6
      <3> QED BY <3>1, <3>2 DEF Senders
    <2> QED BY <2>2, <2>3, <2>4
  <1>11. Senders(g) \subseteq Host /\ Senders(g)' \subseteq Host
    BY DEF Senders
  <1>12. CASE g = h
    <2>1. Senders(g)' = Senders(g) \cup {Before(s, n)}
      BY <1>8, <1>9, <1>10, <1>11, <1>12
    <2> QED BY <2>1, <1>12, <1>n
  <1>13. CASE g # h
    BY <1>8, <1>10, <1>11, <1>13
  <1> QED BY <1>12, <1>13

\* The list q has one thread for each host of T and no other.
ThreadsFor(q, T) ==
  /\ {q[i].tgt : i \in DOMAIN q} = T
  /\ \A i, j \in DOMAIN q : q[i].tgt = q[j].tgt => i = j

LEMMA PrependThread ==
  ASSUME NEW q \in Seq(Pingt), NEW T, NEW t \in Host, ThreadsFor(q, T), t \notin T
  PROVE  ThreadsFor(<<[tgt |-> t, runs |-> TRUE]>> \o q, T \cup {t})
  <1> DEFINE r == <<[tgt |-> t, runs |-> TRUE]>> \o q
  <1>1. /\ r \in Seq(Pingt) /\ Len(r) = Len(q) + 1 /\ r[1].tgt = t
        /\ \A i \in 1..Len(q) : r[i + 1] = q[i]
    BY PrependList
  <1> HIDE DEF r
  <1>2. PICK n \in Nat : n = Len(q) /\ DOMAIN q = 1..n
    OBVIOUS
  <1>3. DOMAIN r = 1..(n + 1)
    BY <1>1, <1>2
  <1>4. \A i \in 1..n : i + 1 \in 1..(n + 1) /\ r[i + 1].tgt = q[i].tgt
    BY <1>1, <1>2
  <1>5. \A i \in 1..(n + 1) : i = 1 \/ (i - 1 \in 1..n /\ r[i].tgt = q[i - 1].tgt)
    <2> SUFFICES ASSUME NEW i \in 1..(n + 1), i # 1
                 PROVE  i - 1 \in 1..n /\ r[i].tgt = q[i - 1].tgt
      OBVIOUS
    <2>1. i - 1 \in 1..n /\ (i - 1) + 1 = i
      OBVIOUS
    <2> QED BY <2>1, <1>4
  <1>6. \A i \in 1..n : q[i].tgt \in T
    BY <1>2 DEF ThreadsFor
  <1>7. 1 \in 1..(n + 1)
    OBVIOUS
  <1>8. {r[i].tgt : i \in DOMAIN r} = T \cup {t}
    <2>1. ASSUME NEW i \in DOMAIN r PROVE r[i].tgt \in T \cup {t}
      BY <2>1, <1>1, <1>3, <1>5, <1>6
    <2>2. ASSUME NEW u \in T PROVE u \in {r[i].tgt : i \in DOMAIN r}
      <3>1. PICK i \in 1..n : u = q[i].tgt
        BY <1>2 DEF ThreadsFor
      <3> QED BY <3>1, <1>3, <1>4
    <2>3. t \in {r[i].tgt : i \in DOMAIN r}
      BY <1>1, <1>3, <1>7
    <2> QED BY <2>1, <2>2, <2>3
  <1>9. ASSUME NEW i \in DOMAIN r, NEW j \in DOMAIN r, r[i].tgt = r[j].tgt PROVE i = j
    <2>1. CASE i = 1 \/ j = 1
      BY <1>9, <2>1, <1>1, <1>3, <1>5, <1>6
    <2>2. CASE i # 1 /\ j # 1
      <3>1. i - 1 \in 1..n /\ j - 1 \in 1..n /\ q[i - 1].tgt = q[j - 1].tgt
        BY <1>9, <2>2, <1>3, <1>5
      <3>2. i - 1 = j - 1
        BY <3>1, <1>2 DEF ThreadsFor
      <3> QED BY <3>2, <1>3
    <2> QED BY <2>1, <2>2
  <1>10. ThreadsFor(r, T \cup {t})
    BY <1>8, <1>9 DEF ThreadsFor
  <1> QED BY <1>10 DEF r

LEMMA EndThread ==
  ASSUME NEW q \in Seq(Pingt), NEW T, NEW i \in DOMAIN q, ThreadsFor(q, T)
  PROVE  ThreadsFor([q EXCEPT ![i].runs = FALSE], T)
  <1> DEFINE r == [q EXCEPT ![i].runs = FALSE]
  <1>1. DOMAIN r = DOMAIN q /\ \A j \in DOMAIN q : r[j].tgt = q[j].tgt
    BY EndedList
  <1> HIDE DEF r
  <1>2. ThreadsFor(r, T)
    BY <1>1 DEF ThreadsFor
  <1> QED BY <1>2 DEF r

\* PingsPredecessors, and that the list is right before the process starts.
PingsInv ==
  \A h \in Host : pc[h] \in Looping \cup {"off"} => ThreadsFor(pings[h], Senders(h))

LEMMA PingsStep == TourInv /\ PingsInv /\ [Next]_vars => PingsInv'
  <1> SUFFICES ASSUME TypeOK, PacketInv, PingsInv, [Next]_vars, NEW g \in Host,
                      pc'[g] \in Looping \cup {"off"}
               PROVE  ThreadsFor(pings'[g], Senders(g)')
    BY DEF PingsInv, TourInv
  <1>a. UNCHANGED route => Senders(g)' = Senders(g)
    BY DEF Senders, Before
  <1>b. pc[g] \in Looping \cup {"off"} => ThreadsFor(pings[g], Senders(g))
    BY DEF PingsInv
  <1>c. /\ pc \in [Host -> {"off", "cleanup", "failed"} \cup Looping \cup Leaving]
        /\ pings \in [Host -> Seq(Pingt)]
    BY DEF TypeOK
  <1>0. CASE UNCHANGED vars
    BY <1>0, <1>a, <1>b DEF vars, procVars, packetVars, threadVars
  <1>1. CASE Next
    <2>0. PICK h \in Host, s \in Host :
           \/ Start(h) \/ (\E hosts \in Trips, p \in Port : StartTour(h, hosts, p))
           \/ Select(h) \/ ReadFails(h) \/ Group(h)
           \/ HandleTour(h, s) \/ HandleTourFails(h, s)
           \/ Announce(h) \/ Stop(h) \/ Cleanup(h)
           \/ Identify(h) \/ Drain(h) \/ TimeOut(h) \/ EndFails(h) \/ Crash(h)
           \/ PingEnds(h, s) \/ RecvEnds(h) \/ Deliver(h) \/ Lose(h)
           \/ (\E p \in Port : DeliverGroup(p, h) \/ LoseGroup(p, h))
      BY <1>1, NextCases
    <2>1. CASE Start(h)
      BY <2>1, <1>a, <1>b, <1>c DEF Start, Goto, Looping, packetVars
    <2>2. ASSUME NEW hosts \in Trips, NEW p \in Port, StartTour(h, hosts, p)
          PROVE  ThreadsFor(pings'[g], Senders(g)')
      BY <2>2, <1>a, <1>b, <1>c DEF StartTour, Goto, Looping
    <2>3. CASE Select(h) \/ ReadFails(h) \/ Group(h) \/ Announce(h)
      BY <2>3, <1>a, <1>b, <1>c
      DEF Select, ReadFails, Group, Announce, Goto, Looping, packetVars, threadVars
    <2>4. CASE HandleTour(h, s)
      <3>1. packet[s].src = Before(s, Len(route[s]) + 1) /\ packet[s].src \in Host
        BY <2>4, NextOnList DEF HandleTour, TypeOK, Packet
      <3>2. Senders(g)' = IF g = h THEN Senders(g) \cup {packet[s].src} ELSE Senders(g)
        <4>1. route' = [route EXCEPT ![s] = Append(@, h)] /\ Before(s, Len(route[s]) + 1) \in Host
          BY <2>4, <3>1 DEF HandleTour
        <4>2. Senders(g)' = IF g = h THEN Senders(g) \cup {Before(s, Len(route[s]) + 1)}
                                     ELSE Senders(g)
          BY <4>1, SendersVisit
        <4> QED BY <3>1, <4>2
      <3>3. pings'[g] = IF g = h /\ packet[s].src \notin Targets(g)
                        THEN <<[tgt |-> packet[s].src, runs |-> TRUE]>> \o pings[g]
                        ELSE pings[g]
        BY <2>4, <1>c DEF HandleTour, create_pingt
      <3>4. pc[g] \in Looping \cup {"off"}
        BY <2>4, <1>c DEF HandleTour, Goto, Looping
      <3>5. ThreadsFor(pings[g], Senders(g)) /\ Targets(g) = Senders(g)
        BY <3>4, <1>b DEF ThreadsFor, Targets
      <3>6. CASE g = h /\ packet[s].src \notin Targets(g)
        <4>1. ThreadsFor(pings'[g], Senders(g) \cup {packet[s].src})
          BY <3>1, <3>3, <3>5, <3>6, <1>c, PrependThread
        <4> QED BY <4>1, <3>2, <3>6
      <3>7. CASE ~(g = h /\ packet[s].src \notin Targets(g))
        <4>1. pings'[g] = pings[g]
          BY <3>3, <3>7
        <4>2. Senders(g)' = Senders(g)
          BY <3>2, <3>5, <3>7
        <4> QED BY <4>1, <4>2, <3>5
      <3> QED BY <3>6, <3>7
    <2>5. CASE HandleTourFails(h, s)
      <3>1. packet[s].src = Before(s, Len(route[s]) + 1) /\ packet[s].src \in Host
        BY <2>5, NextOnList DEF HandleTourFails, TypeOK, Packet
      <3>2. g # h /\ pc[g] \in Looping \cup {"off"}
        BY <2>5, <1>c DEF HandleTourFails, Goto, Looping
      <3>3. Senders(g)' = Senders(g)
        BY <2>5, <3>1, <3>2, <1>a, SendersVisit DEF HandleTourFails
      <3>4. pings'[g] = pings[g]
        BY <2>5, <3>2, <1>c DEF HandleTourFails, create_pingt
      <3> QED BY <3>2, <3>3, <3>4, <1>b
    <2>6. CASE Stop(h)
      BY <2>6, <1>a, <1>b, <1>c DEF Stop, Goto, Looping, packetVars, destroy_pingt
    <2>7. CASE Cleanup(h) \/ TimeOut(h) \/ EndFails(h) \/ Crash(h)
      BY <2>7, <1>a, <1>b, <1>c DEF Cleanup, TimeOut, EndFails, Crash, Exit, Goto, Looping, destroy_pingt
    <2>8. CASE Identify(h)
      BY <2>8, <1>a, <1>b, <1>c DEF Identify, Exit, Goto, Looping, threadVars, destroy_pingt
    <2>9. CASE PingEnds(h, s)
      <3>1. PICK i \in DOMAIN pings[h] : pings' = [pings EXCEPT ![h][i].runs = FALSE]
        BY <2>9 DEF PingEnds
      <3>2. ThreadsFor(pings[g], Senders(g)) /\ Senders(g)' = Senders(g)
        BY <2>9, <1>a, <1>b DEF PingEnds, procVars, packetVars
      <3>3. pings'[g] = IF g = h THEN [pings[g] EXCEPT ![i].runs = FALSE] ELSE pings[g]
        BY <3>1, <1>c
      <3>4. CASE g = h
        <4>1. ThreadsFor([pings[g] EXCEPT ![i].runs = FALSE], Senders(g))
          BY <3>1, <3>2, <3>4, <1>c, EndThread
        <4> QED BY <4>1, <3>2, <3>3, <3>4
      <3>5. CASE g # h
        BY <3>2, <3>3, <3>5
      <3> QED BY <3>4, <3>5
    <2>11. CASE Drain(h) \/ RecvEnds(h) \/ Deliver(h) \/ Lose(h)
      BY <2>11, <1>a, <1>b
      DEF Drain, RecvEnds, Deliver, Lose, procVars, packetVars, threadVars
    <2>10. ASSUME NEW p \in Port, DeliverGroup(p, h) \/ LoseGroup(p, h)
           PROVE  ThreadsFor(pings'[g], Senders(g)')
      BY <2>10, <1>a, <1>b DEF DeliverGroup, LoseGroup, procVars, packetVars, threadVars
    <2> QED BY <2>0, <2>1, <2>2, <2>3, <2>4, <2>5, <2>6, <2>7, <2>8, <2>9, <2>10, <2>11
  <1> QED BY <1>0, <1>1

LEMMA PingsInit == Init => PingsInv
  <1> SUFFICES ASSUME Init, NEW h \in Host PROVE ThreadsFor(pings[h], Senders(h))
    BY DEF PingsInv
  <1>1. pings[h] = << >> /\ \A s \in Host : route[s] = << >>
    BY DEF Init
  <1>2. Senders(h) = {}
    BY <1>1 DEF Senders
  <1>3. DOMAIN pings[h] = {}
    BY <1>1
  <1> QED BY <1>2, <1>3 DEF ThreadsFor

(* PingsPredecessors, for any hosts, lists and number of overlapping tours:*)
(* create_pingt misses no host that sent a packet, adds no other and never *)
(* starts a second thread for one.                                         *)
THEOREM PingsCorrect == Spec => []PingsPredecessors
  <1>1. PingsInv => PingsPredecessors
    BY DEF PingsInv, PingsPredecessors, ThreadsFor, Targets
  <1> QED BY <1>1, PingsInit, PingsStep, TourInvariant, PTL DEF Spec

-----------------------------------------------------------------------------
(* Refinement.                                                             *)

\* How a step of a process looks to TourAbs.
LEMMA PhaseGoto ==
  ASSUME TypeOK, NEW h \in Host, NEW where, Goto(h, where)
  PROVE  /\ Phase' = [Phase EXCEPT ![h] = PhaseOf(where)]
         /\ PhaseOf(where) = PhaseOf(pc[h]) => Phase' = Phase
  <1>1. /\ \A g \in Host : pc'[g] = IF g = h THEN where ELSE pc[g]
        /\ pc \in [Host -> {"off", "cleanup", "failed"} \cup Looping \cup Leaving]
    BY DEF TypeOK, Goto
  <1>2. Phase' = [g \in Host |-> IF g = h THEN PhaseOf(where) ELSE PhaseOf(pc[g])]
    BY <1>1 DEF Phase
  <1> QED BY <1>2 DEF Phase

LEMMA PhaseValues ==
  /\ PhaseOf("cleanup") = "failed" /\ PhaseOf("failed") = "failed"
  /\ \A w \in Looping \cup {"off"} : PhaseOf(w) = "touring"
  /\ \A w \in Leaving : PhaseOf(w) = "left"
  BY DEF PhaseOf, Looping, Leaving

LEMMA RefineInit == Init => Abs!Init
  BY PhaseValues DEF Init, Abs!Init, Phase

\* A process that fails.
LEMMA RefineFail ==
  ASSUME TypeOK, NEW h \in Host, NEW where \in {"cleanup", "failed"}, Goto(h, where),
         UNCHANGED <<trip, route>>
  PROVE  Abs!Next
  <1>1. Phase' = [Phase EXCEPT ![h] = "failed"]
    BY PhaseGoto, PhaseValues
  <1> QED BY <1>1 DEF Abs!Next, Abs!Fail

\* A process that goes on within its phase.
LEMMA RefineStutter ==
  ASSUME TypeOK, NEW h \in Host, NEW where, Goto(h, where), PhaseOf(where) = PhaseOf(pc[h]),
         UNCHANGED <<trip, route>>
  PROVE  UNCHANGED Abs!absVars
  BY PhaseGoto DEF Abs!absVars

\* A packet that is handled.
LEMMA RefineVisit ==
  ASSUME TypeOK, PacketInv, NEW h \in Host, NEW s \in Host, pc[h] = "tour", Queued(h, s),
         NEW where \in {"select", "sleep", "cleanup"}, Goto(h, where),
         route' = [route EXCEPT ![s] = Append(@, h)], UNCHANGED trip
  PROVE  Abs!Next
  <1>1. h = trip[s][Len(route[s]) + 1] /\ Len(route[s]) < Len(trip[s])
    BY NextOnList
  <1>2. Phase[h] = "touring"
    BY PhaseValues DEF Phase, Looping
  <1>3. Phase' \in {Phase, [Phase EXCEPT ![h] = "failed"]}
    BY PhaseGoto, PhaseValues DEF Looping
  <1>4. Abs!Visit(s, h)
    BY <1>1, <1>2, <1>3 DEF Abs!Visit
  <1> QED BY <1>4 DEF Abs!Next

LEMMA RefineStep == TourInv /\ [Next]_vars => [Abs!Next]_(Abs!absVars)
  <1> SUFFICES ASSUME TypeOK, PacketInv, RouteInv, GroupInv, MemberInv, [Next]_vars
               PROVE  Abs!Next \/ UNCHANGED Abs!absVars
    BY DEF TourInv
  <1>c. pc \in [Host -> {"off", "cleanup", "failed"} \cup Looping \cup Leaving]
    BY DEF TypeOK
  <1>d. UNCHANGED <<pc, trip, route>> => UNCHANGED Abs!absVars
    BY DEF Phase, Abs!absVars
  <1>0. CASE UNCHANGED vars
    BY <1>0, <1>d DEF vars, procVars, packetVars
  <1>1. CASE Next
    <2>0. PICK h \in Host, s \in Host :
           \/ Start(h) \/ (\E hosts \in Trips, p \in Port : StartTour(h, hosts, p))
           \/ Select(h) \/ ReadFails(h) \/ Group(h)
           \/ HandleTour(h, s) \/ HandleTourFails(h, s)
           \/ Announce(h) \/ Stop(h) \/ Cleanup(h)
           \/ Identify(h) \/ Drain(h) \/ TimeOut(h) \/ EndFails(h) \/ Crash(h)
           \/ PingEnds(h, s) \/ RecvEnds(h) \/ Deliver(h) \/ Lose(h)
           \/ (\E p \in Port : DeliverGroup(p, h) \/ LoseGroup(p, h))
      BY <1>1, NextCases
    <2>1. CASE Start(h)
      <3>1. CASE Goto(h, "select")
        BY <2>1, <3>1, RefineStutter, PhaseValues DEF Start, Looping, packetVars
      <3>2. CASE Goto(h, "failed")
        BY <2>1, <3>2, RefineFail DEF Start, packetVars
      <3> QED BY <2>1, <3>1, <3>2 DEF Start
    <2>2. ASSUME NEW hosts \in Trips, NEW p \in Port, StartTour(h, hosts, p)
          PROVE  Abs!Next
      <3>1. CASE Goto(h, "failed") /\ UNCHANGED trip
        BY <2>2, <3>1, RefineFail DEF StartTour
      <3>2. CASE Goto(h, "select") /\ trip' = [trip EXCEPT ![h] = hosts]
        <4>1. trip[h] = << >>
          BY <2>2 DEF StartTour, RouteInv
        <4>2. Phase' = Phase /\ Phase[h] = "touring"
          BY <2>2, <3>2, PhaseGoto, PhaseValues DEF StartTour, Phase, Looping
        <4>3. Abs!Begin(h, hosts)
          BY <2>2, <3>2, <4>1, <4>2 DEF StartTour, Abs!Begin
        <4> QED BY <4>3 DEF Abs!Next
      <3> QED BY <2>2, <3>1, <3>2 DEF StartTour
    <2>3. CASE Select(h)
      BY <2>3, RefineStutter, PhaseValues DEF Select, Looping, packetVars
    <2>4. CASE ReadFails(h)
      BY <2>4, RefineFail DEF ReadFails, packetVars
    <2>5. CASE Group(h)
      <3>1. Phase' = [Phase EXCEPT ![h] = "left"] /\ Phase[h] = "touring"
        BY <2>5, PhaseGoto, PhaseValues DEF Group, Phase, Looping, Leaving
      <3>2. Heard(h)
        BY <2>5 DEF Group, Heard
      <3>3. Abs!Member(h)
        BY <2>5, <3>2 DEF Group, MemberInv
      <3>4. \E t \in Host : Abs!Complete(t)
        BY <3>2 DEF GroupInv
      <3>5. Abs!Leave(h)
        BY <2>5, <3>1, <3>3, <3>4 DEF Group, Abs!Leave, packetVars
      <3> QED BY <3>5 DEF Abs!Next
    <2>6. CASE HandleTour(h, s)
      BY <2>6, RefineVisit DEF HandleTour
    <2>7. CASE HandleTourFails(h, s)
      <3>1. CASE UNCHANGED route
        BY <2>7, <3>1, RefineFail DEF HandleTourFails
      <3>2. CASE route' = [route EXCEPT ![s] = Append(@, h)]
        BY <2>7, <3>2, RefineVisit DEF HandleTourFails
      <3> QED BY <2>7, <3>1, <3>2 DEF HandleTourFails
    <2>8. CASE Announce(h)
      <3>1. CASE Goto(h, "select")
        BY <2>8, <3>1, RefineStutter, PhaseValues DEF Announce, Looping, packetVars
      <3>2. CASE Goto(h, "cleanup")
        BY <2>8, <3>2, RefineFail DEF Announce, packetVars
      <3> QED BY <2>8, <3>1, <3>2 DEF Announce
    <2>9. CASE Stop(h)
      <3>1. CASE Goto(h, "identify")
        BY <2>9, <3>1, RefineStutter, PhaseValues DEF Stop, Leaving, packetVars
      <3>2. CASE Goto(h, "cleanup")
        BY <2>9, <3>2, RefineFail DEF Stop, packetVars
      <3> QED BY <2>9, <3>1, <3>2 DEF Stop
    <2>10. CASE Cleanup(h) \/ EndFails(h) \/ Crash(h)
      BY <2>10, RefineFail DEF Cleanup, EndFails, Crash, Exit
    <2>11. CASE Identify(h)
      <3>1. CASE Goto(h, "ending")
        BY <2>11, <3>1, RefineStutter, PhaseValues DEF Identify, Leaving
      <3>2. CASE Goto(h, "failed")
        BY <2>11, <3>2, RefineFail DEF Identify
      <3> QED BY <2>11, <3>1, <3>2 DEF Identify, Exit
    <2>12. CASE TimeOut(h)
      BY <2>12, RefineStutter, PhaseValues DEF TimeOut, Exit, Leaving
    <2>13. CASE Drain(h) \/ PingEnds(h, s) \/ RecvEnds(h) \/ Deliver(h) \/ Lose(h)
      BY <2>13, <1>d DEF Drain, PingEnds, RecvEnds, Deliver, Lose, procVars, packetVars
    <2>14. ASSUME NEW p \in Port, DeliverGroup(p, h) \/ LoseGroup(p, h)
           PROVE  UNCHANGED Abs!absVars
      BY <2>14, <1>d DEF DeliverGroup, LoseGroup, procVars, packetVars
    <2> QED BY <2>0, <2>1, <2>2, <2>3, <2>4, <2>5, <2>6, <2>7, <2>8, <2>9, <2>10, <2>11,
                <2>12, <2>13, <2>14
  <1> QED BY <1>0, <1>1

(* tour.c implements TourAbs for any hosts, lists and number of faults:    *)
(* tours follow their lists and no host leaves before some tour is through.*)
THEOREM Refinement == Spec => ImplementsTour
  BY RefineInit, RefineStep, TourInvariant, PTL DEF Spec, ImplementsTour, Abs!Spec
=============================================================================
