-------------------------------- MODULE Tour --------------------------------
(***************************************************************************)
(* The tour program (tour.c) on every host, with its ping threads (ping.c),*)
(* the tour packets and the multicast group that ends a tour.              *)
(*                                                                         *)
(* A tour is named by the host that started it.  Its packet is sent once   *)
(* by start_tour and then once by each host that received it, so it is in  *)
(* one place at a time: in the network or in the raw socket of a host.     *)
(* run_tour prints the messages of the group and never looks at them, so   *)
(* they are only counted.                                                  *)
(*                                                                         *)
(* Everything that may go wrong (a packet or message lost, a call of the   *)
(* system failing, a thread that ends by itself) is counted in faults,     *)
(* which MaxFaults bounds.                                                 *)
(***************************************************************************)
EXTENDS Integers, Sequences, SequencesExt

CONSTANTS
  Host,      \* the hosts, one process on each
  Starter,   \* the hosts on which the program may be given a list
  Trips,     \* the lists of hosts on the command line
  Port,      \* the ports that bind(2) chooses for a tour
  NoPort,    \* the UDP socket is not bound
  MaxFaults  \* how many things go wrong

VARIABLES
  pc,       \* where the process of each host is
  trip,     \* the list it was started with, empty when it has none
  route,    \* the hosts that the tour of each host has been to
  at,       \* where the packet of each tour is
  packet,   \* the packet of each tour, last sent
  port,     \* the port of the group each process has joined (binded)
  mnet,     \* how many messages of each group are on their way to each host
  udpq,     \* how many messages are in the UDP socket of each host
  pings,    \* the list of ping threads
  recving,  \* the hosts on which the thread of run_ping_recv runs
  faults

procVars == <<pc, trip>>
packetVars == <<route, at, packet>>
groupVars == <<port, mnet, udpq>>
threadVars == <<pings, recving>>
vars == <<procVars, packetVars, groupVars, threadVars, faults>>

-----------------------------------------------------------------------------
\* valid_args: at least one host, no host twice in a row.
valid_args(hosts) ==
  /\ hosts # << >>
  /\ \A i \in 1..(Len(hosts) - 1) : hosts[i] # hosts[i + 1]

ASSUME TourAssumption ==
  /\ Starter \subseteq Host
  /\ Trips \subseteq Seq(Host) /\ \A hosts \in Trips : valid_args(hosts)
  /\ NoPort \notin Port
  /\ MaxFaults \in Nat

\* struct tourhdr and its IP header; ips holds the first len addresses.
Packet == [src : Host, dst : Host, ips : Seq(Host), port : Port \cup {NoPort}]

\* struct pingt: the target of a ping thread, and whether its thread runs.
Pingt == [tgt : Host, runs : BOOLEAN]

\* "off" before main, "done" and "failed" after it; "select", "group", "tour"
\* and "sleep" in the loop of run_tour; "stop" and "cleanup" behind it;
\* "identify" and "ending" in end_tour.
Looping == {"select", "group", "tour", "sleep"}
Leaving == {"stop", "identify", "ending", "done"}

TypeOK ==
  /\ pc \in [Host -> {"off", "cleanup", "failed"} \cup Looping \cup Leaving]
  /\ trip \in [Host -> Trips \cup {<< >>}]
  /\ route \in [Host -> Seq(Host)]
  /\ at \in [Host -> {"none", "net", "queue"}]
  /\ packet \in [Host -> Packet]
  /\ port \in [Host -> Port \cup {NoPort}]
  /\ mnet \in [Port -> [Host -> Nat]]
  /\ udpq \in [Host -> Nat]
  /\ pings \in [Host -> Seq(Pingt)]
  /\ recving \in SUBSET Host
  /\ faults \in 0..MaxFaults

Init ==
  /\ pc = [h \in Host |-> "off"]
  /\ trip = [h \in Host |-> << >>]
  /\ route = [h \in Host |-> << >>]
  /\ at = [h \in Host |-> "none"]
  /\ packet = [h \in Host |-> [src |-> h, dst |-> h, ips |-> << >>, port |-> NoPort]]
  /\ port = [h \in Host |-> NoPort]
  /\ mnet = [p \in Port |-> [h \in Host |-> 0]]
  /\ udpq = [h \in Host |-> 0]
  /\ pings = [h \in Host |-> << >>]
  /\ recving = {}
  /\ faults = 0

Goto(h, where) == pc' = [pc EXCEPT ![h] = where]

Fault == faults < MaxFaults /\ faults' = faults + 1

-----------------------------------------------------------------------------
\* Slips: the addresses are taken from the front of the list; the address is
\* not taken off.
forward_tourFromFront(s, h, ips, p) ==
  /\ at' = [at EXCEPT ![s] = "net"]
  /\ packet' = [packet EXCEPT ![s] =
       [src |-> h, dst |-> ips[1], ips |-> Tail(ips), port |-> p]]

forward_tourNotCut(s, h, ips, p) ==
  /\ at' = [at EXCEPT ![s] = "net"]
  /\ packet' = [packet EXCEPT ![s] =
       [src |-> h, dst |-> ips[Len(ips)], ips |-> ips, port |-> p]]

\* Send the packet of the tour of s from h to the last address of ips, which
\* is taken off.
forward_tour(s, h, ips, p) ==
  /\ at' = [at EXCEPT ![s] = "net"]
  /\ packet' = [packet EXCEPT ![s] =
       [src |-> h, dst |-> ips[Len(ips)], ips |-> SubSeq(ips, 1, Len(ips) - 1),
        port |-> p]]

\* Send one message from h to the group it has joined; it gets its own copy.
multicast(h) ==
  /\ mnet' = [mnet EXCEPT ![port[h]] =
                [g \in Host |-> IF g = h THEN @[g] ELSE @[g] + 1]]
  /\ udpq' = [udpq EXCEPT ![h] = @ + 1]

\* bind_port and mcast_join: the UDP socket of h receives what the group gets
\* on port p.
bind_port(h, p) == [port EXCEPT ![h] = p]

\* Cancel and join the ping threads, and free their list.
destroy_pingt(h) == pings' = [pings EXCEPT ![h] = << >>]

\* The process ends: its sockets are closed and its threads end with it.
Exit(h, how) ==
  /\ Goto(h, how)
  /\ at' = [s \in Host |-> IF at[s] = "queue" /\ packet[s].dst = h THEN "none" ELSE at[s]]
  /\ udpq' = [udpq EXCEPT ![h] = 0]
  /\ destroy_pingt(h)
  /\ recving' = recving \ {h}

-----------------------------------------------------------------------------
\* main without a list.
Start(h) ==
  /\ pc[h] = "off"
  /\ \/ /\ Goto(h, "select")
        /\ recving' = recving \cup {h}
        /\ UNCHANGED faults
     \/ /\ Fault
        /\ Goto(h, "failed")
        /\ UNCHANGED recving
  /\ UNCHANGED <<trip, packetVars, groupVars, pings>>

\* main with a list: start_tour binds the UDP socket to a free port, joins
\* the group and sends the packet with the addresses in reverse order.
StartTour(h, hosts, p) ==
  /\ pc[h] = "off"
  /\ h \in Starter
  /\ \/ /\ Goto(h, "select")
        /\ trip' = [trip EXCEPT ![h] = hosts]
        /\ port' = bind_port(h, p)
        /\ forward_tour(h, h, Reverse(hosts), p)
        /\ recving' = recving \cup {h}
        /\ UNCHANGED faults
     \/ /\ Fault
        /\ Goto(h, "failed")
        /\ UNCHANGED <<trip, at, packet, port, recving>>
  /\ UNCHANGED <<route, mnet, udpq, pings>>

\* select returns; run_tour looks at the UDP socket first.
Select(h) ==
  LET tour == \E s \in Host : at[s] = "queue" /\ packet[s].dst = h
  IN /\ pc[h] = "select"
     /\ \/ udpq[h] > 0 /\ Goto(h, "group")
        \/ udpq[h] = 0 /\ tour /\ Goto(h, "tour")
     /\ UNCHANGED <<trip, packetVars, groupVars, threadVars, faults>>

\* select or the recvfrom after it fails.
ReadFails(h) ==
  /\ pc[h] \in {"select", "group", "tour"}
  /\ Fault
  /\ Goto(h, "cleanup")
  /\ UNCHANGED <<trip, packetVars, groupVars, threadVars>>

\* The first message of the group ends the loop.
Group(h) ==
  /\ pc[h] = "group"
  /\ udpq' = [udpq EXCEPT ![h] = @ - 1]
  /\ Goto(h, "stop")
  /\ UNCHANGED <<trip, packetVars, port, mnet, threadVars, faults>>

\* A slip: the group is never joined.
JoinedNever(h, p) == port

\* Join the group of the first packet that arrives, and stay in it.
Joined(h, p) == IF port[h] = NoPort THEN bind_port(h, p) ELSE port

\* The targets of the threads in the list of h.
Targets(h) == {pings[h][i].tgt : i \in DOMAIN pings[h]}

\* A slip: the list is not searched.
create_pingtAgain(h, src) == pings' = [pings EXCEPT ![h] = <<[tgt |-> src, runs |-> TRUE]>> \o @]

\* A thread per target, in front of the list: none is started for a target
\* in the list.
create_pingt(h, src) ==
  pings' = [pings EXCEPT ![h] = IF src \in Targets(h) THEN @
                                ELSE <<[tgt |-> src, runs |-> TRUE]>> \o @]

\* The packet of the tour of s is in the raw socket of h.
Queued(h, s) == at[s] = "queue" /\ packet[s].dst = h

HandleTour(h, s) ==
  LET p == packet[s]
  IN /\ pc[h] = "tour" /\ Queued(h, s)
     /\ port' = Joined(h, p.port)
     /\ create_pingt(h, p.src)
     /\ route' = [route EXCEPT ![s] = Append(@, h)]
     /\ \/ /\ p.ips # << >>
           /\ forward_tour(s, h, p.ips, p.port)
           /\ Goto(h, "select")
        \/ /\ p.ips = << >>
           /\ at' = [at EXCEPT ![s] = "none"]
           /\ Goto(h, "sleep")
           /\ UNCHANGED packet
     /\ UNCHANGED <<trip, mnet, udpq, recving, faults>>

\* A call fails: before the ping thread exists, or when the packet is sent on.
HandleTourFails(h, s) ==
  LET p == packet[s]
  IN /\ pc[h] = "tour" /\ Queued(h, s)
     /\ Fault
     /\ Goto(h, "cleanup")
     /\ at' = [at EXCEPT ![s] = "none"]
     /\ \/ /\ port' \in {port, Joined(h, p.port)}
           /\ UNCHANGED <<route, pings>>
        \/ /\ p.ips # << >>
           /\ port' = Joined(h, p.port)
           /\ create_pingt(h, p.src)
           /\ route' = [route EXCEPT ![s] = Append(@, h)]
     /\ UNCHANGED <<trip, packet, mnet, udpq, recving>>

\* The last host tells the group after 5 seconds.
Announce(h) ==
  /\ pc[h] = "sleep"
  /\ \/ /\ multicast(h)
        /\ Goto(h, "select")
        /\ UNCHANGED faults
     \/ /\ Fault
        /\ Goto(h, "cleanup")
        /\ UNCHANGED <<mnet, udpq>>
  /\ UNCHANGED <<trip, packetVars, port, threadVars>>

\* Cancel and join run_ping_recv, which fails on some systems when that
\* thread has ended by itself; then cancel and join the ping threads.
Stop(h) ==
  /\ pc[h] = "stop"
  /\ recving' = recving \ {h}
  /\ \/ /\ Goto(h, "identify")
        /\ destroy_pingt(h)
     \/ /\ h \notin recving
        /\ Goto(h, "cleanup")
        /\ UNCHANGED pings
  /\ UNCHANGED <<trip, packetVars, groupVars, faults>>

\* The other threads are cancelled and joined, and main returns.
Cleanup(h) ==
  /\ pc[h] = "cleanup"
  /\ Exit(h, "failed")
  /\ UNCHANGED <<trip, route, packet, port, mnet, faults>>

\* end_tour: one message to the group, then read until 5 seconds of silence.
Identify(h) ==
  /\ pc[h] = "identify"
  /\ \/ /\ multicast(h)
        /\ Goto(h, "ending")
        /\ UNCHANGED <<at, threadVars, faults>>
     \/ /\ Fault
        /\ Exit(h, "failed")
        /\ UNCHANGED mnet
  /\ UNCHANGED <<trip, route, packet, port>>

\* Slips: the message is not taken out of the socket; the result of select is
\* not looked at.
DrainPeek(h) == pc[h] = "ending" /\ udpq[h] > 0 /\ UNCHANGED vars
DrainUnchecked(h) ==
  /\ pc[h] = "ending"
  /\ udpq' = [udpq EXCEPT ![h] = @ - 1]
  /\ UNCHANGED <<procVars, packetVars, port, mnet, threadVars, faults>>

Drain(h) ==
  /\ pc[h] = "ending" /\ udpq[h] > 0
  /\ udpq' = [udpq EXCEPT ![h] = @ - 1]
  /\ UNCHANGED <<procVars, packetVars, port, mnet, threadVars, faults>>

TimeOut(h) ==
  /\ pc[h] = "ending" /\ udpq[h] = 0
  /\ Exit(h, "done")
  /\ UNCHANGED <<trip, route, packet, port, mnet, faults>>

\* select or recvfrom of end_tour fails.
EndFails(h) ==
  /\ pc[h] = "ending"
  /\ Fault
  /\ Exit(h, "failed")
  /\ UNCHANGED <<trip, route, packet, port, mnet>>

\* A signal ends the process: SIGINT, or SIGPIPE when a ping thread's areq
\* sends to a daemon that has closed the connection.  Neither is handled.
Crash(h) ==
  /\ pc[h] \notin {"off", "done", "failed"}
  /\ Fault
  /\ Exit(h, "failed")
  /\ UNCHANGED <<trip, route, packet, port, mnet>>

-----------------------------------------------------------------------------
\* areq or send_frame failed: the thread for t ends and stays in the list.
PingEnds(h, t) ==
  /\ Fault
  /\ \E i \in DOMAIN pings[h] :
       /\ pings[h][i] = [tgt |-> t, runs |-> TRUE]
       /\ pings' = [pings EXCEPT ![h][i].runs = FALSE]
  /\ UNCHANGED <<procVars, packetVars, groupVars, recving>>

\* run_ping_recv has no socket, or recvfrom failed.
RecvEnds(h) ==
  /\ h \in recving
  /\ Fault
  /\ recving' = recving \ {h}
  /\ UNCHANGED <<procVars, packetVars, groupVars, pings>>

\* The network.  A packet for a host without the program goes nowhere.
HasSocket(h) == pc[h] \notin {"off", "done", "failed"}

Deliver(s) ==
  /\ at[s] = "net"
  /\ at' = [at EXCEPT ![s] = IF HasSocket(packet[s].dst) THEN "queue" ELSE "none"]
  /\ UNCHANGED <<procVars, route, packet, groupVars, threadVars, faults>>

Lose(s) ==
  /\ at[s] = "net"
  /\ Fault
  /\ at' = [at EXCEPT ![s] = "none"]
  /\ UNCHANGED <<procVars, route, packet, groupVars, threadVars>>

DeliverGroup(p, h) ==
  /\ mnet[p][h] > 0
  /\ mnet' = [mnet EXCEPT ![p][h] = @ - 1]
  /\ udpq' = [udpq EXCEPT ![h] = IF HasSocket(h) /\ port[h] = p THEN @ + 1 ELSE @]
  /\ UNCHANGED <<procVars, packetVars, port, threadVars, faults>>

LoseGroup(p, h) ==
  /\ mnet[p][h] > 0
  /\ Fault
  /\ mnet' = [mnet EXCEPT ![p][h] = @ - 1]
  /\ UNCHANGED <<procVars, packetVars, port, udpq, threadVars>>

-----------------------------------------------------------------------------
\* The steps that the main thread takes once it runs.
Main(h) ==
  \/ Select(h) \/ Group(h) \/ \E s \in Host : HandleTour(h, s)
  \/ Announce(h) \/ Stop(h) \/ Cleanup(h)
  \/ Identify(h) \/ Drain(h) \/ TimeOut(h)

Next ==
  \/ \E h \in Host :
       \/ Start(h)
       \/ \E hosts \in Trips, p \in Port : StartTour(h, hosts, p)
       \/ Main(h)
       \/ ReadFails(h) \/ EndFails(h) \/ Crash(h) \/ RecvEnds(h)
       \/ \E t \in Host : HandleTourFails(h, t) \/ PingEnds(h, t)
       \/ Deliver(h) \/ Lose(h)
       \/ \E p \in Port : DeliverGroup(p, h) \/ LoseGroup(p, h)

Spec == Init /\ [][Next]_vars

\* Processes are scheduled, sleep and select return, and what the network
\* does not lose it delivers.
FairSpec ==
  /\ Spec
  /\ \A h \in Host : WF_vars(Main(h)) /\ WF_vars(Deliver(h))
  /\ \A h \in Host, p \in Port : WF_vars(DeliverGroup(p, h))

-----------------------------------------------------------------------------
\* The refinement mapping: how TourAbs sees a process.
PhaseOf(where) ==
  IF where \in {"cleanup", "failed"} THEN "failed"
  ELSE IF where \in Leaving THEN "left" ELSE "touring"

Phase == [h \in Host |-> PhaseOf(pc[h])]

Abs == INSTANCE TourAbs WITH phase <- Phase

(* tour.c implements the promise of TourAbs: although the packet holds the *)
(* addresses in reverse and forward_tour cuts it at every host, hosts are  *)
(* visited in the order of the list; and although any message of the group *)
(* ends run_tour, no host leaves before some tour is through.              *)
ImplementsTour == Abs!Spec

\* The host from which the i-th host of the tour of s got the packet.
Before(s, i) == IF i = 1 THEN s ELSE route[s][i - 1]

\* The hosts from which h got packets.
Senders(h) ==
  {t \in Host : \E s \in Host : \E i \in DOMAIN route[s] :
                  route[s][i] = h /\ t = Before(s, i)}

(* create_pingt is given the sender of every packet: as long as a host is  *)
(* in run_tour its list of ping threads holds one thread for each host     *)
(* that precedes it on the tours that went through it, and no other, how-  *)
(* ever many went through and how often.                                   *)
PingsPredecessors ==
  \A h \in Host : pc[h] \in Looping =>
    /\ Targets(h) = Senders(h)
    /\ \A i, j \in DOMAIN pings[h] : pings[h][i].tgt = pings[h][j].tgt => i = j

\* All hosts run and the packet of the only tour is under way.
AllRun == \A h \in Host : pc[h] \in Looping
OnlyTour(s) == \A t \in Host \ {s} : trip[t] = << >>

(* A tour ends: when every host runs and nothing goes wrong, the packet of *)
(* the only tour gets to the end of the list and every host that the tour  *)
(* went through, the one that started it included, shuts down.             *)
TourEnds ==
  \A s \in Host :
    at[s] # "none" /\ AllRun /\ OnlyTour(s)
      ~> \/ faults > 0 \/ ~OnlyTour(s)
         \/ Abs!Complete(s) /\ \A h \in Host : Abs!Member(h) => pc[h] = "done"

(* Whatever is lost and whoever fails, a host that got one message of the  *)
(* group, from the last host or from any member, shuts down: end_tour does *)
(* not wait for ever although every host it hears of sends messages too.   *)
GroupEnds ==
  \A h \in Host : pc[h] = "select" /\ udpq[h] > 0 ~> pc[h] \in {"done", "failed"}

-----------------------------------------------------------------------------
(* What the safety of tours rests on: the parts of an inductive invariant. *)

\* A packet continues the route of its tour: it goes to the next host of the
\* list, comes from the one before, and holds the rest of the list reversed.
PacketInv ==
  \A s \in Host :
    at[s] # "none" =>
      /\ trip[s] # << >>
      /\ Len(route[s]) + 1 + Len(packet[s].ips) = Len(trip[s])
      /\ packet[s].dst = trip[s][Len(route[s]) + 1]
      /\ packet[s].src = Before(s, Len(route[s]) + 1)
      /\ \A j \in 1..Len(packet[s].ips) :
           packet[s].ips[j] = trip[s][Len(trip[s]) + 1 - j]
      /\ packet[s].port \in Port

RouteInv ==
  \A s \in Host :
    /\ Len(route[s]) <= Len(trip[s])
    /\ pc[s] = "off" => trip[s] = << >>

\* Who has, or is about to have, a message of the group.
Heard(h) == udpq[h] > 0 \/ pc[h] \in {"group", "sleep"} \cup Leaving

\* There are messages only after some tour is through.
GroupInv ==
  (\E h \in Host : Heard(h) \/ \E p \in Port : mnet[p][h] > 0)
    => \E s \in Host : Abs!Complete(s)

MemberInv ==
  \A h \in Host :
    /\ Heard(h) => port[h] # NoPort
    /\ pc[h] = "group" => udpq[h] > 0
    /\ port[h] # NoPort /\ pc[h] \notin {"cleanup", "failed"} => Abs!Member(h)

(* The inductive invariant of tour.c: where a packet is on its list, when  *)
(* there can be messages of a group, and who is in it.                     *)
TourInv == TypeOK /\ PacketInv /\ RouteInv /\ GroupInv /\ MemberInv
=============================================================================
