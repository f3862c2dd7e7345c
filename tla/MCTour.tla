------------------------------- MODULE MCTour -------------------------------
(***************************************************************************)
(* Small instances of Tour: three hosts, a list that comes back to a host, *)
(* one or two hosts that start a tour, and what a message of the code says *)
(* that the code does not do.                                              *)
(***************************************************************************)
EXTENDS Tour, TLC

CONSTANTS h1, h2, h3

\* From h1 this list visits h2 from two hosts and ends where it began; from
\* h3 it visits h2 twice from h3 and goes through h3 itself.  Read backwards
\* it is another list.
MCTrips == {<<h2, h3, h2, h1>>}

\* The same without its last host, for more faults.
MCShortTrips == {<<h2, h3, h2>>}

PortSymmetry == Permutations(Port)

-----------------------------------------------------------------------------
(* ping.c:241, printed when create_pingt finds its target in the list: "A  *)
(* thread is already pinging".  A thread for that target then runs.        *)
AlreadyPinging ==
  \A h, s \in Host :
    pc[h] = "tour" /\ Queued(h, s) =>
      \A i \in DOMAIN pings[h] : pings[h][i].tgt = packet[s].src => pings[h][i].runs
=============================================================================
