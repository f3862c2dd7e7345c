------------------------------- MODULE TourAbs -------------------------------
(***************************************************************************)
(* What tour.c promises.  A tour goes to the hosts of its list in the      *)
(* order of the list, one at a time.  A host leaves, unless it fails, only *)
(* when it belongs to a tour and some tour has reached the end of its list.*)
(***************************************************************************)
EXTENDS Naturals, Sequences

CONSTANTS
  Host,   \* the hosts that run the program
  Trips   \* the lists of hosts that it can be started with

VARIABLES
  trip,   \* the list each host was started with, empty when it has none
  route,  \* the hosts that the tour of each host has been to
  phase   \* "touring", "left" or "failed"

absVars == <<trip, route, phase>>

Complete(s) == trip[s] # << >> /\ Len(route[s]) = Len(trip[s])

Member(h) ==
  \/ trip[h] # << >>
  \/ \E s \in Host : \E i \in DOMAIN route[s] : route[s][i] = h

Init ==
  /\ trip = [h \in Host |-> << >>]
  /\ route = [h \in Host |-> << >>]
  /\ phase = [h \in Host |-> "touring"]

Begin(s, hosts) ==
  /\ trip[s] = << >>
  /\ phase[s] = "touring"
  /\ trip' = [trip EXCEPT ![s] = hosts]
  /\ UNCHANGED <<route, phase>>

\* The tour of s reaches the next host of its list, which may then fail.
Visit(s, h) ==
  /\ phase[h] = "touring"
  /\ Len(route[s]) < Len(trip[s])
  /\ h = trip[s][Len(route[s]) + 1]
  /\ route' = [route EXCEPT ![s] = Append(@, h)]
  /\ phase' \in {phase, [phase EXCEPT ![h] = "failed"]}
  /\ UNCHANGED trip

Leave(h) ==
  /\ phase[h] = "touring"
  /\ Member(h)
  /\ \E s \in Host : Complete(s)
  /\ phase' = [phase EXCEPT ![h] = "left"]
  /\ UNCHANGED <<trip, route>>

Fail(h) ==
  /\ phase' = [phase EXCEPT ![h] = "failed"]
  /\ UNCHANGED <<trip, route>>

Next ==
  \/ \E s \in Host : \/ \E hosts \in Trips : Begin(s, hosts)
                     \/ \E h \in Host : Visit(s, h)
  \/ \E h \in Host : Leave(h) \/ Fail(h)

Spec == Init /\ [][Next]_absVars
=============================================================================
