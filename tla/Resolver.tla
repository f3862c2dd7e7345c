------------------------------ MODULE Resolver ------------------------------
(***************************************************************************)
(* What areq (api.h) promises its callers, whatever happens between them   *)
(* and the hosts on the Ethernet: a call succeeds only with the hardware   *)
(* address of the host it asked for, and it hears that address at most     *)
(* once and only while it waits.  It may fail although it has heard it:    *)
(* the answer may come when the time to wait for it is just over.  Arp is  *)
(* shown to implement this.                                                *)
(***************************************************************************)
CONSTANTS
  Call,     \* the calls of areq
  IP,       \* the addresses that hosts may have
  Other,    \* addresses of another kind
  MacOf,    \* the hardware address of every host
  None      \* nothing

VARIABLES
  phase,    \* where each call is
  asked,    \* the address it asks for
  heard     \* the hardware address it was told

vars == <<phase, asked, heard>>

Init ==
  /\ phase = [c \in Call |-> "idle"]
  /\ asked = [c \in Call |-> None]
  /\ heard = [c \in Call |-> None]

\* A process calls areq, which fails at once when there is nobody to ask.
Ask(c, a) ==
  /\ phase[c] = "idle"
  /\ \E how \in {"waiting", "failed"} : phase' = [phase EXCEPT ![c] = how]
  /\ asked' = [asked EXCEPT ![c] = a]
  /\ UNCHANGED heard

\* Some of those who wait, and have heard nothing, are told the truth.
Tell(S) ==
  /\ UNCHANGED <<phase, asked>>
  /\ \A c \in S : phase[c] = "waiting" /\ heard[c] = None /\ asked[c] \in IP
  /\ heard' = [c \in Call |-> IF c \in S THEN MacOf[asked[c]] ELSE heard[c]]

\* areq returns 1, only to those who were told, or fails: it returns 0, or its
\* caller is ended by a signal.
Return(c) ==
  /\ phase[c] = "waiting"
  /\ UNCHANGED <<asked, heard>>
  /\ \E how \in {"ok", "failed"} :
       /\ how = "ok" => heard[c] # None
       /\ phase' = [phase EXCEPT ![c] = how]

Next ==
  \/ \E c \in Call : Return(c)
  \/ \E S \in SUBSET Call : Tell(S)
  \/ \E c \in Call, a \in IP \cup Other : Ask(c, a)

Spec == Init /\ [][Next]_vars
=============================================================================
