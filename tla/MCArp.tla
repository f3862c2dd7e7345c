-------------------------------- MODULE MCArp --------------------------------
(***************************************************************************)
(* Small instances of Arp: one own address and one other host, and what    *)
(* the comments of the code say that the code does not do.                 *)
(***************************************************************************)
EXTENDS Arp, TLC

CONSTANTS own, p1, m0, m1

MCMacOf == own :> m0 @@ p1 :> m1

Symmetry == Permutations(Node) \cup Permutations(Call)

-----------------------------------------------------------------------------
(* arp.c:222, of handle_areq: "0 if the Cache entry should be removed".    *)
(* When the walk closes the descriptor of its entry, that entry leaves the *)
(* cache, not another with the same key.                                   *)
RemovesTheEntry ==
  [][\A i \in DOMAIN list :
       /\ At(i) /\ fault' = "none"
       /\ entry[cur].domain_socket \in rset.fds
       /\ fdtab'[entry[cur].domain_socket] = None
       => cur \notin Linked']_vars

(* arp.c:652-653, of handle_reply: for every INCOMPLETE entry that asks    *)
(* for the address, "send struct hwaddr back to connected clients".  Every *)
(* client that is still connected gets the answer.                         *)
ConnectedAnswered ==
  [][\A f \in {pfq[i] : i \in DOMAIN pfq} :
       fault = "none" /\ handle_reply(f) =>
         \A i \in Waiting(f) :
           ClientOf(i) # None /\ ~HungUp(ClientOf(i)) => ans'[ClientOf(i)] # NoHw]_vars

(* arp.c:158, of the entry for a new connection: "Double check and make    *)
(* sure it doesn't exist".  An entry that exists is not added again.       *)
NotAddedTwice == fault # "cycle"
=============================================================================
