------------------------------ MODULE CacheList ------------------------------
(***************************************************************************)
(* The ARP cache of cache.c, seen as a sequence.                           *)
(*                                                                         *)
(* cache.c keeps a doubly linked list; this module keeps the sequence of   *)
(* entries that the next pointers spell out, and the one fact about the    *)
(* prev pointers that its functions ever look at: whether the prev pointer *)
(* of the head is dangling.  removeFromCache leaves it so when it unlinks  *)
(* the head (cache.c:65-66 does not clear the prev of the new head), and   *)
(* addToCache repairs it (cache.c:9).  CacheHeap models the pointers and   *)
(* is checked to implement the operations defined here.                    *)
(*                                                                         *)
(* Two calls corrupt memory, after which C promises nothing: unlinking a   *)
(* head whose prev dangles writes to freed memory and leaves the list      *)
(* starting at a freed entry ("uaf"), and adding an entry that is linked   *)
(* already closes a cycle that no traversal leaves ("cycle").  Both are    *)
(* recorded in fault, and from then on there is no list.                   *)
(***************************************************************************)
EXTENDS Integers, Sequences, SequencesExt

CONSTANTS
  Node,    \* the addresses calloc can return for a Cache entry
  NULL,    \* the null pointer
  IP,      \* the AF_INET socket addresses
  NoIp,    \* the all-zero sockaddr of an entry fresh from calloc
  Mac,     \* the hardware addresses
  NoMac    \* the all-zero hardware address

ASSUME CacheAssumption ==
  NULL \notin Node /\ NoIp \notin IP /\ NoMac \notin Mac

VARIABLES
  list,      \* the entries linked from the list head, first to last
  entry,     \* the contents of every entry
  dangling,  \* the prev pointer of the head points to freed memory
  fault      \* "none", or why the behaviour is undefined from here on

listVars == <<list, entry, dangling, fault>>

-----------------------------------------------------------------------------
\* The states of an entry (STATE_CONNECTION is 0: what calloc leaves).
EntryState == {"CONNECTION", "INCOMPLETE", "COMPLETE"}

\* ETH_ALEN, ARPHRD_ETHER, and htons(ARPHRD_ETHER) on a little-endian host.
ETH_ALEN == 6
ARPHRD_ETHER == 1
htons_ARPHRD_ETHER == 256

\* struct hwaddr: the interface, its hardware type and address; the hardware
\* type, length and value of the address itself (sll_ifhalen is never read).
Hwaddr == [ifindex : Nat, ifhatype : {0, ARPHRD_ETHER}, ifaddr : Mac \cup {NoMac},
           hatype : {0, ARPHRD_ETHER, htons_ARPHRD_ETHER},
           halen : {0, ETH_ALEN}, addr : Mac \cup {NoMac}]

NoHw == [ifindex |-> 0, ifhatype |-> 0, ifaddr |-> NoMac,
         hatype |-> 0, halen |-> 0, addr |-> NoMac]

\* struct Cache without its links.
Entry == [ip : IP \cup {NoIp}, domain_socket : Int, state : EntryState, hw : Hwaddr]

\* calloc(1, sizeof(Cache)).
Blank == [ip |-> NoIp, domain_socket |-> 0, state |-> "CONNECTION", hw |-> NoHw]

-----------------------------------------------------------------------------
\* The entries reachable from the head.
Linked == {list[i] : i \in DOMAIN list}

\* list[i]->next
NextOf(i) == IF i = Len(list) THEN NULL ELSE list[i + 1]

\* A slip: the address alone is the key.
isSameCacheByAddr(c1, c2) == c2.hw.halen = 0 \/ c1.hw.addr = c2.hw.addr

\* The same key: interface, address (compared over the second entry's length,
\* so not at all when that is 0) and IP.  An entry is always the same as itself.
isSameCache(c1, c2) ==
  /\ c1.hw.ifindex = c2.hw.ifindex
  /\ c2.hw.halen = 0 \/ c1.hw.addr = c2.hw.addr
  /\ c1.ip = c2.ip

\* The positions at which the linear searches of cache.c would stop, for the
\* contents ent of the entries.
SameAs(ent, v) == {i \in DOMAIN list : isSameCache(ent[list[i]], v)}
getCacheBySocket(s) == {i \in DOMAIN list : entry[list[i]].domain_socket = s}
getCacheByIpAddr(a) == {i \in DOMAIN list : entry[list[i]].ip = a}

\* A search that would stop at any position in S finds the one at i.
IsFirst(i, S) == i \in S /\ \A j \in S : i <= j

-----------------------------------------------------------------------------
\* Link n in front.  n is a fresh entry, or (arp.c:159) one that
\* getCacheBySocket found in the list.
addToCache(n) ==
  /\ dangling' = FALSE
  /\ \/ /\ n \notin Linked
        /\ list' = <<n>> \o list
        /\ UNCHANGED fault
     \/ /\ n \in Linked
        /\ list' = << >>
        /\ fault' = "cycle"

\* Unlink and free list[i]; ent is what the entries hold at that time.
Unlink(ent, i) ==
  \/ /\ i = 1 /\ dangling
     /\ list' = << >>
     /\ fault' = "uaf"
     /\ dangling' = FALSE
     /\ entry' = ent
  \/ /\ ~(i = 1 /\ dangling)
     /\ list' = RemoveAt(list, i)
     /\ dangling' = IF i = 1 THEN Len(list) > 1 ELSE dangling
     /\ entry' = [ent EXCEPT ![list[i]] = Blank]
     /\ UNCHANGED fault

\* Remove the first entry with the key of v, which need not be the entry the
\* caller holds when several entries have that key.
removeFromCache(ent, v) ==
  \/ /\ SameAs(ent, v) = {}
     /\ entry' = ent
     /\ UNCHANGED <<list, dangling, fault>>
  \/ \E i \in SameAs(ent, v) : IsFirst(i, SameAs(ent, v)) /\ Unlink(ent, i)
=============================================================================
