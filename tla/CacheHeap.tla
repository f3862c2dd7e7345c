------------------------------ MODULE CacheHeap ------------------------------
(***************************************************************************)
(* cache.c with its pointers: the list head, the next and prev pointers    *)
(* and the memory that is allocated.  Freed memory keeps its contents      *)
(* until calloc hands it out again, so a pointer to it can still be read   *)
(* and written: that is the fault this module is about.                    *)
(***************************************************************************)
EXTENDS Integers, Sequences, FiniteSets

CONSTANTS Node, NULL, IP, NoIp, Mac, NoMac, Contents

VARIABLES
  head,   \* *list
  next,   \* next pointer of every entry
  prev,   \* prev pointer of every entry
  entry,  \* the other fields of every entry
  live,   \* the entries that are allocated
  fault   \* "none", or how memory was corrupted

vars == <<head, next, prev, entry, live, fault>>

-----------------------------------------------------------------------------
\* The pointer that a traversal reads after i entries of the sequence p.
After(p, i) == IF i = 0 THEN head ELSE next[p[i]]

\* A traversal visits the entries of p, in order, and ends.
Visits(p) ==
  /\ \A i \in 1..Len(p) : After(p, i - 1) = p[i]
  /\ After(p, Len(p)) = NULL

Sequence == UNION {[1..k -> Node] : k \in 0..Cardinality(Node)}

\* A traversal does not end.
Cyclic == \A p \in Sequence : ~Visits(p)

\* The entries a traversal visits, in order, when it ends.
Path == IF Cyclic THEN << >> ELSE CHOOSE p \in Sequence : Visits(p)

Reachable == {Path[i] : i \in DOMAIN Path}

\* A removal has left the prev of the head behind.
StaleHead == head # NULL /\ prev[head] # NULL

\* The sequence view: what the prev pointers amount to is whether the one of
\* the head is null.
Api == INSTANCE CacheApi WITH
         list <- IF fault = "none" THEN Path ELSE << >>,
         dangling <- fault = "none" /\ StaleHead

\* Memory is finite, and callers fill in the fields with their types.
ASSUME HeapAssumption ==
  /\ IsFiniteSet(Node) /\ NULL \notin Node
  /\ Contents \subseteq Api!Entry

-----------------------------------------------------------------------------
TypeOK ==
  /\ head \in Node \cup {NULL}
  /\ next \in [Node -> Node \cup {NULL}]
  /\ prev \in [Node -> Node \cup {NULL}]
  /\ entry \in [Node -> Api!Entry]
  /\ live \in SUBSET Node
  /\ fault \in {"none", "uaf", "cycle"}

Init ==
  /\ head = NULL
  /\ next = [n \in Node |-> NULL]
  /\ prev = [n \in Node |-> NULL]
  /\ entry = [n \in Node |-> Api!Blank]
  /\ live = {}
  /\ fault = "none"

\* A slip: the head is not pointed back at n.
addToCacheOneWay(n) ==
  /\ head' = n
  /\ next' = [next EXCEPT ![n] = head]
  /\ prev' = [prev EXCEPT ![n] = NULL]
  /\ fault' = IF Cyclic' THEN "cycle" ELSE "none"

\* Point n at the head and the head back at n.
addToCache(n) ==
  /\ head' = n
  /\ \/ /\ head # NULL
        /\ next' = [next EXCEPT ![n] = head]
        /\ prev' = [prev EXCEPT ![n] = NULL, ![head] = n]
     \/ /\ head = NULL
        /\ next' = [next EXCEPT ![n] = NULL]
        /\ prev' = [prev EXCEPT ![n] = NULL]
  /\ fault' = IF Cyclic' THEN "cycle" ELSE "none"

Add(n, v) ==
  /\ n \notin live
  /\ live' = live \cup {n}
  /\ entry' = [entry EXCEPT ![n] = v]
  /\ addToCache(n)

AddAgain(n) ==
  /\ n \in Reachable
  /\ addToCache(n)
  /\ UNCHANGED <<entry, live>>

\* A slip: any entry on the path with the key of v.
AnySame(n, v) == n \in Reachable /\ Api!isSameCache(entry[n], v)

\* The first entry on the path with the key of v.
FirstSame(n, v) ==
  \E i \in DOMAIN Path :
    /\ n = Path[i]
    /\ Api!isSameCache(entry[n], v)
    /\ \A j \in 1..(i - 1) : ~Api!isSameCache(entry[Path[j]], v)

\* A slip: the entry behind n is not pointed back.
SpliceOneWay(n) ==
  \/ /\ prev[n] = NULL
     /\ head' = next[n]
     /\ UNCHANGED <<next, prev, fault>>
  \/ /\ prev[n] # NULL
     /\ next' = [next EXCEPT ![prev[n]] = next[n]]
     /\ fault' = IF prev[n] \in live THEN "none" ELSE "uaf"
     /\ UNCHANGED <<head, prev>>

\* The branches on node->prev: only a null prev moves the list head, and a
\* prev that is not null is written through, freed or not.
Splice(n) ==
  \/ /\ prev[n] = NULL
     /\ head' = next[n]
     /\ UNCHANGED <<next, prev, fault>>
  \/ /\ prev[n] # NULL
     /\ next' = [next EXCEPT ![prev[n]] = next[n]]
     /\ prev' = IF next[n] = NULL THEN prev ELSE [prev EXCEPT ![next[n]] = prev[n]]
     /\ fault' = IF prev[n] \in live THEN "none" ELSE "uaf"
     /\ UNCHANGED head

\* A slip: the entry is unlinked and not freed.
removeWithoutFree(v) ==
  \E n \in Reachable :
    /\ FirstSame(n, v)
    /\ Splice(n)
    /\ UNCHANGED <<entry, live>>

removeFromCache(v) ==
  \/ \E n \in Reachable :
       /\ FirstSame(n, v)
       /\ Splice(n)
       /\ live' = live \ {n}
       /\ entry' = IF fault' = "none" THEN [entry EXCEPT ![n] = Api!Blank] ELSE entry
  \/ /\ ~ \E n \in Reachable : FirstSame(n, v)
     /\ UNCHANGED vars

\* Slips: the entry is found by its address alone; the interface is copied
\* into the hardware type.
updateByAddress(v) ==
  \E n \in Reachable :
    /\ entry[n].ip = v.ip
    /\ entry' = [entry EXCEPT ![n].hw.ifindex = v.hw.ifindex,
                              ![n].hw.hatype = v.hw.hatype,
                              ![n].hw.addr = IF v.hw.halen = 0 THEN @ ELSE v.hw.addr]
    /\ UNCHANGED <<head, next, prev, live, fault>>

updateWrongField(v) ==
  \E n \in Reachable :
    /\ FirstSame(n, v)
    /\ entry' = [entry EXCEPT ![n].hw.hatype = v.hw.ifindex]
    /\ UNCHANGED <<head, next, prev, live, fault>>

updateCache(v) ==
  \E n \in Reachable :
    /\ FirstSame(n, v)
    /\ entry' = [entry EXCEPT ![n].ip = v.ip,
                              ![n].hw.ifindex = v.hw.ifindex,
                              ![n].hw.hatype = v.hw.hatype,
                              ![n].hw.addr = IF v.hw.halen = 0 THEN @ ELSE v.hw.addr]
    /\ UNCHANGED <<head, next, prev, live, fault>>

Next ==
  /\ fault = "none"
  /\ \/ \E n \in Node, v \in Contents : Add(n, v)
     \/ \E n \in Node : AddAgain(n)
     \/ \E v \in Contents : removeFromCache(v) \/ updateCache(v)

Spec == Init /\ [][Next]_vars

-----------------------------------------------------------------------------
(* cache.c implements the sequence view: every pointer operation is one    *)
(* of the operations of CacheApi, faults included.                         *)
ImplementsApi == Api!Spec

(* The prev pointers of cache.c mirror its next pointers everywhere behind *)
(* the head, whatever was added, re-keyed and removed before, so that only *)
(* the prev of the head can ever be stale.                                 *)
BackLinks ==
  fault = "none" => \A i \in 2..Len(Path) : prev[Path[i]] = Path[i - 1]

(* Until memory is corrupted no entry is lost and none is reachable after  *)
(* free: the list holds exactly the allocated entries.                     *)
NoEntryLost == fault = "none" => Reachable = live

(* updateCache (cache.c:44-48) copies the fields that isSameCache compares *)
(* but never moves an entry to another key, so no later search for the old *)
(* contents can miss it.                                                   *)
UpdateKeepsKey ==
  [][(live' = live /\ fault' = "none") =>
       \A n \in live : Api!isSameCache(entry[n], entry'[n])]_vars

-----------------------------------------------------------------------------
(* The invariant of the heap: until memory is corrupted a traversal ends   *)
(* and visits every allocated entry once, the prev pointers behind the     *)
(* head lead back, and a prev that removeFromCache left at the head points *)
(* to an entry that has not been allocated again since.                    *)
HeapInv ==
  fault = "none" =>
    /\ ~Cyclic /\ Reachable = live
    /\ \A i, j \in DOMAIN Path : Path[i] = Path[j] => i = j
    /\ \A i \in 2..Len(Path) : prev[Path[i]] = Path[i - 1]
    /\ StaleHead => prev[head] \notin live
=============================================================================
