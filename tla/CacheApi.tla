------------------------------ MODULE CacheApi ------------------------------
(***************************************************************************)
(* What cache.c promises to any caller: the state machine of its calls on  *)
(* the sequence view of CacheList.  The calls that only look (getFromCache *)
(* and the two getCacheBy searches) change nothing and are no actions.     *)
(***************************************************************************)
EXTENDS CacheList

CONSTANT Contents   \* the entry contents that callers build

Init ==
  /\ list = << >>
  /\ entry = [n \in Node |-> Blank]
  /\ dangling = FALSE
  /\ fault = "none"

\* A caller allocates an entry, fills it in and adds it.
Add(n, v) ==
  /\ n \notin Linked
  /\ entry' = [entry EXCEPT ![n] = v]
  /\ addToCache(n)

\* A caller adds an entry it found in the list.
AddAgain(n) ==
  /\ n \in Linked
  /\ addToCache(n)
  /\ UNCHANGED entry

Delete(v) == removeFromCache(entry, v)

\* Copy address, interface and hardware type of v to the first entry with the
\* same key; the length, the socket and the state stay.
updateCache(v) ==
  \E i \in SameAs(entry, v) :
    /\ IsFirst(i, SameAs(entry, v))
    /\ entry' = [entry EXCEPT ![list[i]].ip = v.ip,
                              ![list[i]].hw.ifindex = v.hw.ifindex,
                              ![list[i]].hw.hatype = v.hw.hatype,
                              ![list[i]].hw.addr = IF v.hw.halen = 0 THEN @ ELSE v.hw.addr]
    /\ UNCHANGED <<list, dangling, fault>>

Next ==
  /\ fault = "none"
  /\ \/ \E n \in Node, v \in Contents : Add(n, v)
     \/ \E n \in Node : AddAgain(n)
     \/ \E v \in Contents : Delete(v) \/ updateCache(v)

Spec == Init /\ [][Next]_listVars
=============================================================================
