----------------------------- MODULE MCCacheHeap -----------------------------
(***************************************************************************)
(* Three entries' worth of memory and contents of two kinds: the blank     *)
(* contents that every connection entry of arp.c starts with, and mappings *)
(* that differ in address, in hardware address or only in the hardware     *)
(* type, which is no part of the key.                                      *)
(***************************************************************************)
EXTENDS CacheHeap

CONSTANTS i1, i2, m1, m2

Zeroed ==
  [ip |-> NoIp, domain_socket |-> 0, state |-> "CONNECTION",
   hw |-> [ifindex |-> 0, ifhatype |-> 0, ifaddr |-> NoMac,
           hatype |-> 0, halen |-> 0, addr |-> NoMac]]

Mapping(i, m, t) ==
  [ip |-> i, domain_socket |-> -1, state |-> "COMPLETE",
   hw |-> [ifindex |-> 2, ifhatype |-> 1, ifaddr |-> NoMac,
           hatype |-> t, halen |-> 6, addr |-> m]]

\* The contents model checking lets callers build.
MCContents ==
  {Zeroed, Mapping(i1, m1, 1), Mapping(i1, m1, 256), Mapping(i1, m2, 1), Mapping(i2, m1, 1)}

-----------------------------------------------------------------------------
(* minunit_cache.c:148-149: after a removal that returns true the list has *)
(* lost exactly the entry that was freed, whatever was removed before it.  *)
RemovedIsGone == fault # "cycle" => Reachable = live
=============================================================================
