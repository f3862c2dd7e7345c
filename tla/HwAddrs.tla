------------------------------- MODULE HwAddrs -------------------------------
(***************************************************************************)
(* get_hw_addrs (get_hw_addrs.c): how a process lists the addresses of     *)
(* eth0 while addresses and the device itself come and go.                 *)
(*                                                                         *)
(* The kernel's table has an element per address, and SIOCGIFCONF copies   *)
(* as much of it as fits into the buffer without saying what it left out.  *)
(* get_hw_addrs asks again with a larger buffer until two answers have the *)
(* same length, then asks for the hardware address and index of each item. *)
(* A process that calls it is a p of Proc; ArpMain says what it does next. *)
(***************************************************************************)
EXTENDS Integers, Sequences, SequencesExt

CONSTANTS
  Proc,        \* the processes that call get_hw_addrs
  Addr,        \* the addresses that interfaces may have
  Eth,         \* those of an interface with the name eth0
  Dev,         \* the devices that may get the name eth0
  NoDev,       \* no device, or what is read off one that is gone
  Guess,       \* how many items the first buffer holds (100 in the code)
  Increment,   \* by how many the buffer grows (10 in the code)
  Tables,      \* the tables to begin with
  MaxChanges   \* how often the table changes

ASSUME HwAssumption ==
  /\ Eth \subseteq Addr
  /\ NoDev \notin Dev
  /\ Guess \in Nat \ {0} /\ Increment \in Nat \ {0}
  /\ Tables \subseteq Seq(Addr)
  /\ MaxChanges \in Nat

VARIABLES
  table,    \* the addresses, in the order of the kernel
  dev,      \* the device that is eth0, or NoDev
  changes,  \* how often table and dev have changed
  hpc,      \* where each process is in get_hw_addrs
  len,      \* the local variable len: the items its buffer holds
  lastlen,  \* the local variable lastlen
  ifc,      \* the items in its buffer, ifc.ifc_req
  next,     \* the local variable i: the item it is at
  hwa,      \* the list hwahead
  seen,     \* the table when its buffer was filled (a history)
  steady    \* eth0 has not gone since (a history)

kernelVars == <<table, dev, changes>>
hwVars == <<hpc, len, lastlen, ifc, next, hwa, seen, steady>>

-----------------------------------------------------------------------------
\* struct hwa_info, without its name, which is always eth0.
HwaInfo == [ip : Eth, alias : BOOLEAN, haddr : Dev \cup {NoDev}, index : Dev \cup {NoDev}]

HwTypeOK ==
  /\ table \in Seq(Addr) /\ dev \in Dev \cup {NoDev} /\ changes \in 0..MaxChanges
  /\ hpc \in [Proc -> {"socket", "conf", "item", "index", "list", "null"}]
  /\ len \in [Proc -> Nat] /\ lastlen \in [Proc -> Nat]
  /\ ifc \in [Proc -> Seq(Addr)] /\ next \in [Proc -> Nat]
  /\ hwa \in [Proc -> Seq(HwaInfo)]
  /\ seen \in [Proc -> Seq(Addr)] /\ steady \in [Proc -> BOOLEAN]

\* eth0 has an address.
Up == \E i \in DOMAIN table : table[i] \in Eth

HwInit ==
  /\ table \in Tables /\ dev \in Dev \cup {NoDev} /\ changes = 0
  /\ dev = NoDev => ~Up
  /\ hpc = [p \in Proc |-> "socket"]
  /\ len = [p \in Proc |-> Guess]
  /\ lastlen = [p \in Proc |-> 0]
  /\ ifc = [p \in Proc |-> << >>]
  /\ next = [p \in Proc |-> 1]
  /\ hwa = [p \in Proc |-> << >>]
  /\ seen = [p \in Proc |-> << >>]
  /\ steady = [p \in Proc |-> FALSE]

HwGoto(p, where) == hpc' = [hpc EXCEPT ![p] = where]

-----------------------------------------------------------------------------
(* The kernel.                                                             *)

Change == changes < MaxChanges /\ changes' = changes + 1

AddAddr(a) ==
  /\ Change
  /\ \A i \in DOMAIN table : table[i] # a
  /\ a \in Eth => dev # NoDev
  /\ table' = Append(table, a)
  /\ UNCHANGED <<dev, hwVars>>

DelAddr(i) ==
  /\ Change
  /\ i \in DOMAIN table
  /\ table' = RemoveAt(table, i)
  /\ UNCHANGED <<dev, hwVars>>

\* The device that is eth0 goes, after its addresses.
Unplug ==
  /\ Change
  /\ dev # NoDev /\ ~Up
  /\ dev' = NoDev
  /\ steady' = [p \in Proc |-> FALSE]
  /\ UNCHANGED <<table, hpc, len, lastlen, ifc, next, hwa, seen>>

Plug(d) ==
  /\ Change
  /\ dev = NoDev
  /\ dev' = d
  /\ UNCHANGED <<table, hwVars>>

-----------------------------------------------------------------------------
(* The process.                                                            *)

\* The loop is at an item.
AtItem(p) == hpc[p] = "item" /\ next[p] \in DOMAIN ifc[p]

\* A call fails (socket, malloc, calloc, or an ioctl with an error other than
\* EINVAL, or with that after an answer): what was allocated is freed.
GiveUp(p) ==
  /\ hpc[p] \in {"socket", "conf"} \/ (AtItem(p) /\ ifc[p][next[p]] \in Eth)
  /\ HwGoto(p, "null")
  /\ UNCHANGED <<kernelVars, len, lastlen, ifc, next, hwa, seen, steady>>

Socket(p) ==
  /\ hpc[p] = "socket"
  /\ HwGoto(p, "conf")
  /\ UNCHANGED <<kernelVars, len, lastlen, ifc, next, hwa, seen, steady>>

\* What ioctl(SIOCGIFCONF) puts into a buffer for n items.
SIOCGIFCONF(n) == SubSeq(table, 1, IF n < Len(table) THEN n ELSE Len(table))

\* Slips: the buffer does not grow; the loop asks again without taking note
\* of the answer.
LargerSame(p) == len
NoteLost(p) == UNCHANGED <<len, lastlen>>

Larger(p) == [len EXCEPT ![p] = @ + Increment]

\* The answer is longer or shorter than the last one: ask again.
Note(p) ==
  /\ len' = Larger(p)
  /\ lastlen' = [lastlen EXCEPT ![p] = Len(SIOCGIFCONF(len[p]))]

Conf(p) ==
  LET answer == SIOCGIFCONF(len[p])
  IN /\ hpc[p] = "conf"
     /\ \/ /\ Len(answer) = lastlen[p]
           /\ HwGoto(p, "item")
           /\ ifc' = [ifc EXCEPT ![p] = answer]
           /\ seen' = [seen EXCEPT ![p] = table]
           /\ steady' = [steady EXCEPT ![p] = TRUE]
           /\ UNCHANGED <<len, lastlen>>
        \/ /\ Len(answer) # lastlen[p]
           /\ Note(p)
           /\ UNCHANGED <<hpc, ifc, seen, steady>>
     /\ UNCHANGED <<kernelVars, next, hwa>>

\* The first ioctl fails with EINVAL: the buffer is too small.
Invalid(p) ==
  /\ hpc[p] = "conf" /\ lastlen[p] = 0
  /\ len' = Larger(p)
  /\ UNCHANGED <<kernelVars, hpc, lastlen, ifc, next, hwa, seen, steady>>

\* An item of another interface.
Skip(p) ==
  /\ AtItem(p) /\ ifc[p][next[p]] \notin Eth
  /\ next' = [next EXCEPT ![p] = @ + 1]
  /\ UNCHANGED <<kernelVars, hpc, len, lastlen, ifc, hwa, seen, steady>>

\* A slip: items of other interfaces are not skipped.
ItemAny(p) ==
  /\ AtItem(p)
  /\ hwa' = [hwa EXCEPT ![p] =
       Append(@, [ip |-> ifc[p][next[p]], alias |-> @ # << >>, haddr |-> dev, index |-> NoDev])]
  /\ HwGoto(p, "index")
  /\ UNCHANGED <<kernelVars, len, lastlen, ifc, next, seen, steady>>

\* An item of eth0: its address, an alias if it is not the first, and the
\* hardware address that eth0 has now.
Item(p) ==
  /\ AtItem(p) /\ ifc[p][next[p]] \in Eth
  /\ hwa' = [hwa EXCEPT ![p] =
       Append(@, [ip |-> ifc[p][next[p]], alias |-> @ # << >>, haddr |-> dev, index |-> NoDev])]
  /\ HwGoto(p, "index")
  /\ UNCHANGED <<kernelVars, len, lastlen, ifc, next, seen, steady>>

\* The index that eth0 has by now.
Index(p) ==
  /\ hpc[p] = "index"
  /\ hwa' = [hwa EXCEPT ![p][Len(hwa[p])].index = dev]
  /\ next' = [next EXCEPT ![p] = @ + 1]
  /\ HwGoto(p, "item")
  /\ UNCHANGED <<kernelVars, len, lastlen, ifc, seen, steady>>

\* All items are read: the buffer is freed and the list is returned, a null
\* pointer if it is empty.  The local variables are gone.
Done(p) ==
  /\ hpc[p] = "item" /\ next[p] \notin DOMAIN ifc[p]
  /\ HwGoto(p, IF hwa[p] = << >> THEN "null" ELSE "list")
  /\ len' = [len EXCEPT ![p] = Guess] /\ lastlen' = [lastlen EXCEPT ![p] = 0]
  /\ ifc' = [ifc EXCEPT ![p] = << >>] /\ next' = [next EXCEPT ![p] = 1]
  /\ UNCHANGED <<kernelVars, hwa, seen, steady>>

get_hw_addrs(p) == Socket(p) \/ Conf(p) \/ Skip(p) \/ Item(p) \/ Index(p) \/ Done(p)

Kernel ==
  \/ \E a \in Addr : AddAddr(a)
  \/ \E i \in DOMAIN table : DelAddr(i)
  \/ Unplug
  \/ \E d \in Dev : Plug(d)
=============================================================================
