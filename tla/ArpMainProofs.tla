---------------------------- MODULE ArpMainProofs ----------------------------
(***************************************************************************)
(* Proofs about the start and the end of ARP daemons: the types, the       *)
(* device list, and who has the well-known path.                           *)
(***************************************************************************)
EXTENDS ArpMain, TLAPS

-----------------------------------------------------------------------------
(* Removing an item of a table leaves a table of items it had.             *)
LEMMA RemoveAtFacts ==
  ASSUME NEW S, NEW s \in Seq(S), NEW i \in DOMAIN s
  PROVE  /\ RemoveAt(s, i) \in Seq(S)
         /\ \A j \in DOMAIN RemoveAt(s, i) : \E k \in DOMAIN s : RemoveAt(s, i)[j] = s[k]
<1> DEFINE a == SubSeq(s, 1, i - 1)
           b == SubSeq(s, i + 1, Len(s))
<1>0. Len(s) \in Nat /\ i \in 1..Len(s)
  OBVIOUS
<1>1. a \in Seq(S) /\ Len(a) = i - 1 /\ \A j \in 1..(i - 1) : a[j] = s[j]
  BY <1>0
<1>2. /\ b \in Seq(S) /\ Len(b) = Len(s) - i
      /\ \A j \in 1..(Len(s) - i) : b[j] = s[i + j]
  BY <1>0
<1> HIDE DEF a, b
<1>3. /\ a \o b \in Seq(S) /\ Len(a \o b) = Len(s) - 1
      /\ \A j \in 1..(Len(s) - 1) : (a \o b)[j] = IF j <= i - 1 THEN a[j] ELSE b[j - (i - 1)]
  BY <1>0, <1>1, <1>2
<1>4. RemoveAt(s, i) = a \o b
  BY DEF RemoveAt, a, b
<1>5. \A j \in 1..(Len(s) - 1) : \E k \in DOMAIN s : (a \o b)[j] = s[k]
  <2> TAKE j \in 1..(Len(s) - 1)
  <2>1. CASE j <= i - 1
    BY <1>0, <1>1, <1>3, <2>1
  <2>2. CASE ~(j <= i - 1)
    <3>1. j - (i - 1) \in 1..(Len(s) - i) /\ i + (j - (i - 1)) = j + 1 /\ j + 1 \in DOMAIN s
      BY <1>0, <2>2
    <3> QED
      BY <1>2, <1>3, <2>2, <3>1
  <2> QED
    BY <2>1, <2>2
<1>6. DOMAIN (a \o b) = 1..(Len(s) - 1)
  BY <1>3
<1> QED
  BY <1>3, <1>4, <1>5, <1>6, Zenon

(* What SIOCGIFCONF returns: the table, or as much of it as fits.          *)
LEMMA ConfFacts ==
  ASSUME table \in Seq(Addr), NEW n \in Nat
  PROVE  /\ SIOCGIFCONF(n) \in Seq(Addr)
         /\ Len(SIOCGIFCONF(n)) <= n
         /\ Len(SIOCGIFCONF(n)) < n => SIOCGIFCONF(n) = table
<1>1. CASE n < Len(table)
  BY <1>1 DEF SIOCGIFCONF
<1>2. CASE ~(n < Len(table))
  <2>1. SIOCGIFCONF(n) = SubSeq(table, 1, Len(table))
    BY <1>2 DEF SIOCGIFCONF
  <2>2. SubSeq(table, 1, Len(table)) = table
    OBVIOUS
  <2> QED
    BY <1>2, <2>1, <2>2
<1> QED
  BY <1>1, <1>2

-----------------------------------------------------------------------------
(* The kernel keeps its types, and an address of eth0 needs a device.      *)
LEMMA KernelStep ==
  ASSUME HwTypeOK, dev = NoDev => ~Up, Kernel
  PROVE  HwTypeOK' /\ (dev' = NoDev => ~Up')
<1> USE HwAssumption
<1>0. changes' \in 0..MaxChanges
  BY DEF Kernel, AddAddr, DelAddr, Unplug, Plug, Change, HwTypeOK
<1>1. ASSUME NEW a \in Addr, AddAddr(a) PROVE HwTypeOK' /\ (dev' = NoDev => ~Up')
  <2>1. /\ table' = Append(table, a) /\ table' \in Seq(Addr)
        /\ \A j \in DOMAIN table' : table'[j] = a \/ (j \in DOMAIN table /\ table'[j] = table[j])
    BY <1>1 DEF AddAddr, HwTypeOK
  <2> QED
    BY <1>0, <1>1, <2>1 DEF AddAddr, HwTypeOK, hwVars, Up
<1>2. ASSUME NEW i \in DOMAIN table, DelAddr(i) PROVE HwTypeOK' /\ (dev' = NoDev => ~Up')
  <2>1. /\ table' \in Seq(Addr)
        /\ \A j \in DOMAIN table' : \E k \in DOMAIN table : table'[j] = table[k]
    BY <1>2, RemoveAtFacts DEF DelAddr, HwTypeOK
  <2> QED
    BY <1>0, <1>2, <2>1 DEF DelAddr, HwTypeOK, hwVars, Up
<1>3. CASE Unplug
  BY <1>0, <1>3 DEF Unplug, HwTypeOK, Up
<1>4. ASSUME NEW d \in Dev, Plug(d) PROVE HwTypeOK' /\ (dev' = NoDev => ~Up')
  BY <1>0, <1>4 DEF Plug, HwTypeOK, hwVars, Up
<1> QED
  BY <1>1, <1>2, <1>3, <1>4 DEF Kernel

(* So do the calls of get_hw_addrs.                                        *)
LEMMA GetTypes ==
  ASSUME HwTypeOK, NEW p \in Proc, get_hw_addrs(p) \/ GiveUp(p) \/ Invalid(p),
         hpc[p] = "index" => hwa[p] # << >>
  PROVE  HwTypeOK'
<1> USE HwAssumption
<1>1. CASE Socket(p) \/ GiveUp(p)
  BY <1>1 DEF Socket, GiveUp, HwGoto, HwTypeOK, kernelVars
<1>2. CASE Conf(p)
  <2>1. table \in Seq(Addr) /\ len[p] \in Nat
    BY DEF HwTypeOK
  <2>2. SIOCGIFCONF(len[p]) \in Seq(Addr)
    BY <2>1, ConfFacts, Zenon
  <2>3. PICK answer \in Seq(Addr) :
          \/ /\ hpc' = [hpc EXCEPT ![p] = "item"] /\ ifc' = [ifc EXCEPT ![p] = answer]
             /\ seen' = [seen EXCEPT ![p] = table] /\ steady' = [steady EXCEPT ![p] = TRUE]
             /\ UNCHANGED <<len, lastlen>>
          \/ /\ len' = [len EXCEPT ![p] = @ + Increment]
             /\ lastlen' = [lastlen EXCEPT ![p] = Len(answer)]
             /\ UNCHANGED <<hpc, ifc, seen, steady>>
    BY <1>2, <2>2, Zenon DEF Conf, Note, Larger, HwGoto
  <2>5. UNCHANGED <<table, dev, changes, next, hwa>>
    BY <1>2 DEF Conf, kernelVars
  <2>6. Len(answer) \in Nat /\ len[p] + Increment \in Nat
    BY <2>1
  <2>7. len' \in [Proc -> Nat]
    BY <2>3, <2>6 DEF HwTypeOK
  <2>8. lastlen' \in [Proc -> Nat]
    BY <2>3, <2>6 DEF HwTypeOK
  <2>9. ifc' \in [Proc -> Seq(Addr)]
    BY <2>3 DEF HwTypeOK
  <2>10. seen' \in [Proc -> Seq(Addr)]
    BY <2>1, <2>3 DEF HwTypeOK
  <2>11. /\ hpc' \in [Proc -> {"socket", "conf", "item", "index", "list", "null"}]
         /\ steady' \in [Proc -> BOOLEAN]
    BY <2>3 DEF HwTypeOK
  <2> QED
    BY <2>5, <2>7, <2>8, <2>9, <2>10, <2>11 DEF HwTypeOK
<1>3. CASE Invalid(p)
  BY <1>3 DEF Invalid, Larger, HwTypeOK, kernelVars
<1>4. CASE Skip(p)
  BY <1>4 DEF Skip, HwTypeOK, kernelVars
<1>5. CASE Item(p)
  <2> DEFINE new == [ip |-> ifc[p][next[p]], alias |-> hwa[p] # << >>, haddr |-> dev,
                     index |-> NoDev]
  <2>1. new \in HwaInfo
    BY <1>5 DEF Item, HwTypeOK, HwaInfo
  <2>2. Append(hwa[p], new) \in Seq(HwaInfo)
    BY <2>1 DEF HwTypeOK
  <2>3. hwa' = [hwa EXCEPT ![p] = Append(hwa[p], new)]
    BY <1>5 DEF Item
  <2> QED
    BY <1>5, <2>2, <2>3 DEF Item, HwGoto, HwTypeOK, kernelVars
<1>6. CASE Index(p)
  <2> DEFINE n == Len(hwa[p])
  <2>1. hwa[p] \in Seq(HwaInfo) /\ n \in DOMAIN hwa[p] /\ hwa[p][n] \in HwaInfo
    BY <1>6 DEF Index, HwTypeOK
  <2>2. [hwa[p][n] EXCEPT !.index = dev] \in HwaInfo
    BY <2>1 DEF HwTypeOK, HwaInfo
  <2>3. [hwa[p] EXCEPT ![n] = [hwa[p][n] EXCEPT !.index = dev]] \in Seq(HwaInfo)
    BY <2>1, <2>2
  <2>4. hwa' = [hwa EXCEPT ![p] = [hwa[p] EXCEPT ![n] = [hwa[p][n] EXCEPT !.index = dev]]]
    BY <1>6 DEF Index
  <2> HIDE DEF n
  <2>5. hwa' \in [Proc -> Seq(HwaInfo)]
    BY <2>3, <2>4 DEF HwTypeOK
  <2>6. /\ hpc' \in [Proc -> {"socket", "conf", "item", "index", "list", "null"}]
        /\ next' \in [Proc -> Nat]
    BY <1>6 DEF Index, HwGoto, HwTypeOK
  <2>7. UNCHANGED <<table, dev, changes, len, lastlen, ifc, seen, steady>>
    BY <1>6 DEF Index, kernelVars
  <2> QED
    BY <2>5, <2>6, <2>7 DEF HwTypeOK
<1>7. CASE Done(p)
  BY <1>7 DEF Done, HwGoto, HwTypeOK, kernelVars
<1> QED
  BY <1>1, <1>2, <1>3, <1>4, <1>5, <1>6, <1>7 DEF get_hw_addrs

-----------------------------------------------------------------------------
(* The device list.                                                        *)

(* One more item of the table.                                             *)
LEMMA SeenNext ==
  ASSUME NEW p \in Proc, seen[p] \in Seq(Addr), NEW n \in DOMAIN seen[p]
  PROVE  SeenOf(p, n + 1) = SeenOf(p, n) \cup ({seen[p][n]} \cap Eth)
<1>1. \A i \in DOMAIN seen[p] : i < n + 1 <=> i < n \/ i = n
  OBVIOUS
<1> QED
  BY <1>1 DEF SeenOf

\* Nothing of process q has changed.
Same(q) ==
  /\ hpc'[q] = hpc[q] /\ len'[q] = len[q] /\ lastlen'[q] = lastlen[q]
  /\ ifc'[q] = ifc[q] /\ next'[q] = next[q] /\ hwa'[q] = hwa[q]
  /\ seen'[q] = seen[q] /\ steady'[q] = steady[q]

LEMMA SameKeeps ==
  ASSUME NEW q \in Proc, ListInv(q), Same(q), dev' = dev
  PROVE  ListInv(q)'
<1>1. OneDevice(q) <=> OneDevice(q)'
  BY Zenon DEF Same, OneDevice
<1>2. Listed(q)' = Listed(q)
  BY Zenon DEF Same, Listed
<1>3. SeenOf(q, next[q])' = SeenOf(q, next[q]) /\ SeenOf(q, next[q] + 1)' = SeenOf(q, next[q] + 1)
  BY Zenon DEF Same, SeenOf
<1>4. {seen'[q][j] : j \in DOMAIN seen'[q]} = {seen[q][j] : j \in DOMAIN seen[q]}
  BY Zenon DEF Same
<1>5. (\A k \in DOMAIN hwa[q] : hwa[q][k].alias <=> k # 1)'
  BY Zenon DEF Same, ListInv
<1> QED
  BY <1>1, <1>2, <1>3, <1>4, <1>5 DEF ListInv, Same

(* A step of one process leaves the others alone.                          *)
LEMMA OthersSame ==
  ASSUME HwTypeOK, NEW p \in Proc, get_hw_addrs(p) \/ GiveUp(p) \/ Invalid(p),
         NEW q \in Proc, q # p
  PROVE  Same(q) /\ UNCHANGED kernelVars
<1>1. UNCHANGED kernelVars
  BY DEF get_hw_addrs, Socket, Conf, Skip, Item, Index, Done, GiveUp, Invalid
<1>2. Same(q)
  BY DEF get_hw_addrs, Socket, Conf, Note, Larger, Skip, Item, Index, Done, GiveUp, Invalid,
         HwGoto, HwTypeOK, Same
<1> QED
  BY <1>1, <1>2

(* Addresses and devices come and go: what was listed still agrees with    *)
(* what was read.                                                          *)
LEMMA KernelKeeps ==
  ASSUME HwTypeOK, HwInv, Kernel, NEW p \in Proc
  PROVE  ListInv(p)'
<1>0. ListInv(p)
  BY DEF HwInv
<1>1. CASE UNCHANGED <<dev, hwVars>>
  BY <1>0, <1>1, SameKeeps DEF hwVars, Same
<1>2. CASE Unplug
  <2>1. /\ hpc' = hpc /\ len' = len /\ lastlen' = lastlen /\ ifc' = ifc /\ next' = next
        /\ hwa' = hwa /\ seen' = seen /\ steady'[p] = FALSE
    BY <1>2 DEF Unplug
  <2>2. OneDevice(p)'
    BY <2>1 DEF OneDevice
  <2>3. Listed(p)' = Listed(p)
    BY <2>1, Zenon DEF Listed
  <2>4. SeenOf(p, next[p])' = SeenOf(p, next[p]) /\ SeenOf(p, next[p] + 1)' = SeenOf(p, next[p] + 1)
    BY <2>1, Zenon DEF SeenOf
  <2> QED
    BY <1>0, <2>1, <2>2, <2>3, <2>4, Zenon DEF ListInv
<1>3. ASSUME NEW d \in Dev, Plug(d) PROVE ListInv(p)'
  <2>1. dev = NoDev /\ UNCHANGED hwVars
    BY <1>3 DEF Plug
  <2>2. ASSUME steady[p], hpc[p] \in {"item", "index", "list"} PROVE DOMAIN hwa[p] = {}
    <3>1. \A j \in DOMAIN seen[p] : seen[p][j] \notin Eth
      BY <1>0, <2>1, <2>2 DEF ListInv, OneDevice
    <3>2. Listed(p) = {}
      BY <1>0, <2>2, <3>1 DEF ListInv, SeenOf
    <3> QED
      BY <3>2 DEF Listed
  <2>3. hpc[p] \in {"item", "index", "list"} => OneDevice(p)'
    <3> SUFFICES ASSUME hpc[p] \in {"item", "index", "list"}, steady[p]
                 PROVE  OneDevice(p)'
      BY <2>1 DEF OneDevice, hwVars
    <3>1. ~ \E j \in DOMAIN seen[p] : seen[p][j] \in Eth
      BY <1>0, <2>1 DEF ListInv, OneDevice
    <3> QED
      BY <2>1, <2>2, <3>1 DEF OneDevice, hwVars
  <2>4. Listed(p)' = Listed(p)
    BY <2>1, Zenon DEF Listed, hwVars
  <2>5. SeenOf(p, next[p])' = SeenOf(p, next[p]) /\ SeenOf(p, next[p] + 1)' = SeenOf(p, next[p] + 1)
    BY <2>1, Zenon DEF SeenOf, hwVars
  <2> QED
    BY <1>0, <2>1, <2>3, <2>4, <2>5, Zenon DEF ListInv, hwVars
<1> QED
  BY <1>1, <1>2, <1>3 DEF Kernel, AddAddr, DelAddr

(* The steps before the items: an answer of the last length, in a buffer   *)
(* with room for more, is the whole table.                                 *)
LEMMA ConfKeeps ==
  ASSUME HwTypeOK, HwInv, NEW p \in Proc, Socket(p) \/ Conf(p) \/ GiveUp(p) \/ Invalid(p)
  PROVE  ListInv(p)'
<1> USE HwAssumption
<1>0. ListInv(p)
  BY DEF HwInv
<1>a. /\ len[p] \in Nat /\ lastlen[p] \in Nat /\ next[p] \in Nat /\ lastlen[p] < len[p]
      /\ next[p] > 0
  BY <1>0 DEF ListInv, HwTypeOK
<1>b. \A k \in DOMAIN hwa[p] : hwa[p][k].alias <=> k # 1
  BY <1>0, Zenon DEF ListInv
<1>1. CASE GiveUp(p)
  <2>1. hpc'[p] = "null" /\ UNCHANGED <<len, lastlen, next, hwa>>
    BY <1>1 DEF GiveUp, HwGoto, HwTypeOK
  <2> QED
    BY <1>a, <1>b, <2>1 DEF ListInv
<1>2. ASSUME hpc[p] \in {"socket", "conf"}, hpc'[p] = "conf", UNCHANGED <<next, hwa>>,
             lastlen'[p] < len'[p]
      PROVE  ListInv(p)'
  BY <1>0, <1>b, <1>2 DEF ListInv
<1>3. CASE Socket(p)
  BY <1>2, <1>3, <1>a DEF Socket, HwGoto, HwTypeOK
<1>4. CASE Invalid(p)
  BY <1>2, <1>4, <1>a DEF Invalid, Larger, HwTypeOK
<1>5. CASE Conf(p)
  <2> DEFINE answer == SIOCGIFCONF(len[p])
  <2>1. table \in Seq(Addr)
    BY DEF HwTypeOK
  <2>2. /\ answer \in Seq(Addr) /\ Len(answer) <= len[p]
        /\ Len(answer) < len[p] => answer = table
    BY <1>a, <2>1, ConfFacts, Zenon
  <2>3. hpc[p] = "conf" /\ UNCHANGED <<dev, next, hwa>>
    BY <1>5, Zenon DEF Conf, kernelVars
  <2>4. \/ /\ Len(answer) = lastlen[p]
           /\ hpc' = [hpc EXCEPT ![p] = "item"] /\ ifc' = [ifc EXCEPT ![p] = answer]
           /\ seen' = [seen EXCEPT ![p] = table] /\ steady' = [steady EXCEPT ![p] = TRUE]
           /\ UNCHANGED <<len, lastlen>>
        \/ /\ len' = [len EXCEPT ![p] = len[p] + Increment]
           /\ lastlen' = [lastlen EXCEPT ![p] = Len(answer)]
           /\ UNCHANGED hpc
    BY <1>5, Zenon DEF Conf, Note, Larger, HwGoto
  <2> HIDE DEF answer
  <2>5. CASE UNCHANGED hpc /\ len' = [len EXCEPT ![p] = len[p] + Increment]
                 /\ lastlen' = [lastlen EXCEPT ![p] = Len(answer)]
    BY <1>2, <1>a, <2>2, <2>3, <2>5 DEF HwTypeOK
  <2>6. CASE /\ Len(answer) = lastlen[p]
             /\ hpc' = [hpc EXCEPT ![p] = "item"] /\ ifc' = [ifc EXCEPT ![p] = answer]
             /\ seen' = [seen EXCEPT ![p] = table] /\ steady' = [steady EXCEPT ![p] = TRUE]
             /\ UNCHANGED <<len, lastlen>>
    <3>1. answer = table
      BY <1>a, <2>2, <2>6
    <3>2. hpc'[p] = "item" /\ ifc'[p] = table /\ seen'[p] = table
      BY <2>6, <3>1 DEF HwTypeOK
    <3>3. hwa'[p] = << >> /\ next'[p] = 1
      BY <1>0, <2>3 DEF ListInv
    <3>4. Listed(p)' = {}
      BY <3>3 DEF Listed
    <3>5. SeenOf(p, next[p])' = {}
      BY <2>1, <3>2, <3>3 DEF SeenOf
    <3>6. (\E j \in DOMAIN seen'[p] : seen'[p][j] \in Eth) => dev' # NoDev
      BY <2>3, <3>2 DEF HwInv, Up
    <3>7. OneDevice(p)'
      BY <3>3, <3>6 DEF OneDevice
    <3> QED
      BY <1>a, <2>6, <3>2, <3>3, <3>4, <3>5, <3>7 DEF ListInv
  <2> QED
    BY <2>4, <2>5, <2>6
<1> QED
  BY <1>1, <1>3, <1>4, <1>5

(* The steps through the items.                                            *)
LEMMA ItemKeeps ==
  ASSUME HwTypeOK, HwInv, NEW p \in Proc, Skip(p) \/ Item(p) \/ Index(p) \/ Done(p)
  PROVE  ListInv(p)'
<1> USE HwAssumption
<1>0. ListInv(p)
  BY DEF HwInv
<1>a. /\ len[p] \in Nat /\ lastlen[p] \in Nat /\ next[p] \in Nat /\ lastlen[p] < len[p]
      /\ next[p] > 0
  BY <1>0 DEF ListInv, HwTypeOK
<1>b. \A k \in DOMAIN hwa[p] : hwa[p][k].alias <=> k # 1
  BY <1>0, Zenon DEF ListInv
<1>c. /\ seen[p] \in Seq(Addr) /\ hwa[p] \in Seq(HwaInfo)
  BY DEF HwTypeOK
<1>d. ifc[p] = seen[p] /\ OneDevice(p)
  BY <1>0 DEF ListInv, Skip, Item, Index, Done, AtItem
<1>e. dev' = dev /\ seen' = seen /\ steady' = steady
  BY DEF Skip, Item, Index, Done, kernelVars
<1>1. CASE Skip(p)
  <2>1. /\ hpc[p] = "item" /\ next[p] \in DOMAIN seen[p] /\ seen[p][next[p]] \notin Eth
        /\ next'[p] = next[p] + 1 /\ UNCHANGED <<hpc, len, lastlen, ifc, hwa>>
    BY <1>1, <1>d DEF Skip, AtItem, HwTypeOK
  <2>2. SeenOf(p, next[p] + 1) = SeenOf(p, next[p])
    <3>1. SeenOf(p, next[p] + 1) = SeenOf(p, next[p]) \cup ({seen[p][next[p]]} \cap Eth)
      BY <1>c, <2>1, SeenNext, Zenon
    <3>2. {seen[p][next[p]]} \cap Eth = {}
      BY <2>1
    <3> QED
      BY <3>1, <3>2
  <2>3. SeenOf(p, next[p])' = SeenOf(p, next[p] + 1)
    BY <1>e, <2>1, Zenon DEF SeenOf
  <2>4. Listed(p)' = Listed(p)
    BY <2>1, Zenon DEF Listed
  <2>5. OneDevice(p)'
    BY <1>d, <1>e, <2>1, Zenon DEF OneDevice
  <2>6. Listed(p) = SeenOf(p, next[p])
    BY <1>0, <2>1 DEF ListInv
  <2> QED
    BY <1>a, <1>b, <1>d, <1>e, <2>1, <2>2, <2>3, <2>4, <2>5, <2>6 DEF ListInv
<1>2. CASE Item(p)
  <2> DEFINE new == [ip |-> ifc[p][next[p]], alias |-> hwa[p] # << >>, haddr |-> dev,
                     index |-> NoDev]
             n == Len(hwa[p])
  <2>1. /\ hpc[p] = "item" /\ hpc'[p] = "index" /\ next[p] \in DOMAIN seen[p]
        /\ seen[p][next[p]] \in Eth /\ UNCHANGED <<len, lastlen, ifc, next>>
    BY <1>2, <1>d DEF Item, AtItem, HwGoto, HwTypeOK
  <2>2. hwa'[p] = Append(hwa[p], new)
    BY <1>2 DEF Item, HwTypeOK
  <2>3. /\ new.ip = seen[p][next[p]] /\ new.haddr = dev /\ new.alias = (hwa[p] # << >>)
    BY <1>d
  <2> HIDE DEF new
  <2>4. /\ n \in Nat /\ DOMAIN hwa[p] = 1..n /\ DOMAIN hwa'[p] = 1..(n + 1)
        /\ Len(hwa'[p]) = n + 1 /\ hwa'[p][n + 1] = new
        /\ \A k \in 1..n : hwa'[p][k] = hwa[p][k]
    BY <1>c, <2>2
  <2> HIDE DEF n
  <2>5. new.alias <=> n # 0
    <3>1. hwa[p] # << >> <=> n # 0
      BY <1>c DEF n
    <3> QED
      BY <2>3, <3>1, Zenon
  <2>6. \A k \in DOMAIN hwa'[p] : hwa'[p][k].alias <=> k # 1
    BY <1>b, <2>4, <2>5
  <2>7. Listed(p)' = Listed(p) \cup {seen[p][next[p]]}
    <3>1. \A k \in DOMAIN hwa'[p] : k \in DOMAIN hwa[p] \/ k = n + 1
      BY <2>4
    <3>2. \A k \in DOMAIN hwa[p] : k \in DOMAIN hwa'[p] /\ hwa'[p][k].ip = hwa[p][k].ip
      BY <2>4
    <3>3. n + 1 \in DOMAIN hwa'[p] /\ hwa'[p][n + 1].ip = seen[p][next[p]]
      BY <2>3, <2>4
    <3> QED
      BY <3>1, <3>2, <3>3 DEF Listed
  <2>8. SeenOf(p, next[p] + 1)' = SeenOf(p, next[p]) \cup {seen[p][next[p]]}
    <3>1. SeenOf(p, next[p] + 1)' = SeenOf(p, next[p] + 1)
      BY <1>e, <2>1, Zenon DEF SeenOf
    <3> QED
      BY <1>c, <2>1, <3>1, SeenNext
  <2>9. Listed(p) = SeenOf(p, next[p])
    BY <1>0, <2>1 DEF ListInv
  <2>10. OneDevice(p)'
    <3> SUFFICES ASSUME steady[p]
                 PROVE  /\ (\E j \in DOMAIN seen[p] : seen[p][j] \in Eth) => dev # NoDev
                        /\ \A k \in DOMAIN hwa'[p] :
                             hwa'[p][k].haddr = dev /\ (k # Len(hwa'[p]) => hwa'[p][k].index = dev)
      BY <1>e, <2>1 DEF OneDevice
    <3>1. /\ (\E j \in DOMAIN seen[p] : seen[p][j] \in Eth) => dev # NoDev
          /\ \A k \in DOMAIN hwa[p] : hwa[p][k].haddr = dev /\ hwa[p][k].index = dev
      BY <1>d, <2>1 DEF OneDevice
    <3> QED
      BY <2>3, <2>4, <3>1
  <2>11. hwa'[p] # << >>
    BY <2>4
  <2> QED
    BY <1>a, <1>d, <1>e, <2>1, <2>6, <2>7, <2>8, <2>9, <2>10, <2>11 DEF ListInv
<1>3. CASE Index(p)
  <2> DEFINE n == Len(hwa[p])
             new == [hwa[p][n] EXCEPT !.index = dev]
  <2>1. /\ hpc[p] = "index" /\ hpc'[p] = "item" /\ next'[p] = next[p] + 1
        /\ UNCHANGED <<len, lastlen, ifc>>
    BY <1>3 DEF Index, HwGoto, HwTypeOK
  <2>2. hwa[p] # << >> /\ next[p] \in DOMAIN seen[p] /\ Listed(p) = SeenOf(p, next[p] + 1)
    BY <1>0, <2>1 DEF ListInv
  <2>3. n \in DOMAIN hwa[p] /\ DOMAIN hwa[p] = 1..n /\ hwa[p][n] \in HwaInfo
    BY <1>c, <2>2
  <2>4. hwa'[p] = [hwa[p] EXCEPT ![n] = new]
    BY <1>3 DEF Index, HwTypeOK
  <2>5. /\ new.ip = hwa[p][n].ip /\ new.haddr = hwa[p][n].haddr /\ new.index = dev
        /\ new.alias = hwa[p][n].alias
    BY <2>3 DEF HwaInfo
  <2> HIDE DEF n, new
  <2>6. /\ DOMAIN hwa'[p] = DOMAIN hwa[p] /\ hwa'[p][n] = new
        /\ \A k \in DOMAIN hwa[p] : k # n => hwa'[p][k] = hwa[p][k]
    BY <1>c, <2>3, <2>4
  <2>7. \A k \in DOMAIN hwa[p] : hwa'[p][k].ip = hwa[p][k].ip /\ hwa'[p][k].alias = hwa[p][k].alias
    BY <2>5, <2>6
  <2>8. Listed(p)' = Listed(p)
    BY <2>6, <2>7, Zenon DEF Listed
  <2>9. SeenOf(p, next[p])' = SeenOf(p, next[p] + 1)
    BY <1>e, <2>1, Zenon DEF SeenOf
  <2>10. \A k \in DOMAIN hwa'[p] : hwa'[p][k].alias <=> k # 1
    BY <1>b, <2>6, <2>7, Zenon
  <2>11. OneDevice(p)'
    <3> SUFFICES ASSUME steady[p]
                 PROVE  /\ (\E j \in DOMAIN seen[p] : seen[p][j] \in Eth) => dev # NoDev
                        /\ \A k \in DOMAIN hwa'[p] :
                             hwa'[p][k].haddr = dev /\ hwa'[p][k].index = dev
      BY <1>e DEF OneDevice
    <3>1. /\ (\E j \in DOMAIN seen[p] : seen[p][j] \in Eth) => dev # NoDev
          /\ \A k \in DOMAIN hwa[p] : /\ hwa[p][k].haddr = dev
                                      /\ k # n => hwa[p][k].index = dev
      BY <1>d DEF OneDevice, n
    <3> QED
      BY <2>3, <2>5, <2>6, <3>1
  <2> QED
    BY <1>a, <1>d, <1>e, <2>1, <2>2, <2>8, <2>9, <2>10, <2>11 DEF ListInv
<1>4. CASE Done(p)
  <2>1. /\ hpc[p] = "item" /\ next[p] \notin DOMAIN seen[p] /\ UNCHANGED hwa
        /\ hpc'[p] = IF hwa[p] = << >> THEN "null" ELSE "list"
        /\ len'[p] = Guess /\ lastlen'[p] = 0 /\ next'[p] = 1
    BY <1>4, <1>d DEF Done, HwGoto, HwTypeOK
  <2>2. \A j \in DOMAIN seen[p] : j < next[p]
    BY <1>a, <1>c, <2>1
  <2>3. SeenOf(p, next[p]) = {seen[p][j] : j \in DOMAIN seen[p]} \cap Eth
    BY <2>2 DEF SeenOf
  <2>4. Listed(p) = SeenOf(p, next[p])
    BY <1>0, <2>1 DEF ListInv
  <2>5. Listed(p)' = {seen'[p][j] : j \in DOMAIN seen'[p]} \cap Eth
    <3>1. Listed(p)' = Listed(p)
      BY <2>1, Zenon DEF Listed
    <3> QED
      BY <1>e, <2>3, <2>4, <3>1
  <2>6. OneDevice(p)'
    <3>1. hpc[p] # "index" /\ hpc'[p] # "index"
      BY <2>1
    <3> QED
      BY <1>d, <1>e, <2>1, <3>1, Zenon DEF OneDevice
  <2>7. \A k \in DOMAIN hwa'[p] : hwa'[p][k].alias <=> k # 1
    BY <1>b, <2>1, Zenon
  <2>8. /\ lastlen'[p] < len'[p] /\ next'[p] > 0
        /\ hpc'[p] \notin {"socket", "conf", "item", "index"}
        /\ hpc'[p] = "list" => hwa'[p] # << >>
    BY <2>1
  <2> QED
    BY <2>5, <2>6, <2>7, <2>8 DEF ListInv
<1> QED
  BY <1>1, <1>2, <1>3, <1>4

(* The invariant of the device lists.                                      *)
LEMMA GetKeeps ==
  ASSUME HwTypeOK, HwInv, NEW p \in Proc, get_hw_addrs(p) \/ GiveUp(p) \/ Invalid(p)
  PROVE  HwTypeOK' /\ HwInv'
<1>1. HwTypeOK'
  <2>1. hpc[p] = "index" => hwa[p] # << >>
    BY DEF HwInv, ListInv
  <2> QED
    BY <2>1, GetTypes
<1>2. ListInv(p)'
  BY ConfKeeps, ItemKeeps DEF get_hw_addrs
<1>3. UNCHANGED kernelVars
  BY DEF get_hw_addrs, Socket, Conf, Skip, Item, Index, Done, GiveUp, Invalid
<1>4. ASSUME NEW q \in Proc, q # p PROVE ListInv(q)'
  <2>1. ListInv(q)
    BY DEF HwInv
  <2>2. Same(q)
    BY <1>4, OthersSame
  <2> QED
    BY <1>3, <2>1, <2>2, SameKeeps DEF kernelVars
<1>5. (dev = NoDev => ~Up)'
  BY <1>3 DEF HwInv, Up, kernelVars
<1> QED
  BY <1>1, <1>2, <1>4, <1>5 DEF HwInv

LEMMA HwStarts ==
  ASSUME Init
  PROVE  HwTypeOK /\ HwInv
<1> USE HwAssumption
<1>1. HwTypeOK
  BY DEF Init, HwInit, HwTypeOK
<1>2. \A p \in Proc : ListInv(p)
  BY DEF Init, HwInit, ListInv
<1> QED
  BY <1>1, <1>2 DEF Init, HwInit, HwInv

(* A step that is none of the interfaces.                                  *)
LEMMA HwUnchanged ==
  ASSUME HwTypeOK, HwInv, UNCHANGED <<kernelVars, hwVars>>
  PROVE  HwTypeOK' /\ HwInv'
<1>1. HwTypeOK'
  BY DEF HwTypeOK, kernelVars, hwVars
<1>2. ASSUME NEW q \in Proc PROVE ListInv(q)'
  BY SameKeeps DEF HwInv, Same, kernelVars, hwVars
<1>3. (dev = NoDev => ~Up)'
  BY DEF HwInv, Up, kernelVars
<1> QED
  BY <1>1, <1>2, <1>3 DEF HwInv

-----------------------------------------------------------------------------
(* The path.                                                               *)

\* The types of what main keeps.
MainTypeOK ==
  /\ pc \in [Proc -> Starting \cup Ending \cup {"off", "run", "gone"}]
  /\ file \in Proc \cup {None} /\ writable \in BOOLEAN
  /\ listening \subseteq Proc
  /\ faults \in 0..MaxFaults
  /\ hurt \subseteq Proc /\ aborted \subseteq Proc /\ quiet \subseteq Proc

LEMMA MainTypes ==
  ASSUME MainTypeOK, NEW d \in Proc, Start(d) \/ main(d) \/ Failure(d) \/ cleanup(d)
  PROVE  MainTypeOK'
<1> USE MainAssumption DEF MainTypeOK, Starting, Ending, fileVars, ghostVars, mainVars
<1>1. CASE Start(d)
  BY <1>1 DEF Start, Goto
<1>2. CASE Devices(d)
  BY <1>2 DEF Devices
<1>3. CASE DevicesFail(d)
  BY <1>3 DEF DevicesFail, Fault
<1>4. CASE DevicesFound(d)
  BY <1>4 DEF DevicesFound, Goto
<1>5. CASE NO_HW_DEVICES(d)
  BY <1>5 DEF NO_HW_DEVICES, Goto
<1>6. CASE Clear(d)
  BY <1>6 DEF Clear, Goto, Unlink
<1>7. CASE Bind(d)
  BY <1>7 DEF Bind, Goto
<1>8. CASE Chmod(d)
  BY <1>8 DEF Chmod, Goto, Unlink
<1>9. CASE Listen(d)
  BY <1>9 DEF Listen, Goto
<1>10. CASE UnixFails(d)
  BY <1>10 DEF UnixFails, Goto, Fault
<1>11. CASE UnixBackOut(d)
  <2>1. faults' \in 0..MaxFaults /\ hurt' \subseteq Proc
    BY <1>11 DEF UnixBackOut, Fault
  <2> QED
    BY <1>11, <2>1 DEF UnixBackOut, Goto, Unlink
<1>12. CASE create_pf_socket(d)
  BY <1>12 DEF create_pf_socket, Goto
<1>13. CASE PfFails(d)
  BY <1>13 DEF PfFails, Goto, Fault
<1>14. CASE set_sig_cleanup(d)
  BY <1>14 DEF set_sig_cleanup, Goto
<1>15. CASE SigFails(d)
  BY <1>15 DEF SigFails, Goto, Fault
<1>16. CASE RunReturns(d)
  BY <1>16 DEF RunReturns, Goto, Fault
<1>17. CASE UNIX_DOMAIN_FAIL(d)
  BY <1>17 DEF UNIX_DOMAIN_FAIL, Goto, Unlink
<1>18. CASE cleanup(d)
  BY <1>18 DEF cleanup, Goto, Unlink
<1>19. CASE handle_reqExits(d) \/ Kill(d)
  BY <1>19 DEF handle_reqExits, Kill, Goto, Fault
<1> QED
  BY <1>1, <1>2, <1>3, <1>4, <1>5, <1>6, <1>7, <1>8, <1>9, <1>10, <1>11, <1>12, <1>13, <1>14,
     <1>15, <1>16, <1>17, <1>18, <1>19
  DEF main, create_unix_domain, Failure

(* What a step of daemon d does to the owner of the path.                  *)
LEMMA PathStep ==
  ASSUME MainTypeOK, PathInv, NEW d \in Proc,
         Start(d) \/ main(d) \/ Failure(d) \/ cleanup(d)
  PROVE  PathInv'
<1> USE MainAssumption DEF MainTypeOK, PathInv, Owns, Starting, Ending, fileVars, ghostVars,
                           mainVars
<1>1. CASE Start(d)
  BY <1>1 DEF Start, Goto
<1>2. CASE Devices(d)
  BY <1>2 DEF Devices
<1>3. CASE DevicesFail(d)
  BY <1>3 DEF DevicesFail, Fault
<1>4. CASE DevicesFound(d)
  BY <1>4 DEF DevicesFound, Goto
<1>5. CASE NO_HW_DEVICES(d)
  BY <1>5 DEF NO_HW_DEVICES, Goto
<1>6. CASE Clear(d)
  BY <1>6 DEF Clear, Goto, Unlink
<1>7. CASE Bind(d)
  BY <1>7 DEF Bind, Goto
<1>8. CASE Chmod(d)
  BY <1>8 DEF Chmod, Goto, Unlink
<1>9. CASE Listen(d)
  BY <1>9 DEF Listen, Goto
<1>10. CASE UnixFails(d)
  BY <1>10 DEF UnixFails, Goto, Fault
<1>11. CASE UnixBackOut(d)
  <2>1. /\ pc[d] \in {"chmod", "listen"} /\ pc' = [pc EXCEPT ![d] = "failed"]
        /\ file' = None /\ quiet' = quiet
    BY <1>11 DEF UnixBackOut, Goto, Unlink
  <2>2. \A e \in quiet : e = d
    BY <2>1
  <2> QED
    BY <2>1, <2>2
<1>12. CASE create_pf_socket(d)
  BY <1>12 DEF create_pf_socket, Goto
<1>13. CASE PfFails(d)
  BY <1>13 DEF PfFails, Goto, Fault
<1>14. CASE set_sig_cleanup(d)
  BY <1>14 DEF set_sig_cleanup, Goto
<1>15. CASE SigFails(d)
  BY <1>15 DEF SigFails, Goto, Fault
<1>16. CASE RunReturns(d)
  BY <1>16 DEF RunReturns, Goto, Fault
<1>17. CASE UNIX_DOMAIN_FAIL(d)
  BY <1>17 DEF UNIX_DOMAIN_FAIL, Goto, Unlink
<1>18. CASE cleanup(d)
  BY <1>18 DEF cleanup, Goto, Unlink
<1>19. CASE handle_reqExits(d) \/ Kill(d)
  BY <1>19 DEF handle_reqExits, Kill, Goto, Fault
<1> QED
  BY <1>1, <1>2, <1>3, <1>4, <1>5, <1>6, <1>7, <1>8, <1>9, <1>10, <1>11, <1>12, <1>13, <1>14,
     <1>15, <1>16, <1>17, <1>18, <1>19
  DEF main, create_unix_domain, Failure

-----------------------------------------------------------------------------
(* The inductive invariant is established and kept.                        *)
LEMMA MainStarts ==
  ASSUME Init
  PROVE  TypeOK /\ MainInv
<1>1. MainTypeOK
  <2>1. faults \in 0..MaxFaults
    BY MainAssumption DEF Init
  <2>2. pc \in [Proc -> Starting \cup Ending \cup {"off", "run", "gone"}]
    BY DEF Init
  <2> QED
    BY <2>1, <2>2 DEF Init, MainTypeOK
<1>2. PathInv
  BY MainAssumption DEF Init, PathInv
<1> QED
  BY <1>1, <1>2, HwStarts DEF TypeOK, MainTypeOK, MainInv

LEMMA MainStep ==
  ASSUME TypeOK, MainInv, [Next]_vars
  PROVE  TypeOK' /\ MainInv'
<1>0. MainTypeOK /\ HwTypeOK /\ PathInv /\ HwInv
  BY DEF TypeOK, MainTypeOK, MainInv
<1>1. ASSUME NEW d \in Proc, Start(d) \/ main(d) \/ Failure(d) \/ cleanup(d)
      PROVE  MainTypeOK' /\ PathInv'
  BY <1>0, <1>1, MainTypes, PathStep
<1>2. ASSUME NEW d \in Proc, Start(d) \/ main(d) \/ Failure(d) \/ cleanup(d)
      PROVE  HwTypeOK' /\ HwInv'
  <2>1. CASE Devices(d) \/ DevicesFail(d)
    BY <1>0, <2>1, GetKeeps DEF Devices, DevicesFail
  <2>2. CASE ~(Devices(d) \/ DevicesFail(d))
    <3>1. UNCHANGED <<kernelVars, hwVars>>
      BY <1>2, <2>2 DEF main, create_unix_domain, Failure, Start, DevicesFound, NO_HW_DEVICES,
           Clear, Bind, Chmod, Listen, UnixFails, UnixBackOut, create_pf_socket, PfFails,
           set_sig_cleanup, SigFails, RunReturns, handle_reqExits, UNIX_DOMAIN_FAIL, cleanup, Kill
    <3> QED
      BY <1>0, <3>1, HwUnchanged
  <2> QED
    BY <2>1, <2>2
<1>3. ASSUME UNCHANGED mainVars PROVE MainTypeOK' /\ PathInv'
  <2>1. MainTypeOK'
    BY <1>0, <1>3 DEF MainTypeOK, mainVars, fileVars, ghostVars
  <2>2. ASSUME NEW d \in quiet PROVE Owns(d)'
    BY <1>0, <1>3, <2>2, Zenon DEF PathInv, Owns, mainVars, fileVars, ghostVars
  <2> QED
    BY <1>0, <1>3, <2>1, <2>2 DEF PathInv, mainVars, fileVars, ghostVars
<1>4. ASSUME Kernel PROVE HwTypeOK' /\ HwInv'
  <2>1. HwTypeOK' /\ (dev' = NoDev => ~Up')
    BY <1>0, <1>4, KernelStep DEF HwInv
  <2>2. \A p \in Proc : ListInv(p)'
    BY <1>0, <1>4, KernelKeeps
  <2> QED
    BY <2>1, <2>2 DEF HwInv
<1>5. ASSUME UNCHANGED vars PROVE MainTypeOK' /\ PathInv' /\ HwTypeOK' /\ HwInv'
  <2>1. UNCHANGED mainVars /\ UNCHANGED <<kernelVars, hwVars>>
    BY <1>5 DEF vars
  <2> QED
    BY <1>0, <1>3, <2>1, HwUnchanged
<1>6. MainTypeOK' /\ PathInv' /\ HwTypeOK' /\ HwInv'
  BY <1>1, <1>2, <1>3, <1>4, <1>5 DEF Next
<1> QED
  BY <1>6 DEF TypeOK, MainTypeOK, MainInv

LEMMA MainAlways == Spec => [](TypeOK /\ MainInv)
<1>1. Init => TypeOK /\ MainInv
  BY MainStarts
<1>2. TypeOK /\ MainInv /\ [Next]_vars => (TypeOK /\ MainInv)'
  BY MainStep
<1> QED
  BY <1>1, <1>2, PTL DEF Spec

-----------------------------------------------------------------------------
(* Every variable of the starting daemons keeps its type: get_hw_addrs     *)
(* writes no index into an empty list and lists addresses of eth0 only.    *)
THEOREM StartTypes == Spec => []TypeOK
  BY MainAlways, PTL

(* The invariant of starting and ending daemons: the lists of devices      *)
(* agree with what was read, and the path is an undisturbed daemon's.      *)
THEOREM StartInvariant == Spec => []MainInv
  BY MainAlways, PTL

(* The file is removed on every way out but a kill and the two calls of    *)
(* exit (a failing sigaction, handle_req without memory), for any number   *)
(* of daemons.                                                             *)
THEOREM StaleFiles == Spec => []StaleOnlyAfterAbort
<1>1. MainInv => StaleOnlyAfterAbort
  BY DEF MainInv, PathInv, StaleOnlyAfterAbort
<1> QED
  BY <1>1, MainAlways, PTL

(* A daemon that no other one disturbs can be connected to once it runs,   *)
(* whatever was at the path when it started.                               *)
THEOREM Undisturbed == Spec => []UndisturbedServes
<1>1. TypeOK /\ MainInv => UndisturbedServes
  BY DEF TypeOK, MainInv, PathInv, Owns, UndisturbedServes, Serves
<1> QED
  BY <1>1, MainAlways, PTL

(* get_hw_addrs returns all addresses of eth0, for every size of the first *)
(* buffer, every increment and any changes of the interfaces meanwhile; in *)
(* the data of one device only while that device is not replaced.          *)
THEOREM DeviceLists == Spec => []DevicesTrue
<1>1. ASSUME TypeOK, MainInv PROVE DevicesTrue
  <2> SUFFICES ASSUME NEW d \in Proc, hpc[d] = "list"
               PROVE  /\ {hwa[d][k].ip : k \in DOMAIN hwa[d]} = {seen[d][j] : j \in DOMAIN seen[d]} \cap Eth
                      /\ \A k \in DOMAIN hwa[d] : hwa[d][k].alias <=> k # 1
                      /\ steady[d] => \E e \in Dev : \A k \in DOMAIN hwa[d] :
                                        hwa[d][k].haddr = e /\ hwa[d][k].index = e
    BY Zenon DEF DevicesTrue
  <2>1. ListInv(d) /\ hwa[d] \in Seq(HwaInfo) /\ dev \in Dev \cup {NoDev}
    BY <1>1 DEF TypeOK, HwTypeOK, MainInv, HwInv
  <2>2. /\ hwa[d] # << >> /\ OneDevice(d)
        /\ Listed(d) = {seen[d][j] : j \in DOMAIN seen[d]} \cap Eth
    BY <2>1 DEF ListInv
  <2>3. \A k \in DOMAIN hwa[d] : hwa[d][k].alias <=> k # 1
    BY <2>1, Zenon DEF ListInv
  <2>4. ASSUME steady[d]
        PROVE  \E e \in Dev : \A k \in DOMAIN hwa[d] : hwa[d][k].haddr = e /\ hwa[d][k].index = e
    <3>1. 1 \in DOMAIN hwa[d] /\ hwa[d][1].ip \in Listed(d)
      BY <2>1, <2>2 DEF Listed
    <3>2. \E j \in DOMAIN seen[d] : seen[d][j] \in Eth
      BY <2>2, <3>1
    <3>3. dev \in Dev
      BY <2>1, <2>2, <2>4, <3>2 DEF OneDevice
    <3> QED
      BY <2>2, <2>4, <3>3 DEF OneDevice
  <2> QED
    BY <2>2, <2>3, <2>4, Zenon DEF Listed
<1> QED
  BY <1>1, MainAlways, PTL
=============================================================================
