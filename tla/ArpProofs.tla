------------------------------ MODULE ArpProofs ------------------------------
(***************************************************************************)
(* Proofs about Arp, for every number of clients, descriptors, hosts and   *)
(* cache entries.                                                          *)
(***************************************************************************)
EXTENDS Arp, SequenceTheorems, TLAPS

(* What removing one position does to a sequence (the free of one entry).  *)
LEMMA RemoveAtFacts ==
  ASSUME NEW S, NEW s \in Seq(S), NEW i \in 1..Len(s)
  PROVE  /\ RemoveAt(s, i) \in Seq(S)
         /\ Len(RemoveAt(s, i)) = Len(s) - 1
         /\ \A j \in 1..(Len(s) - 1) :
              RemoveAt(s, i)[j] = IF j < i THEN s[j] ELSE s[j + 1]
<1> DEFINE a == SubSeq(s, 1, i - 1)
           b == SubSeq(s, i + 1, Len(s))
<1>0. Len(s) \in Nat /\ i \in Nat /\ i >= 1 /\ i <= Len(s)
  OBVIOUS
<1>1. a \in Seq(S) /\ Len(a) = i - 1 /\ \A j \in 1..(i - 1) : a[j] = s[j]
  BY <1>0
<1>2. b \in Seq(S) /\ Len(b) = Len(s) - i /\ \A j \in 1..(Len(s) - i) : b[j] = s[i + j]
  BY <1>0
<1>3. RemoveAt(s, i) = a \o b
  BY DEF RemoveAt
<1> HIDE DEF a, b
<1>4. /\ a \o b \in Seq(S)
      /\ Len(a \o b) = Len(s) - 1
      /\ \A j \in 1..(Len(s) - 1) :
           (a \o b)[j] = IF j < i THEN s[j] ELSE s[j + 1]
  <2>1. /\ a \o b \in Seq(S)
        /\ Len(a \o b) = Len(a) + Len(b)
        /\ \A j \in 1..(Len(a) + Len(b)) :
             (a \o b)[j] = IF j <= Len(a) THEN a[j] ELSE b[j - Len(a)]
    BY <1>1, <1>2, ConcatProperties
  <2>2. Len(a) + Len(b) = Len(s) - 1
    BY <1>0, <1>1, <1>2
  <2>3. ASSUME NEW j \in 1..(Len(s) - 1)
        PROVE  (a \o b)[j] = IF j < i THEN s[j] ELSE s[j + 1]
    <3>1. (a \o b)[j] = IF j <= i - 1 THEN a[j] ELSE b[j - (i - 1)]
      BY <2>1, <2>2, <1>1
    <3>2. CASE j < i
      BY <3>1, <3>2, <1>0, <1>1
    <3>3. CASE ~(j < i)
      <4>1. j - (i - 1) \in 1..(Len(s) - i) /\ i + (j - (i - 1)) = j + 1 /\ ~(j <= i - 1)
        BY <3>3, <1>0
      <4> QED
        BY <3>1, <3>3, <4>1, <1>2
    <3> QED
      BY <3>2, <3>3
  <2> QED
    BY <2>1, <2>2, <2>3
<1> QED
  BY <1>3, <1>4

-----------------------------------------------------------------------------
(* The records the daemon builds have the types of their C structures.     *)
LEMMA BlankType == Blank \in Entry /\ NoHw \in Hwaddr
  BY DEF Blank, NoHw, Entry, Hwaddr, EntryState

LEMMA CompleteType ==
  ASSUME NEW e \in Entry, NEW h \in Hwaddr
  PROVE  [ip |-> e.ip, domain_socket |-> -1, state |-> "COMPLETE", hw |-> h] \in Entry
  BY DEF Entry, EntryState

LEMMA NoneReadyType ==
  NoneReady \in [fds : SUBSET Fd, unix : BOOLEAN, pf : BOOLEAN]
  BY DEF NoneReady

LEMMA FrameTypes ==
  /\ \A a \in IP, p \in IP, i \in {EthIf} \cup OtherIf : RequestFor(a, p, i) \in Frame
  /\ \A f \in Frame, i \in {EthIf} \cup OtherIf : ReplyTo(f, i) \in Frame
  BY ArpAssumption DEF RequestFor, ReplyTo, build_arp, Frame

(* mac_by_ifindex finds the address of eth0, and no other.                 *)
LEMMA EthMac ==
  /\ mac_by_ifindex(EthIf) \in Mac
  /\ \A i : mac_by_ifindex(i) # NULL => i = EthIf
<1>1. (CHOOSE p \in OwnIp : TRUE) \in OwnIp
  BY ArpAssumption
<1> QED
  BY <1>1, ArpAssumption DEF mac_by_ifindex

LEMMA HwTypes ==
  ASSUME NEW f \in Frame, mac_by_ifindex(f.ifindex) # NULL
  PROVE  ReplyHw(f) \in Hwaddr /\ ReverseEntry(f) \in Entry
<1>1. f.ifindex = EthIf /\ EthIf \in Nat /\ mac_by_ifindex(f.ifindex) \in Mac
  BY EthMac, ArpAssumption
<1>2. f.tha \in Mac \cup {NoMac} /\ f.esrc \in Mac /\ f.spa \in IP
  BY DEF Frame
<1>3. ReplyHw(f) \in Hwaddr
  BY <1>1, <1>2 DEF ReplyHw, HwRead, Hwaddr, ETH_ALEN, ARPHRD_ETHER, htons_ARPHRD_ETHER
<1>4. ReverseEntry(f) \in Entry
  <2> DEFINE h == [ifindex |-> f.ifindex, ifhatype |-> ARPHRD_ETHER,
                   ifaddr |-> mac_by_ifindex(f.ifindex), hatype |-> ARPHRD_ETHER,
                   halen |-> ETH_ALEN, addr |-> f.esrc]
  <2>1. h \in Hwaddr
    BY <1>1, <1>2 DEF Hwaddr, ETH_ALEN, ARPHRD_ETHER
  <2>2. ReverseEntry(f) = [Blank EXCEPT !.ip = f.spa, !.state = "COMPLETE", !.hw = h]
    BY DEF ReverseEntry
  <2> HIDE DEF h
  <2> QED
    BY <2>1, <2>2, <1>2, BlankType DEF Entry, EntryState
<1> QED
  BY <1>3, <1>4

-----------------------------------------------------------------------------
(* What linking an entry in front does: it is the new head and all others  *)
(* move up by one, or it closes a cycle because it was linked already.     *)
LEMMA AddFacts ==
  ASSUME list \in Seq(Node), NEW n \in Node, addToCache(n)
  PROVE  /\ list' \in Seq(Node) /\ dangling' \in BOOLEAN
         /\ fault' \in {fault, "cycle"}
         /\ fault' # "cycle" =>
              /\ n \notin Linked
              /\ Len(list') = Len(list) + 1
              /\ list'[1] = n
              /\ \A i \in 1..Len(list) : list'[i + 1] = list[i]
<1>1. CASE n \notin Linked /\ list' = <<n>> \o list /\ fault' = fault
  <2>1. /\ <<n>> \o list \in Seq(Node)
        /\ Len(<<n>> \o list) = Len(list) + 1
        /\ (<<n>> \o list)[1] = n
        /\ \A i \in 1..Len(list) : (<<n>> \o list)[i + 1] = list[i]
    OBVIOUS
  <2>2. dangling' \in BOOLEAN
    BY Zenon DEF addToCache
  <2> QED
    BY <1>1, <2>1, <2>2, Zenon
<1>2. CASE list' = << >> /\ fault' = "cycle"
  <2>1. << >> \in Seq(Node)
    OBVIOUS
  <2>2. dangling' \in BOOLEAN
    BY Zenon DEF addToCache
  <2> QED
    BY <1>2, <2>1, <2>2, Zenon
<1> QED
  BY <1>1, <1>2, Zenon DEF addToCache

(* What the tail of the loop body does when it drops the entry it is at:   *)
(* memory is corrupted, or one entry at or before the walk is freed.       *)
LEMMA DropShape ==
  ASSUME TypeOK, NEW i \in DOMAIN list, At(i),
         NEW ent \in [Node -> Entry], ent[cur].domain_socket \in Fd,
         DropEntry(i, ent)
  PROVE  LET closed == [ent EXCEPT ![cur].domain_socket = -1]
         IN /\ cur' = NextOf(i) /\ pc' = pc /\ rset' = rset
            /\ fdtab' = [fdtab EXCEPT ![ent[cur].domain_socket] = None]
            /\ closed \in [Node -> Entry]
            /\ \/ /\ list' = << >> /\ fault' = "uaf" /\ dangling' = FALSE
                  /\ entry' = closed
               \/ \E j \in 1..i :
                    /\ list' = RemoveAt(list, j)
                    /\ fault' = fault /\ dangling' \in BOOLEAN
                    /\ entry' = [closed EXCEPT ![list[j]] = Blank]
                    /\ isSameCache(closed[list[j]], closed[cur])
<1> DEFINE closed == [ent EXCEPT ![cur].domain_socket = -1]
<1>1. i \in 1..Len(list) /\ cur \in Node /\ list[i] = cur /\ Len(list) \in Nat
  BY DEF TypeOK, At
<1>2. closed \in [Node -> Entry]
  BY <1>1 DEF Entry
<1>3. i \in SameAs(closed, closed[cur])
  BY <1>1 DEF SameAs, isSameCache
<1>4. removeFromCache(closed, closed[cur])
  BY DEF DropEntry
<1>5. PICK j \in SameAs(closed, closed[cur]) :
        IsFirst(j, SameAs(closed, closed[cur])) /\ Unlink(closed, j)
  BY <1>3, <1>4 DEF removeFromCache
<1>6. j \in 1..i
  BY <1>1, <1>3, <1>5 DEF IsFirst, SameAs
<1>10. isSameCache(closed[list[j]], closed[cur])
  BY <1>5 DEF SameAs
<1>7. cur' = NextOf(i) /\ pc' = pc /\ rset' = rset
  BY DEF DropEntry, Step
<1>8. fdtab' = [fdtab EXCEPT ![ent[cur].domain_socket] = None]
  BY DEF DropEntry
<1> HIDE DEF closed
<1>9. \/ /\ list' = << >> /\ fault' = "uaf" /\ dangling' = FALSE
         /\ entry' = closed
      \/ /\ list' = RemoveAt(list, j)
         /\ fault' = fault /\ dangling' \in BOOLEAN
         /\ entry' = [closed EXCEPT ![list[j]] = Blank]
  <2>1. (IF j = 1 THEN Len(list) > 1 ELSE dangling) \in BOOLEAN
    <3>1. (Len(list) > 1) \in BOOLEAN
      BY <1>1, SMT
    <3> QED
      BY <3>1, Zenon DEF TypeOK
  <2>2. \/ /\ list' = << >> /\ fault' = "uaf" /\ dangling' = FALSE
           /\ entry' = closed
        \/ /\ list' = RemoveAt(list, j)
           /\ dangling' = IF j = 1 THEN Len(list) > 1 ELSE dangling
           /\ entry' = [closed EXCEPT ![list[j]] = Blank]
           /\ UNCHANGED fault
    BY <1>5, Zenon DEF Unlink
  <2> QED
    BY <2>1, <2>2, Zenon
<1> QED
  BY <1>2, <1>6, <1>7, <1>8, <1>9, <1>10 DEF closed

-----------------------------------------------------------------------------
(* Every step keeps the types.                                             *)
LEMMA TypeOKStep == TypeOK /\ [Next]_vars => TypeOK'
<1> SUFFICES ASSUME TypeOK, [Next]_vars PROVE TypeOK'
  OBVIOUS
<1> USE ArpAssumption, CacheAssumption
<1>1. CASE UNCHANGED vars
  BY <1>1 DEF TypeOK, vars, listVars, clientVars, sockVars, loopVars
<1>2. CASE Clients
  <2>0. ASSUME NEW c \in Call, NEW a \in IP \cup {NonInet}, Ask(c, a) PROVE TypeOK'
    BY <2>0 DEF Ask, Return, TypeOK, CallState, InAreq, listVars, loopVars, sockVars
  <2>1. ASSUME NEW c \in Call, Connect(c) PROVE TypeOK'
    <3>1. backlog' \in Seq(Call)
      <4>1. backlog' = backlog \/ backlog' = Append(backlog, c)
        BY <2>1, Zenon DEF Connect
      <4>2. backlog \in Seq(Call)
        BY DEF TypeOK
      <4> QED
        BY <4>1, <4>2
    <3>2. cst' \in [Call -> CallState]
      BY <2>1 DEF Connect, Return, TypeOK, CallState, InAreq
    <3> QED
      BY <2>1, <3>1, <3>2 DEF Connect, TypeOK, listVars, loopVars
  <2>2. ASSUME NEW c \in Call, SendReq(c) PROVE TypeOK'
    BY <2>2 DEF SendReq, Return, TypeOK, CallState, InAreq, listVars, loopVars, sockVars
  <2>3. ASSUME NEW c \in Call,
               Receive(c) \/ TimeOut(c) \/ ReadFails(c) \/ Close(c) \/ Cancel(c) \/ Kill(c)
        PROVE  TypeOK'
    BY <2>3 DEF Receive, TimeOut, ReadFails, Close, Cancel, Kill, Return, TypeOK, CallState, InAreq,
                listVars, loopVars, sockVars
  <2> QED
    BY <1>2, <2>0, <2>1, <2>2, <2>3 DEF Clients, areq
<1>3. CASE Network
  <2>1. ASSUME NEW f \in Frame, Arrive(f) PROVE TypeOK'
    BY <2>1 DEF Arrive, TypeOK, listVars, clientVars, loopVars, sockVars
  <2>2. ASSUME NEW i \in {EthIf} \cup OtherIf, NEW p \in IP, NEW a \in IP,
               PeerRequest(p, a, i) PROVE TypeOK'
    BY <2>1, <2>2, FrameTypes DEF PeerRequest
  <2>3. ASSUME NEW i \in {EthIf} \cup OtherIf, NEW f \in out, PeerReply(f, i) PROVE TypeOK'
    BY <2>1, <2>3, FrameTypes DEF PeerReply, TypeOK
  <2>4. ASSUME NEW p \in IP, Junk(p) PROVE TypeOK'
    <3>1. [RequestFor(p, p, EthIf) EXCEPT !.valid = FALSE] \in Frame
      <4>1. RequestFor(p, p, EthIf) \in Frame
        BY FrameTypes
      <4> QED
        BY <4>1 DEF Frame
    <3> QED
      BY <2>1, <2>4, <3>1 DEF Junk
  <2> QED
    BY <1>3, <2>2, <2>3, <2>4 DEF Network
<1>4. ASSUME NEW why \in {"sigpipe", "nullmac", "nomem", "exit"}, Die(why),
             UNCHANGED <<cst, want>>, req' \in [Call -> IP \cup {NonInet, None}],
             ans' \in [Call -> Hwaddr], out' \in SUBSET Frame
      PROVE  TypeOK'
  <2>2. /\ list' \in Seq(Node) /\ backlog' \in Seq(Call) /\ pfq' \in Seq(Frame)
        /\ fdtab' \in [Fd -> Call \cup {None}] /\ entry' \in [Node -> Entry]
    BY <1>4, BlankType DEF Die
  <2>3. dangling' \in BOOLEAN /\ rset' \in [fds : SUBSET Fd, unix : BOOLEAN, pf : BOOLEAN]
    BY <1>4, NoneReadyType DEF Die
  <2> QED
    BY <1>4, <2>2, <2>3 DEF Die, TypeOK
<1>5. CASE Failure
  BY <1>4, <1>5 DEF Failure, Exit, clientVars, TypeOK
<1>6. CASE fault = "none" /\ Select
  <2>1. PICK ready \in [fds : SUBSET Fd, unix : BOOLEAN, pf : BOOLEAN] : rset' = ready
    BY <1>6 DEF Select, Reported
  <2> QED
    BY <1>6, <2>1 DEF Select, Reported, TypeOK, listVars, clientVars, sockVars
<1>7. CASE fault = "none" /\ Walk
  <2>1. ASSUME NEW i \in DOMAIN list, At(i), NEW ent \in [Node -> Entry],
               ent[cur].domain_socket \in Fd, DropEntry(i, ent),
               UNCHANGED <<cst, want, backlog, pfq>>, out' \in SUBSET Frame,
               req' \in [Call -> IP \cup {NonInet, None}], ans' \in [Call -> Hwaddr]
        PROVE  TypeOK'
    <3> DEFINE closed == [ent EXCEPT ![cur].domain_socket = -1]
    <3>1. /\ cur' = NextOf(i) /\ pc' = pc /\ rset' = rset
          /\ fdtab' = [fdtab EXCEPT ![ent[cur].domain_socket] = None]
          /\ closed \in [Node -> Entry]
          /\ \/ /\ list' = << >> /\ fault' = "uaf" /\ dangling' = FALSE
                /\ entry' = closed
             \/ \E j \in 1..i :
                  /\ list' = RemoveAt(list, j)
                  /\ fault' = fault /\ dangling' \in BOOLEAN
                  /\ entry' = [closed EXCEPT ![list[j]] = Blank]
                  /\ isSameCache(closed[list[j]], closed[cur])
      BY <2>1, DropShape, Zenon
    <3> HIDE DEF closed
    <3>2. list \in Seq(Node) /\ i \in 1..Len(list) /\ Len(list) \in Nat
      BY DEF TypeOK
    <3>3. cur' \in Node \cup {NULL}
      BY <3>1, <3>2 DEF NextOf
    <3>4. fdtab' \in [Fd -> Call \cup {None}]
      BY <3>1 DEF TypeOK
    <3>5. /\ list' \in Seq(Node) /\ entry' \in [Node -> Entry]
          /\ fault' \in {fault, "uaf"} /\ dangling' \in BOOLEAN
      <4>1. CASE list' = << >> /\ fault' = "uaf" /\ dangling' = FALSE /\ entry' = closed
        <5>1. list' \in Seq(Node) /\ entry' \in [Node -> Entry] /\ fault' \in {fault, "uaf"}
          BY <4>1, <3>1
        <5>2. dangling' \in BOOLEAN
          BY <4>1, Zenon
        <5> QED
          BY <5>1, <5>2
      <4>2. ASSUME NEW j \in 1..i, list' = RemoveAt(list, j), fault' = fault,
                   dangling' \in BOOLEAN, entry' = [closed EXCEPT ![list[j]] = Blank]
            PROVE  /\ list' \in Seq(Node) /\ entry' \in [Node -> Entry]
                   /\ fault' \in {fault, "uaf"} /\ dangling' \in BOOLEAN
        <5>1. j \in 1..Len(list)
          BY <3>2
        <5>2. list' \in Seq(Node)
          BY <4>2, <5>1, <3>2, RemoveAtFacts
        <5>3. entry' \in [Node -> Entry]
          BY <4>2, <3>1, BlankType
        <5> QED
          BY <5>2, <5>3, <4>2
      <4> QED
        BY <3>1, <4>1, <4>2, Zenon
    <3> QED
      BY <2>1, <3>1, <3>3, <3>4, <3>5 DEF TypeOK
  <2>2. ASSUME NEW i, NEW s, AtReadable(i, s)
        PROVE  /\ At(i) /\ cur \in Node /\ entry[cur].domain_socket \in Fd
               /\ Client \in Call \cup {None} /\ entry[cur] \in Entry
    <3>1. At(i) /\ cur \in Node
      BY <2>2 DEF AtReadable, At, TypeOK
    <3>2. entry[cur] \in Entry /\ rset.fds \subseteq Fd
      BY <3>1 DEF TypeOK
    <3>3. entry[cur].domain_socket \in Fd
      BY <2>2, <3>2 DEF AtReadable
    <3> QED
      BY <3>1, <3>2, <3>3 DEF Client, TypeOK
  <2>3. ReadRequest => req' \in [Call -> IP \cup {NonInet, None}]
    BY DEF ReadRequest, TypeOK
  <2>4. ASSUME NEW i \in DOMAIN list, SkipEntry(i) PROVE TypeOK'
    <3>1. cur' \in Node \cup {NULL}
      BY <2>4 DEF SkipEntry, Step, NextOf, TypeOK
    <3> QED
      BY <2>4, <3>1 DEF SkipEntry, Step, TypeOK, listVars, clientVars, sockVars
  <2>5. ASSUME NEW i \in DOMAIN list, AreqInvalid(i) PROVE TypeOK'
    BY <2>1, <2>2, <2>3, <2>5 DEF AreqInvalid, TypeOK
  <2>6. ASSUME NEW i \in DOMAIN list, IncompleteReadable(i) PROVE TypeOK'
    BY <2>1, <2>2, <2>6 DEF IncompleteReadable, clientVars, TypeOK
  <2>7. ASSUME NEW i \in DOMAIN list, NEW k \in DOMAIN list, AreqCached(i, k) PROVE TypeOK'
    <3>1. entry[list[k]].hw \in Hwaddr
      BY DEF TypeOK, Entry
    <3>2. ans' \in [Call -> Hwaddr]
      BY <2>7, <3>1 DEF AreqCached, TypeOK
    <3>3. CASE DropEntry(i, entry) /\ UNCHANGED <<backlog, pfq>>
      BY <2>1, <2>2, <2>3, <2>7, <3>2, <3>3 DEF AreqCached, TypeOK
    <3>4. CASE Die("sigpipe")
      BY <1>4, <2>3, <2>7, <3>2, <3>4 DEF AreqCached, TypeOK
    <3> QED
      BY <2>7, <3>3, <3>4 DEF AreqCached
  <2>8. ASSUME NEW i \in DOMAIN list, NEW sent \in SUBSET OwnIp, AreqMiss(i, sent)
        PROVE  TypeOK'
    <3> DEFINE a == req[Client]
               ent == [entry EXCEPT ![cur].state = "INCOMPLETE", ![cur].ip = a]
    <3>1. AtReadable(i, "CONNECTION") /\ a \in IP /\ ReadRequest
      BY <2>8 DEF AreqMiss, Supported
    <3>2. ent \in [Node -> Entry] /\ ent[cur].domain_socket = entry[cur].domain_socket
      BY <2>2, <3>1 DEF TypeOK, Entry, EntryState
    <3>3. out' \in SUBSET Frame
      BY <2>8, <3>1, FrameTypes DEF AreqMiss, TypeOK
    <3>4. CASE Step(i) /\ entry' = ent /\ UNCHANGED <<list, dangling, fault, fdtab>>
      <4>1. cur' \in Node \cup {NULL}
        BY <3>4 DEF Step, NextOf, TypeOK
      <4> HIDE DEF ent
      <4> QED
        BY <2>3, <2>8, <3>1, <3>2, <3>3, <3>4, <4>1 DEF AreqMiss, Step, TypeOK
    <3>5. CASE DropEntry(i, ent)
      <4>1. UNCHANGED <<cst, want, ans, backlog, pfq>>
        BY <2>8 DEF AreqMiss
      <4> HIDE DEF ent
      <4> QED
        BY <2>1, <2>2, <2>3, <3>1, <3>2, <3>3, <3>5, <4>1 DEF TypeOK
    <3> QED
      BY <2>8, <3>4, <3>5 DEF AreqMiss
  <2>9. CASE EntriesDone
    BY <2>9 DEF EntriesDone, TypeOK, listVars, clientVars, sockVars
  <2> QED
    BY <1>7, <2>4, <2>5, <2>6, <2>7, <2>8, <2>9 DEF Walk
<1>8. CASE \E n \in Node : Accept(n)
  <2> PICK n \in Node : Accept(n)
    BY <1>8
  <2>1. ASSUME NEW sfd \in Fd \cup {-1}, AddConnection(sfd, n)
        PROVE  /\ entry' \in [Node -> Entry] /\ list' \in Seq(Node) /\ dangling' \in BOOLEAN
               /\ fault' \in {fault, "cycle"}
    <3>0. sfd \in Int
      OBVIOUS
    <3>1. entry' \in [Node -> Entry]
      <4>1. CASE entry' = [entry EXCEPT ![n] = [Blank EXCEPT !.domain_socket = sfd]]
        <5>1. [Blank EXCEPT !.domain_socket = sfd] \in Entry
          BY <3>0, BlankType DEF Entry
        <5> QED
          BY <4>1, <5>1 DEF TypeOK
      <4>2. CASE entry' = [entry EXCEPT ![n].domain_socket = sfd, ![n].state = "CONNECTION"]
        <5> DEFINE e == [entry[n] EXCEPT !.domain_socket = sfd, !.state = "CONNECTION"]
        <5>1. entry[n] \in Entry
          BY DEF TypeOK
        <5>2. e \in Entry
          BY <5>1, <3>0 DEF Entry, EntryState
        <5>3. entry' = [entry EXCEPT ![n] = e]
          BY <4>2, <5>1 DEF TypeOK, Entry
        <5> HIDE DEF e
        <5> QED
          BY <5>2, <5>3 DEF TypeOK
      <4> QED
        BY <2>1, <4>1, <4>2 DEF AddConnection
    <3>2. addToCache(n)
      BY <2>1 DEF AddConnection
    <3>3. list' \in Seq(Node)
      BY <3>2, AddFacts DEF TypeOK
    <3>4. dangling' \in BOOLEAN /\ fault' \in {fault, "cycle"}
      BY <3>2, AddFacts DEF TypeOK
    <3> QED
      BY <3>1, <3>3, <3>4
  <2>2. CASE FreeFd = {} /\ AddConnection(-1, n) /\ UNCHANGED sockVars
    <3>1. /\ entry' \in [Node -> Entry] /\ list' \in Seq(Node) /\ dangling' \in BOOLEAN
          /\ fault' \in {fault, "cycle"}
      BY <2>1, <2>2
    <3> QED
      BY <2>2, <3>1 DEF Accept, TypeOK, sockVars, clientVars
  <2>3. ASSUME NEW d \in FreeFd, fdtab' = [fdtab EXCEPT ![d] = Head(backlog)],
               backlog' = Tail(backlog), AddConnection(d, n)
        PROVE  TypeOK'
    <3>1. d \in Fd
      BY DEF FreeFd
    <3>2. /\ entry' \in [Node -> Entry] /\ list' \in Seq(Node) /\ dangling' \in BOOLEAN
          /\ fault' \in {fault, "cycle"}
      BY <2>1, <2>3, <3>1
    <3>3. backlog \in Seq(Call) /\ backlog # << >>
      BY DEF Accept, TypeOK
    <3>4. Head(backlog) \in Call /\ Tail(backlog) \in Seq(Call)
      BY <3>3
    <3>5. fdtab' \in [Fd -> Call \cup {None}] /\ backlog' \in Seq(Call)
      BY <2>3, <3>4 DEF TypeOK
    <3> QED
      BY <3>2, <3>5 DEF Accept, TypeOK, clientVars
  <2> QED
    BY <2>2, <2>3 DEF Accept
<1>9. CASE NoAccept
  BY <1>9 DEF NoAccept, TypeOK, listVars, clientVars, sockVars
<1>11. CASE AcceptNoMemory
  BY <1>4, <1>11 DEF AcceptNoMemory, clientVars, TypeOK
<1>10. CASE Packet
  <2>1. CASE NoFrame
    BY <2>1, NoneReadyType DEF NoFrame, EndRound, TypeOK, listVars, clientVars, sockVars
  <2>2. ASSUME NEW f, Take(f)
        PROVE  /\ f \in Frame /\ pfq' \in Seq(Frame)
               /\ pc' = "select" /\ rset' = NoneReady /\ UNCHANGED cur
    <3>1. pfq \in Seq(Frame) /\ pfq # << >> /\ f = Head(pfq) /\ pfq' = Tail(pfq)
      BY <2>2 DEF Take, Frames, TypeOK
    <3> QED
      BY <2>2, <3>1 DEF Take, EndRound
  <2>3. ASSUME NEW f, IgnoreFrame(f) PROVE TypeOK'
    BY <2>2, <2>3, NoneReadyType
    DEF IgnoreFrame, TypeOK, listVars, clientVars, sockVars
  <2>4. ASSUME NEW f, NullMac(f) PROVE TypeOK'
    BY <1>4, <2>4 DEF NullMac, clientVars, TypeOK
  <2>5. ASSUME NEW f, NEW n \in Node, handle_req(f, n) PROVE TypeOK'
    <3>1. /\ f \in Frame /\ pfq' \in Seq(Frame)
          /\ pc' = "select" /\ rset' = NoneReady /\ UNCHANGED cur
      BY <2>2, <2>5 DEF handle_req
    <3>2. out' \in SUBSET Frame
      BY <2>5, <3>1, FrameTypes DEF handle_req, TypeOK
    <3>3. CASE UNCHANGED listVars
      BY <2>5, <3>1, <3>2, <3>3, NoneReadyType
      DEF handle_req, TypeOK, listVars, clientVars, sockVars
    <3>4. CASE entry' = [entry EXCEPT ![n] = ReverseEntry(f)] /\ addToCache(n)
      <4>1. entry' \in [Node -> Entry]
        BY <2>5, <3>1, <3>4, HwTypes DEF handle_req, TypeOK
      <4>2. /\ list' \in Seq(Node) /\ dangling' \in BOOLEAN
            /\ fault' \in {fault, "cycle"}
        BY <3>4, AddFacts DEF TypeOK
      <4> QED
        BY <2>5, <3>1, <3>2, <4>1, <4>2, NoneReadyType
        DEF handle_req, TypeOK, clientVars, sockVars
    <3> QED
      BY <2>5, <3>3, <3>4 DEF handle_req
  <2>6. ASSUME NEW f \in Frame, handle_reply(f) PROVE TypeOK'
    <3>1. ReplyHw(f) \in Hwaddr
      BY <2>6, HwTypes DEF handle_reply
    <3>2. ans' \in [Call -> Hwaddr]
      BY <2>6, <3>1 DEF handle_reply, Answers, TypeOK
    <3>3. UNCHANGED <<cst, want, req, out>>
      BY <2>6 DEF handle_reply
    <3>4. CASE Die("sigpipe")
      BY <1>4, <3>2, <3>3, <3>4 DEF TypeOK
    <3>5. CASE /\ Take(f) /\ fdtab' = Closed(Waiting(f))
               /\ entry' = Completed(f, Waiting(f))
               /\ UNCHANGED <<list, dangling, fault, backlog>>
      <4>1. fdtab' \in [Fd -> Call \cup {None}]
        BY <3>5 DEF Closed, TypeOK
      <4>2. entry' \in [Node -> Entry]
        BY <3>1, <3>5, CompleteType DEF Completed, TypeOK
      <4> QED
        BY <2>2, <3>2, <3>3, <3>5, <4>1, <4>2, NoneReadyType DEF TypeOK
    <3> QED
      BY <2>6, <3>4, <3>5 DEF handle_reply
  <2>7. \A f \in {pfq[i] : i \in DOMAIN pfq} : f \in Frame
    BY DEF TypeOK
  <2>8. ASSUME NEW f \in Frame, handle_reqNoMemory(f) PROVE TypeOK'
    <3>1. out' \in SUBSET Frame
      BY <2>8, FrameTypes DEF handle_reqNoMemory, TypeOK
    <3> QED
      BY <1>4, <2>8, <3>1 DEF handle_reqNoMemory, clientVars, TypeOK
  <2> QED
    BY <1>10, <2>1, <2>3, <2>4, <2>5, <2>6, <2>7, <2>8 DEF Packet
<1> QED
  BY <1>1, <1>2, <1>3, <1>5, <1>6, <1>7, <1>8, <1>9, <1>10, <1>11 DEF Next, Daemon

(* The program starts with values of the right types.                      *)
LEMMA InitTypeOK == Init => TypeOK
<1> SUFFICES ASSUME Init PROVE TypeOK
  OBVIOUS
<1>1. /\ list \in Seq(Node) /\ backlog \in Seq(Call) /\ pfq \in Seq(Frame)
      /\ fdtab \in [Fd -> Call \cup {None}] /\ cst \in [Call -> CallState]
      /\ want \in [Call -> IP \cup {NonInet, None}]
      /\ req \in [Call -> IP \cup {NonInet, None}]
  BY DEF Init, CallState
<1>2. /\ dangling \in BOOLEAN
      /\ rset \in [fds : SUBSET Fd, unix : BOOLEAN, pf : BOOLEAN]
      /\ entry \in [Node -> Entry] /\ ans \in [Call -> Hwaddr]
  BY BlankType, NoneReadyType DEF Init
<1> QED
  BY <1>1, <1>2 DEF Init, TypeOK

(* The daemon never leaves the types its structures and the protocol       *)
(* between it, its clients and the network give its state.                 *)
THEOREM TypeCorrect == Spec => []TypeOK
  BY InitTypeOK, TypeOKStep, PTL DEF Spec

-----------------------------------------------------------------------------
(* Dropping the entry the walk is at frees no entry the walk still needs:  *)
(* what is left was linked, is not the freed entry, and the next entry is  *)
(* still linked.                                                           *)
LEMMA DropLinked ==
  ASSUME TypeOK, ListInv, NEW i \in DOMAIN list, NEW j \in 1..i,
         list' = RemoveAt(list, j), cur' = NextOf(i)
  PROVE  /\ \A x, y \in DOMAIN list' : list'[x] = list'[y] => x = y
         /\ cur' # NULL => cur' \in Linked'
         /\ Linked' = Linked \ {list[j]}
<1>1. list \in Seq(Node) /\ Len(list) \in Nat /\ i \in 1..Len(list) /\ j \in 1..Len(list)
  BY DEF TypeOK
<1>2. /\ list' \in Seq(Node) /\ Len(list') = Len(list) - 1
      /\ \A x \in 1..(Len(list) - 1) :
           list'[x] = IF x < j THEN list[x] ELSE list[x + 1]
  BY <1>1, RemoveAtFacts
<1>3. DOMAIN list' = 1..(Len(list) - 1) /\ DOMAIN list = 1..Len(list)
  BY <1>1, <1>2
<1>4. \A x, y \in 1..Len(list) : list[x] = list[y] => x = y
  BY <1>3 DEF ListInv
<1>5. \A x, y \in DOMAIN list' : list'[x] = list'[y] => x = y
  BY <1>1, <1>2, <1>3, <1>4
<1>6. ASSUME cur' # NULL PROVE cur' \in Linked'
  <2>1. i + 1 \in 1..Len(list) /\ cur' = list[i + 1]
    BY <1>1, <1>6 DEF NextOf
  <2>2. i \in DOMAIN list' /\ list'[i] = list[i + 1]
    BY <1>1, <1>2, <1>3, <2>1
  <2> QED
    BY <2>1, <2>2 DEF Linked
<1>7. ASSUME NEW n \in Linked' PROVE n \in Linked /\ n # list[j]
  <2>1. PICK x \in 1..(Len(list) - 1) : n = list'[x]
    BY <1>3 DEF Linked
  <2>2. PICK y \in 1..Len(list) : y # j /\ n = list[y]
    BY <1>1, <1>2, <2>1
  <2> QED
    BY <1>1, <1>3, <1>4, <2>2 DEF Linked
<1>8. ASSUME NEW n \in Linked, n # list[j] PROVE n \in Linked'
  <2>1. PICK x \in 1..Len(list) : n = list[x]
    BY <1>3 DEF Linked
  <2>2. x # j
    BY <1>8, <2>1
  <2>3. PICK y \in 1..(Len(list) - 1) : list'[y] = list[x]
    <3>1. CASE x < j
      BY <1>1, <1>2, <2>1, <3>1
    <3>2. CASE x > j
      <4>1. x - 1 \in 1..(Len(list) - 1) /\ ~(x - 1 < j) /\ (x - 1) + 1 = x
        BY <1>1, <3>2
      <4> QED
        BY <1>2, <4>1
    <3> QED
      BY <1>1, <2>2, <3>1, <3>2
  <2> QED
    BY <1>3, <2>1, <2>3 DEF Linked
<1> QED
  BY <1>5, <1>6, <1>7, <1>8

(* Linking an entry that is not linked adds it and nothing else.           *)
LEMMA AddLinked ==
  ASSUME TypeOK, ListInv, NEW n \in Node, addToCache(n), fault' # "cycle"
  PROVE  /\ \A x, y \in DOMAIN list' : list'[x] = list'[y] => x = y
         /\ n \notin Linked /\ Linked' = Linked \cup {n}
<1>1. list \in Seq(Node) /\ Len(list) \in Nat /\ DOMAIN list = 1..Len(list)
  BY DEF TypeOK
<1>2. /\ list' \in Seq(Node) /\ n \notin Linked
      /\ Len(list') = Len(list) + 1 /\ list'[1] = n
      /\ \A i \in 1..Len(list) : list'[i + 1] = list[i]
  BY <1>1, AddFacts
<1>3. DOMAIN list' = 1..(Len(list) + 1)
  BY <1>1, <1>2
<1>4. ASSUME NEW x \in 1..(Len(list) + 1), x # 1
      PROVE  x - 1 \in 1..Len(list) /\ list'[x] = list[x - 1]
  <2>1. x - 1 \in 1..Len(list) /\ (x - 1) + 1 = x
    BY <1>1, <1>4
  <2> QED
    BY <1>2, <2>1
<1>5. \A x \in 1..Len(list) : list[x] # n
  BY <1>1, <1>2 DEF Linked
<1>6. \A x, y \in 1..Len(list) : list[x] = list[y] => x = y
  BY <1>1 DEF ListInv
<1>7. ASSUME NEW x \in 1..(Len(list) + 1), NEW y \in 1..(Len(list) + 1), list'[x] = list'[y]
      PROVE  x = y
  <2>1. CASE x = 1
    BY <1>2, <1>4, <1>5, <1>7, <2>1
  <2>2. CASE y = 1
    BY <1>2, <1>4, <1>5, <1>7, <2>2
  <2>3. CASE x # 1 /\ y # 1
    <3>1. x - 1 = y - 1
      BY <1>4, <1>6, <1>7, <2>3
    <3> QED
      BY <3>1, <1>1
  <2> QED
    BY <2>1, <2>2, <2>3
<1>8. ASSUME NEW m \in Linked' PROVE m \in Linked \cup {n}
  <2>1. PICK x \in 1..(Len(list) + 1) : m = list'[x]
    BY <1>3 DEF Linked
  <2>2. CASE x = 1
    BY <1>2, <2>1, <2>2
  <2>3. CASE x # 1
    BY <1>1, <1>4, <2>1, <2>3 DEF Linked
  <2> QED
    BY <2>2, <2>3
<1>9. ASSUME NEW m \in Linked \cup {n} PROVE m \in Linked'
  <2>1. CASE m = n
    BY <1>1, <1>2, <1>3, <2>1 DEF Linked
  <2>2. CASE m \in Linked
    <3>1. PICK x \in 1..Len(list) : m = list[x]
      BY <1>1, <2>2 DEF Linked
    <3>2. x + 1 \in 1..(Len(list) + 1) /\ list'[x + 1] = m
      BY <1>1, <1>2, <3>1
    <3> QED
      BY <1>3, <3>2 DEF Linked
  <2> QED
    BY <2>1, <2>2
<1> QED
  BY <1>2, <1>3, <1>7, <1>8, <1>9

-----------------------------------------------------------------------------
(* The steps of the system, by what they do to the list, its entries and   *)
(* the descriptors.                                                        *)

\* The list, its entries and the descriptors stay.
Quiet == UNCHANGED <<list, entry, fault, fdtab>>

\* The daemon is dead or its memory corrupted; there is no list any more.
Ruin == fault' # "none" /\ list' = << >>

\* The contents the entries have when the walk drops the entry it is at.
BeforeDrop(ent) ==
  \/ ent = entry
  \/ \E a \in IP :
       /\ entry[cur].state = "CONNECTION"
       /\ ~ \E k \in DOMAIN list : Cached(a, k)
       /\ ent = [entry EXCEPT ![cur].state = "INCOMPLETE", ![cur].ip = a]

Drops(i, ent) ==
  /\ At(i) /\ entry[cur].domain_socket \in rset.fds
  /\ entry[cur].state # "COMPLETE"
  /\ BeforeDrop(ent)
  /\ DropEntry(i, ent)

Marks(i, a) ==
  /\ At(i) /\ entry[cur].domain_socket \in rset.fds
  /\ entry[cur].state = "CONNECTION"
  /\ a = req[Client] /\ a \in IP
  /\ ~ \E k \in DOMAIN list : Cached(a, k)
  /\ Step(i)
  /\ entry' = [entry EXCEPT ![cur].state = "INCOMPLETE", ![cur].ip = a]
  /\ UNCHANGED <<list, fault, fdtab>>

Connects(n, sfd) ==
  /\ n \notin Linked /\ addToCache(n)
  /\ entry' = [entry EXCEPT ![n] = [Blank EXCEPT !.domain_socket = sfd]]
  /\ \/ sfd = -1 /\ UNCHANGED fdtab
     \/ /\ sfd \in Fd /\ fdtab[sfd] = None /\ backlog # << >>
        /\ fdtab' = [fdtab EXCEPT ![sfd] = Head(backlog)]

Learns(f, n) ==
  /\ Frames(f) /\ f.op = "REQUEST" /\ mac_by_ifindex(f.ifindex) # NULL
  /\ getCacheByIpAddr(f.spa) = {}
  /\ n \notin Linked /\ addToCache(n)
  /\ entry' = [entry EXCEPT ![n] = ReverseEntry(f)]
  /\ UNCHANGED fdtab

Completes(f) ==
  /\ Frames(f) /\ f.op = "REPLY" /\ mac_by_ifindex(f.ifindex) # NULL
  /\ fdtab' = Closed(Waiting(f))
  /\ entry' = Completed(f, Waiting(f))
  /\ UNCHANGED <<list, fault>>

LEMMA NextCases ==
  ASSUME TypeOK, [Next]_vars
  PROVE  \/ Quiet
         \/ Ruin
         \/ /\ fault = "none" /\ fault' = "none"
            /\ \/ \E i \in DOMAIN list : \E ent \in [Node -> Entry] : Drops(i, ent)
               \/ \E i \in DOMAIN list : \E a \in IP : Marks(i, a)
               \/ \E n \in Node : \E sfd \in Fd \cup {-1} : Connects(n, sfd)
               \/ \E f \in Frame : \E n \in Node : Learns(f, n)
               \/ \E f \in Frame : Completes(f)
<1> DEFINE Goal ==
         \/ Quiet
         \/ Ruin
         \/ /\ fault = "none" /\ fault' = "none"
            /\ \/ \E i \in DOMAIN list : \E ent \in [Node -> Entry] : Drops(i, ent)
               \/ \E i \in DOMAIN list : \E a \in IP : Marks(i, a)
               \/ \E n \in Node : \E sfd \in Fd \cup {-1} : Connects(n, sfd)
               \/ \E f \in Frame : \E n \in Node : Learns(f, n)
               \/ \E f \in Frame : Completes(f)
<1> SUFFICES Goal
  OBVIOUS
<1>1. CASE UNCHANGED vars
  BY <1>1 DEF vars, listVars, sockVars, Quiet
<1>2. CASE Clients
  BY <1>2 DEF Clients, Ask, Connect, areq, SendReq, Receive, TimeOut, ReadFails, Close, Cancel, Kill, listVars, sockVars, Quiet
<1>3. CASE Network
  BY <1>3 DEF Network, PeerRequest, PeerReply, Junk, Arrive, listVars, sockVars, Quiet
<1>4. ASSUME NEW why \in {"sigpipe", "nullmac", "nomem", "exit"}, Die(why) PROVE Goal
  BY <1>4 DEF Die, Ruin
<1>5. CASE Failure
  BY <1>4, <1>5 DEF Failure, Exit
<1>6. CASE fault = "none" /\ (Select \/ NoAccept)
  BY <1>6 DEF Select, Reported, NoAccept, listVars, sockVars, Quiet
<1>7. CASE fault = "none" /\ Walk
  <2>1. ASSUME NEW i \in DOMAIN list, NEW s \in {"CONNECTION", "INCOMPLETE"},
               AtReadable(i, s), NEW ent \in [Node -> Entry], BeforeDrop(ent), DropEntry(i, ent)
        PROVE  Goal
    <3>1. Drops(i, ent)
      BY <2>1 DEF Drops, AtReadable
    <3>2. ent[cur].domain_socket \in Fd
      <4>1. cur \in Node /\ entry[cur].domain_socket \in Fd
        BY <2>1 DEF AtReadable, At, TypeOK
      <4>2. ent[cur].domain_socket = entry[cur].domain_socket
        BY <2>1, <4>1 DEF BeforeDrop, TypeOK, Entry
      <4> QED
        BY <4>1, <4>2
    <3>3. fault' = fault \/ (fault' = "uaf" /\ list' = << >>)
      BY <2>1, <3>2, DropShape DEF AtReadable
    <3> QED
      BY <1>7, <3>1, <3>3 DEF Ruin
  <2>2. ASSUME NEW i \in DOMAIN list, SkipEntry(i) PROVE Goal
    BY <2>2 DEF SkipEntry, listVars, sockVars, Quiet
  <2>3. ASSUME NEW i \in DOMAIN list, AreqInvalid(i) PROVE Goal
    BY <2>1, <2>3 DEF AreqInvalid, BeforeDrop, TypeOK
  <2>4. ASSUME NEW i \in DOMAIN list, IncompleteReadable(i) PROVE Goal
    BY <2>1, <2>4 DEF IncompleteReadable, BeforeDrop, TypeOK
  <2>5. ASSUME NEW i \in DOMAIN list, NEW k \in DOMAIN list, AreqCached(i, k) PROVE Goal
    BY <1>4, <2>1, <2>5 DEF AreqCached, BeforeDrop, TypeOK
  <2>6. ASSUME NEW i \in DOMAIN list, NEW sent \in SUBSET OwnIp, AreqMiss(i, sent)
        PROVE  Goal
    <3> DEFINE a == req[Client]
               ent == [entry EXCEPT ![cur].state = "INCOMPLETE", ![cur].ip = a]
    <3>1. /\ AtReadable(i, "CONNECTION") /\ a \in IP
          /\ ~ \E k \in DOMAIN list : Cached(a, k)
      BY <2>6 DEF AreqMiss, Supported
    <3>2. ent \in [Node -> Entry] /\ BeforeDrop(ent)
      <4>1. cur \in Node /\ entry[cur] \in Entry /\ entry \in [Node -> Entry]
        BY <3>1 DEF AtReadable, At, TypeOK
      <4> HIDE DEF a
      <4>2. ent \in [Node -> Entry]
        BY <3>1, <4>1 DEF Entry, EntryState
      <4> QED
        BY <3>1, <4>2 DEF BeforeDrop, AtReadable
    <3>3. CASE Step(i) /\ entry' = ent /\ UNCHANGED <<list, dangling, fault, fdtab>>
      <4>1. Marks(i, a)
        BY <3>1, <3>3 DEF Marks, AtReadable
      <4> QED
        BY <1>7, <3>1, <3>3, <4>1
    <3>4. CASE DropEntry(i, ent)
      <4> HIDE DEF ent
      <4> QED
        BY <2>1, <3>1, <3>2, <3>4
    <3> QED
      BY <2>6, <3>3, <3>4 DEF AreqMiss
  <2>7. CASE EntriesDone
    BY <2>7 DEF EntriesDone, listVars, sockVars, Quiet
  <2> QED
    BY <1>7, <2>2, <2>3, <2>4, <2>5, <2>6, <2>7 DEF Walk
<1>8. ASSUME NEW n \in Node, addToCache(n)
      PROVE  (n \notin Linked /\ fault' = fault) \/ Ruin
  BY <1>8, Zenon DEF addToCache, Ruin
<1>9. CASE fault = "none" /\ \E n \in Node : Accept(n)
  <2> PICK n \in Node : Accept(n)
    BY <1>9
  <2>1. ASSUME NEW sfd \in Fd \cup {-1}, AddConnection(sfd, n), ~Ruin
        PROVE  /\ n \notin Linked /\ addToCache(n) /\ fault' = fault
               /\ entry' = [entry EXCEPT ![n] = [Blank EXCEPT !.domain_socket = sfd]]
    <3>1. n \notin Linked /\ addToCache(n) /\ fault' = fault
      BY <1>8, <2>1 DEF AddConnection
    <3> QED
      BY <2>1, <3>1 DEF AddConnection, Linked
  <2>2. CASE FreeFd = {} /\ AddConnection(-1, n) /\ UNCHANGED sockVars
    <3>1. ~Ruin => Connects(n, -1) /\ fault' = fault
      BY <2>1, <2>2 DEF Connects, sockVars
    <3> QED
      BY <1>9, <3>1
  <2>3. ASSUME NEW d \in FreeFd, fdtab' = [fdtab EXCEPT ![d] = Head(backlog)], AddConnection(d, n)
        PROVE  Goal
    <3>1. d \in Fd /\ fdtab[d] = None
      BY DEF FreeFd
    <3>2. ~Ruin => Connects(n, d) /\ fault' = fault
      BY <2>1, <2>3, <3>1 DEF Connects, Accept
    <3> QED
      BY <1>9, <3>1, <3>2
  <2> QED
    BY <2>2, <2>3 DEF Accept
<1>10. CASE fault = "none" /\ Packet
  <2>1. CASE NoFrame
    BY <2>1 DEF NoFrame, listVars, sockVars, Quiet
  <2>2. ASSUME NEW f \in Frame, IgnoreFrame(f) PROVE Goal
    BY <2>2 DEF IgnoreFrame, listVars, sockVars, Quiet
  <2>3. ASSUME NEW f \in Frame, NullMac(f) \/ handle_reqNoMemory(f) PROVE Goal
    BY <1>4, <2>3 DEF NullMac, handle_reqNoMemory
  <2>4. ASSUME NEW f \in Frame, NEW n \in Node, handle_req(f, n) PROVE Goal
    <3>1. CASE UNCHANGED listVars
      BY <2>4, <3>1 DEF handle_req, listVars, sockVars, Quiet
    <3>2. CASE /\ getCacheByIpAddr(f.spa) = {} /\ addToCache(n)
               /\ entry' = [entry EXCEPT ![n] = ReverseEntry(f)]
      <4>1. ~Ruin => Learns(f, n) /\ fault' = fault
        BY <1>8, <2>4, <3>2 DEF Learns, handle_req, Take, sockVars
      <4> QED
        BY <1>10, <4>1
    <3> QED
      BY <2>4, <3>1, <3>2 DEF handle_req
  <2>5. ASSUME NEW f \in Frame, handle_reply(f) PROVE Goal
    <3>1. CASE Die("sigpipe")
      BY <1>4, <3>1
    <3>2. CASE /\ Take(f) /\ fdtab' = Closed(Waiting(f))
               /\ entry' = Completed(f, Waiting(f))
               /\ UNCHANGED <<list, dangling, fault, backlog>>
      <4>1. Completes(f)
        BY <2>5, <3>2 DEF Completes, handle_reply, Take
      <4> QED
        BY <1>10, <3>2, <4>1
    <3> QED
      BY <2>5, <3>1, <3>2 DEF handle_reply
  <2>6. \A f \in {pfq[i] : i \in DOMAIN pfq} : f \in Frame
    BY DEF TypeOK
  <2> QED
    BY <1>10, <2>1, <2>2, <2>3, <2>4, <2>5, <2>6 DEF Packet
<1>11. CASE AcceptNoMemory
  BY <1>4, <1>11 DEF AcceptNoMemory
<1> QED
  BY <1>1, <1>2, <1>3, <1>5, <1>6, <1>7, <1>9, <1>10, <1>11 DEF Next, Daemon

-----------------------------------------------------------------------------
(* What a drop does to the entries that stay: only the entry the walk was  *)
(* at can change, and if it stays (because another one with its key was    *)
(* freed) it has lost its descriptor.                                      *)
LEMMA DropEffect ==
  ASSUME TypeOK, ListInv, fault' = "none",
         NEW i \in DOMAIN list, NEW ent \in [Node -> Entry], Drops(i, ent)
  PROVE  /\ cur \in Linked /\ cur \in Node /\ entry[cur].domain_socket \in Fd
         /\ fdtab' = [fdtab EXCEPT ![entry[cur].domain_socket] = None]
         /\ pc' = pc
         /\ \A x, y \in DOMAIN list' : list'[x] = list'[y] => x = y
         /\ cur' # NULL => cur' \in Linked'
         /\ Linked' \subseteq Linked
         /\ \A m \in Linked' : m # cur => entry'[m] = entry[m]
         /\ cur \in Linked' =>
              /\ entry'[cur].domain_socket = -1 /\ entry'[cur].hw = entry[cur].hw
              /\ \/ entry'[cur].state = entry[cur].state /\ entry'[cur].ip = entry[cur].ip
                 \/ \E a \in IP :
                      /\ entry[cur].state = "CONNECTION"
                      /\ ~ \E k \in DOMAIN list : Cached(a, k)
                      /\ entry'[cur].state = "INCOMPLETE" /\ entry'[cur].ip = a
         /\ \A m \in Linked : m \notin Linked' => m = cur \/ entry[m].hw.ifindex = entry[cur].hw.ifindex
<1> DEFINE closed == [ent EXCEPT ![cur].domain_socket = -1]
<1>1. At(i) /\ DropEntry(i, ent) /\ BeforeDrop(ent) /\ entry[cur].domain_socket \in rset.fds
  BY DEF Drops
<1>2. cur \in Linked /\ cur \in Node /\ entry[cur].domain_socket \in Fd /\ list[i] = cur
  BY <1>1 DEF At, Linked, TypeOK
<1>3. /\ ent[cur].domain_socket = entry[cur].domain_socket /\ ent[cur].hw = entry[cur].hw
      /\ \A m \in Node : m # cur => ent[m] = entry[m]
      /\ \/ ent[cur].state = entry[cur].state /\ ent[cur].ip = entry[cur].ip
         \/ \E a \in IP :
              /\ entry[cur].state = "CONNECTION"
              /\ ~ \E k \in DOMAIN list : Cached(a, k)
              /\ ent[cur].state = "INCOMPLETE" /\ ent[cur].ip = a
  <2>1. CASE ent = entry
    BY <2>1
  <2>2. ASSUME NEW a \in IP, entry[cur].state = "CONNECTION",
               ~ \E k \in DOMAIN list : Cached(a, k),
               ent = [entry EXCEPT ![cur].state = "INCOMPLETE", ![cur].ip = a]
        PROVE  <1>3!:
    <3>1. entry \in [Node -> Entry] /\ entry[cur] \in Entry
      BY <1>2 DEF TypeOK
    <3>2. /\ ent[cur].domain_socket = entry[cur].domain_socket
          /\ ent[cur].hw = entry[cur].hw
          /\ ent[cur].state = "INCOMPLETE" /\ ent[cur].ip = a
          /\ \A m \in Node : m # cur => ent[m] = entry[m]
      BY <1>2, <2>2, <3>1 DEF Entry
    <3> QED
      BY <2>2, <3>2
  <2> QED
    BY <1>1, <2>1, <2>2 DEF BeforeDrop
<1>4. PICK j \in 1..i :
        /\ list' = RemoveAt(list, j)
        /\ entry' = [closed EXCEPT ![list[j]] = Blank]
        /\ isSameCache(closed[list[j]], closed[cur])
  <2>1. ent[cur].domain_socket \in Fd
    BY <1>2, <1>3
  <2> QED
    BY <1>1, <2>1, DropShape
<1>5. /\ cur' = NextOf(i) /\ pc' = pc
      /\ fdtab' = [fdtab EXCEPT ![entry[cur].domain_socket] = None]
  BY <1>1, <1>3 DEF DropEntry, Step
<1>6. /\ closed \in [Node -> Entry]
      /\ \A m \in Node : m # cur => closed[m] = ent[m]
      /\ closed[cur].domain_socket = -1 /\ closed[cur].hw = ent[cur].hw
      /\ closed[cur].state = ent[cur].state /\ closed[cur].ip = ent[cur].ip
  BY <1>2 DEF Entry
<1> HIDE DEF closed
<1>7. /\ \A x, y \in DOMAIN list' : list'[x] = list'[y] => x = y
      /\ cur' # NULL => cur' \in Linked'
      /\ Linked' = Linked \ {list[j]}
  BY <1>4, <1>5, DropLinked
<1>8. \A m \in Linked' : m \in Node /\ entry'[m] = closed[m]
  <2>1. Linked \subseteq Node
    BY DEF Linked, TypeOK
  <2> QED
    BY <1>4, <1>6, <1>7, <2>1
<1>9. list[j] \in Node
  BY DEF TypeOK
<1>10. list[j] # cur => entry[list[j]].hw.ifindex = entry[cur].hw.ifindex
  BY <1>3, <1>4, <1>6, <1>9 DEF isSameCache
<1> QED
  BY <1>2, <1>3, <1>5, <1>6, <1>7, <1>8, <1>10

(* The walk moves to linked entries only, and ends at a null pointer.      *)
LEMMA CursorStep ==
  ASSUME TypeOK, ListInv, [Next]_vars
  PROVE  /\ pc' # "entries" => cur' = NULL
         /\ cur' \in Linked \cup {NULL, cur}
<1> DEFINE Goal == /\ pc' # "entries" => cur' = NULL
                   /\ cur' \in Linked \cup {NULL, cur}
<1> SUFFICES Goal
  OBVIOUS
<1>1. pc # "entries" => cur = NULL
  BY DEF ListInv
<1>2. CASE pc' = pc /\ cur' = cur
  BY <1>1, <1>2
<1>3. CASE cur' = NULL
  BY <1>3
<1>4. ASSUME NEW i \in DOMAIN list, pc = "entries", Step(i) PROVE Goal
  <2>1. list \in Seq(Node) /\ i \in 1..Len(list) /\ Len(list) \in Nat
    BY DEF TypeOK
  <2>2. NextOf(i) \in Linked \cup {NULL}
    BY <2>1 DEF NextOf, Linked
  <2> QED
    BY <1>4, <2>2 DEF Step
<1>5. CASE UNCHANGED vars \/ Clients \/ Network
  BY <1>2, <1>5 DEF vars, loopVars, Clients, Ask, areq, Connect, SendReq, Receive, TimeOut, ReadFails, Close, Cancel, Kill,
                    Network, PeerRequest, PeerReply, Junk, Arrive
<1>6. CASE Failure
  BY <1>3, <1>6 DEF Failure, Exit, Die
<1>7. CASE Select
  <2>1. list # << >> => list[1] \in Linked
    BY DEF Linked, TypeOK
  <2> QED
    BY <1>7, <2>1 DEF Select, Reported
<1>8. CASE Walk
  <2>1. ASSUME NEW i \in DOMAIN list, SkipEntry(i) \/ AreqInvalid(i) \/ IncompleteReadable(i)
        PROVE  Goal
    BY <1>4, <2>1 DEF SkipEntry, AreqInvalid, IncompleteReadable, AtReadable, At, DropEntry
  <2>2. ASSUME NEW i \in DOMAIN list, NEW k \in DOMAIN list, AreqCached(i, k) PROVE Goal
    BY <1>3, <1>4, <2>2 DEF AreqCached, AtReadable, At, DropEntry, Die
  <2>3. ASSUME NEW i \in DOMAIN list, NEW sent \in SUBSET OwnIp, AreqMiss(i, sent) PROVE Goal
    BY <1>4, <2>3 DEF AreqMiss, AtReadable, At, DropEntry
  <2> QED
    BY <1>3, <1>8, <2>1, <2>2, <2>3 DEF Walk, EntriesDone
<1>9. CASE \E n \in Node : Accept(n)
  BY <1>1, <1>3, <1>9 DEF Accept
<1>10. CASE NoAccept \/ AcceptNoMemory
  BY <1>1, <1>3, <1>10 DEF NoAccept, AcceptNoMemory, Die
<1>11. CASE Packet
  BY <1>1, <1>3, <1>11
  DEF Packet, NoFrame, IgnoreFrame, NullMac, handle_req, handle_reqNoMemory, handle_reply, Take, Frames, EndRound, Die
<1> QED
  BY <1>5, <1>6, <1>7, <1>8, <1>9, <1>10, <1>11 DEF Next, Daemon

(* The walk stays on linked entries.                                       *)
LEMMA ListInvStep == TypeOK /\ ListInv /\ [Next]_vars => ListInv'
<1> SUFFICES ASSUME TypeOK, ListInv, [Next]_vars PROVE ListInv'
  OBVIOUS
<1>2. (pc' # "entries" => cur' = NULL) /\ cur' \in Linked \cup {NULL, cur}
  BY CursorStep
<1>1. CASE list' = list /\ fault' = fault
  BY <1>1, <1>2 DEF ListInv, CursorLinked, Linked
<1>3. CASE Ruin
  BY <1>2, <1>3 DEF Ruin, ListInv, CursorLinked
<1>4. CASE Quiet
  BY <1>1, <1>4 DEF Quiet
<1>5. ASSUME NEW i \in DOMAIN list, NEW ent \in [Node -> Entry], Drops(i, ent), fault' = "none"
      PROVE  ListInv'
  BY <1>2, <1>5, DropEffect DEF ListInv, CursorLinked
<1>6. ASSUME NEW i \in DOMAIN list, NEW a \in IP, Marks(i, a) PROVE ListInv'
  BY <1>1, <1>6 DEF Marks
<1>7. ASSUME NEW n \in Node, addToCache(n), fault' = "none", fault = "none" PROVE ListInv'
  <2>1. /\ \A x, y \in DOMAIN list' : list'[x] = list'[y] => x = y
        /\ Linked' = Linked \cup {n}
    BY <1>7, AddLinked
  <2> QED
    BY <1>2, <1>7, <2>1 DEF ListInv, CursorLinked
<1>8. ASSUME NEW n \in Node, NEW sfd \in Fd \cup {-1}, Connects(n, sfd),
             fault' = "none", fault = "none"
      PROVE  ListInv'
  BY <1>7, <1>8 DEF Connects
<1>9. ASSUME NEW f \in Frame, NEW n \in Node, Learns(f, n), fault' = "none", fault = "none"
      PROVE  ListInv'
  BY <1>7, <1>9 DEF Learns
<1>10. ASSUME NEW f \in Frame, Completes(f) PROVE ListInv'
  BY <1>1, <1>10 DEF Completes
<1> QED
  BY <1>3, <1>4, <1>5, <1>6, <1>8, <1>9, <1>10, NextCases

(* The walk of run_arp over the cache is never at an entry that was freed. *)
THEOREM CursorSafe == Spec => []CursorLinked
<1>1. Init => ListInv
  BY DEF Init, ListInv, CursorLinked
<1>2. ListInv => CursorLinked
  BY DEF ListInv
<1> QED
  BY <1>1, <1>2, ListInvStep, TypeCorrect, PTL DEF Spec

-----------------------------------------------------------------------------
(* What EntryInv says of one entry among all the linked ones.              *)
EntryOK(ent, fds, L, m) ==
  /\ ent[m].state = "COMPLETE" => ent[m].domain_socket \notin Fd
  /\ ent[m].state # "COMPLETE" =>
       /\ ent[m].hw.ifindex = 0
       /\ \/ ent[m].domain_socket = -1
          \/ ent[m].domain_socket \in Fd /\ fds[ent[m].domain_socket] # None
  /\ ent[m].domain_socket \in Fd =>
       \A n \in L : ent[n].domain_socket = ent[m].domain_socket => n = m

LEMMA EntryInvIs == EntryInv <=> (fault = "none" => \A m \in Linked : EntryOK(entry, fdtab, Linked, m))
  BY DEF EntryInv, EntryOK

(* Descriptors stay with their entries.                                    *)
LEMMA EntryInvStep == TypeOK /\ ListInv /\ EntryInv /\ [Next]_vars => EntryInv'
<1> SUFFICES ASSUME TypeOK, ListInv, EntryInv, [Next]_vars PROVE EntryInv'
  OBVIOUS
<1> USE ArpAssumption
<1>0. /\ Linked \subseteq Node /\ entry \in [Node -> Entry]
      /\ fdtab \in [Fd -> Call \cup {None}] /\ -1 \notin Fd /\ 0 \notin Fd
  BY DEF Linked, TypeOK
<1>1. CASE Quiet
  BY <1>1 DEF Quiet, EntryInv, Linked
<1>2. CASE Ruin
  BY <1>2 DEF Ruin, EntryInv
<1>3. ASSUME fault = "none" PROVE \A m \in Linked : EntryOK(entry, fdtab, Linked, m)
  BY <1>3, EntryInvIs
<1>4. ASSUME \A m \in Linked' : EntryOK(entry', fdtab', Linked', m) PROVE EntryInv'
  BY <1>4 DEF EntryInv, EntryOK
<1>5. ASSUME NEW i \in DOMAIN list, NEW ent \in [Node -> Entry], Drops(i, ent),
             fault = "none", fault' = "none"
      PROVE  EntryInv'
  <2>1. /\ cur \in Linked /\ entry[cur].domain_socket \in Fd
        /\ fdtab' = [fdtab EXCEPT ![entry[cur].domain_socket] = None]
        /\ Linked' \subseteq Linked
        /\ \A m \in Linked' : m # cur => entry'[m] = entry[m]
        /\ cur \in Linked' =>
             /\ entry'[cur].domain_socket = -1 /\ entry'[cur].hw = entry[cur].hw
             /\ entry'[cur].state # "COMPLETE"
    <3>1. entry[cur].state # "COMPLETE"
      BY <1>5 DEF Drops
    <3> QED
      BY <1>5, <3>1, DropEffect
  <2>2. entry[cur].hw.ifindex = 0
    BY <1>3, <1>5, <2>1 DEF EntryOK, Drops
  <2>3. ASSUME NEW m \in Linked' PROVE EntryOK(entry', fdtab', Linked', m)
    <3>1. CASE m = cur
      BY <1>0, <2>1, <2>2, <2>3, <3>1 DEF EntryOK
    <3>2. CASE m # cur
      <4>1. entry'[m] = entry[m] /\ m \in Linked /\ EntryOK(entry, fdtab, Linked, m)
        BY <1>3, <1>5, <2>1, <2>3, <3>2
      <4>2. entry[m].domain_socket \in Fd => entry[m].domain_socket # entry[cur].domain_socket
        BY <2>1, <3>2, <4>1 DEF EntryOK
      <4>3. entry[m].domain_socket \in Fd =>
              fdtab'[entry[m].domain_socket] = fdtab[entry[m].domain_socket]
        BY <1>0, <2>1, <4>2
      <4>4. ASSUME entry[m].domain_socket \in Fd, NEW n \in Linked',
                   entry'[n].domain_socket = entry'[m].domain_socket
            PROVE  n = m
        BY <1>0, <2>1, <4>1, <4>2, <4>4 DEF EntryOK
      <4> QED
        BY <4>1, <4>3, <4>4 DEF EntryOK
    <3> QED
      BY <3>1, <3>2
  <2> QED
    BY <1>4, <2>3
<1>6. ASSUME NEW i \in DOMAIN list, NEW a \in IP, Marks(i, a), fault = "none" PROVE EntryInv'
  <2>1. cur \in Node /\ entry[cur] \in Entry /\ entry[cur].state # "COMPLETE" /\ cur \in Linked
    BY <1>0, <1>6 DEF Marks, At, Linked
  <2>2. /\ Linked' = Linked /\ fdtab' = fdtab
        /\ entry'[cur].domain_socket = entry[cur].domain_socket
        /\ entry'[cur].hw = entry[cur].hw /\ entry'[cur].state # "COMPLETE"
        /\ \A m \in Node : m # cur => entry'[m] = entry[m]
    BY <1>0, <1>6, <2>1 DEF Marks, Linked, Entry
  <2>3. \A m \in Linked : entry'[m].domain_socket = entry[m].domain_socket
    BY <1>0, <2>2
  <2>4. ASSUME NEW m \in Linked PROVE EntryOK(entry', fdtab', Linked', m)
    <3>1. EntryOK(entry, fdtab, Linked, m)
      BY <1>3, <1>6
    <3>2. CASE m = cur
      BY <2>1, <2>2, <2>3, <3>1, <3>2 DEF EntryOK
    <3>3. CASE m # cur
      BY <1>0, <2>2, <2>3, <3>1, <3>3 DEF EntryOK
    <3> QED
      BY <3>2, <3>3
  <2> QED
    BY <1>4, <2>2, <2>4
<1>7. ASSUME NEW n \in Node, NEW sfd \in Fd \cup {-1}, Connects(n, sfd),
             fault = "none", fault' = "none"
      PROVE  EntryInv'
  <2>1. n \notin Linked /\ Linked' = Linked \cup {n}
    BY <1>7, AddLinked DEF Connects
  <2>2. /\ entry'[n].domain_socket = sfd /\ entry'[n].state = "CONNECTION"
        /\ entry'[n].hw.ifindex = 0
        /\ \A m \in Node : m # n => entry'[m] = entry[m]
    BY <1>0, <1>7 DEF Connects, Blank, NoHw
  <2>3. \A m \in Linked : sfd \in Fd => entry[m].domain_socket # sfd
    BY <1>0, <1>3, <1>7 DEF Connects, EntryOK
  <2>4. \A d \in Fd : d # sfd => fdtab'[d] = fdtab[d]
    BY <1>0, <1>7 DEF Connects
  <2>5. sfd \in Fd => fdtab'[sfd] # None
    <3>1. ASSUME sfd \in Fd PROVE fdtab' = [fdtab EXCEPT ![sfd] = Head(backlog)] /\ backlog # << >>
      BY <1>0, <1>7, <3>1 DEF Connects
    <3>2. backlog # << >> => Head(backlog) \in Call
      BY DEF TypeOK
    <3> QED
      BY <1>0, <3>1, <3>2
  <2>6. ASSUME NEW m \in Linked' PROVE EntryOK(entry', fdtab', Linked', m)
    <3>1. CASE m = n
      BY <1>0, <2>1, <2>2, <2>3, <2>5, <3>1 DEF EntryOK
    <3>2. CASE m # n
      <4>1. m \in Linked /\ entry'[m] = entry[m] /\ EntryOK(entry, fdtab, Linked, m)
        BY <1>0, <1>3, <1>7, <2>1, <2>2, <2>6, <3>2
      <4> QED
        BY <1>0, <2>1, <2>2, <2>3, <2>4, <4>1 DEF EntryOK
    <3> QED
      BY <3>1, <3>2
  <2> QED
    BY <1>4, <2>6
<1>8. ASSUME NEW f \in Frame, NEW n \in Node, Learns(f, n), fault = "none", fault' = "none"
      PROVE  EntryInv'
  <2>1. n \notin Linked /\ Linked' = Linked \cup {n} /\ fdtab' = fdtab
    BY <1>8, AddLinked DEF Learns
  <2>2. /\ entry'[n].domain_socket = 0 /\ entry'[n].state = "COMPLETE"
        /\ \A m \in Node : m # n => entry'[m] = entry[m]
    BY <1>0, <1>8 DEF Learns, ReverseEntry, Blank
  <2>3. ASSUME NEW m \in Linked' PROVE EntryOK(entry', fdtab', Linked', m)
    <3>1. CASE m = n
      BY <1>0, <2>2, <3>1 DEF EntryOK
    <3>2. CASE m # n
      BY <1>0, <1>3, <1>8, <2>1, <2>2, <2>3, <3>2 DEF EntryOK
    <3> QED
      BY <3>1, <3>2
  <2> QED
    BY <1>4, <2>3
<1>9. ASSUME NEW f \in Frame, Completes(f), fault = "none" PROVE EntryInv'
  <2> DEFINE W == Waiting(f)
  <2>1. /\ Linked' = Linked
        /\ fdtab' = [d \in Fd |-> IF \E i \in W : entry[list[i]].domain_socket = d
                                  THEN None ELSE fdtab[d]]
        /\ \A m \in Node : IF \E i \in W : list[i] = m
                           THEN entry'[m].domain_socket = -1 /\ entry'[m].state = "COMPLETE"
                           ELSE entry'[m] = entry[m]
    BY <1>9 DEF Completes, Closed, Completed, Linked
  <2>2. \A i \in W : list[i] \in Linked
    BY DEF Waiting, Linked
  <2> HIDE DEF W
  <2>3. ASSUME NEW m \in Linked PROVE EntryOK(entry', fdtab', Linked', m)
    <3>1. CASE \E i \in W : list[i] = m
      BY <1>0, <2>1, <3>1 DEF EntryOK
    <3>2. CASE ~ \E i \in W : list[i] = m
      <4>1. entry'[m] = entry[m] /\ EntryOK(entry, fdtab, Linked, m)
        BY <1>0, <1>3, <1>9, <2>1, <3>2
      <4>2. entry[m].domain_socket \in Fd =>
              fdtab'[entry[m].domain_socket] = fdtab[entry[m].domain_socket]
        BY <2>1, <2>2, <3>2, <4>1 DEF EntryOK
      <4>3. ASSUME entry[m].domain_socket \in Fd, NEW n \in Linked,
                   entry'[n].domain_socket = entry'[m].domain_socket
            PROVE  n = m
        BY <1>0, <2>1, <4>1, <4>3 DEF EntryOK
      <4> QED
        BY <2>1, <4>1, <4>2, <4>3 DEF EntryOK
    <3> QED
      BY <3>1, <3>2
  <2> QED
    BY <1>4, <2>1, <2>3
<1> QED
  BY <1>1, <1>2, <1>5, <1>6, <1>7, <1>8, <1>9, NextCases

(* The descriptors of connections are never mixed up between entries.      *)
THEOREM DescriptorsSafe == Spec => []FdOwnership
<1>1. Init => ListInv /\ EntryInv
  BY DEF Init, ListInv, CursorLinked, EntryInv, Linked
<1>2. EntryInv => FdOwnership
  BY DEF EntryInv, FdOwnership
<1> QED
  BY <1>1, <1>2, ListInvStep, EntryInvStep, TypeCorrect, PTL DEF Spec

-----------------------------------------------------------------------------
(* Connections: closing descriptors opens none.                            *)
LEMMA CloseFacts ==
  ASSUME CallInv, backlog' = backlog \/ backlog' = << >>,
         \A d \in Fd : fdtab'[d] = fdtab[d] \/ fdtab'[d] = None
  PROVE  /\ \A d, e \in Fd : fdtab'[d] = fdtab'[e] /\ fdtab'[d] # None => d = e
         /\ \A i, j \in DOMAIN backlog' : backlog'[i] = backlog'[j] => i = j
         /\ \A i \in DOMAIN backlog', d \in Fd :
              backlog'[i] # None => fdtab'[d] # backlog'[i]
         /\ \A c \in Call : ServerOpen(c)' => ServerOpen(c)
<1>1. None \notin Call
  BY ArpAssumption
<1> QED
  BY <1>1 DEF CallInv, ServerOpen

(* A call has one connection, answered at most once.                       *)
LEMMA CallInvStep == TypeOK /\ CallInv /\ [Next]_vars => CallInv'
<1> SUFFICES ASSUME TypeOK, CallInv, [Next]_vars PROVE CallInv'
  OBVIOUS
<1> USE ArpAssumption
<1>0. /\ backlog \in Seq(Call) /\ fdtab \in [Fd -> Call \cup {None}]
      /\ cst \in [Call -> CallState] /\ ans \in [Call -> Hwaddr]
      /\ want \in [Call -> IP \cup {NonInet, None}]
      /\ req \in [Call -> IP \cup {NonInet, None}]
  BY DEF TypeOK
<1>1. CASE UNCHANGED <<clientVars, backlog, fdtab>>
  BY <1>1 DEF CallInv, ServerOpen, clientVars
<1>11. ASSUME NEW c \in Call, NEW a \in IP \cup {NonInet}, Ask(c, a) PROVE CallInv'
  <2>1. cst[c] = "idle" /\ ~ServerOpen(c) /\ ans[c] = NoHw /\ req[c] = None
    BY <1>11 DEF Ask, CallInv
  <2>2. UNCHANGED <<fdtab, backlog, req, ans>> /\ want' = [want EXCEPT ![c] = a]
    BY <1>11 DEF Ask, sockVars
  <2>3. \A x \in Call : x # c => cst'[x] = cst[x] /\ want'[x] = want[x]
    BY <1>0, <1>11 DEF Ask, Return
  <2> QED
    BY <1>0, <2>1, <2>2, <2>3 DEF CallInv, ServerOpen
<1>2. ASSUME NEW c \in Call, Connect(c) PROVE CallInv'
  <2>1. cst[c] = "connecting" /\ ~ServerOpen(c) /\ ans[c] = NoHw /\ req[c] = None
    BY <1>2 DEF Connect, CallInv
  <2>2. UNCHANGED <<fdtab, req, ans, want>>
    BY <1>2 DEF Connect
  <2>3. CASE Return(c, "failed") /\ UNCHANGED backlog
    BY <1>0, <2>1, <2>2, <2>3 DEF Return, CallInv, ServerOpen
  <2>4. CASE Return(c, "connected") /\ backlog' = Append(backlog, c)
    <3>1. /\ Len(backlog) \in Nat /\ DOMAIN backlog = 1..Len(backlog)
          /\ DOMAIN backlog' = 1..(Len(backlog) + 1)
          /\ \A i \in DOMAIN backlog' :
               backlog'[i] = IF i \in DOMAIN backlog THEN backlog[i] ELSE c
          /\ \A i \in DOMAIN backlog' : i \notin DOMAIN backlog => i = Len(backlog) + 1
      BY <1>0, <2>4
    <3>2. /\ \A i \in DOMAIN backlog : backlog[i] # c
          /\ \A d \in Fd : fdtab[d] # c
      BY <2>1 DEF ServerOpen
    <3>3. \A i, j \in DOMAIN backlog' : backlog'[i] = backlog'[j] => i = j
      BY <3>1, <3>2 DEF CallInv
    <3>4. \A i \in DOMAIN backlog', d \in Fd : fdtab'[d] # backlog'[i]
      BY <2>2, <3>1, <3>2 DEF CallInv
    <3>5. \A x \in Call : ServerOpen(x)' => ServerOpen(x) \/ x = c
      BY <2>2, <3>1 DEF ServerOpen
    <3>6. \A x \in Call : /\ x # c => cst'[x] = cst[x] /\ want'[x] = want[x]
                          /\ cst'[c] \notin {"idle", "connecting"}
      BY <1>0, <2>2, <2>4 DEF Return
    <3> QED
      BY <2>1, <2>2, <3>3, <3>4, <3>5, <3>6 DEF CallInv
  <2> QED
    BY <1>2, <2>3, <2>4 DEF Connect
<1>3. ASSUME NEW c \in Call,
             \/ SendReq(c) \/ Receive(c) \/ TimeOut(c) \/ ReadFails(c)
             \/ Close(c) \/ Cancel(c) \/ Kill(c)
      PROVE  CallInv'
  <2>1. /\ UNCHANGED <<want, ans, backlog, fdtab>>
        /\ \A x \in Call : cst'[x] \in {"idle", "connecting"} =>
             cst[x] \in {"idle", "connecting"} /\ req'[x] = req[x]
        /\ \A x \in Call : req'[x] = req[x] \/ req'[x] = want[x]
    BY <1>0, <1>3 DEF SendReq, Receive, TimeOut, ReadFails, Close, Cancel, Kill, Return, sockVars
  <2> QED
    BY <2>1 DEF CallInv, ServerOpen
\* Descriptors are closed and clients answered: an answered call had an open
\* connection and has none afterwards.
<1>4. ASSUME UNCHANGED <<cst, want>>, backlog' = backlog \/ backlog' = << >>,
             \A d \in Fd : fdtab'[d] = fdtab[d] \/ fdtab'[d] = None,
             \A c \in Call : req'[c] = req[c] \/ req'[c] = None,
             \A c \in Call : ans'[c] = ans[c] \/ (ServerOpen(c) /\ ~ServerOpen(c)')
      PROVE  CallInv'
  <2>1. /\ \A d, e \in Fd : fdtab'[d] = fdtab'[e] /\ fdtab'[d] # None => d = e
        /\ \A i, j \in DOMAIN backlog' : backlog'[i] = backlog'[j] => i = j
        /\ \A i \in DOMAIN backlog', d \in Fd :
             backlog'[i] # None => fdtab'[d] # backlog'[i]
        /\ \A c \in Call : ServerOpen(c)' => ServerOpen(c)
    BY <1>4, CloseFacts
  <2>2. \A i \in DOMAIN backlog' : backlog'[i] # None
    BY <1>0, <1>4
  <2> QED
    BY <1>4, <2>1, <2>2 DEF CallInv
<1>5. ASSUME NEW why, Die(why), UNCHANGED <<cst, want, ans>>,
             \A c \in Call : req'[c] = req[c] \/ req'[c] = None
      PROVE  CallInv'
  BY <1>4, <1>5 DEF Die
<1>6. CASE Failure
  BY <1>5, <1>6 DEF Failure, Exit, clientVars
<1>7. CASE Walk
  <2>1. ReadRequest => \A c \in Call : req'[c] = req[c] \/ req'[c] = None
    BY <1>0 DEF ReadRequest
  <2>2. ASSUME NEW i, NEW ent, DropEntry(i, ent)
        PROVE  \A d \in Fd : fdtab'[d] = fdtab[d] \/ fdtab'[d] = None
    BY <1>0, <2>2 DEF DropEntry
  <2>3. ASSUME NEW i \in DOMAIN list, SkipEntry(i) PROVE CallInv'
    BY <1>1, <2>3 DEF SkipEntry, sockVars
  <2>4. ASSUME NEW i \in DOMAIN list, AreqInvalid(i) PROVE CallInv'
    BY <1>4, <2>1, <2>2, <2>4 DEF AreqInvalid
  <2>5. ASSUME NEW i \in DOMAIN list, IncompleteReadable(i) PROVE CallInv'
    BY <1>4, <2>2, <2>5 DEF IncompleteReadable, clientVars
  <2>6. ASSUME NEW i \in DOMAIN list, NEW k \in DOMAIN list, AreqCached(i, k) PROVE CallInv'
    <3>1. CASE Die("sigpipe") /\ UNCHANGED ans
      BY <1>5, <2>1, <2>6, <3>1 DEF AreqCached
    <3>2. CASE /\ ans' = [ans EXCEPT ![Client] = entry[list[k]].hw]
               /\ DropEntry(i, entry) /\ UNCHANGED <<backlog, pfq>>
      <4> DEFINE fd == entry[cur].domain_socket
      <4>1. fd \in Fd
        BY <2>6 DEF AreqCached, AtReadable, TypeOK
      <4>2. /\ fdtab' = [fdtab EXCEPT ![fd] = None] /\ Client = fdtab[fd]
        BY <3>2 DEF DropEntry, Client
      <4> HIDE DEF fd
      <4>3. ASSUME NEW c \in Call, ans'[c] # ans[c] PROVE ServerOpen(c) /\ ~ServerOpen(c)'
        <5>1. c = fdtab[fd]
          BY <1>0, <3>2, <4>2, <4>3
        <5>2. \A d \in Fd : fdtab'[d] # c
          BY <1>0, <4>1, <4>2, <5>1 DEF CallInv
        <5>3. \A j \in DOMAIN backlog' : backlog'[j] # c
          BY <3>2, <4>1, <5>1 DEF CallInv
        <5> QED
          BY <4>1, <5>1, <5>2, <5>3 DEF ServerOpen
      <4> QED
        BY <1>4, <2>1, <2>2, <2>6, <3>2, <4>3 DEF AreqCached
    <3> QED
      BY <2>6, <3>1, <3>2 DEF AreqCached
  <2>7. ASSUME NEW i \in DOMAIN list, NEW sent \in SUBSET OwnIp, AreqMiss(i, sent)
        PROVE  CallInv'
    <3>1. \A d \in Fd : fdtab'[d] = fdtab[d] \/ fdtab'[d] = None
      BY <2>2, <2>7 DEF AreqMiss
    <3> QED
      BY <1>4, <2>1, <2>7, <3>1 DEF AreqMiss
  <2>8. CASE EntriesDone
    BY <1>1, <2>8 DEF EntriesDone, sockVars
  <2> QED
    BY <1>7, <2>3, <2>4, <2>5, <2>6, <2>7, <2>8 DEF Walk
<1>8. CASE \E n \in Node : Accept(n)
  <2> PICK n \in Node : Accept(n)
    BY <1>8
  <2>1. CASE UNCHANGED sockVars
    BY <1>1, <2>1 DEF Accept, sockVars
  <2>2. ASSUME NEW d \in FreeFd, fdtab' = [fdtab EXCEPT ![d] = Head(backlog)],
               backlog' = Tail(backlog)
        PROVE  CallInv'
    <3>1. d \in Fd /\ fdtab[d] = None
      BY DEF FreeFd
    <3>2. backlog # << >>
      BY DEF Accept
    <3>3. /\ Len(backlog) \in Nat /\ Len(backlog) >= 1 /\ DOMAIN backlog = 1..Len(backlog)
          /\ DOMAIN backlog' = 1..(Len(backlog) - 1)
          /\ \A i \in DOMAIN backlog' : i + 1 \in DOMAIN backlog /\ backlog'[i] = backlog[i + 1]
          /\ Head(backlog) = backlog[1] /\ 1 \in DOMAIN backlog
      BY <1>0, <2>2, <3>2
    <3>4. \A i \in DOMAIN backlog' : backlog'[i] # backlog[1]
      <4>1. \A i \in DOMAIN backlog' : i + 1 # 1
        BY <3>3
      <4> QED
        BY <3>3, <4>1 DEF CallInv
    <3>5. \A i, j \in DOMAIN backlog' : backlog'[i] = backlog'[j] => i = j
      <4>1. \A i, j \in DOMAIN backlog' : i + 1 = j + 1 => i = j
        BY <3>3
      <4> QED
        BY <3>3, <4>1 DEF CallInv
    <3>6. \A e \in Fd : fdtab'[e] = IF e = d THEN backlog[1] ELSE fdtab[e]
      BY <1>0, <2>2, <3>1, <3>3
    <3>7. \A e \in Fd : fdtab[e] # backlog[1]
      BY <3>3 DEF CallInv
    <3>8. \A e, g \in Fd : fdtab'[e] = fdtab'[g] /\ fdtab'[e] # None => e = g
      BY <3>6, <3>7 DEF CallInv
    <3>9. \A i \in DOMAIN backlog', e \in Fd : fdtab'[e] # backlog'[i]
      BY <3>3, <3>4, <3>6 DEF CallInv
    <3>10. ASSUME NEW c \in Call, ServerOpen(c)' PROVE ServerOpen(c)
      <4>1. CASE \E i \in DOMAIN backlog' : backlog'[i] = c
        BY <3>3, <4>1 DEF ServerOpen
      <4>2. CASE \E e \in Fd : fdtab'[e] = c
        <5> PICK e \in Fd : fdtab'[e] = c
          BY <4>2
        <5>1. CASE e = d
          BY <3>3, <3>6, <5>1 DEF ServerOpen
        <5>2. CASE e # d
          BY <3>6, <5>2 DEF ServerOpen
        <5> QED
          BY <5>1, <5>2
      <4> QED
        BY <3>10, <4>1, <4>2 DEF ServerOpen
    <3>11. UNCHANGED clientVars
      BY DEF Accept
    <3> QED
      BY <3>5, <3>8, <3>9, <3>10, <3>11 DEF CallInv, clientVars
  <2> QED
    BY <2>1, <2>2 DEF Accept
<1>9. CASE Packet
  <2>1. ASSUME NEW f, NullMac(f) \/ handle_reqNoMemory(f) PROVE CallInv'
    BY <1>5, <2>1 DEF NullMac, handle_reqNoMemory, clientVars
  <2>2. ASSUME NEW f, handle_reply(f) PROVE CallInv'
    <3> DEFINE W == Waiting(f)
    <3>1. /\ UNCHANGED <<cst, want, req>>
          /\ ans' = Answers(f, W)
      BY <2>2 DEF handle_reply
    <3>2. ASSUME NEW c \in Call, ans'[c] # ans[c]
          PROVE  \E i \in W : entry[list[i]].domain_socket \in Fd
                              /\ fdtab[entry[list[i]].domain_socket] = c
      BY <3>1, <3>2 DEF Answers, Reached, ClientOf
    <3>3. CASE Die("sigpipe")
      <4>1. ASSUME NEW c \in Call, ans'[c] # ans[c] PROVE ServerOpen(c) /\ ~ServerOpen(c)'
        <5>1. PICK i \in W : /\ entry[list[i]].domain_socket \in Fd
                             /\ fdtab[entry[list[i]].domain_socket] = c
          BY <3>2, <4>1
        <5>2. backlog' = << >> /\ fdtab' = [d \in Fd |-> None]
          BY <3>3 DEF Die
        <5>3. DOMAIN backlog' = {} /\ \A d \in Fd : fdtab'[d] # c
          BY <1>0, <5>2
        <5> QED
          BY <5>1, <5>3 DEF ServerOpen
      <4> QED
        BY <1>4, <3>1, <3>3, <4>1 DEF Die
    <3>4. CASE fdtab' = Closed(W) /\ backlog' = backlog
      <4>1. \A d \in Fd : fdtab'[d] = IF \E i \in W : entry[list[i]].domain_socket = d
                                     THEN None ELSE fdtab[d]
        BY <3>4 DEF Closed
      <4>2. ASSUME NEW c \in Call, ans'[c] # ans[c] PROVE ServerOpen(c) /\ ~ServerOpen(c)'
        <5>1. PICK i \in W : /\ entry[list[i]].domain_socket \in Fd
                             /\ fdtab[entry[list[i]].domain_socket] = c
          BY <3>2, <4>2
        <5>2. \A d \in Fd : fdtab'[d] # c
          <6>1. c # None
            BY <1>0
          <6>2. fdtab'[entry[list[i]].domain_socket] # c
            BY <4>1, <5>1, <6>1
          <6>3. \A d \in Fd : d # entry[list[i]].domain_socket => fdtab[d] # c
            BY <5>1, <6>1 DEF CallInv
          <6> QED
            BY <4>1, <6>1, <6>2, <6>3
        <5>3. \A j \in DOMAIN backlog' : backlog'[j] # c
          BY <3>4, <5>1 DEF CallInv
        <5> QED
          BY <5>1, <5>2, <5>3 DEF ServerOpen
      <4> QED
        BY <1>4, <3>1, <3>4, <4>1, <4>2
    <3> QED
      BY <2>2, <3>3, <3>4 DEF handle_reply
  <2> QED
    BY <1>1, <1>9, <2>1, <2>2
    DEF Packet, NoFrame, IgnoreFrame, handle_req, sockVars
<1>10. CASE AcceptNoMemory
  BY <1>5, <1>10 DEF AcceptNoMemory, clientVars
<1> QED
  BY <1>1, <1>2, <1>3, <1>6, <1>7, <1>8, <1>9, <1>10, <1>11
  DEF Next, Daemon, Clients, areq, Network, PeerRequest, PeerReply, Junk, Arrive,
      Select, Reported, NoAccept, vars, sockVars

(* At first nobody is connected.                                           *)
LEMMA InitCallInv == Init => CallInv
<1> SUFFICES ASSUME Init PROVE CallInv
  OBVIOUS
<1>1. DOMAIN backlog = {} /\ \A d \in Fd : fdtab[d] = None
  BY DEF Init
<1>2. \A c \in Call : ans[c] = NoHw /\ req[c] = None /\ c # None
  BY ArpAssumption DEF Init
<1>3. \A c \in Call : ~ServerOpen(c)
  BY <1>1, <1>2 DEF ServerOpen
<1> QED
  BY <1>1, <1>2, <1>3 DEF CallInv

(* A call is answered at most once: with its answer the daemon's end of    *)
(* the connection is closed.                                               *)
THEOREM AnswerCloses == Spec => []AnsweredClosed
<1>1. CallInv => AnsweredClosed
  BY DEF CallInv, AnsweredClosed
<1> QED
  BY <1>1, InitCallInv, CallInvStep, TypeCorrect, PTL DEF Spec
=============================================================================
